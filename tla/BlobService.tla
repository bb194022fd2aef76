---------------------------- MODULE BlobService ----------------------------
(***************************************************************************)
(* What the Walrus client promises its callers, with no endpoints, retries *)
(* or HTTP: a store that succeeds has stored its blob, a read that         *)
(* succeeds read a stored blob, a read answers "not found" only if some    *)
(* aggregator really lacks the blob, and an error says nothing: the bytes  *)
(* of a failed store may be on Walrus or arrive there later.               *)
(***************************************************************************)
CONSTANTS Caller, Blob, Aggregator

VARIABLES
    stored,   \* the blobs on Walrus; others than our callers store blobs too
    visible,  \* per aggregator: the blobs it can serve
    running,  \* per caller: whether a call is under way
    writes,   \* per caller: whether that call is a store
    blob,     \* per caller: the blob it is about
    answer    \* per caller: what its last call returned

vars == <<stored, visible, running, writes, blob, answer>>

Init ==
    /\ stored = {}
    /\ visible = [a \in Aggregator |-> {}]
    /\ running = [c \in Caller |-> FALSE]
    /\ writes = [c \in Caller |-> FALSE]
    /\ blob \in [Caller -> Blob]
    /\ answer = [c \in Caller |-> "none"]

Begin(c) ==
    /\ ~running[c]
    /\ running' = [running EXCEPT ![c] = TRUE]
    /\ \E w \in BOOLEAN, b \in Blob :
         /\ writes' = [writes EXCEPT ![c] = w]
         /\ blob' = [blob EXCEPT ![c] = b]
    /\ answer' = [answer EXCEPT ![c] = "none"]
    /\ UNCHANGED <<stored, visible>>

Land(b) ==
    /\ stored' = stored \cup {b}
    /\ UNCHANGED <<visible, running, writes, blob, answer>>

Appear(a, b) ==
    /\ b \in stored
    /\ visible' = [visible EXCEPT ![a] = @ \cup {b}]
    /\ UNCHANGED <<stored, running, writes, blob, answer>>

Return(c, ans) ==
    /\ running[c]
    /\ \/ ans = "error"
       \/ ans = "ok" /\ blob[c] \in stored
       \/ ans = "notfound" /\ ~writes[c] /\ \E a \in Aggregator : blob[c] \notin visible[a]
    /\ running' = [running EXCEPT ![c] = FALSE]
    /\ answer' = [answer EXCEPT ![c] = ans]
    /\ UNCHANGED <<stored, visible, writes, blob>>

Next ==
    \/ \E c \in Caller : Begin(c) \/ \E ans \in {"ok", "error", "notfound"} : Return(c, ans)
    \/ \E b \in Blob : Land(b)
    \/ \E a \in Aggregator, b \in Blob : Appear(a, b)

Spec == Init /\ [][Next]_vars
=============================================================================
