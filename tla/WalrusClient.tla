---------------------------- MODULE WalrusClient ----------------------------
(***************************************************************************)
(* The Walrus HTTP client.  Every call walks its endpoints in order;       *)
(* doWithRetry makes up to MaxRetries + 1 attempts at each, with a backoff *)
(* between them, on network errors, timeouts and 429/5xx answers; any      *)
(* other failure goes to the next endpoint at once.  Store and StoreQuilt  *)
(* are one operation here, ReadRange and ReadQuiltPatch, the two reads     *)
(* that go through the cache, another.                                     *)
(*                                                                         *)
(* External: a publisher certifies a blob at some moment between a request *)
(* and its answer, and may do so after the client gave up waiting; an      *)
(* aggregator serves a blob from some time after that.                     *)
(***************************************************************************)
EXTENDS Integers

CONSTANTS
    Caller,                   \* goroutines that use the client
    Blob,
    Publishers, Aggregators,  \* how many of each are configured
    MaxRetries,
    HealthyPublisher, HealthyAggregator  \* endpoints that never fail a request

ASSUME EndpointAssumption ==
    /\ Publishers \in Nat /\ Aggregators \in Nat /\ MaxRetries \in Nat
    /\ HealthyPublisher \subseteq 1..Publishers
    /\ HealthyAggregator \subseteq 1..Aggregators

VARIABLES
    stored,     \* blobs certified on Walrus
    visible,    \* per aggregator: the blobs it serves
    late,       \* blobs of requests the client gave up on, still under way
    cached,     \* the keys of the blob cache
    op, blob,   \* per caller: its call
    pc,         \* per caller: where it is
    ep,         \* per caller: the endpoint, counted from 1
    try,        \* per caller: doWithRetry's i
    req,        \* per caller: what the publisher did with the open request
    cancelled,  \* per caller: ctx is done
    bought,     \* per caller: an attempt of this call bought storage
    answer      \* per caller: what the last call returned

walrus == <<stored, visible, late>>
vars == <<stored, visible, late, cached, op, blob, pc, ep, try, req,
          cancelled, bought, answer>>

Op == {"store", "read", "fetch"}

Endpoints(o) == IF o = "store" THEN Publishers ELSE Aggregators
Healthy(o) == IF o = "store" THEN HealthyPublisher ELSE HealthyAggregator

\* The request may fail: the endpoint is not a healthy one.
MayFail(c) == ep[c] \notin Healthy(op[c])

-----------------------------------------------------------------------------
(* The caller's side *)

Begin(c) ==
    /\ pc[c] = "idle"
    /\ \E o \in Op, b \in Blob :
         /\ op' = [op EXCEPT ![c] = o]
         /\ blob' = [blob EXCEPT ![c] = b]
         /\ pc' = [pc EXCEPT ![c] = IF o = "fetch" THEN "cache" ELSE "next"]
    /\ ep' = [ep EXCEPT ![c] = 0]
    /\ cancelled' = [cancelled EXCEPT ![c] = FALSE]
    /\ bought' = [bought EXCEPT ![c] = FALSE]
    /\ answer' = [answer EXCEPT ![c] = "none"]
    /\ UNCHANGED <<walrus, cached, try, req>>

Return(c, ans) ==
    /\ pc' = [pc EXCEPT ![c] = "idle"]
    /\ req' = [req EXCEPT ![c] = "none"]
    /\ try' = [try EXCEPT ![c] = 0]
    /\ answer' = [answer EXCEPT ![c] = ans]
    /\ UNCHANGED <<op, blob, ep, cancelled, bought>>

\* A caller moves on within its call.
Goto(c, where, i) ==
    /\ pc' = [pc EXCEPT ![c] = where]
    /\ try' = [try EXCEPT ![c] = i]
    /\ req' = [req EXCEPT ![c] = IF where = "sent" THEN "pending" ELSE "none"]
    /\ UNCHANGED <<op, blob, cancelled, bought, answer>>

ProbeCache(c) ==
    /\ pc[c] = "cache"
    /\ \/ blob[c] \in cached /\ Return(c, "ok")
       \/ blob[c] \notin cached /\ Goto(c, "next", 0) /\ UNCHANGED ep
    /\ UNCHANGED <<walrus, cached>>

\* Mutant: the first endpoint's error ends the call.
NextEndpointGivesUp(c) ==
    /\ pc[c] = "next"
    /\ \/ /\ ep[c] = 0 /\ ep[c] < Endpoints(op[c])
          /\ ep' = [ep EXCEPT ![c] = @ + 1]
          /\ Goto(c, "check", 0)
       \/ /\ ep[c] # 0 \/ ep[c] >= Endpoints(op[c])
          /\ Return(c, "error")
    /\ UNCHANGED <<walrus, cached>>

\* for _, base := range endpoints; after the last one the call fails.
NextEndpoint(c) ==
    /\ pc[c] = "next"
    /\ \/ /\ ep[c] < Endpoints(op[c])
          /\ ep' = [ep EXCEPT ![c] = @ + 1]
          /\ Goto(c, "check", 0)
       \/ /\ ep[c] >= Endpoints(op[c])
          /\ Return(c, "error")
    /\ UNCHANGED <<walrus, cached>>

\* doWithRetry: no attempt once ctx is done.
Attempt(c) ==
    /\ pc[c] = "check"
    /\ \/ cancelled[c] /\ Goto(c, "next", 0)
       \/ ~cancelled[c] /\ Goto(c, "sent", try[c])
    /\ UNCHANGED <<walrus, cached, ep>>

\* Mutant: a store whose answer was lost counts as done.
TransientIsOk(c) ==
    /\ pc[c] = "sent"
    /\ MayFail(c) \/ cancelled[c]
    /\ late' = late
    /\ IF op[c] = "store" THEN Return(c, "already") ELSE Goto(c, "next", 0) /\ UNCHANGED ep
    /\ UNCHANGED <<stored, visible, cached>>

\* Mutant: one attempt too many.
TransientOnceMore(c) ==
    /\ pc[c] = "sent"
    /\ MayFail(c) \/ cancelled[c]
    /\ late' = late
    /\ \/ try[c] <= MaxRetries /\ Goto(c, "sleep", try[c])
       \/ try[c] > MaxRetries /\ Goto(c, "next", 0)
    /\ UNCHANGED <<stored, visible, cached, ep>>

\* A network error, a timeout, a cancelled ctx or a 429/5xx: back off and try
\* again, or go on to the next endpoint.  A request not yet processed may still be.
Transient(c) ==
    /\ pc[c] = "sent"
    /\ MayFail(c) \/ cancelled[c]
    /\ \/ UNCHANGED late
       \/ req[c] = "pending" /\ op[c] = "store" /\ late' = late \cup {blob[c]}
    /\ \/ try[c] < MaxRetries /\ Goto(c, "sleep", try[c])
       \/ try[c] >= MaxRetries /\ Goto(c, "next", 0)
    /\ UNCHANGED <<stored, visible, cached, ep>>

\* Any other status, an answer that cannot be parsed, a body cut short.
Rejected(c) ==
    /\ pc[c] = "sent"
    /\ MayFail(c)
    /\ Goto(c, "next", 0)
    /\ UNCHANGED <<walrus, cached, ep>>

\* Mutant: the loop variable is not advanced.
WakeSameTry(c) ==
    /\ pc[c] = "sleep"
    /\ \/ cancelled[c] /\ Goto(c, "next", 0)
       \/ Goto(c, "check", try[c])
    /\ UNCHANGED <<walrus, cached, ep>>

\* sleepWithContext: the timer fires or ctx is done, either when both are.
Wake(c) ==
    /\ pc[c] = "sleep"
    /\ \/ cancelled[c] /\ Goto(c, "next", 0)
       \/ Goto(c, "check", try[c] + 1)
    /\ UNCHANGED <<walrus, cached, ep>>

\* parseStoreResponse: newlyCreated or alreadyCertified.
StoreOk(c) ==
    /\ pc[c] = "sent"
    /\ req[c] \in {"created", "already"}
    /\ Return(c, req[c])
    /\ UNCHANGED <<walrus, cached>>

\* 2xx: the two cached reads add a whole body that fits to the cache.
ReadOk(c) ==
    /\ pc[c] = "sent" /\ op[c] # "store"
    /\ blob[c] \in visible[ep[c]]
    /\ \/ op[c] = "fetch" /\ cached' = cached \cup {blob[c]}
       \/ UNCHANGED cached
    /\ Return(c, "ok")
    /\ UNCHANGED walrus

\* 404 ends the call at the endpoint that answered it.
ReadMissing(c) ==
    /\ pc[c] = "sent" /\ op[c] # "store"
    /\ blob[c] \notin visible[ep[c]]
    /\ Return(c, "notfound")
    /\ UNCHANGED <<walrus, cached>>

Cancel(c) ==
    /\ pc[c] # "idle" /\ ~cancelled[c]
    /\ cancelled' = [cancelled EXCEPT ![c] = TRUE]
    /\ UNCHANGED <<walrus, cached, op, blob, pc, ep, try, req, bought, answer>>

-----------------------------------------------------------------------------
(* Walrus and the cache *)

\* The publisher certifies the blob of an open request, unless it is already.
Process(c) ==
    /\ pc[c] = "sent" /\ req[c] = "pending" /\ op[c] = "store"
    /\ \/ /\ blob[c] \in stored
          /\ req' = [req EXCEPT ![c] = "already"]
          /\ UNCHANGED <<stored, bought>>
       \/ /\ blob[c] \notin stored
          /\ req' = [req EXCEPT ![c] = "created"]
          /\ bought' = [bought EXCEPT ![c] = TRUE]
          /\ stored' = stored \cup {blob[c]}
    /\ UNCHANGED <<visible, late, cached, op, blob, pc, ep, try, cancelled, answer>>

\* A request nobody waits for is processed after all.
LateStore(b) ==
    /\ b \in late
    /\ late' = late \ {b}
    /\ stored' = stored \cup {b}
    /\ UNCHANGED <<visible, cached, op, blob, pc, ep, try, req, cancelled, bought, answer>>

Appear(a, b) ==
    /\ b \in stored
    /\ b \notin visible[a]
    /\ visible' = [visible EXCEPT ![a] = @ \cup {b}]
    /\ UNCHANGED <<stored, late, cached, op, blob, pc, ep, try, req, cancelled, bought, answer>>

Evict(b) ==
    /\ b \in cached
    /\ cached' = cached \ {b}
    /\ UNCHANGED <<walrus, op, blob, pc, ep, try, req, cancelled, bought, answer>>

-----------------------------------------------------------------------------
Init ==
    /\ stored = {}
    /\ visible = [a \in 1..Aggregators |-> {}]
    /\ late = {}
    /\ cached = {}
    /\ op = [c \in Caller |-> "read"]
    /\ blob \in [Caller -> Blob]
    /\ pc = [c \in Caller |-> "idle"]
    /\ ep = [c \in Caller |-> 0]
    /\ try = [c \in Caller |-> 0]
    /\ req = [c \in Caller |-> "none"]
    /\ cancelled = [c \in Caller |-> FALSE]
    /\ bought = [c \in Caller |-> FALSE]
    /\ answer = [c \in Caller |-> "none"]

\* The steps of a call under way.  Every attempt ends: RequestTimeout bounds it.
Step(c) ==
    \/ ProbeCache(c) \/ NextEndpoint(c) \/ Attempt(c)
    \/ Process(c) \/ StoreOk(c) \/ ReadOk(c) \/ ReadMissing(c)
    \/ Transient(c) \/ Rejected(c) \/ Wake(c)

Next ==
    \/ \E c \in Caller : Begin(c) \/ Step(c) \/ Cancel(c)
    \/ \E b \in Blob : LateStore(b) \/ Evict(b)
    \/ \E a \in 1..Aggregators, b \in Blob : Appear(a, b)

Spec == Init /\ [][Next]_vars

\* A goroutine in a call keeps running and its HTTP attempts and timers end.
FairSpec == Spec /\ \A c \in Caller : WF_vars(Step(c))

-----------------------------------------------------------------------------
(* Properties *)

\* Every variable holds values of its kind, a call under way is at an endpoint
\* it has and sleeps only before another attempt.
TypeOK ==
    /\ stored \subseteq Blob
    /\ visible \in [1..Aggregators -> SUBSET Blob]
    /\ late \subseteq Blob
    /\ cached \subseteq Blob
    /\ op \in [Caller -> Op]
    /\ blob \in [Caller -> Blob]
    /\ pc \in [Caller -> {"idle", "cache", "next", "check", "sent", "sleep"}]
    /\ ep \in [Caller -> Nat]
    /\ \A c \in Caller : pc[c] \in {"check", "sent", "sleep"} => ep[c] \in 1..Endpoints(op[c])
    /\ try \in [Caller -> 0..MaxRetries]
    /\ \A c \in Caller : pc[c] = "sleep" => try[c] < MaxRetries
    /\ req \in [Caller -> {"none", "pending", "created", "already"}]
    /\ cancelled \in [Caller -> BOOLEAN]
    /\ bought \in [Caller -> BOOLEAN]
    /\ answer \in [Caller -> {"none", "ok", "created", "already", "error", "notfound"}]

Service == INSTANCE BlobService WITH
    Aggregator <- 1..Aggregators,
    running <- [c \in Caller |-> pc[c] # "idle"],
    writes <- [c \in Caller |-> op[c] = "store"],
    answer <- [c \in Caller |-> IF answer[c] \in {"created", "already"} THEN "ok" ELSE answer[c]]

\* The client implements BlobService: whatever is lost, retried, failed over,
\* cancelled or cached, a call that succeeds is backed by a stored blob and no
\* failure is ever reported as "not found".
Implements == Service!Spec

\* Failover: one healthy endpoint is enough.  A call that was not cancelled
\* fails only if none of its endpoints was healthy, wherever in the list the
\* healthy one is and whatever the ones before it did.
HealthyEndpointServes ==
    \A c \in Caller :
      answer[c] = "error" /\ ~cancelled[c] => Healthy(op[c]) = {}

\* Every call returns: retries and failover are bounded and nothing waits for
\* ever, cancelled or not.
CallsReturn == \A c \in Caller : pc[c] # "idle" ~> pc[c] = "idle"

\* "It is zero for an already-certified blob (nothing was paid because the
\* content already existed on Walrus)", client.go:45: alreadyCertified, whose
\* Cost is zero, means that the call paid nothing.
\* A documented claim the code does not keep.
AlreadyCertifiedIsFree ==
    \A c \in Caller : answer[c] = "already" => ~bought[c]

\* "Returns ds.ErrNotFound when k is unknown", walrus.go:340: ErrBlobNotFound,
\* which Get turns into ds.ErrNotFound, is no answer for a stored blob.
\* A documented claim the code does not keep.
NotFoundMeansUnknown ==
    [][\A c \in Caller : answer'[c] = "notfound" /\ answer[c] = "none" => blob[c] \notin stored]_vars
=============================================================================
