--------------------------- MODULE RenewalWorker ---------------------------
(***************************************************************************)
(* The renewal worker: every node scans the index for blobs whose recorded *)
(* expires_at is near, reads each one back from Walrus, stores the same    *)
(* bytes again and updates the index.                                      *)
(*                                                                         *)
(* Walrus sells whole epochs: a store for Epochs epochs made anywhere in   *)
(* an epoch is paid up to the end of the Epochs-th epoch, counting the     *)
(* current one, and bytes already certified for that long are not bought   *)
(* again.  The code records now() + Epochs * EpochDuration instead.  Time  *)
(* is discrete and relative: every instant of the future is kept as the    *)
(* number of ticks until it, so the state space is finite.                 *)
(***************************************************************************)
EXTENDS Integers, Sequences

CONSTANTS
    Blob,           \* distinct blob_ids
    Node,           \* nodes that run the worker on the shared index
    Lost,           \* indexed blobs whose storage ended before the run begins
    Epochs, EpochDuration, RenewInterval, RenewLead,
    RenewBatchSize, \* renewBatchSize, the LIMIT of one scan
    CallTime,       \* bound: ticks one read-store-update may take
    MaxFaults       \* bound: failed calls and restarts

ASSUME LostAssumption == Lost \subseteq Blob
ASSUME EpochsAssumption == Epochs \in Nat \ {0} /\ EpochDuration \in Nat \ {0}
ASSUME RenewAssumption ==
    /\ RenewInterval \in Nat \ {0} /\ RenewLead \in Nat
    /\ RenewBatchSize \in Nat \ {0}
ASSUME BoundsAssumption == CallTime \in Nat /\ MaxFaults \in Nat

VARIABLES
    phase,     \* ticks since the network's current epoch began
    left,      \* per blob: ticks until its paid storage ends, 0 when it is gone
    indexed,   \* the blobs some index row names
    recorded,  \* per blob: expires_at minus now, 0 when that is past
    object,    \* per blob: whether its rows have an object_id
    put,       \* per blob: a writer's store whose rows are not written yet
    delay,     \* per blob: ticks since that store
    pc,        \* per node: what renewExpiring does next
    todo,      \* per node: the blobs of this scan still to renew
    res,       \* per node: which answer the publisher gave for the current blob
    busy,      \* per node: ticks spent on the current blob
    timer,     \* per node: ticks until the ticker fires
    tick,      \* per node: ticker.C, a channel of capacity one
    faults

index == <<indexed, recorded, object>>
writer == <<put, delay>>
ticker == <<timer, tick>>
vars == <<phase, left, indexed, recorded, object, put, delay,
          pc, todo, res, busy, timer, tick, faults>>

-----------------------------------------------------------------------------
(* Walrus *)

\* time.Duration(Epochs) * EpochDuration, what expires_at adds to now.
Term == Epochs * EpochDuration

\* The ticks a store made now pays for: the current epoch counts as the first.
Paid == Term - phase

Larger(a, b) == IF a >= b THEN a ELSE b
Less1(a) == IF a = 0 THEN 0 ELSE a - 1

\* The publisher buys storage only if the bytes are not certified for as long.
Certify(b) == left' = [left EXCEPT ![b] = Larger(@, Paid)]
Response(b) == IF left[b] >= Paid THEN "already" ELSE "created"

-----------------------------------------------------------------------------
(* The datastore's writes, as far as they touch blobs and expires_at *)

\* Put or flushOnePack stores a blob ...
Upload(b) ==
    /\ put[b] = "no"
    /\ put' = [put EXCEPT ![b] = Response(b)]
    /\ delay' = [delay EXCEPT ![b] = 0]
    /\ Certify(b)
    /\ UNCHANGED <<phase, index, pc, todo, res, busy, ticker, faults>>

\* ... and upserts its rows with expiry() and the object the store returned, or
\* fails to.
Record(b, ok) ==
    /\ put[b] # "no"
    /\ put' = [put EXCEPT ![b] = "no"]
    /\ delay' = [delay EXCEPT ![b] = 0]
    /\ \/ /\ ok
          /\ indexed' = indexed \cup {b}
          /\ recorded' = [recorded EXCEPT ![b] = Term]
          /\ object' = [object EXCEPT ![b] = put[b] = "created"]
       \/ /\ ~ok
          /\ UNCHANGED index
    /\ UNCHANGED <<phase, left, pc, todo, res, busy, ticker, faults>>

\* The last row of a blob is deleted; the blob itself stays until it expires.
Delete(b) ==
    /\ b \in indexed
    /\ indexed' = indexed \ {b}
    /\ recorded' = [recorded EXCEPT ![b] = 0]
    /\ object' = [object EXCEPT ![b] = FALSE]
    /\ UNCHANGED <<phase, left, writer, pc, todo, res, busy, ticker, faults>>

-----------------------------------------------------------------------------
(* The worker *)

Fault == faults < MaxFaults /\ faults' = faults + 1

\* RenewLead defaults to one epoch.
Lead == IF RenewLead = 0 THEN EpochDuration ELSE RenewLead

\* Mutant: rows are due once they have expired.
DueLate == {b \in indexed : recorded[b] <= 0}

\* expires_at <= now + lead
Due == {b \in indexed : recorded[b] <= Lead}

\* ORDER BY MIN(expires_at) LIMIT renewBatchSize; ties come in any order.
IsBatch(s) ==
    /\ \A i \in DOMAIN s : s[i] \in Due
    /\ \A i, j \in DOMAIN s : i < j => s[i] # s[j] /\ recorded[s[i]] <= recorded[s[j]]
    /\ Len(s) <= RenewBatchSize
    /\ \A b \in Due : \/ \E i \in DOMAIN s : s[i] = b
                      \/ /\ Len(s) = RenewBatchSize
                         /\ \A i \in DOMAIN s : recorded[s[i]] <= recorded[b]

\* The lists of at most renewBatchSize blobs.
Batches == UNION {[1..m -> Blob] : m \in 0..RenewBatchSize}

\* Mutant: the loop runs past its last item.
WorkPastEnd(n, s) ==
    /\ todo' = [todo EXCEPT ![n] = s]
    /\ pc' = [pc EXCEPT ![n] = "read"]
    /\ busy' = [busy EXCEPT ![n] = 0]
    /\ res' = [res EXCEPT ![n] = "none"]

\* Begin with the first blob of s, or wait for the ticker again.
Work(n, s) ==
    /\ todo' = [todo EXCEPT ![n] = s]
    /\ pc' = [pc EXCEPT ![n] = IF s = <<>> THEN "wait" ELSE "read"]
    /\ busy' = [busy EXCEPT ![n] = 0]
    /\ res' = [res EXCEPT ![n] = "none"]

Current(n) == Head(todo[n])

\* renewOneBlob is over, with an error that is logged or without.
NextItem(n) == Work(n, Tail(todo[n]))

\* The ticker fired: DueForRenewal, which may fail and end the scan.
Scan(n) ==
    /\ pc[n] = "wait" /\ tick[n]
    /\ tick' = [tick EXCEPT ![n] = FALSE]
    /\ \/ /\ \E s \in Batches : IsBatch(s) /\ Work(n, s)
          /\ UNCHANGED faults
       \/ /\ Fault
          /\ UNCHANGED <<pc, todo, res, busy>>
    /\ UNCHANGED <<phase, left, index, writer, timer>>

\* client.Read: a blob that is gone is an error like any other.
Read(n) ==
    /\ pc[n] = "read"
    /\ \/ /\ left[Current(n)] > 0
          /\ pc' = [pc EXCEPT ![n] = "store"]
          /\ UNCHANGED <<todo, res, busy, faults>>
       \/ /\ left[Current(n)] = 0
          /\ NextItem(n)
          /\ UNCHANGED faults
       \/ Fault /\ NextItem(n)
    /\ UNCHANGED <<phase, left, index, writer, ticker>>

\* client.Store of the bytes read; a failure may have stored them all the same.
Store(n) ==
    /\ pc[n] = "store"
    /\ \/ /\ Certify(Current(n))
          /\ res' = [res EXCEPT ![n] = Response(Current(n))]
          /\ pc' = [pc EXCEPT ![n] = "update"]
          /\ UNCHANGED <<todo, busy, faults>>
       \/ /\ Fault
          /\ Certify(Current(n)) \/ UNCHANGED left
          /\ NextItem(n)
    /\ UNCHANGED <<phase, index, writer, ticker>>

\* Mutant: the expiry is counted from the expiry already recorded.
RecordedFromOld(n) == recorded[Current(n)] + Term

\* The new expires_at, relative to now: now() + epochs * epochDuration, whatever
\* the publisher answered.
RecordedAfter(n) == Term

\* UpdateBlobAfterRenewal: UPDATE ... WHERE blob_id, of rows there still are.
Update(n) ==
    /\ pc[n] = "update"
    /\ \/ /\ LET b == Current(n) IN
               /\ recorded' = [recorded EXCEPT ![b] = IF b \in indexed THEN RecordedAfter(n) ELSE @]
               /\ object' = [object EXCEPT ![b] = b \in indexed /\ res[n] = "created"]
          /\ UNCHANGED <<indexed, faults>>
       \/ Fault /\ UNCHANGED index
    /\ NextItem(n)
    /\ UNCHANGED <<phase, left, writer, ticker>>

\* The node stops, at Close or in a crash, and starts again with a new ticker.
Restart(n) ==
    /\ Fault
    /\ Work(n, <<>>)
    /\ timer' = [timer EXCEPT ![n] = RenewInterval]
    /\ tick' = [tick EXCEPT ![n] = FALSE]
    /\ UNCHANGED <<phase, left, index, writer>>

\* Time passes, but not past a bound on a call and not while a worker has a
\* tick to receive.
Tick ==
    /\ \A n \in Node : IF pc[n] = "wait" THEN ~tick[n] ELSE busy[n] < CallTime
    /\ \A b \in Blob : put[b] # "no" => delay[b] < CallTime
    /\ phase' = IF phase = EpochDuration - 1 THEN 0 ELSE phase + 1
    /\ left' = [b \in Blob |-> Less1(left[b])]
    /\ recorded' = [b \in Blob |-> Less1(recorded[b])]
    /\ delay' = [b \in Blob |-> IF put[b] = "no" THEN 0 ELSE delay[b] + 1]
    /\ busy' = [n \in Node |-> IF pc[n] = "wait" THEN 0 ELSE busy[n] + 1]
    /\ timer' = [n \in Node |-> IF timer[n] = 1 THEN RenewInterval ELSE timer[n] - 1]
    /\ tick' = [n \in Node |-> tick[n] \/ timer[n] = 1]
    /\ UNCHANGED <<indexed, object, put, pc, todo, res, faults>>

-----------------------------------------------------------------------------
Init ==
    /\ phase \in 0..EpochDuration - 1
    /\ left = [b \in Blob |-> 0]
    /\ indexed = Lost
    /\ recorded = [b \in Blob |-> 0]
    /\ object = [b \in Blob |-> FALSE]
    /\ put = [b \in Blob |-> "no"]
    /\ delay = [b \in Blob |-> 0]
    /\ pc = [n \in Node |-> "wait"]
    /\ todo = [n \in Node |-> <<>>]
    /\ res = [n \in Node |-> "none"]
    /\ busy = [n \in Node |-> 0]
    /\ timer = [n \in Node |-> RenewInterval]
    /\ tick = [n \in Node |-> FALSE]
    /\ faults = 0

Next ==
    \/ \E b \in Blob : Upload(b) \/ Delete(b) \/ \E ok \in BOOLEAN : Record(b, ok)
    \/ \E n \in Node : Scan(n) \/ Read(n) \/ Store(n) \/ Update(n) \/ Restart(n)
    \/ Tick

Spec == Init /\ [][Next]_vars

-----------------------------------------------------------------------------
(* Properties *)

\* Every variable holds values of its kind, and a worker that is not waiting
\* has a blob to renew.
TypeOK ==
    /\ phase \in 0..EpochDuration - 1
    /\ left \in [Blob -> Nat]
    /\ indexed \subseteq Blob
    /\ recorded \in [Blob -> Nat]
    /\ object \in [Blob -> BOOLEAN]
    /\ put \in [Blob -> {"no", "created", "already"}]
    /\ delay \in [Blob -> 0..CallTime]
    /\ pc \in [Node -> {"wait", "read", "store", "update"}]
    /\ todo \in [Node -> Seq(Blob)]
    /\ \A n \in Node : pc[n] # "wait" => todo[n] # <<>>
    /\ res \in [Node -> {"none", "created", "already"}]
    /\ busy \in [Node -> 0..CallTime]
    /\ timer \in [Node -> 1..RenewInterval]
    /\ tick \in [Node -> BOOLEAN]
    /\ faults \in 0..MaxFaults

\* The recorded expires_at runs ahead of the end of the paid storage by less
\* than one epoch and the time of one call, however stores, renewals by several
\* nodes, deletions, failures and restarts interleave: the safety margin an
\* operator has to add to RenewLead is a constant and does not grow with the
\* number of renewals.
ExpiryWithinEpoch ==
    \A b \in indexed : recorded[b] < left[b] + EpochDuration + CallTime

\* The worker keeps Walrus blobs alive: no indexed blob's paid storage ever
\* ends.
NeverLapses ==
    \A b \in indexed \ Lost : left[b] > 0

\* "A re-upload creates a new Sui Blob object, so newObjectID is recorded too",
\* index.go:462: the store of a renewal has an object to record.
\* A documented claim the code does not keep.
ReuploadCreatesObject ==
    \A n \in Node : pc[n] = "update" => res[n] = "created"
=============================================================================
