------------------------- MODULE RenewalWorkerProofs -------------------------
(***************************************************************************)
(* Proofs about the renewal worker, for any number of nodes, epochs and    *)
(* faults and any durations: how far expires_at can be ahead of the end of *)
(* the paid storage, and a RenewLead with which no indexed blob is lost.   *)
(***************************************************************************)
EXTENDS RenewalWorker, FiniteSets, FiniteSetTheorems, TLAPS

\* A store pays for at least the rest of one epoch and for less than Term; of
\* the product Epochs * EpochDuration the proofs use nothing else.
LEMMA TermFacts == Term \in Nat /\ Term >= EpochDuration
  <1>1. Epochs \in Nat /\ EpochDuration \in Nat /\ Epochs >= 1
    BY EpochsAssumption
  <1>2. Epochs * EpochDuration >= EpochDuration
    BY <1>1
  <1> QED
    BY <1>1, <1>2 DEF Term

\* What Certify does to left: it never shortens it, and pays for Paid ticks.
LEMMA LargerFacts ==
  ASSUME NEW a \in Nat, NEW b \in Nat
  PROVE  Larger(a, b) \in Nat /\ Larger(a, b) >= a /\ Larger(a, b) >= b
  BY DEF Larger

\* Less1 takes one away from a positive number.
LEMMA Less1Facts ==
  ASSUME NEW a \in Nat
  PROVE  Less1(a) \in Nat /\ Less1(a) <= a /\ Less1(a) + 1 >= a
  BY DEF Less1

\* What a store pays for: more than a term less an epoch.
LEMMA PaidFacts ==
  ASSUME TypeOK
  PROVE  Paid \in Nat /\ Paid >= 1 /\ Paid + EpochDuration > Term
  BY TermFacts, EpochsAssumption DEF TypeOK, Paid

\* Beginning a list of blobs leaves the worker's variables well typed.
LEMMA WorkTypes ==
  ASSUME TypeOK, NEW n \in Node, NEW s \in Seq(Blob), Work(n, s)
  PROVE  /\ pc' \in [Node -> {"wait", "read", "store", "update"}]
         /\ todo' \in [Node -> Seq(Blob)]
         /\ \A m \in Node : pc'[m] # "wait" => todo'[m] # <<>>
         /\ res' \in [Node -> {"none", "created", "already"}]
         /\ busy' \in [Node -> 0..CallTime]
         /\ pc'[n] \in {"wait", "read"}
         /\ \A m \in Node \ {n} : pc'[m] = pc[m] /\ todo'[m] = todo[m] /\ busy'[m] = busy[m]
  BY BoundsAssumption DEF TypeOK, Work

\* A worker that is not waiting has a current blob and a rest.
LEMMA CurrentFacts ==
  ASSUME TypeOK, NEW n \in Node, pc[n] # "wait"
  PROVE  Current(n) \in Blob /\ Tail(todo[n]) \in Seq(Blob)
  <1>1. todo[n] \in Seq(Blob) /\ todo[n] # <<>>
    BY DEF TypeOK
  <1> QED
    BY <1>1 DEF Current

\* A certified blob has at least Paid ticks left, no blob has fewer than before.
LEMMA CertifyTypes ==
  ASSUME TypeOK, NEW b \in Blob, Certify(b)
  PROVE  /\ left' \in [Blob -> Nat]
         /\ \A c \in Blob : left'[c] >= left[c]
         /\ left'[b] >= Paid
  <1>1. Paid \in Nat
    BY PaidFacts
  <1>2. left \in [Blob -> Nat]
    BY DEF TypeOK
  <1>3. Larger(left[b], Paid) \in Nat /\ Larger(left[b], Paid) >= left[b] /\ Larger(left[b], Paid) >= Paid
    BY <1>1, <1>2, LargerFacts
  <1> QED
    BY <1>2, <1>3 DEF Certify

\* Faults stay within their bound.
LEMMA FaultTypes ==
  ASSUME TypeOK, Fault
  PROVE  faults' \in 0..MaxFaults
  BY BoundsAssumption DEF TypeOK, Fault

\* The rest of a scan's list.
LEMMA TailFacts ==
  ASSUME NEW s \in Seq(Blob), s # <<>>
  PROVE  /\ Tail(s) \in Seq(Blob) /\ Len(Tail(s)) = Len(s) - 1
         /\ DOMAIN Tail(s) = 1..Len(Tail(s))
         /\ \A i \in 1..Len(Tail(s)) : Tail(s)[i] = s[i + 1]
  OBVIOUS

\* Every step keeps every variable in its type.
LEMMA TypeStep ==
  ASSUME TypeOK, [Next]_vars
  PROVE  TypeOK'
  <1> USE BoundsAssumption, RenewAssumption, EpochsAssumption
  <1>1. ASSUME NEW b \in Blob, Upload(b) PROVE TypeOK'
    <2>1. left' \in [Blob -> Nat]
      BY <1>1, CertifyTypes DEF Upload
    <2>2. Response(b) \in {"no", "created", "already"}
      BY DEF Response
    <2>3. put' \in [Blob -> {"no", "created", "already"}] /\ delay' \in [Blob -> 0..CallTime]
      BY <1>1, <2>2 DEF Upload, TypeOK
    <2> QED
      BY <1>1, <2>1, <2>3 DEF Upload, TypeOK, index, ticker
  <1>2. ASSUME NEW b \in Blob, NEW ok \in BOOLEAN, Record(b, ok) PROVE TypeOK'
    <2>1. recorded' \in [Blob -> Nat]
      BY <1>2, TermFacts DEF Record, TypeOK, index
    <2>2. object' \in [Blob -> BOOLEAN] /\ indexed' \subseteq Blob
      BY <1>2 DEF Record, TypeOK, index
    <2>3. put' \in [Blob -> {"no", "created", "already"}] /\ delay' \in [Blob -> 0..CallTime]
      BY <1>2 DEF Record, TypeOK
    <2> QED
      BY <1>2, <2>1, <2>2, <2>3 DEF Record, TypeOK, ticker
  <1>3. ASSUME NEW b \in Blob, Delete(b) PROVE TypeOK'
    BY <1>3 DEF Delete, TypeOK, writer, ticker
  <1>4. ASSUME NEW n \in Node, Scan(n) PROVE TypeOK'
    <2>1. tick' \in [Node -> BOOLEAN]
      BY <1>4 DEF Scan, TypeOK
    <2>2. CASE \E s \in Batches : IsBatch(s) /\ Work(n, s) /\ UNCHANGED faults
      <3>1. PICK s \in Batches : Work(n, s) /\ UNCHANGED faults
        BY <2>2
      <3>2. s \in Seq(Blob)
        BY <3>1 DEF Batches
      <3> QED
        BY <1>4, <2>1, <3>1, <3>2, WorkTypes DEF Scan, TypeOK, index, writer
    <2>3. CASE Fault /\ UNCHANGED <<pc, todo, res, busy>>
      BY <1>4, <2>1, <2>3, FaultTypes DEF Scan, TypeOK, index, writer
    <2> QED
      BY <1>4, <2>2, <2>3 DEF Scan
  <1>5. ASSUME NEW n \in Node, Read(n) PROVE TypeOK'
    <2>1. Tail(todo[n]) \in Seq(Blob)
      BY <1>5, CurrentFacts DEF Read
    <2>2. CASE pc' = [pc EXCEPT ![n] = "store"] /\ UNCHANGED <<todo, res, busy, faults>>
      BY <1>5, <2>2 DEF Read, TypeOK, index, writer, ticker
    <2>3. CASE NextItem(n) /\ UNCHANGED faults
      BY <1>5, <2>1, <2>3, WorkTypes DEF Read, NextItem, TypeOK, index, writer, ticker
    <2>4. CASE Fault /\ NextItem(n)
      BY <1>5, <2>1, <2>4, WorkTypes, FaultTypes DEF Read, NextItem, TypeOK, index, writer, ticker
    <2> QED
      BY <1>5, <2>2, <2>3, <2>4 DEF Read
  <1>6. ASSUME NEW n \in Node, Store(n) PROVE TypeOK'
    <2>1. Current(n) \in Blob /\ Tail(todo[n]) \in Seq(Blob)
      BY <1>6, CurrentFacts DEF Store
    <2>2. left' \in [Blob -> Nat]
      BY <1>6, <2>1, CertifyTypes DEF Store, TypeOK
    <2>3. CASE /\ res' = [res EXCEPT ![n] = Response(Current(n))]
               /\ pc' = [pc EXCEPT ![n] = "update"]
               /\ UNCHANGED <<todo, busy, faults>>
      <3>1. Response(Current(n)) \in {"none", "created", "already"}
        BY DEF Response
      <3> QED
        BY <1>6, <2>2, <2>3, <3>1 DEF Store, TypeOK, index, writer, ticker
    <2>4. CASE Fault /\ NextItem(n)
      BY <1>6, <2>1, <2>2, <2>4, WorkTypes, FaultTypes DEF Store, NextItem, TypeOK, index, writer, ticker
    <2> QED
      BY <1>6, <2>3, <2>4 DEF Store
  <1>7. ASSUME NEW n \in Node, Update(n) PROVE TypeOK'
    <2>1. Current(n) \in Blob /\ Tail(todo[n]) \in Seq(Blob)
      BY <1>7, CurrentFacts DEF Update
    <2>2. recorded' \in [Blob -> Nat]
      BY <1>7, <2>1, TermFacts DEF Update, TypeOK, index, RecordedAfter
    <2>3. object' \in [Blob -> BOOLEAN] /\ indexed' = indexed
      BY <1>7, <2>1 DEF Update, TypeOK, index
    <2>4. faults' \in 0..MaxFaults
      BY <1>7, FaultTypes DEF Update, TypeOK
    <2> QED
      BY <1>7, <2>1, <2>2, <2>3, <2>4, WorkTypes DEF Update, NextItem, TypeOK, writer, ticker
  <1>8. ASSUME NEW n \in Node, Restart(n) PROVE TypeOK'
    <2>1. <<>> \in Seq(Blob)
      OBVIOUS
    <2>2. timer' \in [Node -> 1..RenewInterval] /\ tick' \in [Node -> BOOLEAN]
      BY <1>8 DEF Restart, TypeOK
    <2>3. faults' \in 0..MaxFaults
      BY <1>8, FaultTypes DEF Restart
    <2> QED
      BY <1>8, <2>1, <2>2, <2>3, WorkTypes DEF Restart, TypeOK, index, writer
  <1>9. ASSUME Tick PROVE TypeOK'
    <2>1. left' \in [Blob -> Nat] /\ recorded' \in [Blob -> Nat]
      BY <1>9, Less1Facts DEF Tick, TypeOK
    <2>2. phase' \in 0..EpochDuration - 1
      BY <1>9 DEF Tick, TypeOK
    <2>3. delay' \in [Blob -> 0..CallTime] /\ busy' \in [Node -> 0..CallTime]
      BY <1>9 DEF Tick, TypeOK
    <2>4. timer' \in [Node -> 1..RenewInterval] /\ tick' \in [Node -> BOOLEAN]
      BY <1>9 DEF Tick, TypeOK
    <2> QED
      BY <1>9, <2>1, <2>2, <2>3, <2>4 DEF Tick, TypeOK
  <1>10. CASE UNCHANGED vars
    BY <1>10 DEF TypeOK, vars
  <1> QED
    BY <1>1, <1>2, <1>3, <1>4, <1>5, <1>6, <1>7, <1>8, <1>9, <1>10 DEF Next

\* A blob whose rows are about to be written, by a writer or by a renewal, was
\* paid for at the beginning of the call at the latest: Term ticks minus less
\* than an epoch, minus the time the call has taken.
Margin ==
    /\ \A b \in Blob : put[b] # "no" => left[b] + delay[b] + EpochDuration > Term
    /\ \A n \in Node : pc[n] = "update" => left[Current(n)] + busy[n] + EpochDuration > Term

\* ExpiryWithinEpoch alone is not inductive: rows are written from the answer of
\* an earlier store, which Margin relates to the time that has passed since.
Inv == TypeOK /\ Margin /\ ExpiryWithinEpoch

\* Storage that is only extended, rows and calls that are left alone: nothing
\* that Margin or ExpiryWithinEpoch says is disturbed.
LEMMA KeepsExpiry ==
  ASSUME Inv, TypeOK', indexed' \subseteq indexed,
         \A b \in Blob : left'[b] >= left[b],
         \A b \in indexed' : recorded'[b] = recorded[b]
  PROVE  ExpiryWithinEpoch'
  BY EpochsAssumption, BoundsAssumption DEF Inv, TypeOK, ExpiryWithinEpoch

\* A step that leaves the workers alone keeps the margin of their stores,
LEMMA KeepsWorkers ==
  ASSUME Inv, TypeOK', NEW S \in SUBSET Node,
         \A b \in Blob : left'[b] >= left[b],
         \A n \in S : pc'[n] # "update",
         \A n \in Node \ S : pc'[n] = pc[n] /\ todo'[n] = todo[n] /\ busy'[n] = busy[n]
  PROVE  \A n \in Node : pc'[n] = "update" => left'[Current(n)'] + busy'[n] + EpochDuration > Term
  <1> SUFFICES ASSUME NEW n \in Node, pc'[n] = "update"
               PROVE  left'[Current(n)'] + busy'[n] + EpochDuration > Term
    OBVIOUS
  <1>1. pc[n] = "update" /\ Current(n)' = Current(n) /\ busy'[n] = busy[n]
    BY DEF Current
  <1>2. Current(n) \in Blob
    BY <1>1, CurrentFacts DEF Inv
  <1>3. left[Current(n)] + busy[n] + EpochDuration > Term
    BY <1>1 DEF Inv, Margin
  <1> QED
    BY <1>1, <1>2, <1>3, TermFacts, EpochsAssumption, SMTT(30) DEF Inv, TypeOK

\* and one that leaves the writers alone keeps that of theirs.
LEMMA KeepsWriters ==
  ASSUME Inv, TypeOK', NEW S \in SUBSET Blob,
         \A b \in Blob : left'[b] >= left[b],
         \A b \in S : put'[b] = "no",
         \A b \in Blob \ S : put'[b] = put[b] /\ delay'[b] = delay[b]
  PROVE  \A b \in Blob : put'[b] # "no" => left'[b] + delay'[b] + EpochDuration > Term
  BY TermFacts, EpochsAssumption DEF Inv, TypeOK, Margin

\* Every step keeps Margin and ExpiryWithinEpoch.
LEMMA InvStep ==
  ASSUME Inv, [Next]_vars
  PROVE  Inv'
  <1> USE EpochsAssumption, BoundsAssumption, TermFacts
  <1>0. TypeOK /\ TypeOK'
    BY TypeStep DEF Inv
  <1>a. \A b \in Blob : left[b] >= left[b]
    BY <1>0 DEF TypeOK
  <1>1. ASSUME NEW b \in Blob, Upload(b) PROVE Inv'
    <2>1. (\A c \in Blob : left'[c] >= left[c]) /\ left'[b] >= Paid
      BY <1>0, <1>1, CertifyTypes DEF Upload
    <2>2. ExpiryWithinEpoch'
      BY <1>0, <1>1, <2>1, KeepsExpiry DEF Upload, index
    <2>3. \A n \in Node : pc'[n] = "update" => left'[Current(n)'] + busy'[n] + EpochDuration > Term
      <3>1. \A n \in Node \ {} : pc'[n] = pc[n] /\ todo'[n] = todo[n] /\ busy'[n] = busy[n]
        BY <1>1 DEF Upload
      <3>2. {} \in SUBSET Node /\ \A n \in {} : pc'[n] # "update"
        OBVIOUS
      <3> QED
        BY <1>0, <2>1, <3>1, <3>2, KeepsWorkers
    <2>4. ASSUME NEW c \in Blob, put'[c] # "no"
          PROVE  left'[c] + delay'[c] + EpochDuration > Term
      <3>1. CASE c = b
        BY <1>0, <1>1, <2>1, <3>1, PaidFacts, SMTT(30) DEF Upload, TypeOK
      <3>2. CASE c # b
        BY <1>0, <1>1, <2>1, <2>4, <3>2, SMTT(30) DEF Upload, TypeOK, Inv, Margin
      <3> QED
        BY <3>1, <3>2
    <2> QED
      BY <1>0, <2>2, <2>3, <2>4 DEF Inv, Margin
  <1>2. ASSUME NEW b \in Blob, NEW ok \in BOOLEAN, Record(b, ok) PROVE Inv'
    <2>1. left' = left
      BY <1>2 DEF Record
    <2>2. \A n \in Node : pc'[n] = "update" => left'[Current(n)'] + busy'[n] + EpochDuration > Term
      <3>1. \A n \in Node \ {} : pc'[n] = pc[n] /\ todo'[n] = todo[n] /\ busy'[n] = busy[n]
        BY <1>2 DEF Record
      <3>2. {} \in SUBSET Node /\ \A n \in {} : pc'[n] # "update"
        OBVIOUS
      <3> QED
        BY <1>0, <1>a, <2>1, <3>1, <3>2, KeepsWorkers
    <2>3. \A c \in Blob : put'[c] # "no" => left'[c] + delay'[c] + EpochDuration > Term
      <3>1. \A c \in {b} : put'[c] = "no"
        BY <1>0, <1>2 DEF Record, TypeOK
      <3>2. \A c \in Blob \ {b} : put'[c] = put[c] /\ delay'[c] = delay[c]
        BY <1>0, <1>2 DEF Record, TypeOK
      <3>3. {b} \in SUBSET Blob
        OBVIOUS
      <3> QED
        BY <1>0, <1>a, <2>1, <3>1, <3>2, <3>3, KeepsWriters
    <2>4. ExpiryWithinEpoch'
      <3>1. CASE ok
        <4>1. left[b] + delay[b] + EpochDuration > Term /\ delay[b] \in 0..CallTime
          BY <1>0, <1>2 DEF Inv, Margin, Record, TypeOK
        <4>2. recorded'[b] = Term
          BY <1>0, <1>2, <3>1 DEF Record, TypeOK
        <4>3. recorded'[b] < left'[b] + EpochDuration + CallTime
          BY <1>0, <2>1, <4>1, <4>2 DEF TypeOK
        <4>4. \A c \in indexed' \ {b} : c \in indexed /\ recorded'[c] = recorded[c]
          BY <1>0, <1>2, <3>1 DEF Record, TypeOK
        <4> QED
          BY <1>0, <2>1, <4>3, <4>4 DEF ExpiryWithinEpoch, Inv, TypeOK
      <3>2. CASE ~ok
        BY <1>2, <2>1, <3>2 DEF Record, index, Inv, ExpiryWithinEpoch
      <3> QED
        BY <3>1, <3>2
    <2> QED
      BY <1>0, <2>2, <2>3, <2>4 DEF Inv, Margin
  <1>3. ASSUME NEW b \in Blob, Delete(b) PROVE Inv'
    <2>1. ExpiryWithinEpoch'
      BY <1>0, <1>3, <1>a, KeepsExpiry DEF Delete, TypeOK
    <2> QED
      BY <1>0, <1>3, <2>1 DEF Delete, Inv, Margin, writer, Current
  <1>4. ASSUME NEW n \in Node, Scan(n) PROVE Inv'
    <2>1. left' = left /\ UNCHANGED index /\ UNCHANGED writer
      BY <1>4 DEF Scan
    <2>2. pc'[n] # "update" /\ \A m \in Node \ {n} : pc'[m] = pc[m] /\ todo'[m] = todo[m] /\ busy'[m] = busy[m]
      <3>1. CASE \E s \in Batches : Work(n, s)
        <4>1. PICK s \in Batches : Work(n, s)
          BY <3>1
        <4> QED
          BY <1>0, <4>1 DEF Work, TypeOK
      <3>2. CASE UNCHANGED <<pc, todo, res, busy>>
        BY <1>4, <3>2 DEF Scan
      <3> QED
        BY <1>4, <3>1, <3>2 DEF Scan
    <2>3. \A m \in Node : pc'[m] = "update" => left'[Current(m)'] + busy'[m] + EpochDuration > Term
      <3>1. {n} \in SUBSET Node
        OBVIOUS
      <3> QED
        BY <1>0, <1>a, <2>1, <2>2, <3>1, KeepsWorkers
    <2> QED
      BY <1>0, <2>1, <2>3 DEF Inv, Margin, ExpiryWithinEpoch, index, writer
  <1>5. ASSUME NEW n \in Node, Read(n) PROVE Inv'
    <2>1. left' = left /\ UNCHANGED index /\ UNCHANGED writer
      BY <1>5 DEF Read
    <2>2. pc'[n] # "update" /\ \A m \in Node \ {n} : pc'[m] = pc[m] /\ todo'[m] = todo[m] /\ busy'[m] = busy[m]
      BY <1>0, <1>5, ZenonT(40) DEF Read, NextItem, Work, TypeOK
    <2>3. \A m \in Node : pc'[m] = "update" => left'[Current(m)'] + busy'[m] + EpochDuration > Term
      <3>1. {n} \in SUBSET Node
        OBVIOUS
      <3> QED
        BY <1>0, <1>a, <2>1, <2>2, <3>1, KeepsWorkers
    <2> QED
      BY <1>0, <2>1, <2>3 DEF Inv, Margin, ExpiryWithinEpoch, index, writer
  <1>6. ASSUME NEW n \in Node, Store(n) PROVE Inv'
    <2>1. Current(n) \in Blob
      BY <1>0, <1>6, CurrentFacts DEF Store
    <2>2. \A c \in Blob : left'[c] >= left[c]
      BY <1>0, <1>6, <1>a, <2>1, CertifyTypes DEF Store
    <2>3. ExpiryWithinEpoch'
      BY <1>0, <1>6, <2>2, KeepsExpiry DEF Store, index
    <2>4. \A b \in Blob : put'[b] # "no" => left'[b] + delay'[b] + EpochDuration > Term
      <3>1. \A b \in Blob \ {} : put'[b] = put[b] /\ delay'[b] = delay[b]
        BY <1>6 DEF Store, writer
      <3>2. {} \in SUBSET Blob /\ \A b \in {} : put'[b] = "no"
        OBVIOUS
      <3> QED
        BY <1>0, <2>2, <3>1, <3>2, KeepsWriters
    <2>5. \A m \in Node : pc'[m] = "update" => left'[Current(m)'] + busy'[m] + EpochDuration > Term
      <3>1. \A m \in Node \ {n} : pc'[m] = pc[m] /\ todo'[m] = todo[m] /\ busy'[m] = busy[m]
        BY <1>0, <1>6 DEF Store, NextItem, Work, TypeOK
      <3>2. CASE pc'[n] # "update"
        <4>1. {n} \in SUBSET Node /\ \A m \in {n} : pc'[m] # "update"
          BY <3>2
        <4> QED
          BY <1>0, <2>2, <3>1, <4>1, KeepsWorkers
      <3>3. CASE pc'[n] = "update"
        <4>1. Certify(Current(n)) /\ todo' = todo /\ busy' = busy
          BY <1>0, <1>6, <3>3 DEF Store, NextItem, Work, TypeOK
        <4>2. left'[Current(n)'] >= Paid
          BY <1>0, <2>1, <4>1, CertifyTypes DEF Current
        <4>3. Current(n)' = Current(n)
          BY <4>1 DEF Current
        <4>4. left'[Current(n)'] + busy'[n] + EpochDuration > Term
          <5>1. left'[Current(n)'] \in Nat /\ busy'[n] \in Nat
            BY <1>0, <2>1, <4>3 DEF TypeOK
          <5>2. Paid \in Nat /\ Paid + EpochDuration > Term
            BY <1>0, PaidFacts
          <5> HIDE DEF Term, Paid
          <5> QED
            BY <4>2, <5>1, <5>2
        <4>5. ASSUME NEW m \in Node \ {n}, pc'[m] = "update"
              PROVE  left'[Current(m)'] + busy'[m] + EpochDuration > Term
          <5>1. pc[m] = "update" /\ Current(m)' = Current(m) /\ busy'[m] = busy[m]
            BY <3>1, <4>5 DEF Current
          <5>2. Current(m) \in Blob
            BY <1>0, <5>1, CurrentFacts
          <5>3. left[Current(m)] + busy[m] + EpochDuration > Term
            BY <5>1 DEF Inv, Margin
          <5>4. left'[Current(m)'] \in Nat /\ left[Current(m)] \in Nat /\ busy[m] \in Nat
            BY <1>0, <5>1, <5>2 DEF TypeOK
          <5>5. left'[Current(m)'] >= left[Current(m)]
            BY <2>2, <5>1, <5>2
          <5> QED
            BY <5>1, <5>3, <5>4, <5>5
        <4> QED
          BY <4>4, <4>5
      <3> QED
        BY <3>2, <3>3
    <2> QED
      BY <1>0, <2>3, <2>4, <2>5 DEF Inv, Margin
  <1>7. ASSUME NEW n \in Node, Update(n) PROVE Inv'
    <2>1. Current(n) \in Blob /\ left' = left /\ indexed' = indexed /\ UNCHANGED writer
      BY <1>0, <1>7, CurrentFacts DEF Update, index
    <2>2. \A m \in Node : pc'[m] = "update" => left'[Current(m)'] + busy'[m] + EpochDuration > Term
      <3>1. {n} \in SUBSET Node /\ \A m \in {n} : pc'[m] # "update"
        BY <1>0, <1>7 DEF Update, NextItem, Work, TypeOK
      <3>2. \A m \in Node \ {n} : pc'[m] = pc[m] /\ todo'[m] = todo[m] /\ busy'[m] = busy[m]
        BY <1>0, <1>7 DEF Update, NextItem, Work, TypeOK
      <3> QED
        BY <1>0, <1>a, <2>1, <3>1, <3>2, KeepsWorkers
    <2>3. ExpiryWithinEpoch'
      <3>1. left[Current(n)] + busy[n] + EpochDuration > Term /\ busy[n] \in 0..CallTime
        BY <1>0, <1>7 DEF Inv, Margin, Update, TypeOK
      <3>2. \A b \in indexed : recorded'[b] = recorded[b] \/ (b = Current(n) /\ recorded'[b] = Term)
        BY <1>0, <1>7, <2>1, SMTT(30) DEF Update, TypeOK, index, RecordedAfter
      <3>3. ASSUME NEW b \in indexed PROVE recorded'[b] < left[b] + EpochDuration + CallTime
        <4>1. CASE recorded'[b] = recorded[b]
          BY <4>1 DEF Inv, ExpiryWithinEpoch
        <4>2. CASE b = Current(n) /\ recorded'[b] = Term
          <5>1. left[b] \in Nat /\ busy[n] \in Nat /\ busy[n] <= CallTime
            BY <1>0, <3>1 DEF TypeOK
          <5> QED
            BY <3>1, <4>2, <5>1
        <4> QED
          BY <3>2, <4>1, <4>2
      <3> QED
        BY <2>1, <3>3 DEF ExpiryWithinEpoch
    <2> QED
      BY <1>0, <2>1, <2>2, <2>3 DEF Inv, Margin, writer
  <1>8. ASSUME NEW n \in Node, Restart(n) PROVE Inv'
    <2>1. left' = left /\ UNCHANGED index /\ UNCHANGED writer
      BY <1>8 DEF Restart
    <2>2. {n} \in SUBSET Node /\ \A m \in {n} : pc'[m] # "update"
      BY <1>0, <1>8 DEF Restart, Work, TypeOK
    <2>3. \A m \in Node \ {n} : pc'[m] = pc[m] /\ todo'[m] = todo[m] /\ busy'[m] = busy[m]
      BY <1>0, <1>8 DEF Restart, Work, TypeOK
    <2>4. \A m \in Node : pc'[m] = "update" => left'[Current(m)'] + busy'[m] + EpochDuration > Term
      BY <1>0, <1>a, <2>1, <2>2, <2>3, KeepsWorkers
    <2> QED
      BY <1>0, <2>1, <2>4 DEF Inv, Margin, ExpiryWithinEpoch, index, writer
  <1>9. ASSUME Tick PROVE Inv'
    <2>1. \A b \in Blob : left'[b] + 1 >= left[b]
      BY <1>0, <1>9, Less1Facts DEF Tick, TypeOK
    <2>2. \A b \in Blob : put'[b] # "no" => left'[b] + delay'[b] + EpochDuration > Term
      BY <1>0, <1>9, <2>1, SMTT(30) DEF Tick, TypeOK, Inv, Margin
    <2>3. ASSUME NEW n \in Node, pc'[n] = "update"
          PROVE  left'[Current(n)'] + busy'[n] + EpochDuration > Term
      <3>1. pc[n] = "update" /\ Current(n)' = Current(n) /\ busy'[n] = busy[n] + 1
        BY <1>9, <2>3 DEF Tick, Current
      <3>2. Current(n) \in Blob
        BY <1>0, <3>1, CurrentFacts
      <3>3. left[Current(n)] + busy[n] + EpochDuration > Term
        BY <3>1 DEF Inv, Margin
      <3>4. left'[Current(n)'] \in Nat /\ left[Current(n)] \in Nat /\ busy[n] \in Nat
        BY <1>0, <3>1, <3>2 DEF TypeOK
      <3>5. left'[Current(n)'] + 1 >= left[Current(n)]
        BY <2>1, <3>1, <3>2
      <3> QED
        BY <3>1, <3>3, <3>4, <3>5
    <2>4. ASSUME NEW b \in indexed' PROVE recorded'[b] < left'[b] + EpochDuration + CallTime
      <3>1. b \in indexed /\ b \in Blob /\ left'[b] = Less1(left[b]) /\ recorded'[b] = Less1(recorded[b])
        BY <1>0, <1>9 DEF Tick, TypeOK
      <3>2. recorded[b] < left[b] + EpochDuration + CallTime
        BY <3>1 DEF Inv, ExpiryWithinEpoch
      <3> QED
        BY <1>0, <3>1, <3>2, SMTT(30) DEF TypeOK, Less1
    <2> QED
      BY <1>0, <2>2, <2>3, <2>4 DEF Inv, Margin, ExpiryWithinEpoch
  <1>10. CASE UNCHANGED vars
    BY <1>0, <1>10 DEF Inv, Margin, ExpiryWithinEpoch, Current, vars
  <1> QED
    BY <1>1, <1>2, <1>3, <1>4, <1>5, <1>6, <1>7, <1>8, <1>9, <1>10 DEF Next

\* The invariant holds at the start.
LEMMA InvInit ==
  ASSUME Init
  PROVE  Inv
  BY LostAssumption, EpochsAssumption, RenewAssumption, BoundsAssumption
     DEF Init, Inv, TypeOK, Margin, ExpiryWithinEpoch

\* Type correctness of the renewal worker's variables.
THEOREM TypeCorrect == Spec => []TypeOK
  <1>1. Init => Inv
    BY InvInit
  <1>2. Inv /\ [Next]_vars => Inv'
    BY InvStep
  <1>3. Inv => TypeOK
    BY DEF Inv
  <1> QED
    BY <1>1, <1>2, <1>3, PTL DEF Spec

\* expires_at, which DueForRenewal trusts, is never ahead of the end of the paid
\* storage by an epoch and a call's time or more, after any number of renewals
\* by any number of nodes.
THEOREM ExpiryBounded == Spec => []ExpiryWithinEpoch
  <1>1. Init => Inv
    BY InvInit
  <1>2. Inv /\ [Next]_vars => Inv'
    BY InvStep
  <1>3. Inv => ExpiryWithinEpoch
    BY DEF Inv
  <1> QED
    BY <1>1, <1>2, <1>3, PTL DEF Spec

-----------------------------------------------------------------------------
(* How long RenewLead has to be for the worker to keep every blob alive *)

\* The ticks k blobs may take, one read-store-update after the other.
Calls(k) == k * CallTime

\* The ticks from one attempt to store a blob to the end of the next: the rest
\* of the scan or of the ticker's interval, then a full scan.
Round == Larger(Calls(RenewBatchSize), RenewInterval) + Calls(RenewBatchSize)

\* The ticks the failures that may still happen can cost.
Slack == (MaxFaults - faults) * Round

\* The epoch and the call by which expires_at may be late, and a round for the
\* first attempt and for each attempt after a failure.
LeadNeeded == EpochDuration + CallTime + (MaxFaults + 1) * Round

\* The deployments in which the worker can do its task: a scan is never cut by
\* its LIMIT, nothing was lost beforehand, and RenewLead and the term bought
\* are at least LeadNeeded.
LeadSuffices ==
    /\ Node # {} /\ Lost = {}
    /\ IsFiniteSet(Blob) /\ Cardinality(Blob) <= RenewBatchSize
    /\ Lead >= LeadNeeded /\ Term >= LeadNeeded

\* The ticks after which node n scans again at the latest if it does not fail.
UntilTick(n) == IF tick[n] THEN 0 ELSE timer[n]
UntilScan(n) ==
    IF pc[n] = "wait" THEN UntilTick(n)
                      ELSE Larger(Calls(Len(todo[n])) - busy[n], UntilTick(n))

\* Blob b is the k-th of the blobs node n still has to store in this scan.
Pending(n, b, k) == pc[n] # "wait" /\ todo[n][k] = b /\ (k = 1 => pc[n] # "update")

Short == \A n \in Node : Len(todo[n]) <= RenewBatchSize

\* A due blob's storage lasts until node n has stored it again, in this scan or
\* in the next, with time to spare for every failure still to come.
InTime(n, b) ==
    \/ \E k \in DOMAIN todo[n] : Pending(n, b, k) /\ left[b] > Calls(k) - busy[n] + Slack
    \/ left[b] > UntilScan(n) + Calls(RenewBatchSize) + Slack

Timely == \A n \in Node : \A b \in indexed : recorded[b] <= Lead => InTime(n, b)

\* NeverLapses says nothing of how much time is left, so it is not inductive:
\* Timely says that it is enough.
LapseInv == Inv /\ Short /\ Timely

\* Arithmetic the provers are given as facts.
LEMMA ProductFacts ==
  ASSUME NEW a \in Nat, NEW b \in Nat
  PROVE  a * b \in Nat
  OBVIOUS

LEMMA DifferenceFacts ==
  ASSUME NEW a \in Nat, NEW b \in Nat, b <= a
  PROVE  a - b \in Nat
  OBVIOUS

LEMMA CallsFacts ==
  ASSUME NEW k \in Nat
  PROVE  Calls(k) \in Nat /\ Calls(k + 1) = Calls(k) + CallTime
  BY BoundsAssumption DEF Calls

LEMMA CallsMonotone ==
  ASSUME NEW k \in Nat, NEW m \in Nat, k <= m
  PROVE  Calls(k) <= Calls(m)
  <1>1. CallTime \in Nat
    BY BoundsAssumption
  <1>2. k * CallTime <= m * CallTime
    BY <1>1
  <1> QED
    BY <1>2 DEF Calls

LEMMA RoundFacts ==
  /\ Calls(RenewBatchSize) \in Nat /\ Round \in Nat
  /\ Round >= Calls(RenewBatchSize) + Calls(RenewBatchSize)
  /\ Round >= RenewInterval + Calls(RenewBatchSize)
  <1>1. Calls(RenewBatchSize) \in Nat /\ RenewInterval \in Nat
    BY CallsFacts, RenewAssumption
  <1>2. /\ Larger(Calls(RenewBatchSize), RenewInterval) \in Nat
        /\ Larger(Calls(RenewBatchSize), RenewInterval) >= Calls(RenewBatchSize)
        /\ Larger(Calls(RenewBatchSize), RenewInterval) >= RenewInterval
    BY <1>1, LargerFacts
  <1> QED
    BY <1>1, <1>2 DEF Round

\* A failure uses up a round of the slack.
LEMMA SlackFacts ==
  ASSUME TypeOK, TypeOK'
  PROVE  /\ Slack \in Nat /\ Slack' \in Nat
         /\ Slack + Round <= (MaxFaults + 1) * Round
         /\ faults' = faults => Slack' = Slack
         /\ Fault => Slack = Slack' + Round
  <1>1. Round \in Nat /\ MaxFaults \in Nat /\ faults \in Nat /\ faults <= MaxFaults
    BY RoundFacts, BoundsAssumption DEF TypeOK
  <1>2. PICK d \in Nat : d = MaxFaults - faults
    BY <1>1
  <1>3. d * Round \in Nat /\ (d + 1) * Round = d * Round + Round
    BY <1>1, <1>2
  <1>4. (d + 1) * Round <= (MaxFaults + 1) * Round
    BY <1>1, <1>2
  <1>5. Slack = d * Round
    BY <1>2 DEF Slack
  <1>6. ASSUME Fault PROVE Slack = Slack' + Round
    <2>1. PICK e \in Nat : e = d - 1
      BY <1>1, <1>2, <1>6 DEF Fault
    <2>2. Slack' = e * Round
      BY <1>1, <1>2, <1>6, <2>1 DEF Slack, Fault
    <2>3. (e + 1) * Round = e * Round + Round
      BY <1>1, <2>1
    <2>4. e + 1 = d
      BY <1>2, <2>1
    <2> QED
      BY <1>5, <2>2, <2>3, <2>4
  <1>7. faults' = faults => Slack' = Slack
    BY DEF Slack
  <1>8. Slack' \in Nat
    <2>1. faults' \in Nat /\ faults' <= MaxFaults
      BY <1>1 DEF TypeOK
    <2>2. MaxFaults - faults' \in Nat
      BY BoundsAssumption, <2>1, DifferenceFacts, Zenon
    <2>3. (MaxFaults - faults') * Round \in Nat
      BY <1>1, <2>2, ProductFacts
    <2> QED
      BY <2>3 DEF Slack
  <1> QED
    BY <1>3, <1>4, <1>5, <1>6, <1>7, <1>8

LEMMA TickFacts ==
  ASSUME TypeOK, NEW n \in Node
  PROVE  UntilTick(n) \in Nat /\ UntilTick(n) <= RenewInterval
  BY RenewAssumption DEF TypeOK, UntilTick

\* Every node scans within a round less a scan.
LEMMA ScanFacts ==
  ASSUME TypeOK, Short, NEW n \in Node
  PROVE  /\ UntilScan(n) \in Nat /\ UntilScan(n) >= UntilTick(n)
         /\ UntilScan(n) + Calls(RenewBatchSize) <= Round
         /\ pc[n] # "wait" => UntilScan(n) >= Calls(Len(todo[n])) - busy[n]
  <1>1. UntilTick(n) \in Nat /\ UntilTick(n) <= RenewInterval
    BY TickFacts
  <1>2. todo[n] \in Seq(Blob) /\ Len(todo[n]) \in Nat /\ Len(todo[n]) <= RenewBatchSize
    BY DEF TypeOK, Short
  <1>3. Calls(Len(todo[n])) \in Nat /\ Calls(Len(todo[n])) <= Calls(RenewBatchSize)
    BY <1>2, CallsFacts, CallsMonotone, RenewAssumption
  <1>4. busy[n] \in Nat /\ busy[n] <= CallTime /\ CallTime \in Nat
    BY BoundsAssumption DEF TypeOK
  <1>5. RenewInterval \in Nat
    BY RenewAssumption
  <1>6. CASE pc[n] = "wait"
    BY <1>1, <1>5, <1>6, RoundFacts DEF UntilScan
  <1>7. CASE pc[n] # "wait"
    BY <1>1, <1>3, <1>4, <1>5, <1>7, RoundFacts, SMTT(30) DEF UntilScan, Larger
  <1> QED
    BY <1>6, <1>7

\* A due blob has more time left than the failures to come can cost.
LEMMA InTimeFacts ==
  ASSUME TypeOK, Short, NEW n \in Node, NEW b \in Blob, InTime(n, b), Slack \in Nat
  PROVE  left[b] > Slack
  <1>1. left[b] \in Nat /\ busy[n] \in Nat /\ busy[n] <= CallTime /\ CallTime \in Nat
    BY BoundsAssumption DEF TypeOK
  <1>2. ASSUME NEW k \in DOMAIN todo[n], left[b] > Calls(k) - busy[n] + Slack
        PROVE  left[b] > Slack
    <2>1. k \in Nat /\ 1 <= k
      BY SMTT(30) DEF TypeOK
    <2>2. Calls(1) <= Calls(k) /\ Calls(1) = CallTime /\ Calls(k) \in Nat
      BY <1>1, <2>1, CallsMonotone, CallsFacts DEF Calls
    <2> QED
      BY <1>1, <1>2, <2>2
  <1>3. ASSUME left[b] > UntilScan(n) + Calls(RenewBatchSize) + Slack
        PROVE  left[b] > Slack
    BY <1>1, <1>3, ScanFacts, RoundFacts
  <1> QED
    BY <1>2, <1>3 DEF InTime

\* With a round to spare for the next attempt a blob is in time, wherever the
\* node is.
LEMMA RoundIsInTime ==
  ASSUME TypeOK', Short', NEW n \in Node, NEW b \in Blob, Slack' \in Nat,
         left'[b] > Round + Slack'
  PROVE  InTime(n, b)'
  <1>1. left'[b] \in Nat /\ Round \in Nat /\ Calls(RenewBatchSize) \in Nat
    BY RoundFacts DEF TypeOK
  <1>2. UntilScan(n)' \in Nat /\ UntilScan(n)' + Calls(RenewBatchSize) <= Round
    <2>1. UntilTick(n)' \in Nat /\ UntilTick(n)' <= RenewInterval
      BY RenewAssumption DEF TypeOK, UntilTick
    <2>2. todo'[n] \in Seq(Blob) /\ Len(todo'[n]) \in Nat /\ Len(todo'[n]) <= RenewBatchSize
      BY DEF TypeOK, Short
    <2>3. Calls(Len(todo'[n])) \in Nat /\ Calls(Len(todo'[n])) <= Calls(RenewBatchSize)
      BY <2>2, CallsFacts, CallsMonotone, RenewAssumption
    <2>4. busy'[n] \in Nat /\ RenewInterval \in Nat
      BY BoundsAssumption, RenewAssumption DEF TypeOK
    <2>5. CASE pc'[n] = "wait"
      BY <2>1, <2>4, <2>5, RoundFacts DEF UntilScan
    <2>6. CASE pc'[n] # "wait"
      <3>1. UntilScan(n)' = Larger(Calls(Len(todo'[n])) - busy'[n], UntilTick(n)')
        BY <2>6 DEF UntilScan, Calls, Larger
      <3> QED
        BY <2>1, <2>3, <2>4, <3>1, RoundFacts DEF Larger
    <2> QED
      BY <2>5, <2>6
  <1>3. left'[b] > UntilScan(n)' + Calls(RenewBatchSize) + Slack'
    BY <1>1, <1>2
  <1> QED
    BY <1>3 DEF InTime, Calls

\* A failure costs a round, which the slack had for it.
LEMMA FaultInTime ==
  ASSUME TypeOK, Short, TypeOK', Short', NEW n \in Node, NEW b \in Blob, InTime(n, b),
         Fault, left'[b] >= left[b]
  PROVE  InTime(n, b)'
  <1>1. Slack \in Nat /\ Slack = Slack' + Round
    BY SlackFacts
  <1>2. left[b] > Slack
    BY <1>1, InTimeFacts
  <1>3. Slack' \in Nat /\ Round \in Nat /\ left[b] \in Nat /\ left'[b] \in Nat
    BY SlackFacts, RoundFacts DEF TypeOK
  <1>4. left'[b] > Round + Slack'
    BY <1>1, <1>2, <1>3
  <1> QED
    BY <1>3, <1>4, RoundIsInTime

\* A node that does nothing is as close to its next attempt as it was.
LEMMA IdleInTime ==
  ASSUME TypeOK, TypeOK', Short, NEW n \in Node, NEW b \in Blob, InTime(n, b),
         left'[b] >= left[b], faults' = faults,
         pc'[n] = pc[n], todo'[n] = todo[n], busy'[n] = busy[n],
         timer'[n] = timer[n], tick'[n] = tick[n]
  PROVE  InTime(n, b)'
  <1>1. Slack' = Slack /\ Slack \in Nat
    BY SlackFacts
  <1>2. left[b] \in Nat /\ left'[b] \in Nat /\ busy[n] \in Nat
    BY DEF TypeOK
  <1>3. ASSUME NEW k \in DOMAIN todo[n], Pending(n, b, k), left[b] > Calls(k) - busy[n] + Slack
        PROVE  Pending(n, b, k)' /\ left'[b] > Calls(k) - busy'[n] + Slack'
    <2>1. todo[n] \in Seq(Blob)
      BY DEF TypeOK
    <2>2. k \in 1..Len(todo[n])
      BY <2>1
    <2>3. Calls(k) \in Nat
      BY <2>1, <2>2, CallsFacts
    <2> QED
      BY <1>1, <1>2, <1>3, <2>3 DEF Pending
  <1>4. ASSUME left[b] > UntilScan(n) + Calls(RenewBatchSize) + Slack
        PROVE  left'[b] > UntilScan(n)' + Calls(RenewBatchSize) + Slack'
    <2>1. UntilScan(n)' = UntilScan(n)
      BY DEF UntilScan, UntilTick, Calls, Larger
    <2> QED
      BY <1>1, <1>2, <1>4, <2>1, ScanFacts, RoundFacts
  <1> QED
    BY <1>3, <1>4 DEF InTime, Calls

\* A node that turns to the next blob of its scan has no longer to go for any
\* of the blobs after it, nor to its next scan.
LEMMA NextInTime ==
  ASSUME TypeOK, TypeOK', Short, NEW n \in Node, NEW b \in Blob, InTime(n, b),
         left' = left, faults' = faults, UNCHANGED ticker,
         pc[n] # "wait", NextItem(n), Current(n) = b => pc[n] = "update"
  PROVE  InTime(n, b)'
  <1>1. Slack' = Slack /\ Slack \in Nat
    BY SlackFacts
  <1>2. left[b] \in Nat /\ busy[n] \in Nat /\ busy[n] <= CallTime /\ CallTime \in Nat
    BY BoundsAssumption DEF TypeOK
  <1>3. todo[n] \in Seq(Blob) /\ todo[n] # <<>>
    BY DEF TypeOK
  <1>4. /\ todo'[n] = Tail(todo[n]) /\ busy'[n] = 0
        /\ pc'[n] = IF Tail(todo[n]) = <<>> THEN "wait" ELSE "read"
    BY DEF NextItem, Work, TypeOK
  <1>5. ASSUME NEW k \in DOMAIN todo[n], Pending(n, b, k), left[b] > Calls(k) - busy[n] + Slack
        PROVE  \E j \in DOMAIN todo'[n] : Pending(n, b, j)' /\ left'[b] > Calls(j) - busy'[n] + Slack'
    <2>1. k \in 1..Len(todo[n]) /\ k # 1
      BY <1>3, <1>5 DEF Pending, Current
    <2> k - 1 \in Nat /\ k = (k - 1) + 1 /\ k - 1 >= 1
      BY <1>3, <2>1
    <2>2. PICK j \in Nat : k = j + 1 /\ j >= 1
      OBVIOUS
    <2>3. j \in DOMAIN Tail(todo[n]) /\ Tail(todo[n])[j] = todo[n][k] /\ Tail(todo[n]) # <<>>
      <3>1. j \in 1..Len(Tail(todo[n])) /\ Tail(todo[n])[j] = todo[n][j + 1]
        BY <1>3, <2>1, <2>2, TailFacts
      <3>2. DOMAIN Tail(todo[n]) = 1..Len(Tail(todo[n]))
        BY <1>3, TailFacts
      <3>3. Tail(todo[n])[j] = todo[n][k]
        BY <2>2, <3>1, Zenon
      <3>4. Tail(todo[n]) # <<>>
        <4>1. \A x : x \in 1..Len(<<>>) => FALSE
          OBVIOUS
        <4> QED
          BY <3>1, <4>1, Zenon
      <3> QED
        BY <3>1, <3>2, <3>3, <3>4, Zenon
    <2>4. Pending(n, b, j)'
      BY <1>4, <1>5, <2>3 DEF Pending
    <2>5. Calls(k) = Calls(j) + CallTime /\ Calls(j) \in Nat
      BY <2>2, CallsFacts
    <2>6. left[b] > Calls(j) + CallTime - busy[n] + Slack
      BY <1>1, <1>2, <1>5, <2>5
    <2>7. left[b] > Calls(j) - 0 + Slack
      BY <1>1, <1>2, <2>5, <2>6
    <2> QED
      BY <1>1, <1>4, <2>3, <2>4, <2>7
  <1>6. ASSUME left[b] > UntilScan(n) + Calls(RenewBatchSize) + Slack
        PROVE  left'[b] > UntilScan(n)' + Calls(RenewBatchSize) + Slack'
    <2>1. PICK j \in Nat : Len(todo[n]) = j + 1 /\ Len(todo'[n]) = j
      BY <1>3, <1>4
    <2>2. Calls(Len(todo[n])) = Calls(j) + CallTime /\ Calls(j) \in Nat
      BY <2>1, CallsFacts
    <2>3. UntilTick(n)' = UntilTick(n) /\ UntilTick(n) \in Nat
      BY TickFacts DEF UntilTick, ticker
    <2>4. UntilScan(n) \in Nat /\ UntilScan(n) >= UntilTick(n) /\ UntilScan(n) >= Calls(j)
      BY <1>2, <2>2, ScanFacts
    <2>5. UntilScan(n)' = IF pc'[n] = "wait" THEN UntilTick(n) ELSE Larger(Calls(j), UntilTick(n))
      <3>1. Calls(j) - 0 = Calls(j)
        BY <2>2
      <3> QED
        BY <1>4, <2>1, <2>3, <3>1 DEF UntilScan, Calls, Larger
    <2>6. UntilScan(n)' \in Nat /\ UntilScan(n)' <= UntilScan(n)
      BY <2>2, <2>3, <2>4, <2>5 DEF Larger
    <2> QED
      BY <1>1, <1>2, <1>6, <2>4, <2>6, RoundFacts
  <1> QED
    BY <1>5, <1>6 DEF InTime, Calls

\* A scan that its LIMIT does not cut lists every due blob.
LEMMA BatchCoversDue ==
  ASSUME TypeOK, LeadSuffices, NEW q \in Batches, IsBatch(q), NEW b \in Due
  PROVE  \E i \in DOMAIN q : q[i] = b
  <1> SUFFICES ASSUME \A i \in DOMAIN q : q[i] # b PROVE FALSE
    OBVIOUS
  <1>1. q \in Seq(Blob) /\ Len(q) = RenewBatchSize
    BY DEF Batches, IsBatch
  <1>2. q \in [1..RenewBatchSize -> Blob \ {b}]
    BY <1>1
  <1>3. IsFiniteSet(1..RenewBatchSize) /\ Cardinality(1..RenewBatchSize) = RenewBatchSize
    BY FS_Interval, RenewAssumption
  <1>4. b \in Blob
    BY DEF Due, TypeOK
  <1>5. IsFiniteSet(Blob) /\ Cardinality(Blob) <= RenewBatchSize /\ Cardinality(Blob) \in Nat
    BY FS_CardinalityType DEF LeadSuffices
  <1>6. IsFiniteSet(Blob \ {b}) /\ Cardinality(Blob \ {b}) = Cardinality(Blob) - 1
    BY <1>4, <1>5, FS_RemoveElement
  <1>7. Cardinality(Blob \ {b}) < Cardinality(1..RenewBatchSize)
    BY <1>3, <1>5, <1>6, RenewAssumption
  <1>8. \E i, j \in 1..RenewBatchSize : i # j /\ q[i] = q[j]
    <2> DEFINE S == 1..RenewBatchSize
    <2> DEFINE T == Blob \ {b}
    <2>1. IsFiniteSet(S) /\ IsFiniteSet(T) /\ Cardinality(T) < Cardinality(S) /\ q \in [S -> T]
      BY <1>2, <1>3, <1>6, <1>7
    <2> HIDE DEF S, T
    <2>2. \E i, j \in S : i # j /\ q[i] = q[j]
      BY <2>1, FS_PigeonHole
    <2> QED
      BY <2>2 DEF S
  <1>9. \A i, j \in 1..RenewBatchSize : i < j => q[i] # q[j]
    BY <1>1 DEF IsBatch
  <1> QED
    BY <1>8, <1>9

\* A worker's list is never longer than a batch.
LEMMA ShortStep ==
  ASSUME TypeOK, Short, [Next]_vars
  PROVE  Short'
  <1> SUFFICES ASSUME NEW m \in Node PROVE Len(todo'[m]) <= RenewBatchSize
    BY DEF Short
  <1>1. Len(todo[m]) <= RenewBatchSize /\ RenewBatchSize \in Nat
    BY RenewAssumption DEF Short
  <1>2. ASSUME NEW n \in Node, NEW q \in Seq(Blob), Work(n, q), Len(q) <= RenewBatchSize
        PROVE  Len(todo'[m]) <= RenewBatchSize
    BY <1>1, <1>2 DEF Work, TypeOK
  <1>3. ASSUME NEW n \in Node, NextItem(n), pc[n] # "wait"
        PROVE  Len(todo'[m]) <= RenewBatchSize
    <2>1. todo[n] \in Seq(Blob) /\ todo[n] # <<>> /\ Len(todo[n]) <= RenewBatchSize
      BY <1>3 DEF TypeOK, Short
    <2>2. Tail(todo[n]) \in Seq(Blob) /\ Len(Tail(todo[n])) <= RenewBatchSize
      BY <1>1, <2>1
    <2> QED
      BY <1>2, <1>3, <2>2 DEF NextItem
  <1>4. ASSUME NEW n \in Node, Scan(n) PROVE Len(todo'[m]) <= RenewBatchSize
    <2>1. ASSUME NEW q \in Batches, IsBatch(q), Work(n, q)
          PROVE  Len(todo'[m]) <= RenewBatchSize
      <3>1. q \in Seq(Blob) /\ Len(q) <= RenewBatchSize
        BY <2>1 DEF Batches, IsBatch
      <3> QED
        BY <1>2, <2>1, <3>1
    <2> QED
      BY <1>1, <1>4, <2>1 DEF Scan
  <1>5. ASSUME NEW n \in Node, Read(n) \/ Store(n) \/ Update(n)
        PROVE  Len(todo'[m]) <= RenewBatchSize
    BY <1>1, <1>3, <1>5 DEF Read, Store, Update
  <1>6. ASSUME NEW n \in Node, Restart(n) PROVE Len(todo'[m]) <= RenewBatchSize
    <2>1. <<>> \in Seq(Blob) /\ Len(<<>>) <= RenewBatchSize
      BY <1>1
    <2> QED
      BY <1>2, <1>6, <2>1 DEF Restart
  <1>7. CASE UNCHANGED todo
    BY <1>1, <1>7
  <1> QED
    BY <1>4, <1>5, <1>6, <1>7 DEF Next, Upload, Record, Delete, Tick, vars

\* Storage paid for as long as a store pays, less one call, is enough for a
\* round and every failure to come; so is storage that ends a LeadNeeded after
\* now but for the error of expires_at.
LEMMA PaidIsEnough ==
  ASSUME TypeOK, TypeOK', LeadSuffices, NEW x \in Nat,
         x + EpochDuration + CallTime > Term \/ x + EpochDuration + CallTime > Lead
  PROVE  x > Round + Slack /\ x > Round + Slack'
  <1>1. /\ Round \in Nat /\ Slack \in Nat /\ Slack' \in Nat
        /\ Slack + Round <= (MaxFaults + 1) * Round
    BY RoundFacts, SlackFacts
  <1>2. Slack' + Round <= (MaxFaults + 1) * Round
    <2>1. faults' \in Nat /\ faults' <= MaxFaults /\ MaxFaults \in Nat
      BY BoundsAssumption DEF TypeOK
    <2>2. PICK f \in Nat : f <= MaxFaults /\ Slack' = (MaxFaults - f) * Round
      BY <2>1, Zenon DEF Slack
    <2>3. PICK d \in Nat : d = MaxFaults - f
      BY <2>1, <2>2, DifferenceFacts, Zenon
    <2>4. d + 1 <= MaxFaults + 1
      <3>1. f <= MaxFaults
        BY <2>2
      <3> QED
        BY <2>1, <2>3, <3>1
    <2>5. (d + 1) * Round = d * Round + Round /\ (d + 1) * Round <= (MaxFaults + 1) * Round
      BY <1>1, <2>1, <2>4
    <2> QED
      BY <2>2, <2>3, <2>5, Zenon
  <1>3. PICK z \in Nat : z = (MaxFaults + 1) * Round
    BY <1>1, ProductFacts, BoundsAssumption
  <1>4. Term \in Nat /\ Lead \in Nat /\ EpochDuration \in Nat /\ CallTime \in Nat
    BY TermFacts, EpochsAssumption, RenewAssumption, BoundsAssumption DEF Lead
  <1>5. Term >= EpochDuration + CallTime + z /\ Lead >= EpochDuration + CallTime + z
    BY <1>3 DEF LeadSuffices, LeadNeeded
  <1>6. PICK e \in Nat : e = Slack' /\ e + Round <= z
    BY <1>1, <1>2, <1>3, Zenon
  <1>7. x > Round + Slack
    BY <1>1, <1>3, <1>4, <1>5
  <1>8. e + Round <= z
    BY <1>6
  <1>9. x > Round + e
    BY <1>1, <1>4, <1>5, <1>8
  <1> QED
    BY <1>6, <1>7, <1>9, Zenon

\* A batch just listed reaches every due blob in time.
LEMMA ScanInTime ==
  ASSUME TypeOK, Short, TypeOK', LeadSuffices, NEW n \in Node, NEW b \in Due, InTime(n, b),
         pc[n] = "wait", tick[n], NEW q \in Batches, IsBatch(q), Work(n, q),
         left' = left, faults' = faults
  PROVE  InTime(n, b)'
  <1>1. Slack' = Slack /\ Slack \in Nat
    BY SlackFacts
  <1>2. b \in Blob /\ left[b] \in Nat
    BY DEF Due, TypeOK
  <1>3. left[b] > Calls(RenewBatchSize) + Slack
    <2>1. UntilScan(n) = 0
      BY DEF UntilScan, UntilTick
    <2> QED
      BY <1>1, <1>2, <2>1, RoundFacts DEF InTime, Pending
  <1>4. PICK i \in DOMAIN q : q[i] = b
    BY BatchCoversDue
  <1>5. q \in Seq(Blob) /\ Len(q) <= RenewBatchSize
    BY DEF Batches, IsBatch
  <1>6. i \in 1..Len(q) /\ q # <<>>
    BY <1>4, <1>5
  <1>7. todo'[n] = q /\ pc'[n] = "read" /\ busy'[n] = 0
    BY <1>6 DEF Work, TypeOK
  <1>8. Calls(i) \in Nat /\ Calls(i) <= Calls(RenewBatchSize)
    BY <1>5, <1>6, CallsFacts, CallsMonotone, RenewAssumption
  <1>9. left[b] > Calls(i) - 0 + Slack
    BY <1>1, <1>2, <1>3, <1>8, RoundFacts
  <1>10. Pending(n, b, i)' /\ i \in DOMAIN todo'[n]
    BY <1>4, <1>6, <1>7 DEF Pending
  <1>11. left'[b] > Calls(i) - busy'[n] + Slack'
    BY <1>1, <1>7, <1>9
  <1> QED
    BY <1>10, <1>11 DEF InTime, Calls

\* Time brings every node nearer to its next attempt as fast as it uses up the
\* storage.
LEMMA TickInTime ==
  ASSUME TypeOK, Short, TypeOK', NEW n \in Node, NEW b \in Blob, InTime(n, b), Tick
  PROVE  InTime(n, b)'
  <1>1. Slack' = Slack /\ Slack \in Nat
    BY SlackFacts DEF Tick
  <1>2. left[b] \in Nat /\ left[b] > Slack
    BY <1>1, InTimeFacts DEF TypeOK
  <1>3. left'[b] = left[b] - 1
    BY <1>1, <1>2 DEF Tick, Less1, TypeOK
  <1>4. pc' = pc /\ todo' = todo
    BY DEF Tick
  <1>5. busy[n] \in Nat /\ CallTime \in Nat /\ timer[n] \in 1..RenewInterval /\ RenewInterval \in Nat
    BY BoundsAssumption, RenewAssumption DEF TypeOK
  <1>6. ASSUME NEW k \in DOMAIN todo[n], Pending(n, b, k), left[b] > Calls(k) - busy[n] + Slack
        PROVE  Pending(n, b, k)' /\ left'[b] > Calls(k) - busy'[n] + Slack'
    <2>1. busy'[n] = busy[n] + 1
      BY <1>6 DEF Tick, Pending
    <2>2. todo[n] \in Seq(Blob)
      BY DEF TypeOK
    <2>3. Calls(k) \in Nat
      <3>1. k \in 1..Len(todo[n])
        BY <2>2
      <3> QED
        BY <2>2, <3>1, CallsFacts
    <2>4. left[b] - 1 > Calls(k) - (busy[n] + 1) + Slack
      BY <1>1, <1>2, <1>5, <1>6, <2>3
    <2> QED
      BY <1>1, <1>3, <1>4, <1>6, <2>1, <2>4 DEF Pending
  <1>7. ASSUME left[b] > UntilScan(n) + Calls(RenewBatchSize) + Slack
        PROVE  left'[b] > UntilScan(n)' + Calls(RenewBatchSize) + Slack'
    <2>1. UntilTick(n) \in Nat
      BY TickFacts
    <2>2. UntilTick(n)' = Less1(UntilTick(n))
      <3>1. tick'[n] = (tick[n] \/ timer[n] = 1)
        BY DEF Tick
      <3>2. timer'[n] = IF timer[n] = 1 THEN RenewInterval ELSE timer[n] - 1
        BY DEF Tick
      <3>3. UntilTick(n)' = IF tick'[n] THEN 0 ELSE timer'[n]
        BY DEF UntilTick
      <3>4. CASE tick[n]
        BY <3>1, <3>3, <3>4 DEF UntilTick, Less1
      <3>5. CASE ~tick[n] /\ timer[n] = 1
        <4>1. UntilTick(n)' = 0 /\ UntilTick(n) = 1
          BY <3>1, <3>3, <3>5, Zenon DEF UntilTick
        <4> QED
          BY <4>1 DEF Less1
      <3>6. CASE ~tick[n] /\ timer[n] # 1
        <4>1. UntilTick(n)' = timer[n] - 1 /\ UntilTick(n) = timer[n]
          BY <3>1, <3>2, <3>3, <3>6, Zenon DEF UntilTick
        <4> QED
          BY <1>5, <4>1 DEF Less1
      <3> QED
        BY <3>4, <3>5, <3>6
    <2>3. CASE pc[n] = "wait"
      <3>1. UntilScan(n) = UntilTick(n) /\ UntilScan(n)' = UntilTick(n)' /\ UntilTick(n) # 0
        BY <1>4, <1>5, <2>3 DEF UntilScan, UntilTick, Tick
      <3>2. UntilScan(n)' = UntilScan(n) - 1
        BY <2>1, <2>2, <3>1 DEF Less1
      <3>3. left[b] - 1 > (UntilScan(n) - 1) + Calls(RenewBatchSize) + Slack
        BY <1>1, <1>2, <1>7, <2>1, <3>1, RoundFacts
      <3> QED
        BY <1>1, <1>3, <3>2, <3>3
    <2>4. CASE pc[n] # "wait"
      <3>1. busy[n] < CallTime /\ busy'[n] = busy[n] + 1
        BY <2>4 DEF Tick
      <3>2. todo[n] \in Seq(Blob) /\ todo[n] # <<>>
        BY <2>4 DEF TypeOK
      <3>3. Len(todo[n]) \in Nat /\ 1 <= Len(todo[n])
        BY <3>2
      <3>4. Calls(1) <= Calls(Len(todo[n])) /\ Calls(1) = CallTime /\ Calls(Len(todo[n])) \in Nat
        BY <1>5, <3>3, CallsMonotone, CallsFacts DEF Calls
      <3>5. UntilScan(n) = Larger(Calls(Len(todo[n])) - busy[n], UntilTick(n))
        BY <2>4 DEF UntilScan
      <3>6. UntilScan(n)' = Larger(Calls(Len(todo[n])) - (busy[n] + 1), Less1(UntilTick(n)))
        BY <1>4, <2>2, <2>4, <3>1 DEF UntilScan, Calls, Larger
      <3>7. /\ UntilScan(n) \in Nat
            /\ Larger(Calls(Len(todo[n])) - (busy[n] + 1), Less1(UntilTick(n))) = UntilScan(n) - 1
        BY <1>5, <2>1, <3>1, <3>4, <3>5, SMTT(30) DEF Larger, Less1
      <3>8. left[b] - 1 > (UntilScan(n) - 1) + Calls(RenewBatchSize) + Slack
        BY <1>1, <1>2, <1>7, <3>7, RoundFacts
      <3> QED
        BY <1>1, <1>3, <3>6, <3>7, <3>8
    <2> QED
      BY <2>3, <2>4
  <1> QED
    BY <1>4, <1>6, <1>7 DEF InTime, Calls

\* Every step keeps every due blob in time, at every node.
LEMMA TimelyStep ==
  ASSUME LeadSuffices, LapseInv, [Next]_vars
  PROVE  Timely'
  <1>0. TypeOK /\ TypeOK' /\ Short /\ Short' /\ Inv /\ Inv' /\ Timely
    BY InvStep, ShortStep DEF LapseInv, Inv
  <1>a. \A c \in Blob : left[c] >= left[c]
    BY <1>0 DEF TypeOK
  <1> SUFFICES ASSUME NEW m \in Node, NEW c \in indexed', recorded'[c] <= Lead
               PROVE  InTime(m, c)'
    BY DEF Timely
  <1>b. c \in Blob
    BY <1>0 DEF TypeOK
  \* What a step that leaves this node and its deadlines alone preserves.
  <1>c. ASSUME c \in indexed, recorded'[c] = recorded[c] PROVE InTime(m, c)
    BY <1>0, <1>c DEF Timely
  <1>d. ASSUME c \in indexed, recorded'[c] = recorded[c], left'[c] >= left[c], faults' = faults,
               pc'[m] = pc[m], todo'[m] = todo[m], busy'[m] = busy[m],
               timer'[m] = timer[m], tick'[m] = tick[m]
        PROVE  InTime(m, c)'
    BY <1>0, <1>b, <1>c, <1>d, IdleInTime
  <1>e. ASSUME c \in indexed, recorded'[c] = recorded[c], left'[c] >= left[c], Fault
        PROVE  InTime(m, c)'
    BY <1>0, <1>b, <1>c, <1>e, FaultInTime
  <1>f. ASSUME left'[c] + EpochDuration + CallTime > Term \/ left'[c] + EpochDuration + CallTime > Lead
        PROVE  InTime(m, c)'
    <2>1. PICK x \in Nat : x = left'[c]
      BY <1>0, <1>b DEF TypeOK
    <2>2. x + EpochDuration + CallTime > Term \/ x + EpochDuration + CallTime > Lead
      BY <1>f, <2>1
    <2>3. x > Round + Slack'
      BY <1>0, <2>2, PaidIsEnough
    <2>4. Slack' \in Nat /\ left'[c] > Round + Slack'
      BY <1>0, <2>1, <2>3, SlackFacts
    <2> QED
      BY <1>0, <1>b, <2>4, RoundIsInTime
  <1>1. ASSUME NEW b \in Blob, Upload(b) PROVE InTime(m, c)'
    <2>1. left'[c] >= left[c]
      BY <1>0, <1>1, <1>b, CertifyTypes DEF Upload
    <2> QED
      BY <1>1, <1>d, <2>1 DEF Upload, index, ticker
  <1>2. ASSUME NEW b \in Blob, NEW ok \in BOOLEAN, Record(b, ok) PROVE InTime(m, c)'
    <2>1. CASE c = b /\ ok
      <3>1. left[b] + delay[b] + EpochDuration > Term /\ delay[b] \in 0..CallTime /\ left'[b] = left[b]
        BY <1>0, <1>2 DEF Inv, Margin, Record, TypeOK
      <3>2. left[b] \in Nat /\ EpochDuration \in Nat /\ CallTime \in Nat /\ Term \in Nat
        BY <1>0, TermFacts, EpochsAssumption, BoundsAssumption DEF TypeOK
      <3>3. left[b] + EpochDuration + CallTime > Term
        BY <3>1, <3>2
      <3> QED
        BY <1>f, <2>1, <3>1, <3>3
    <2>2. CASE ~(c = b /\ ok)
      <3>1. c \in indexed /\ recorded'[c] = recorded[c]
        BY <1>0, <1>2, <1>b, <2>2 DEF Record, TypeOK, index
      <3> QED
        BY <1>2, <1>a, <1>b, <1>d, <3>1 DEF Record, ticker
    <2> QED
      BY <2>1, <2>2
  <1>3. ASSUME NEW b \in Blob, Delete(b) PROVE InTime(m, c)'
    <2>1. c \in indexed /\ recorded'[c] = recorded[c]
      BY <1>0, <1>3, <1>b DEF Delete, TypeOK
    <2> QED
      BY <1>3, <1>a, <1>b, <1>d, <2>1 DEF Delete, ticker
  <1>4. ASSUME NEW n \in Node, Scan(n) PROVE InTime(m, c)'
    <2>1. left' = left /\ c \in indexed /\ recorded'[c] = recorded[c] /\ left'[c] >= left[c]
      BY <1>4, <1>a, <1>b DEF Scan, index
    <2>2. CASE \E q \in Batches : IsBatch(q) /\ Work(n, q) /\ UNCHANGED faults
      <3>1. PICK q \in Batches : IsBatch(q) /\ Work(n, q) /\ faults' = faults
        BY <2>2
      <3>2. CASE m = n
        <4>1. c \in Due /\ pc[n] = "wait" /\ tick[n]
          BY <1>4, <2>1 DEF Due, Scan
        <4> QED
          BY <1>0, <1>c, <2>1, <3>1, <3>2, <4>1, ScanInTime
      <3>3. CASE m # n
        <4>1. pc'[m] = pc[m] /\ todo'[m] = todo[m] /\ busy'[m] = busy[m] /\ timer'[m] = timer[m] /\ tick'[m] = tick[m]
          BY <1>0, <1>4, <3>1, <3>3 DEF Scan, Work, TypeOK
        <4> QED
          BY <1>d, <2>1, <3>1, <4>1
      <3> QED
        BY <3>2, <3>3
    <2>3. CASE Fault
      BY <1>e, <2>1, <2>3
    <2> QED
      BY <1>4, <2>2, <2>3 DEF Scan
  <1>5. ASSUME NEW n \in Node, Read(n) PROVE InTime(m, c)'
    <2>1. left' = left /\ c \in indexed /\ recorded'[c] = recorded[c] /\ left'[c] >= left[c] /\ UNCHANGED ticker
      BY <1>5, <1>a, <1>b DEF Read, index
    <2>2. CASE m # n /\ faults' = faults
      <3>1. pc'[m] = pc[m] /\ todo'[m] = todo[m] /\ busy'[m] = busy[m] /\ timer'[m] = timer[m] /\ tick'[m] = tick[m]
        BY <1>0, <1>5, <2>2, SMTT(30) DEF Read, NextItem, Work, TypeOK, ticker
      <3> QED
        BY <1>d, <2>1, <2>2, <3>1
    <2>3. CASE m = n /\ NextItem(n) /\ left[Current(n)] = 0 /\ faults' = faults
      <3>1. Slack \in Nat /\ left[c] > Slack /\ left[c] \in Nat
        BY <1>0, <1>b, <1>c, <2>1, SlackFacts, InTimeFacts DEF TypeOK
      <3>2. Current(n) # c
        BY <2>3, <3>1
      <3> QED
        BY <1>0, <1>5, <1>b, <1>c, <2>1, <2>3, <3>2, NextInTime DEF Read
    <2>4. CASE m = n /\ pc' = [pc EXCEPT ![n] = "store"] /\ UNCHANGED <<todo, res, busy, faults>>
      <3>1. Slack' = Slack
        BY <1>0, <2>4, SlackFacts
      <3>2. pc[n] = "read" /\ pc'[n] = "store"
        BY <1>0, <1>5, <2>4 DEF Read, TypeOK
      <3>3. \A k : Pending(n, c, k) => Pending(n, c, k)'
        BY <2>4, <3>2 DEF Pending
      <3>4. UntilScan(n)' = UntilScan(n)
        BY <2>1, <2>4, <3>2 DEF UntilScan, UntilTick, ticker, Calls, Larger
      <3> QED
        BY <1>c, <2>1, <2>4, <3>1, <3>3, <3>4 DEF InTime, Calls
    <2>5. CASE Fault
      BY <1>e, <2>1, <2>5
    <2> QED
      BY <1>5, <2>2, <2>3, <2>4, <2>5 DEF Read
  <1>6. ASSUME NEW n \in Node, Store(n) PROVE InTime(m, c)'
    <2>1. Current(n) \in Blob
      BY <1>0, <1>6, CurrentFacts DEF Store
    <2>2. c \in indexed /\ recorded'[c] = recorded[c] /\ left'[c] >= left[c]
      BY <1>0, <1>6, <1>a, <1>b, <2>1, CertifyTypes DEF Store, index
    <2>3. CASE Fault
      BY <1>e, <2>2, <2>3
    <2>4. CASE /\ Certify(Current(n))
               /\ pc' = [pc EXCEPT ![n] = "update"]
               /\ UNCHANGED <<todo, busy, faults>>
      <3>1. CASE m # n
        <4>1. pc'[m] = pc[m] /\ todo'[m] = todo[m] /\ busy'[m] = busy[m] /\ timer'[m] = timer[m] /\ tick'[m] = tick[m]
          BY <1>0, <1>6, <2>4, <3>1 DEF Store, TypeOK, ticker
        <4> QED
          BY <1>d, <2>2, <2>4, <4>1
      <3>2. CASE m = n /\ c = Current(n)
        <4>1. left'[c] >= Paid /\ Paid \in Nat /\ Paid + EpochDuration > Term
          BY <1>0, <2>1, <2>4, <3>2, CertifyTypes, PaidFacts
        <4>2. PICK x \in Nat : x = left'[c]
          BY <1>0, <1>b DEF TypeOK
        <4>3. x >= Paid
          BY <4>1, <4>2
        <4>4. x + EpochDuration + CallTime > Term
          <5>1. EpochDuration \in Nat /\ CallTime \in Nat /\ Term \in Nat
            BY TermFacts, EpochsAssumption, BoundsAssumption
          <5> HIDE DEF Term, Paid
          <5> QED
            BY <4>1, <4>3, <5>1
        <4> QED
          BY <1>f, <4>2, <4>4
      <3>3. CASE m = n /\ c # Current(n)
        <4>1. Slack' = Slack /\ Slack \in Nat
          BY <1>0, <2>4, SlackFacts
        <4>2. pc[n] = "store" /\ pc'[n] = "update" /\ UNCHANGED ticker
          BY <1>0, <1>6, <2>4 DEF Store, TypeOK
        <4>3. \A k : Pending(n, c, k) => Pending(n, c, k)'
          <5>1. todo[n] \in Seq(Blob) /\ todo[n] # <<>>
            BY <1>0, <4>2 DEF TypeOK
          <5>2. todo[n][1] # c
            BY <3>3, <5>1 DEF Current
          <5> QED
            BY <2>4, <4>2, <5>2 DEF Pending
        <4>4. UntilScan(n)' = UntilScan(n)
          BY <2>4, <4>2 DEF UntilScan, UntilTick, ticker, Calls, Larger
        <4>5. left[c] \in Nat /\ left'[c] \in Nat /\ busy[n] \in Nat /\ UntilScan(n) \in Nat
          <5>1. UntilScan(n) \in Nat
            BY <1>0, ScanFacts
          <5> QED
            BY <1>0, <1>b, <5>1 DEF TypeOK
        <4>6. ASSUME NEW k \in DOMAIN todo[n], left[c] > Calls(k) - busy[n] + Slack
              PROVE  left'[c] > Calls(k) - busy[n] + Slack
          <5>1. todo[n] \in Seq(Blob)
            BY <1>0 DEF TypeOK
          <5>2. k \in 1..Len(todo[n])
            BY <5>1
          <5>3. Calls(k) \in Nat
            BY <5>1, <5>2, CallsFacts
          <5> QED
            BY <2>2, <4>1, <4>5, <4>6, <5>3
        <4>7. ASSUME left[c] > UntilScan(n) + Calls(RenewBatchSize) + Slack
              PROVE  left'[c] > UntilScan(n) + Calls(RenewBatchSize) + Slack
          BY <2>2, <4>1, <4>5, <4>7, RoundFacts
        <4>8. InTime(n, c)
          BY <1>c, <2>2, <3>3
        <4> QED
          BY <2>4, <3>3, <4>1, <4>3, <4>4, <4>6, <4>7, <4>8 DEF InTime, Calls
      <3> QED
        BY <3>1, <3>2, <3>3
    <2> QED
      BY <1>6, <2>3, <2>4 DEF Store
  <1>7. ASSUME NEW n \in Node, Update(n) PROVE InTime(m, c)'
    <2>1. Current(n) \in Blob /\ left' = left /\ c \in indexed /\ left'[c] >= left[c] /\ UNCHANGED ticker
      BY <1>0, <1>7, <1>a, <1>b, CurrentFacts DEF Update, index
    <2>2. CASE recorded'[c] # recorded[c]
      <3>1. c = Current(n)
        BY <1>0, <1>7, <2>1, <2>2 DEF Update, TypeOK, index
      <3>2. left[c] + busy[n] + EpochDuration > Term /\ busy[n] \in 0..CallTime /\ left[c] \in Nat
        BY <1>0, <1>7, <1>b, <3>1 DEF Inv, Margin, Update, TypeOK
      <3>3. left[c] + EpochDuration + CallTime > Term
        BY <3>2, TermFacts, EpochsAssumption, BoundsAssumption
      <3> QED
        BY <1>f, <2>1, <3>3
    <2>3. CASE recorded'[c] = recorded[c] /\ faults' = faults
      <3>1. CASE m = n
        BY <1>0, <1>7, <1>b, <1>c, <2>1, <2>3, <3>1, NextInTime DEF Update
      <3>2. CASE m # n
        <4>1. pc'[m] = pc[m] /\ todo'[m] = todo[m] /\ busy'[m] = busy[m] /\ timer'[m] = timer[m] /\ tick'[m] = tick[m]
          BY <1>0, <1>7, <3>2 DEF Update, NextItem, Work, TypeOK, ticker
        <4> QED
          BY <1>d, <2>1, <2>3, <4>1
      <3> QED
        BY <3>1, <3>2
    <2>4. CASE recorded'[c] = recorded[c] /\ Fault
      BY <1>e, <2>1, <2>4
    <2> QED
      BY <1>7, <2>2, <2>3, <2>4 DEF Update
  <1>8. ASSUME NEW n \in Node, Restart(n) PROVE InTime(m, c)'
    <2>1. c \in indexed /\ recorded'[c] = recorded[c] /\ left'[c] >= left[c] /\ Fault
      BY <1>8, <1>a, <1>b DEF Restart, index
    <2> QED
      BY <1>e, <2>1
  <1>9. ASSUME Tick PROVE InTime(m, c)'
    <2>1. c \in indexed /\ recorded'[c] = Less1(recorded[c]) /\ recorded[c] \in Nat /\ Lead \in Nat
      BY <1>0, <1>9, <1>b, EpochsAssumption, RenewAssumption DEF Tick, TypeOK, Lead
    <2>2. CASE recorded[c] <= Lead
      <3>1. InTime(m, c)
        BY <1>0, <2>1, <2>2 DEF Timely
      <3> QED
        BY <1>0, <1>9, <1>b, <3>1, TickInTime
    <2>3. CASE ~(recorded[c] <= Lead)
      <3>1. recorded'[c] = Lead
        BY <2>1, <2>3 DEF Less1
      <3>2. recorded'[c] < left'[c] + EpochDuration + CallTime
        BY <1>0 DEF Inv, ExpiryWithinEpoch
      <3>3. left'[c] \in Nat /\ EpochDuration \in Nat /\ CallTime \in Nat
        BY <1>0, <1>b, EpochsAssumption, BoundsAssumption DEF TypeOK
      <3>4. left'[c] + EpochDuration + CallTime > Lead
        BY <2>1, <3>1, <3>2, <3>3
      <3> QED
        BY <1>f, <3>4
    <2> QED
      BY <2>2, <2>3
  <1>10. CASE UNCHANGED vars
    BY <1>10, <1>a, <1>b, <1>d DEF vars
  <1> QED
    BY <1>1, <1>2, <1>3, <1>4, <1>5, <1>6, <1>7, <1>8, <1>9, <1>10 DEF Next

\* While LeadSuffices and LapseInv hold no indexed blob is gone.
LEMMA LapseInvImplies ==
  ASSUME LeadSuffices, LapseInv
  PROVE  NeverLapses
  <1> SUFFICES ASSUME NEW b \in indexed \ Lost PROVE left[b] > 0
    BY DEF NeverLapses
  <1>1. TypeOK /\ Short /\ b \in Blob /\ left[b] \in Nat /\ recorded[b] \in Nat
    BY DEF LapseInv, Inv, TypeOK
  <1>2. PICK z \in Nat : z = (MaxFaults + 1) * Round
    BY RoundFacts, ProductFacts, BoundsAssumption
  <1>3. EpochDuration \in Nat /\ CallTime \in Nat /\ Lead \in Nat /\ Lead >= EpochDuration + CallTime + z
    BY <1>2, EpochsAssumption, BoundsAssumption, RenewAssumption DEF LeadSuffices, LeadNeeded, Lead
  <1>4. recorded[b] < left[b] + EpochDuration + CallTime
    BY DEF LapseInv, Inv, ExpiryWithinEpoch
  <1>5. CASE recorded[b] > Lead
    BY <1>1, <1>2, <1>3, <1>4, <1>5
  <1>6. CASE recorded[b] <= Lead
    <2>1. PICK n \in Node : InTime(n, b)
      BY <1>6 DEF LapseInv, Timely, LeadSuffices
    <2>2. MaxFaults - faults \in Nat
      BY <1>1, BoundsAssumption DEF TypeOK
    <2>3. Slack \in Nat
      BY <2>2, RoundFacts, ProductFacts DEF Slack
    <2>4. left[b] > Slack
      BY <1>1, <2>1, <2>3, InTimeFacts
    <2> QED
      BY <1>1, <2>3, <2>4
  <1> QED
    BY <1>1, <1>3, <1>5, <1>6

\* The renewal worker keeps every indexed blob alive, whatever the writers and
\* deleters do and however renewals, failed calls and restarts interleave, when
\* RenewLead covers the error of expires_at and one round per failure, and a
\* scan is never cut by its LIMIT (src/renewal.go:46-62, src/index.go:435-441).
THEOREM NoBlobLapses ==
  ASSUME LeadSuffices
  PROVE  Spec => []NeverLapses
  <1>1. Init => LapseInv
    <2> SUFFICES ASSUME Init PROVE LapseInv
      OBVIOUS
    <2>1. Inv
      BY InvInit
    <2>2. Short /\ Timely
      BY RenewAssumption DEF Init, Short, Timely, LeadSuffices
    <2> QED
      BY <2>1, <2>2 DEF LapseInv
  <1>2. LapseInv /\ [Next]_vars => LapseInv'
    BY InvStep, ShortStep, TimelyStep DEF LapseInv, Inv
  <1>3. LapseInv => NeverLapses
    BY LapseInvImplies
  <1> QED
    BY <1>1, <1>2, <1>3, PTL DEF Spec
=============================================================================
