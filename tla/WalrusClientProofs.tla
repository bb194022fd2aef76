------------------------- MODULE WalrusClientProofs -------------------------
(***************************************************************************)
(* Proofs about the Walrus client, for any number of callers, blobs,       *)
(* endpoints and retries: it implements BlobService, and one healthy       *)
(* endpoint is enough for a call to succeed.                               *)
(***************************************************************************)
EXTENDS WalrusClient, TLAPS

\* Whatever can make a call succeed is backed by a stored blob.
Backed ==
    /\ \A a \in 1..Aggregators : visible[a] \subseteq stored
    /\ cached \subseteq stored
    /\ \A c \in Caller : req[c] # "none" => pc[c] = "sent"
    /\ \A c \in Caller : req[c] \in {"created", "already"} => blob[c] \in stored

\* The endpoints a call that was not cancelled has left behind are not healthy.
Passed ==
    \A c \in Caller : pc[c] # "idle" =>
      /\ answer[c] = "none"
      /\ ~cancelled[c] =>
           \A i \in Healthy(op[c]) : ep[c] < i \/ (ep[c] = i /\ pc[c] \in {"check", "sent"})

\* Neither Implements nor HealthyEndpointServes is inductive: the first needs
\* Backed, the second Passed.
Inv == TypeOK /\ Backed /\ Passed /\ HealthyEndpointServes

\* Healthy endpoints are endpoints.
LEMMA HealthyFacts ==
  ASSUME NEW o \in Op
  PROVE  Healthy(o) \subseteq 1..Endpoints(o) /\ Endpoints(o) \in Nat
  BY EndpointAssumption DEF Healthy, Endpoints

\* The invariant holds at the start.
LEMMA InvInit ==
  ASSUME Init
  PROVE  Inv
  BY EndpointAssumption DEF Init, Inv, TypeOK, Backed, Passed, HealthyEndpointServes, Op

\* Goto and Return leave the caller's variables well typed.
CallTypes ==
    /\ op \in [Caller -> Op]
    /\ blob \in [Caller -> Blob]
    /\ pc \in [Caller -> {"idle", "cache", "next", "check", "sent", "sleep"}]
    /\ try \in [Caller -> 0..MaxRetries]
    /\ \A c \in Caller : pc[c] = "sleep" => try[c] < MaxRetries
    /\ req \in [Caller -> {"none", "pending", "created", "already"}]
    /\ cancelled \in [Caller -> BOOLEAN]
    /\ bought \in [Caller -> BOOLEAN]
    /\ answer \in [Caller -> {"none", "ok", "created", "already", "error", "notfound"}]

EndpointTypes ==
    /\ ep \in [Caller -> Nat]
    /\ \A c \in Caller : pc[c] \in {"check", "sent", "sleep"} => ep[c] \in 1..Endpoints(op[c])

WalrusTypes ==
    /\ stored \subseteq Blob
    /\ visible \in [1..Aggregators -> SUBSET Blob]
    /\ late \subseteq Blob
    /\ cached \subseteq Blob

\* TypeOK in the parts that steps change together.
LEMMA TypeParts == TypeOK <=> CallTypes /\ EndpointTypes /\ WalrusTypes
  BY DEF TypeOK, CallTypes, EndpointTypes, WalrusTypes

LEMMA GotoTypes ==
  ASSUME CallTypes, NEW c \in Caller, NEW i \in 0..MaxRetries,
         NEW where \in {"next", "check", "sent", "sleep"},
         where = "sleep" => i < MaxRetries,
         Goto(c, where, i)
  PROVE  CallTypes'
  BY DEF CallTypes, Goto

LEMMA ReturnTypes ==
  ASSUME CallTypes, NEW c \in Caller, NEW ans \in {"ok", "created", "already", "error", "notfound"},
         Return(c, ans)
  PROVE  CallTypes'
  BY EndpointAssumption DEF CallTypes, Return

\* A caller that stays at its endpoint or returns keeps EndpointTypes.
LEMMA SameEndpoint ==
  ASSUME TypeOK, NEW c \in Caller, UNCHANGED <<op, ep>>,
         \A d \in Caller \ {c} : pc'[d] = pc[d],
         pc'[c] \in {"idle", "next"} \/ pc[c] \in {"check", "sent", "sleep"}
  PROVE  EndpointTypes'
  BY DEF TypeOK, EndpointTypes

\* Every step keeps every variable in its type.
LEMMA TypeStep ==
  ASSUME TypeOK, [Next]_vars
  PROVE  TypeOK'
  <1> USE EndpointAssumption
  <1>0. CallTypes /\ EndpointTypes /\ WalrusTypes
    BY TypeParts
  <1>a. 0 \in 0..MaxRetries
    OBVIOUS
  <1> SUFFICES CallTypes' /\ EndpointTypes' /\ WalrusTypes'
    BY DEF TypeOK, CallTypes, EndpointTypes, WalrusTypes
  <1>1. ASSUME NEW c \in Caller, Begin(c)
        PROVE  CallTypes' /\ EndpointTypes' /\ WalrusTypes'
    BY <1>0, <1>1 DEF Begin, CallTypes, EndpointTypes, WalrusTypes, walrus
  <1>2. ASSUME NEW c \in Caller, ProbeCache(c)
        PROVE  CallTypes' /\ EndpointTypes' /\ WalrusTypes'
    <2>1. CallTypes'
      BY <1>0, <1>2, <1>a, GotoTypes, ReturnTypes DEF ProbeCache
    <2>2. EndpointTypes'
      BY <1>0, <1>2, SameEndpoint DEF ProbeCache, Goto, Return, CallTypes
    <2> QED
      BY <1>0, <1>2, <2>1, <2>2 DEF ProbeCache, WalrusTypes, walrus
  <1>3. ASSUME NEW c \in Caller, NextEndpoint(c)
        PROVE  CallTypes' /\ EndpointTypes' /\ WalrusTypes'
    <2>1. CallTypes'
      BY <1>0, <1>3, <1>a, GotoTypes, ReturnTypes DEF NextEndpoint
    <2>2. EndpointTypes'
      <3>1. Endpoints(op[c]) \in Nat /\ ep[c] \in Nat
        BY <1>0, HealthyFacts DEF CallTypes, EndpointTypes
      <3>2. CASE Return(c, "error")
        BY <1>0, <3>2, SameEndpoint DEF Return, CallTypes
      <3>3. CASE ep[c] < Endpoints(op[c]) /\ ep' = [ep EXCEPT ![c] = @ + 1] /\ Goto(c, "check", 0)
        BY <1>0, <3>1, <3>3 DEF Goto, CallTypes, EndpointTypes
      <3> QED
        BY <1>3, <3>2, <3>3 DEF NextEndpoint
    <2> QED
      BY <1>0, <1>3, <2>1, <2>2 DEF NextEndpoint, WalrusTypes, walrus
  <1>4. ASSUME NEW c \in Caller, Attempt(c)
        PROVE  CallTypes' /\ EndpointTypes' /\ WalrusTypes'
    <2>1. try[c] \in 0..MaxRetries
      BY <1>0 DEF CallTypes
    <2>2. CallTypes'
      BY <1>0, <1>4, <1>a, <2>1, GotoTypes DEF Attempt
    <2>3. EndpointTypes'
      BY <1>0, <1>4, SameEndpoint DEF Attempt, Goto, CallTypes
    <2> QED
      BY <1>0, <1>4, <2>2, <2>3 DEF Attempt, WalrusTypes, walrus
  <1>5. ASSUME NEW c \in Caller, Process(c)
        PROVE  CallTypes' /\ EndpointTypes' /\ WalrusTypes'
    <2>1. CallTypes'
      BY <1>0, <1>5 DEF Process, CallTypes
    <2> QED
      BY <1>0, <1>5, <2>1 DEF Process, CallTypes, EndpointTypes, WalrusTypes
  <1>6. ASSUME NEW c \in Caller, StoreOk(c)
        PROVE  CallTypes' /\ EndpointTypes' /\ WalrusTypes'
    <2>1. CallTypes'
      BY <1>0, <1>6, ReturnTypes DEF StoreOk
    <2>2. EndpointTypes'
      BY <1>0, <1>6, SameEndpoint DEF StoreOk, Return, CallTypes
    <2> QED
      BY <1>0, <1>6, <2>1, <2>2 DEF StoreOk, WalrusTypes, walrus
  <1>7. ASSUME NEW c \in Caller, ReadOk(c)
        PROVE  CallTypes' /\ EndpointTypes' /\ WalrusTypes'
    <2>1. CallTypes'
      BY <1>0, <1>7, ReturnTypes DEF ReadOk
    <2>2. EndpointTypes'
      BY <1>0, <1>7, SameEndpoint DEF ReadOk, Return, CallTypes
    <2> QED
      BY <1>0, <1>7, <2>1, <2>2 DEF ReadOk, WalrusTypes, CallTypes, walrus
  <1>8. ASSUME NEW c \in Caller, ReadMissing(c)
        PROVE  CallTypes' /\ EndpointTypes' /\ WalrusTypes'
    <2>1. CallTypes'
      BY <1>0, <1>8, ReturnTypes DEF ReadMissing
    <2>2. EndpointTypes'
      BY <1>0, <1>8, SameEndpoint DEF ReadMissing, Return, CallTypes
    <2> QED
      BY <1>0, <1>8, <2>1, <2>2 DEF ReadMissing, WalrusTypes, walrus
  <1>9. ASSUME NEW c \in Caller, Transient(c)
        PROVE  CallTypes' /\ EndpointTypes' /\ WalrusTypes'
    <2>1. try[c] \in 0..MaxRetries
      BY <1>0 DEF CallTypes
    <2>2. CallTypes'
      BY <1>0, <1>9, <1>a, <2>1, GotoTypes DEF Transient
    <2>3. EndpointTypes'
      BY <1>0, <1>9, SameEndpoint DEF Transient, Goto, CallTypes
    <2> QED
      BY <1>0, <1>9, <2>2, <2>3 DEF Transient, WalrusTypes, CallTypes
  <1>10. ASSUME NEW c \in Caller, Rejected(c)
        PROVE  CallTypes' /\ EndpointTypes' /\ WalrusTypes'
    <2>1. CallTypes'
      BY <1>0, <1>10, <1>a, GotoTypes DEF Rejected
    <2>2. EndpointTypes'
      BY <1>0, <1>10, SameEndpoint DEF Rejected, Goto, CallTypes
    <2> QED
      BY <1>0, <1>10, <2>1, <2>2 DEF Rejected, WalrusTypes, walrus
  <1>11. ASSUME NEW c \in Caller, Wake(c)
        PROVE  CallTypes' /\ EndpointTypes' /\ WalrusTypes'
    <2>1. try[c] + 1 \in 0..MaxRetries
      BY <1>0, <1>11 DEF Wake, CallTypes
    <2>2. CallTypes'
      BY <1>0, <1>11, <1>a, <2>1, GotoTypes DEF Wake
    <2>3. EndpointTypes'
      BY <1>0, <1>11, SameEndpoint DEF Wake, Goto, CallTypes
    <2> QED
      BY <1>0, <1>11, <2>2, <2>3 DEF Wake, WalrusTypes, walrus
  <1>12. ASSUME NEW c \in Caller, Cancel(c)
        PROVE  CallTypes' /\ EndpointTypes' /\ WalrusTypes'
    BY <1>0, <1>12 DEF Cancel, CallTypes, EndpointTypes, WalrusTypes, walrus
  <1>13. ASSUME NEW b \in Blob, LateStore(b)
        PROVE  CallTypes' /\ EndpointTypes' /\ WalrusTypes'
    BY <1>0, <1>13 DEF LateStore, CallTypes, EndpointTypes, WalrusTypes
  <1>14. ASSUME NEW b \in Blob, Evict(b)
        PROVE  CallTypes' /\ EndpointTypes' /\ WalrusTypes'
    BY <1>0, <1>14 DEF Evict, CallTypes, EndpointTypes, WalrusTypes, walrus
  <1>15. ASSUME NEW a \in 1..Aggregators, NEW b \in Blob, Appear(a, b)
        PROVE  CallTypes' /\ EndpointTypes' /\ WalrusTypes'
    BY <1>0, <1>15 DEF Appear, CallTypes, EndpointTypes, WalrusTypes
  <1>16. CASE UNCHANGED vars
    BY <1>0, <1>16 DEF vars, CallTypes, EndpointTypes, WalrusTypes
  <1> QED
    BY <1>1, <1>2, <1>3, <1>4, <1>5, <1>6, <1>7, <1>8, <1>9, <1>10, <1>11, <1>12,
       <1>13, <1>14, <1>15, <1>16 DEF Next, Step

\* Every step keeps what can succeed backed: requests are processed before they
\* are answered, and nothing removes a stored blob.
LEMMA BackedStep ==
  ASSUME TypeOK, Backed, [Next]_vars
  PROVE  Backed'
  <1> USE DEF Backed
  <1>1. ASSUME NEW c \in Caller, Begin(c) PROVE Backed'
    BY <1>1 DEF Begin, TypeOK, walrus
  <1>2. ASSUME NEW c \in Caller, NEW i, NEW where, Goto(c, where, i), UNCHANGED <<stored, visible, cached>>
        PROVE  Backed'
    BY <1>2 DEF Goto, TypeOK
  <1>3. ASSUME NEW c \in Caller, NEW ans, Return(c, ans), UNCHANGED <<stored, visible>>, cached' \subseteq stored
        PROVE  Backed'
    BY <1>3 DEF Return, TypeOK
  <1>4. ASSUME NEW c \in Caller, Process(c) PROVE Backed'
    BY <1>4 DEF Process, TypeOK
  <1>5. ASSUME NEW c \in Caller, Step(c), ~Process(c) PROVE Backed'
    <2>1. CASE ProbeCache(c)
      BY <1>2, <1>3, <2>1 DEF ProbeCache, walrus
    <2>2. CASE NextEndpoint(c)
      BY <1>2, <1>3, <2>2 DEF NextEndpoint, walrus
    <2>3. CASE Attempt(c)
      BY <1>2, <2>3 DEF Attempt, walrus
    <2>4. CASE StoreOk(c)
      BY <1>3, <2>4 DEF StoreOk, walrus
    <2>5. CASE ReadOk(c)
      <3>1. ep[c] \in 1..Aggregators
        BY <2>5 DEF ReadOk, TypeOK, Endpoints
      <3>2. cached' \subseteq stored
        BY <2>5, <3>1 DEF ReadOk
      <3> QED
        BY <1>3, <2>5, <3>2 DEF ReadOk, walrus
    <2>6. CASE ReadMissing(c)
      BY <1>3, <2>6 DEF ReadMissing, walrus
    <2>7. CASE Transient(c)
      BY <1>2, <2>7 DEF Transient
    <2>8. CASE Rejected(c)
      BY <1>2, <2>8 DEF Rejected, walrus
    <2>9. CASE Wake(c)
      BY <1>2, <2>9 DEF Wake, walrus
    <2> QED
      BY <1>5, <2>1, <2>2, <2>3, <2>4, <2>5, <2>6, <2>7, <2>8, <2>9 DEF Step
  <1>6. ASSUME NEW c \in Caller, Cancel(c) PROVE Backed'
    BY <1>6 DEF Cancel, walrus
  <1>7. ASSUME NEW b \in Blob, LateStore(b) \/ Evict(b) PROVE Backed'
    BY <1>7 DEF LateStore, Evict, walrus
  <1>8. ASSUME NEW a \in 1..Aggregators, NEW b \in Blob, Appear(a, b) PROVE Backed'
    BY <1>8 DEF Appear, TypeOK
  <1>9. CASE UNCHANGED vars
    BY <1>9 DEF vars
  <1> QED
    BY <1>1, <1>4, <1>5, <1>6, <1>7, <1>8, <1>9 DEF Next

\* A caller's steps leave the other callers alone.
Others(c) ==
    \A d \in Caller \ {c} :
      /\ op'[d] = op[d] /\ pc'[d] = pc[d] /\ ep'[d] = ep[d]
      /\ cancelled'[d] = cancelled[d] /\ answer'[d] = answer[d]

\* What Passed and HealthyEndpointServes say of one caller.
PassedBy(c) ==
    /\ pc[c] # "idle" =>
         /\ answer[c] = "none"
         /\ ~cancelled[c] =>
              \A i \in Healthy(op[c]) : ep[c] < i \/ (ep[c] = i /\ pc[c] \in {"check", "sent"})
    /\ answer[c] = "error" /\ ~cancelled[c] => Healthy(op[c]) = {}

LEMMA PassedLift ==
  ASSUME Passed, HealthyEndpointServes, NEW c \in Caller, Others(c), PassedBy(c)'
  PROVE  Passed' /\ HealthyEndpointServes'
  BY DEF Passed, HealthyEndpointServes, Others, PassedBy, Healthy

\* Every step keeps the endpoints left behind unhealthy: a healthy endpoint is
\* left only by a success, by a 404 or by a cancelled call.
LEMMA PassedStep ==
  ASSUME TypeOK, Passed, HealthyEndpointServes, [Next]_vars
  PROVE  Passed' /\ HealthyEndpointServes'
  <1>1. ASSUME NEW c \in Caller, Begin(c) PROVE Passed' /\ HealthyEndpointServes'
    <2>1. op'[c] \in Op /\ ep'[c] = 0 /\ answer'[c] = "none"
      BY <1>1 DEF Begin, TypeOK
    <2>2. \A i \in Healthy(op'[c]) : ep'[c] < i
      BY <2>1, HealthyFacts
    <2>3. PassedBy(c)'
      BY <2>1, <2>2 DEF PassedBy, Healthy
    <2>4. Others(c)
      BY <1>1 DEF Begin, Others, TypeOK
    <2> QED
      BY <2>3, <2>4, PassedLift
  <1>2. ASSUME NEW c \in Caller, Step(c) PROVE Passed' /\ HealthyEndpointServes'
    <2>1. Others(c)
      BY <1>2 DEF Step, ProbeCache, NextEndpoint, Attempt, Process, StoreOk, ReadOk, ReadMissing,
                  Transient, Rejected, Wake, Goto, Return, Others, TypeOK
    <2>2. PassedBy(c)
      BY DEF Passed, HealthyEndpointServes, PassedBy
    <2>3. op[c] \in Op /\ ep[c] \in Nat
      BY DEF TypeOK
    <2>4. PassedBy(c)'
      <3>1. CASE ProbeCache(c)
        BY <2>2, <3>1 DEF ProbeCache, Goto, Return, PassedBy, Healthy, TypeOK
      <3>2. CASE NextEndpoint(c)
        <4>1. pc[c] = "next" /\ Healthy(op[c]) \subseteq 1..Endpoints(op[c]) /\ Endpoints(op[c]) \in Nat
          BY <2>3, <3>2, HealthyFacts DEF NextEndpoint
        <4>2. ~cancelled[c] => \A i \in Healthy(op[c]) : ep[c] < i
          BY <2>2, <4>1 DEF PassedBy
        <4>3. CASE ep[c] >= Endpoints(op[c]) /\ Return(c, "error")
          <5>1. ~cancelled[c] => Healthy(op[c]) = {}
            BY <2>3, <4>1, <4>2, <4>3
          <5> QED
            BY <4>3, <5>1 DEF Return, PassedBy, Healthy, TypeOK
        <4>4. CASE ep' = [ep EXCEPT ![c] = @ + 1] /\ Goto(c, "check", 0)
          <5>1. ep'[c] = ep[c] + 1 /\ pc'[c] = "check" /\ answer'[c] = "none"
            BY <2>2, <4>1, <4>4 DEF Goto, PassedBy, TypeOK
          <5>2. ~cancelled[c] => \A i \in Healthy(op[c]) : ep'[c] < i \/ ep'[c] = i
            BY <2>3, <4>1, <4>2, <5>1
          <5> QED
            BY <4>4, <5>1, <5>2 DEF Goto, PassedBy, Healthy
        <4> QED
          BY <3>2, <4>3, <4>4 DEF NextEndpoint
      <3>3. CASE Attempt(c)
        BY <2>2, <3>3 DEF Attempt, Goto, PassedBy, Healthy, TypeOK
      <3>4. CASE Process(c)
        BY <2>2, <3>4 DEF Process, PassedBy, Healthy, TypeOK
      <3>5. CASE StoreOk(c) \/ ReadOk(c) \/ ReadMissing(c)
        BY <2>2, <3>5 DEF StoreOk, ReadOk, ReadMissing, Return, PassedBy, TypeOK
      <3>6. CASE Transient(c) \/ Rejected(c)
        BY <2>2, <3>6 DEF Transient, Rejected, MayFail, Goto, PassedBy, Healthy, TypeOK
      <3>7. CASE Wake(c)
        BY <2>2, <3>7 DEF Wake, Goto, PassedBy, Healthy, TypeOK
      <3> QED
        BY <1>2, <3>1, <3>2, <3>3, <3>4, <3>5, <3>6, <3>7 DEF Step
    <2> QED
      BY <2>1, <2>4, PassedLift
  <1>3. ASSUME NEW c \in Caller, Cancel(c) PROVE Passed' /\ HealthyEndpointServes'
    BY <1>3 DEF Cancel, Passed, HealthyEndpointServes, Healthy, TypeOK
  <1>4. CASE UNCHANGED <<op, pc, ep, cancelled, answer>>
    BY <1>4 DEF Passed, HealthyEndpointServes, Healthy
  <1> QED
    BY <1>1, <1>2, <1>3, <1>4 DEF Next, LateStore, Evict, Appear, vars

\* The strengthened invariant, for every number of callers and endpoints.
LEMMA Invariance == Spec => []Inv
  <1>1. Init => Inv
    BY InvInit
  <1>2. Inv /\ [Next]_vars => Inv'
    BY TypeStep, BackedStep, PassedStep DEF Inv
  <1> QED
    BY <1>1, <1>2, PTL DEF Spec

\* Retries stay within MaxRetries and calls at endpoints they have, for every
\* number of endpoints and retries.
THEOREM TypeCorrect == Spec => []TypeOK
  <1>1. Inv => TypeOK
    BY DEF Inv
  <1> QED
    BY <1>1, Invariance, PTL

\* Failover over any list of endpoints: a call that was not cancelled never
\* fails while one of its endpoints is healthy.
THEOREM Failover == Spec => []HealthyEndpointServes
  <1>1. Inv => HealthyEndpointServes
    BY DEF Inv
  <1> QED
    BY <1>1, Invariance, PTL

-----------------------------------------------------------------------------
(* The client implements BlobService. *)

\* The first state of the client is one of the service.
LEMMA ServiceInit ==
  ASSUME Init
  PROVE  Service!Init
  BY DEF Init, Service!Init

\* A return of the client is a return of the service.
LEMMA ServiceReturn ==
  ASSUME TypeOK, NEW c \in Caller, pc[c] # "idle",
         NEW ans \in {"ok", "created", "already", "error", "notfound"}, Return(c, ans),
         UNCHANGED <<stored, visible>>,
         \/ ans = "error"
         \/ ans \in {"ok", "created", "already"} /\ blob[c] \in stored
         \/ ans = "notfound" /\ op[c] # "store" /\ \E a \in 1..Aggregators : blob[c] \notin visible[a]
  PROVE  Service!Next
  <1> DEFINE res == IF ans \in {"created", "already"} THEN "ok" ELSE ans
  <1>1. res \in {"ok", "error", "notfound"}
    OBVIOUS
  <1>2. Service!Return(c, res)
    BY DEF Return, TypeOK, Service!Return
  <1> QED
    BY <1>1, <1>2 DEF Service!Next

\* A step inside a call is invisible to the service.
LEMMA ServiceGoto ==
  ASSUME TypeOK, NEW c \in Caller, pc[c] # "idle", NEW where, where # "idle", NEW i,
         Goto(c, where, i), UNCHANGED <<stored, visible>>
  PROVE  UNCHANGED Service!vars
  BY DEF Goto, TypeOK, Service!vars

\* Every step of the client is a step of the service or none.
LEMMA ServiceStep ==
  ASSUME Inv, [Next]_vars
  PROVE  [Service!Next]_(Service!vars)
  <1> USE DEF Inv
  <1>1. ASSUME NEW c \in Caller, Begin(c) PROVE Service!Next
    <2>1. PICK o \in Op, b \in Blob :
             /\ op' = [op EXCEPT ![c] = o]
             /\ blob' = [blob EXCEPT ![c] = b]
             /\ pc' = [pc EXCEPT ![c] = IF o = "fetch" THEN "cache" ELSE "next"]
      BY <1>1 DEF Begin
    <2> DEFINE running == [d \in Caller |-> pc[d] # "idle"]
               writes == [d \in Caller |-> op[d] = "store"]
               ans == [d \in Caller |-> IF answer[d] \in {"created", "already"} THEN "ok" ELSE answer[d]]
    <2>a. ~running[c] /\ running' = [running EXCEPT ![c] = TRUE]
      BY <1>1, <2>1 DEF Begin, TypeOK
    <2>b. writes' = [writes EXCEPT ![c] = (o = "store")]
      BY <2>1 DEF TypeOK
    <2>c. ans' = [ans EXCEPT ![c] = "none"]
      BY <1>1 DEF Begin, TypeOK
    <2>d. UNCHANGED <<stored, visible>>
      BY <1>1 DEF Begin, walrus
    <2>2. Service!Begin(c)
      <3> HIDE DEF running, writes, ans
      <3>1. \E w \in BOOLEAN, b1 \in Blob :
               writes' = [writes EXCEPT ![c] = w] /\ blob' = [blob EXCEPT ![c] = b1]
        BY <2>1, <2>b
      <3> USE DEF running, writes, ans
      <3> QED
        BY <2>a, <2>c, <2>d, <3>1 DEF Service!Begin
    <2> QED
      BY <2>2 DEF Service!Next
  <1>2. ASSUME NEW c \in Caller, Step(c) PROVE [Service!Next]_(Service!vars)
    <2>1. CASE ProbeCache(c)
      <3>1. CASE blob[c] \in cached /\ Return(c, "ok")
        BY <2>1, <3>1, ServiceReturn DEF ProbeCache, walrus, Backed
      <3>2. CASE Goto(c, "next", 0)
        BY <2>1, <3>2, ServiceGoto DEF ProbeCache, walrus
      <3> QED
        BY <2>1, <3>1, <3>2 DEF ProbeCache
    <2>2. CASE NextEndpoint(c)
      BY <2>2, ServiceReturn, ServiceGoto DEF NextEndpoint, walrus
    <2>3. CASE Attempt(c) \/ Rejected(c) \/ Wake(c)
      BY <2>3, ServiceGoto DEF Attempt, Rejected, Wake, walrus
    <2>4. CASE Transient(c)
      BY <2>4, ServiceGoto DEF Transient
    <2>5. CASE StoreOk(c)
      <3>1. pc[c] # "idle" /\ req[c] \in {"created", "already"} /\ blob[c] \in stored
        BY <2>5 DEF StoreOk, Backed
      <3>2. Return(c, req[c]) /\ UNCHANGED <<stored, visible>>
        BY <2>5 DEF StoreOk, walrus
      <3> QED
        BY <3>1, <3>2, ServiceReturn
    <2>6. CASE ReadOk(c) \/ ReadMissing(c)
      <3>1. ep[c] \in 1..Aggregators
        BY <2>6 DEF ReadOk, ReadMissing, TypeOK, Endpoints
      <3> QED
        BY <2>6, <3>1, ServiceReturn DEF ReadOk, ReadMissing, walrus, Backed
    <2>7. CASE Process(c)
      <3>1. CASE stored' = stored
        BY <2>7, <3>1 DEF Process, Service!vars
      <3>2. CASE stored' = stored \cup {blob[c]}
        <4>1. blob[c] \in Blob /\ Service!Land(blob[c])
          BY <2>7, <3>2 DEF Process, Service!Land, TypeOK
        <4> QED
          BY <4>1 DEF Service!Next
      <3> QED
        BY <2>7, <3>1, <3>2 DEF Process
    <2> QED
      BY <1>2, <2>1, <2>2, <2>3, <2>4, <2>5, <2>6, <2>7 DEF Step
  <1>3. ASSUME NEW b \in Blob, LateStore(b) PROVE Service!Next
    <2>1. Service!Land(b)
      BY <1>3 DEF LateStore, Service!Land
    <2> QED
      BY <2>1 DEF Service!Next
  <1>4. ASSUME NEW a \in 1..Aggregators, NEW b \in Blob, Appear(a, b) PROVE Service!Next
    <2>1. Service!Appear(a, b)
      BY <1>4 DEF Appear, Service!Appear
    <2> QED
      BY <2>1 DEF Service!Next
  <1>5. ASSUME NEW c \in Caller, Cancel(c) PROVE UNCHANGED Service!vars
    BY <1>5 DEF Cancel, walrus, Service!vars
  <1>6. ASSUME NEW b \in Blob, Evict(b) PROVE UNCHANGED Service!vars
    BY <1>6 DEF Evict, walrus, Service!vars
  <1>7. CASE UNCHANGED vars
    BY <1>7 DEF vars, Service!vars
  <1> QED
    BY <1>1, <1>2, <1>3, <1>4, <1>5, <1>6, <1>7 DEF Next

\* The client keeps the promises of BlobService, whatever is lost, retried,
\* failed over, cancelled or cached.
THEOREM ImplementsService == Spec => Implements
  <1>1. Init => Service!Init
    BY ServiceInit
  <1>2. Inv /\ [Next]_vars => [Service!Next]_(Service!vars)
    BY ServiceStep
  <1> QED
    BY <1>1, <1>2, Invariance, PTL DEF Spec, Implements, Service!Spec
=============================================================================
