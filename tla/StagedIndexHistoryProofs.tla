---------------------- MODULE StagedIndexHistoryProofs ----------------------
(***************************************************************************)
(* Proofs of the properties of StagedIndexHistory that hold: a read never  *)
(* misses a block, and racing claims are disjoint.                         *)
(***************************************************************************)
EXTENDS StagedIndexHistory, StagedIndexProofs

\* The history variables only observe: the invariant of StagedIndex holds.
LEMMA HistoryObserves == HSpec => []IInv
<1>1. HInit => IInv
    BY IInvInit DEF HInit
<1>2. IInv /\ [HNext]_hvars => IInv'
    BY IInvStep DEF HNext, hvars
<1> QED
    BY <1>1, <1>2, PTL DEF HSpec

-----------------------------------------------------------------------------
(* Reads *)

\* A reader past its staging probe either was told the truth, a state without
\* the key existed, or will find the row; the blob of the row it found is stored
\* and holds the key, and every aggregator serves it unless the key has lagged.
Readable(r) ==
    /\ rrec[r] \in walrus /\ rrec[r][rkey[r]] # NoValue
    /\ rrec[r] \in served \/ rkey[r] \in gone[r]

ReadInv ==
    \A r \in Reader :
      /\ rpc[r] = "index" => rkey[r] \in gone[r] \/ rkey[r] \in Indexed
      /\ rpc[r] = "walrus" => Readable(r)
      /\ rres[r] = "notfound" => rkey[r] \in gone[r]

\* What Observe records for a reader.
LEMMA GoneReader ==
    ASSUME HNext, NEW r \in Reader
    PROVE  LET now == IF rop'[r] = "Get" THEN (Absent \cup Lagging)' ELSE Absent' IN
           gone'[r] = IF rpc[r] # "idle" THEN gone[r] \cup now
                      ELSE IF rpc'[r] # "idle" THEN now ELSE gone[r]
BY RolesAssumption DEF HNext, Observe, Busy, Lacking

\* Every step keeps ReadInv.
LEMMA ReadInvStep == IInv /\ IInv' /\ ReadInv /\ [HNext]_hvars => ReadInv'
<1> SUFFICES ASSUME IInv, IInv', ReadInv, [HNext]_hvars, NEW r \in Reader
             PROVE  /\ rpc'[r] = "index" => rkey'[r] \in gone'[r] \/ rkey'[r] \in Indexed'
                    /\ rpc'[r] = "walrus" => Readable(r)'
                    /\ rres'[r] = "notfound" => rkey'[r] \in gone'[r]
    BY DEF ReadInv
<1> DEFINE Goal == /\ rpc'[r] = "index" => rkey'[r] \in gone'[r] \/ rkey'[r] \in Indexed'
                   /\ rpc'[r] = "walrus" => Readable(r)'
                   /\ rres'[r] = "notfound" => rkey'[r] \in gone'[r]
<1>n. [Next]_vars
    BY DEF HNext, hvars
<1>w. walrus \subseteq walrus'
    BY <1>n, WalrusGrows
<1>s. served \subseteq served'
    BY <1>n, ServedGrows
<1>t. rkey[r] \in Key /\ rkey'[r] \in Key /\ rpc[r] \in ReaderPC
    BY DEF IInv, TypeOK
<1>1. CASE UNCHANGED hvars
    BY <1>1 DEF ReadInv, Readable, hvars, vars, Indexed
\* The others move: an answered read keeps its answer, a running one that loses
\* its row gains the absent instant.
<1>2. ASSUME HNext, rpc'[r] = rpc[r], rkey'[r] = rkey[r], rrec'[r] = rrec[r], rres'[r] = rres[r]
      PROVE  Goal
    <2>1. gone[r] \subseteq gone'[r] \/ rpc[r] = "idle"
        BY <1>2, GoneReader
    <2>2. rpc[r] = "idle" => gone'[r] = gone[r]
        BY <1>2, GoneReader
    <2>3. CASE rpc[r] = "index"
        <3>1. CASE rkey[r] \in Indexed /\ rkey[r] \notin Indexed'
            <4>1. rkey[r] \in Absent'
                BY <1>n, <1>t, <3>1, UnindexedIsAbsent DEF Absent
            <4> QED
                BY <1>2, <2>3, <3>1, <4>1, GoneReader
        <3> QED
            BY <1>2, <2>1, <2>3, <3>1 DEF ReadInv
    <2> QED
        BY <1>2, <1>w, <1>s, <2>1, <2>2, <2>3 DEF ReadInv, Readable
<1>3. ASSUME HNext, StartRead(r) PROVE Goal
    BY <1>3 DEF StartRead, IInv, TypeOK
<1>4. ASSUME HNext, ProbeStaging(r) PROVE Goal
    <2>1. UNCHANGED <<staging, index, rkey>> /\ rpc[r] = "staging"
        BY <1>4 DEF ProbeStaging, tables
    <2>2. gone[r] \cup Absent \subseteq gone'[r]
        BY <1>4, <2>1, GoneReader DEF Absent, Visible, Present
    <2>3. CASE rkey[r] \in Present(staging)
        BY <1>4, <2>3 DEF ProbeStaging, Answer, IInv, TypeOK
    <2>4. CASE rkey[r] \notin Present(staging)
        <3>1. rkey[r] \in Indexed \/ rkey[r] \in Absent
            BY <1>t, <2>4, NowhereIsAbsent DEF Absent
        <3>2. rpc'[r] = "index" /\ rres'[r] = rres[r]
            BY <1>4, <2>4 DEF ProbeStaging, IInv, TypeOK
        <3> QED
            BY <2>1, <2>2, <3>1, <3>2 DEF ReadInv, Indexed
    <2> QED
        BY <2>3, <2>4
<1>5. ASSUME HNext, ProbeIndex(r) PROVE Goal
    <2>1. /\ UNCHANGED <<rkey, index, walrus, served>> /\ rpc[r] = "index"
          /\ gone[r] \subseteq gone'[r] /\ (rop[r] = "Get" => Lagging' \subseteq gone'[r])
        BY <1>5, GoneReader DEF ProbeIndex, tables
    <2>2. CASE rkey[r] \notin Indexed
        BY <1>5, <2>1, <2>2 DEF ProbeIndex, Answer, ReadInv, IInv, TypeOK
    <2>3. CASE rkey[r] \in Indexed
        <3>1. index[rkey[r]] \in walrus /\ index[rkey[r]][rkey[r]] # NoValue
            BY <2>3 DEF IInv, WalrusFirst
        <3>2. rop[r] = "Get" => index[rkey[r]] \in served \/ rkey[r] \in gone'[r]
            BY <2>1, <2>3, <3>1 DEF Lagging, Indexed
        <3>3. rop[r] = "Stat" => rpc'[r] = "idle" /\ rres'[r] = "found"
            BY <1>5, <2>3 DEF ProbeIndex, Answer, IInv, TypeOK
        <3>4. rop[r] = "Get" => /\ rpc'[r] = "walrus" /\ rrec'[r] = index[rkey[r]]
                                /\ rres'[r] = rres[r]
            BY <1>5, <2>3 DEF ProbeIndex, IInv, TypeOK
        <3>5. rop[r] \in {"Get", "Stat"}
            BY DEF IInv, TypeOK
        <3> QED
            BY <2>1, <3>1, <3>2, <3>3, <3>4, <3>5 DEF ReadInv, Readable
    <2> QED
        BY <2>2, <2>3
<1>6. ASSUME HNext, ReadWalrus(r) PROVE Goal
    <2>1. Readable(r) /\ rkey'[r] = rkey[r] /\ gone[r] \subseteq gone'[r]
        BY <1>6, GoneReader DEF ReadWalrus, ReadInv
    <2>2. rpc'[r] = "idle"
        BY <1>6 DEF ReadWalrus, Answer, IInv, TypeOK
    <2>3. rres'[r] = "notfound" => rkey[r] \in gone[r]
        BY <1>6, <2>1 DEF ReadWalrus, Readable, Answer, IInv, TypeOK
    <2> QED
        BY <2>1, <2>2, <2>3
<1>7. ASSUME HNext, ReadError(r) PROVE Goal
    BY <1>7 DEF ReadError, Answer, ReadInv, IInv, TypeOK
<1>8. ASSUME HNext, NEW q \in Reader \ {r}, ReaderStep(q) PROVE Goal
    BY <1>8, <1>2 DEF ReaderStep, StartRead, ProbeStaging, ProbeIndex, ReadWalrus, ReadError,
                      Answer, IInv, TypeOK
<1>9. ASSUME HNext, UNCHANGED readerVars PROVE Goal
    BY <1>9, <1>2 DEF readerVars
<1>10. CASE HNext /\ ~ UNCHANGED readerVars
    <2>1. \E q \in Reader : ReaderStep(q)
        BY <1>10, ZenonT(40) DEF HNext, Next, readerVars, ClientStep, FlusherStep, Begin, StagePutMany,
           DirectUpload, PutMany, DeleteIndex, DeleteStaging, Return, ClientCrash, EndCall,
           Select, Lease, Upload, PromoteDelete, PromoteInsert, Release, FlusherCrash,
           LeaseExpire, Appear
    <2> QED
        BY <1>10, <2>1, <1>3, <1>4, <1>5, <1>6, <1>7, <1>8 DEF ReaderStep
<1> QED
    BY <1>1, <1>9, <1>10 DEF hvars

\* Get, Has and GetSize never miss a block that was there throughout the read:
\* "not found" is answered only if at some instant of it the key was absent or,
\* by a Get, its index row named a stored blob that some aggregator did not serve
\* yet, whose 404 ends the read (src/client.go:338-340, src/walrus.go:367-368).
THEOREM ReadsNeverMiss == HSpec => []GetNeverMisses
<1>1. HInit => ReadInv
    BY DEF HInit, Init, ReadInv
<1>2. IInv /\ IInv' /\ ReadInv /\ [HNext]_hvars => ReadInv'
    BY ReadInvStep
<1>3. ReadInv => GetNeverMisses
    BY DEF ReadInv, GetNeverMisses
<1> QED
    BY <1>1, <1>2, <1>3, HistoryObserves, PTL DEF HSpec

-----------------------------------------------------------------------------
(* Claims *)

\* A flusher at work has its lease, unless it was taken away.
LeaseInv == \A f \in Flusher, k \in Key : Packing(f, k) => k \in leased \/ k \in cleared

\* A key enters a pack only by a claim, which finds it unleased and leases it;
\* the other flushers stand still.
LEMMA NewPacking ==
    ASSUME IInv, [Next]_vars, NEW f \in Flusher, NEW k \in Key, Packing(f, k)', ~ Packing(f, k)
    PROVE  /\ k \notin leased /\ k \in leased'
           /\ \A g \in Flusher \ {f} : Packing(g, k)' => Packing(g, k)
<1> USE DEF IInv, TypeOK
<1>1. CASE UNCHANGED flusherVars
    BY <1>1 DEF Packing, flusherVars
<1>2. ASSUME NEW g \in Flusher, FlusherStep(g), g # f PROVE FALSE
    BY <1>2 DEF FlusherStep, Select, Lease, Upload, PromoteDelete, PromoteInsert, Release,
                FlusherCrash, Idle, Packing
<1>3. CASE FlusherStep(f)
    <2>1. \A g \in Flusher \ {f} : Packing(g, k)' => Packing(g, k)
        BY <1>3 DEF FlusherStep, Select, Lease, Upload, PromoteDelete, PromoteInsert, Release,
                    FlusherCrash, Idle, Packing
    <2>2. \E out \in Outcome : Lease(f, out)
        BY <1>3 DEF FlusherStep, Select, Upload, PromoteDelete, PromoteInsert, Release,
                    FlusherCrash, Idle, Packing
    <2>3. PICK out \in Outcome : Lease(f, out)
        BY <2>2
    <2>4. out = "ok" /\ Granted(f) # {} /\ fpack'[f] = Only(staging, Granted(f))
        BY <2>3 DEF Lease, Idle, Packing
    <2>5. k \in Granted(f)
        BY <2>4 DEF Only, Packing
    <2> QED
        BY <2>1, <2>3, <2>4, <2>5 DEF Lease, Granted, Claimable
<1> QED
    BY <1>1, <1>2, <1>3, ZenonT(40)
       DEF Next, vars, flusherVars, ClientStep, ReaderStep, Begin, StagePutMany, DirectUpload,
           PutMany, DeleteIndex, DeleteStaging, Return, ClientCrash, EndCall, LeaseExpire, Appear,
           StartRead, ProbeStaging, ProbeIndex, ReadWalrus, ReadError

\* A second pack gets a block only after the first one's lease ended.
LEMMA ClaimStep ==
    ASSUME IInv, LeaseInv, ClaimsDisjoint, [HNext]_hvars
    PROVE  LeaseInv' /\ ClaimsDisjoint'
<1>n. [Next]_vars
    BY DEF HNext, hvars
<1>1. CASE UNCHANGED hvars
    BY <1>1 DEF hvars, vars, LeaseInv, ClaimsDisjoint, Packing
<1>2. CASE HNext
    <2>1. \A k \in Key :
            k \in cleared' <=>
              \/ k \in cleared /\ \E f \in Flusher : Packing(f, k)'
              \/ k \notin leased' /\ \E f \in Flusher : Packing(f, k) /\ Packing(f, k)'
        BY <1>2 DEF HNext, Observe
    <2>2. ASSUME NEW f \in Flusher, NEW k \in Key, Packing(f, k)'
          PROVE  k \in leased' \/ k \in cleared'
        BY <1>n, <2>1, <2>2, NewPacking
    <2>3. ASSUME NEW f \in Flusher, NEW g \in Flusher, NEW k \in Key,
                 f # g, Packing(f, k)', Packing(g, k)'
          PROVE  k \in cleared'
        <3>1. CASE Packing(f, k) /\ Packing(g, k)
            BY <2>1, <2>3, <3>1 DEF ClaimsDisjoint
        <3>2. CASE ~ Packing(f, k)
            BY <1>n, <2>1, <2>3, <3>2, NewPacking DEF LeaseInv
        <3>3. CASE ~ Packing(g, k)
            BY <1>n, <2>1, <2>3, <3>3, NewPacking DEF LeaseInv
        <3> QED
            BY <3>1, <3>2, <3>3
    <2> QED
        BY <2>2, <2>3 DEF LeaseInv, ClaimsDisjoint
<1> QED
    BY <1>1, <1>2

\* Two flushers whose StageClaims race never build packs that share a block: a
\* block is in two packs only after its lease was taken from the first.
THEOREM RacingClaimsDisjoint == HSpec => []ClaimsDisjoint
<1>1. HInit => LeaseInv /\ ClaimsDisjoint
    BY DEF HInit, Init, LeaseInv, ClaimsDisjoint, Packing
<1>2. IInv /\ LeaseInv /\ ClaimsDisjoint /\ [HNext]_hvars => LeaseInv' /\ ClaimsDisjoint'
    BY ClaimStep
<1> QED
    BY <1>1, <1>2, HistoryObserves, PTL DEF HSpec
=============================================================================
