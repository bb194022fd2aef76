------------------------- MODULE StagedIndexProofs -------------------------
(***************************************************************************)
(* Proofs about StagedIndex, for every set of keys, values, batches,       *)
(* clients, flushers and readers.                                          *)
(***************************************************************************)
EXTENDS StagedIndex, TLAPS

-----------------------------------------------------------------------------
(* Maps from keys to values *)

\* The operations on maps give maps.
LEMMA NothingType == Nothing \in Content
BY DEF Nothing, Content

\* Writing into a table, deleting from it and selecting from it give a table.
LEMMA UpsertType == \A t, u \in Content : Upsert(t, u) \in Content
BY DEF Upsert, Content

LEMMA WithoutType == \A t \in Content, S \in SUBSET Key : Without(t, S) \in Content
BY DEF Without, Content

LEMMA OnlyType == \A t \in Content, S \in SUBSET Key : Only(t, S) \in Content
BY DEF Only, Content

\* The parts of a batch, the empty one included, are well formed.
LEMMA BatchType ==
    ASSUME NEW b \in Batches \cup {EmptyBatch}
    PROVE  b.put \in Content /\ b.del \in SUBSET Key
BY BatchesAssumption, NothingType DEF Batch, EmptyBatch

\* The empty batch writes and deletes nothing, and no call makes it.
LEMMA EmptyBatchParts == EmptyBatch.del = {} /\ Present(EmptyBatch.put) = {}
BY DEF EmptyBatch, Present, Nothing

LEMMA BatchesNotEmpty == EmptyBatch \notin Batches
BY BatchesAssumption

-----------------------------------------------------------------------------
(* Type correctness *)

TablesType ==
    /\ staging \in Content
    /\ leased \subseteq Present(staging)
    /\ index \in [Key -> Content]
    /\ walrus \subseteq Content
    /\ served \subseteq walrus

ClientType ==
    /\ cpc \in [Client -> ClientPC]
    /\ batch \in [Client -> Batches \cup {EmptyBatch}]
    /\ \A c \in Client : batch[c] = EmptyBatch <=> cpc[c] = "idle"
    /\ ctodo \in [Client -> SUBSET Key]
    /\ ckeys \in [Client -> SUBSET Key]
    /\ cerr \in [Client -> SUBSET Key]
    /\ creply \in [Client -> {"none", "ok", "error"}]

FlusherType ==
    /\ fpc \in [Flusher -> FlusherPC]
    /\ fpack \in [Flusher -> Content]
    /\ fkeys \in [Flusher -> SUBSET Key]

ReaderType ==
    /\ rpc \in [Reader -> ReaderPC]
    /\ rop \in [Reader -> {"Get", "Stat"}]
    /\ rkey \in [Reader -> Key]
    /\ rrec \in [Reader -> Content]
    /\ rres \in [Reader -> {"none", "found", "notfound", "error"}]

\* Type correctness holds initially.
LEMMA TypeInit == Init => TypeOK
BY NothingType DEF Init, TypeOK, Content, Nothing, Present, ClientPC, FlusherPC, ReaderPC

\* Every step keeps the types.
LEMMA TypeStep == TypeOK /\ [Next]_vars => TypeOK'
<1> SUFFICES ASSUME TypeOK, [Next]_vars PROVE TypeOK'
    OBVIOUS
<1> USE DEF TypeOK
<1>b. \A c \in Client : batch[c].put \in Content /\ batch[c].del \in SUBSET Key
    BY BatchType
<1>1. ASSUME NEW c \in Client, Begin(c) PROVE TypeOK'
    <2>1. PICK b \in Batches : batch' = [batch EXCEPT ![c] = b]
                               /\ ctodo' = [ctodo EXCEPT ![c] = Large(b)]
        BY <1>1 DEF Begin
    <2>2. b # EmptyBatch /\ Large(b) \in SUBSET Key
        BY <2>1, BatchesNotEmpty DEF Large, Present
    <2> QED
        BY <1>1, <2>1, <2>2 DEF Begin, ClientPC, tables, flusherVars, readerVars
<1>2. ASSUME NEW c \in Client, NEW out \in Outcome, StagePutMany(c, out) PROVE TypeOK'
    <2>1. Small(batch[c]) \in SUBSET Key
        BY DEF Small, Present
    <2>2. cerr' \in [Client -> SUBSET Key]
        BY <1>2, <2>1 DEF StagePutMany, Report
    <2>3. CASE out = "failed"
        BY <1>2, <2>2, <2>3 DEF StagePutMany, ClientPC, flusherVars, readerVars
    <2>4. CASE out # "failed"
        <3>1. Upsert(staging, Only(batch[c].put, Small(batch[c]))) \in Content
            BY <1>b, <2>1, UpsertType, OnlyType
        <3>2. staging' \in Content /\ leased' \subseteq Present(staging')
            <4>1. /\ staging' = Upsert(staging, Only(batch[c].put, Small(batch[c])))
                  /\ leased' = leased \ Small(batch[c])
                BY <1>2, <2>4 DEF StagePutMany
            <4>2. \A k \in Key : k \in Present(staging) => k \in Present(staging')
                BY <4>1 DEF Upsert, Present
            <4> QED
                BY <3>1, <4>1, <4>2 DEF Present
        <3> QED
            BY <1>2, <2>2, <2>4, <3>2 DEF StagePutMany, ClientPC, flusherVars, readerVars
    <2> QED
        BY <2>3, <2>4
<1>3. ASSUME NEW c \in Client, NEW k \in Key, NEW out \in Outcome, DirectUpload(c, k, out)
      PROVE TypeOK'
    <2>1. Only(batch[c].put, {k}) \in Content
        BY <1>b, OnlyType
    <2>2. walrus' \subseteq Content /\ served' \subseteq walrus'
        BY <1>3, <2>1 DEF DirectUpload
    <2>3. ckeys' \in [Client -> SUBSET Key] /\ cpc' \in [Client -> ClientPC]
          /\ (batch[c] = EmptyBatch <=> cpc'[c] = "idle")
          /\ \A d \in Client \ {c} : cpc'[d] = cpc[d]
        BY <1>3 DEF DirectUpload, ClientPC
    <2> QED
        BY <1>3, <2>2, <2>3 DEF DirectUpload, Report, flusherVars, readerVars
<1>4. ASSUME NEW c \in Client, NEW out \in Outcome, PutMany(c, out) PROVE TypeOK'
    <2>1. Only(batch[c].put, ckeys[c]) \in Content
        BY <1>b, OnlyType
    <2>2. index' \in [Key -> Content]
        BY <1>4, <2>1 DEF PutMany, PointAt
    <2> QED
        BY <1>4, <2>2 DEF PutMany, Report, ClientPC, flusherVars, readerVars
<1>5. ASSUME NEW c \in Client, NEW out \in Outcome, DeleteIndex(c, out) PROVE TypeOK'
    <2>1. ClientType'
        <3>1. cpc' \in [Client -> ClientPC] /\ cpc'[c] # "idle" /\ cpc[c] # "idle"
              /\ \A d \in Client \ {c} : cpc'[d] = cpc[d]
            BY <1>5 DEF DeleteIndex, ClientPC
        <3>2. ckeys' \in [Client -> SUBSET Key]
            BY <1>5, <1>b DEF DeleteIndex
        <3>3. cerr' \in [Client -> SUBSET Key]
            BY <1>5, <1>b DEF DeleteIndex, Report
        <3>4. UNCHANGED <<batch, ctodo, creply>>
            BY <1>5 DEF DeleteIndex
        <3> QED
            BY <3>1, <3>2, <3>3, <3>4 DEF ClientType
    <2>2. TablesType' /\ FlusherType' /\ ReaderType'
        BY <1>5 DEF DeleteIndex, TablesType, FlusherType, ReaderType, tables, flusherVars, readerVars
    <2> QED
        BY <2>1, <2>2 DEF TablesType, ClientType, FlusherType, ReaderType
<1>6. ASSUME NEW c \in Client, NEW out \in Outcome, DeleteStaging(c, out) PROVE TypeOK'
    <2>1. TablesType'
        <3>1. CASE out = "failed"
            BY <1>6, <3>1 DEF DeleteStaging, tables, TablesType
        <3>2. CASE out # "failed"
            <4>1. /\ staging' = Without(staging, batch[c].del)
                  /\ leased' = leased \ batch[c].del
                  /\ index' = PointAt(ckeys[c], Nothing)
                  /\ walrus' = walrus /\ served' = served
                BY <1>6, <3>2 DEF DeleteStaging, IndexWithout
            <4>2. staging' \in Content
                BY <1>b, <4>1, WithoutType
            <4>3. index' \in [Key -> Content]
                BY <4>1, NothingType DEF PointAt
            <4>4. leased' \subseteq Present(staging')
                BY <4>1 DEF Present, Without
            <4> QED
                BY <4>1, <4>2, <4>3, <4>4 DEF TablesType
        <3> QED
            BY <3>1, <3>2
    <2>2. ClientType'
        BY <1>6, <1>b DEF DeleteStaging, Report, ClientPC, ClientType
    <2>3. FlusherType' /\ ReaderType'
        BY <1>6 DEF DeleteStaging, FlusherType, ReaderType, flusherVars, readerVars
    <2> QED
        BY <2>1, <2>2, <2>3 DEF TablesType, ClientType, FlusherType, ReaderType
<1>7. ASSUME NEW c \in Client, NEW res \in {"ok", "error"}, EndCall(c, res) PROVE TypeOK'
    BY <1>7 DEF EndCall, ClientPC, tables, flusherVars, readerVars
<1>8. ASSUME NEW c \in Client, ClientStep(c) PROVE TypeOK'
    BY <1>8, <1>1, <1>2, <1>3, <1>4, <1>5, <1>6, <1>7 DEF ClientStep, Return, ClientCrash
<1>9. ASSUME NEW f \in Flusher, FlusherStep(f) PROVE TypeOK'
    <2>1. CASE Select(f)
        BY <2>1 DEF Select, Claimable, Present, FlusherPC, tables, clientVars, readerVars
    <2>2. ASSUME NEW out \in Outcome, Lease(f, out) PROVE TypeOK'
        <3>1. Granted(f) \in SUBSET Key /\ Granted(f) \subseteq Present(staging)
            BY DEF Granted, Claimable
        <3>2. leased' \subseteq Present(staging)
            BY <2>2, <3>1 DEF Lease
        <3>3. Only(staging, Granted(f)) \in Content
            BY <3>1, OnlyType
        <3>4. FlusherType'
            BY <2>2, <3>3, NothingType DEF Lease, Idle, FlusherType, FlusherPC
        <3> QED
            BY <2>2, <3>2, <3>4 DEF Lease, FlusherType, clientVars, readerVars
    <2>3. ASSUME NEW out \in Outcome, Upload(f, out) PROVE TypeOK'
        BY <2>3 DEF Upload, FlusherPC, clientVars, readerVars
    <2>4. ASSUME NEW out \in Outcome, PromoteDelete(f, out) PROVE TypeOK'
        BY <2>4 DEF PromoteDelete, Survivors, Present, FlusherPC, tables, clientVars, readerVars
    <2>5. ASSUME NEW out \in Outcome, PromoteInsert(f, out) PROVE TypeOK'
        <3>1. FlusherType'
            BY <2>5, NothingType DEF PromoteInsert, Idle, FlusherType, FlusherPC
        <3>2. TablesType'
            <4>1. CASE out = "failed"
                BY <2>5, <4>1 DEF PromoteInsert, TablesType
            <4>2. CASE out # "failed"
                <5>1. /\ staging' = Without(staging, fkeys[f])
                      /\ leased' = leased \ fkeys[f]
                      /\ index' = PointAt(fkeys[f], fpack[f])
                      /\ walrus' = walrus /\ served' = served
                    BY <2>5, <4>2 DEF PromoteInsert
                <5>2. staging' \in Content
                    BY <5>1, WithoutType
                <5>3. index' \in [Key -> Content]
                    BY <5>1 DEF PointAt
                <5>4. leased' \subseteq Present(staging')
                    BY <5>1 DEF Present, Without
                <5> QED
                    BY <5>1, <5>2, <5>3, <5>4 DEF TablesType
            <4> QED
                BY <4>1, <4>2
        <3> QED
            BY <2>5, <3>1, <3>2
               DEF PromoteInsert, FlusherType, TablesType, clientVars, readerVars
    <2>6. ASSUME NEW out \in Outcome, Release(f, out) PROVE TypeOK'
        BY <2>6, NothingType DEF Release, Idle, FlusherPC, clientVars, readerVars
    <2>7. CASE FlusherCrash(f)
        BY <2>7, NothingType DEF FlusherCrash, Idle, FlusherPC, tables, clientVars, readerVars
    <2> QED
        BY <1>9, <2>1, <2>2, <2>3, <2>4, <2>5, <2>6, <2>7 DEF FlusherStep
<1>10. ASSUME NEW r \in Reader, ReaderStep(r) PROVE TypeOK'
    <2>1. /\ TablesType' /\ ClientType' /\ FlusherType'
        BY <1>10 DEF ReaderStep, StartRead, ProbeStaging, ProbeIndex, ReadWalrus, ReadError,
                     TablesType, ClientType, FlusherType, tables, clientVars, flusherVars
    <2>2. ReaderType'
        <3>1. CASE StartRead(r)
            BY <3>1 DEF StartRead, ReaderType, ReaderPC
        <3>2. CASE ProbeStaging(r)
            BY <3>2, NothingType DEF ProbeStaging, Answer, ReaderType, ReaderPC
        <3>3. CASE ProbeIndex(r)
            BY <3>3, NothingType, SMTT(30) DEF ProbeIndex, Answer, ReaderType, ReaderPC
        <3>4. CASE ReadWalrus(r)
            BY <3>4, NothingType DEF ReadWalrus, Answer, ReaderType, ReaderPC
        <3>5. CASE ReadError(r)
            BY <3>5, NothingType DEF ReadError, Answer, ReaderType, ReaderPC
        <3> QED
            BY <1>10, <3>1, <3>2, <3>3, <3>4, <3>5 DEF ReaderStep
    <2> QED
        BY <2>1, <2>2 DEF TablesType, ClientType, FlusherType, ReaderType
<1>11. ASSUME NEW k \in Key, LeaseExpire(k) PROVE TypeOK'
    BY <1>11 DEF LeaseExpire, clientVars, flusherVars, readerVars
<1>12. ASSUME NEW b \in walrus, Appear(b) PROVE TypeOK'
    BY <1>12 DEF Appear, clientVars, flusherVars, readerVars
<1>13. CASE UNCHANGED vars
    BY <1>13 DEF vars, Present
<1> QED
    BY <1>8, <1>9, <1>10, <1>11, <1>12, <1>13 DEF Next

\* Type correctness: every reachable state of the data path is well formed, and
\* only staged rows are ever leased.
THEOREM TypeCorrect == Spec => []TypeOK
<1>1. QED BY TypeInit, TypeStep, PTL DEF Spec

-----------------------------------------------------------------------------
(* The inductive invariant *)

\* A client owes its oversize blocks until it uploads them, it has stored the blob
\* it is about to record, and an open DELETE locks index rows of its own keys only.
CallInv ==
    \A c \in Client :
      /\ ctodo[c] \subseteq Present(batch[c].put)
      /\ cpc[c] = "stage" => ctodo[c] = Large(batch[c])
      /\ cpc[c] = "record" =>
           /\ ckeys[c] \subseteq Present(batch[c].put)
           /\ Only(batch[c].put, ckeys[c]) \in walrus
      /\ cpc[c] = "purge" => ckeys[c] \subseteq batch[c].del

\* A flusher past its upload has stored its pack.
PackInv == \A f \in Flusher : fpc[f] \in {"promote", "insert"} => fpack[f] \in walrus

\* Every value in staging, in a pack and behind an index row was written by a
\* client under that key.
Provenance ==
    \A k \in Key :
      /\ staging[k] \in Written(k) \cup {NoValue}
      /\ index[k][k] \in Written(k) \cup {NoValue}
      /\ \A f \in Flusher : fpack[f][k] \in Written(k) \cup {NoValue}

IInv ==
    /\ TypeOK
    /\ WalrusFirst
    /\ CallInv
    /\ PackInv
    /\ PromotionExclusive
    /\ Provenance

\* A new database satisfies the invariant.
LEMMA IInvInit == Init => IInv
<1> SUFFICES ASSUME Init PROVE IInv
    OBVIOUS
<1>1. TypeOK
    BY TypeInit
<1>2. WalrusFirst
    BY DEF Init, WalrusFirst, Indexed, Nothing
<1>3. CallInv
    BY DEF Init, CallInv
<1>4. PackInv /\ PromotionExclusive
    BY DEF Init, PackInv, PromotionExclusive
<1>5. Provenance
    BY DEF Init, Provenance, Nothing
<1> QED
    BY <1>1, <1>2, <1>3, <1>4, <1>5 DEF IInv

\* Blobs are never removed from Walrus here.
LEMMA WalrusGrows == [Next]_vars => walrus \subseteq walrus'
BY ZenonT(40) DEF Next, vars, ClientStep, FlusherStep, ReaderStep, Begin, StagePutMany, DirectUpload,
       PutMany, DeleteIndex, DeleteStaging, Return, ClientCrash, EndCall, Select, Lease,
       Upload, PromoteDelete, PromoteInsert, Release, FlusherCrash, LeaseExpire, Appear, StartRead,
       ProbeStaging, ProbeIndex, ReadWalrus, ReadError, tables

\* Nor does a blob that every aggregator serves disappear from one.
LEMMA ServedGrows == [Next]_vars => served \subseteq served'
BY ZenonT(40) DEF Next, vars, ClientStep, FlusherStep, ReaderStep, Begin, StagePutMany, DirectUpload,
       PutMany, DeleteIndex, DeleteStaging, Return, ClientCrash, EndCall, Select, Lease,
       Upload, PromoteDelete, PromoteInsert, Release, FlusherCrash, LeaseExpire, Appear, StartRead,
       ProbeStaging, ProbeIndex, ReadWalrus, ReadError, tables

\* Rows are written only for blobs stored before, and blobs stay.
LEMMA WalrusFirstStep == IInv /\ [Next]_vars => WalrusFirst'
<1> SUFFICES ASSUME IInv, [Next]_vars PROVE WalrusFirst'
    OBVIOUS
<1>w. walrus \subseteq walrus'
    BY WalrusGrows
<1>i. CASE UNCHANGED index
    BY <1>i, <1>w DEF IInv, WalrusFirst, Indexed
<1>p. ASSUME NEW S \in SUBSET Key, NEW blob \in Content, index' = PointAt(S, blob),
             blob = Nothing \/ (blob \in walrus /\ S \subseteq Present(blob))
      PROVE  WalrusFirst'
    BY <1>p, <1>w DEF IInv, TypeOK, WalrusFirst, Indexed, PointAt, Present
<1>1. ASSUME NEW c \in Client, NEW out \in Outcome, PutMany(c, out) PROVE WalrusFirst'
    <2>1. CASE out = "failed"
        BY <1>1, <2>1, <1>i DEF PutMany
    <2>2. CASE out # "failed"
        <3> DEFINE blob == Only(batch[c].put, ckeys[c])
        <3>1. cpc[c] = "record" /\ index' = PointAt(ckeys[c], blob)
            BY <1>1, <2>2 DEF PutMany
        <3>2. blob \in walrus /\ ckeys[c] \subseteq Present(batch[c].put)
            BY <3>1 DEF IInv, CallInv
        <3>3. blob \in Content /\ ckeys[c] \in SUBSET Key
            BY <3>2 DEF IInv, TypeOK
        <3>4. ckeys[c] \subseteq Present(blob)
            BY <3>2 DEF Present, Only
        <3> QED
            BY <3>1, <3>2, <3>3, <3>4, <1>p
    <2> QED
        BY <2>1, <2>2
<1>2. ASSUME NEW c \in Client, NEW out \in Outcome, DeleteStaging(c, out) PROVE WalrusFirst'
    <2>1. CASE out = "failed"
        BY <1>2, <2>1, <1>i DEF DeleteStaging, tables
    <2>2. CASE out # "failed"
        BY <1>2, <2>2, <1>p, NothingType DEF DeleteStaging, IndexWithout, IInv, TypeOK
    <2> QED
        BY <2>1, <2>2
<1>3. ASSUME NEW f \in Flusher, NEW out \in Outcome, PromoteInsert(f, out) PROVE WalrusFirst'
    <2>1. CASE out = "failed"
        BY <1>3, <2>1, <1>i DEF PromoteInsert
    <2>2. CASE out # "failed"
        <3>1. fpc[f] = "insert" /\ index' = PointAt(fkeys[f], fpack[f])
            BY <1>3, <2>2 DEF PromoteInsert
        <3>2. fpack[f] \in walrus /\ fkeys[f] \subseteq Present(fpack[f])
            BY <3>1 DEF IInv, PackInv, PromotionExclusive
        <3> QED
            BY <3>1, <3>2, <1>p DEF IInv, TypeOK
    <2> QED
        BY <2>1, <2>2
<1> QED
    BY <1>i, <1>1, <1>2, <1>3, ZenonT(60)
       DEF Next, vars, ClientStep, FlusherStep, ReaderStep, Begin, StagePutMany, DirectUpload,
           DeleteIndex, Return, ClientCrash, EndCall, Select, Lease,
           Upload, PromoteDelete, Release, FlusherCrash, LeaseExpire, Appear, StartRead,
           ProbeStaging, ProbeIndex, ReadWalrus, ReadError, tables

\* A client records only what it has uploaded and locks only its own keys.
LEMMA CallInvStep == IInv /\ [Next]_vars => CallInv'
<1> SUFFICES ASSUME IInv, [Next]_vars PROVE CallInv'
    OBVIOUS
<1>w. walrus \subseteq walrus'
    BY WalrusGrows
<1>f. CASE UNCHANGED clientVars
    BY <1>f, <1>w DEF IInv, CallInv, clientVars
<1>1. ASSUME NEW c \in Client, Begin(c) PROVE CallInv'
    BY <1>1, <1>w DEF Begin, IInv, TypeOK, CallInv, Large
<1>2. ASSUME NEW c \in Client, NEW out \in Outcome, StagePutMany(c, out) PROVE CallInv'
    BY <1>2, <1>w DEF StagePutMany, IInv, TypeOK, CallInv
<1>3. ASSUME NEW c \in Client, NEW k \in Key, NEW out \in Outcome, DirectUpload(c, k, out)
      PROVE  CallInv'
    <2>1. CASE out = "ok"
        <3>1. /\ cpc' = [cpc EXCEPT ![c] = "record"]
              /\ ckeys' = [ckeys EXCEPT ![c] = {k}]
              /\ ctodo' = [ctodo EXCEPT ![c] = @ \ {k}]
              /\ batch' = batch
              /\ k \in ctodo[c]
              /\ Only(batch[c].put, {k}) \in walrus'
            BY <1>3, <2>1 DEF DirectUpload
        <3>2. ckeys'[c] = {k} /\ cpc'[c] = "record" /\ k \in Present(batch[c].put)
            BY <3>1 DEF IInv, TypeOK, CallInv
        <3> QED
            BY <3>1, <3>2, <1>w DEF IInv, TypeOK, CallInv
    <2>2. CASE out # "ok"
        BY <1>3, <2>2, <1>w DEF DirectUpload, IInv, TypeOK, CallInv
    <2> QED
        BY <2>1, <2>2
<1>4. ASSUME NEW c \in Client, NEW out \in Outcome, PutMany(c, out) PROVE CallInv'
    BY <1>4, <1>w DEF PutMany, IInv, TypeOK, CallInv
<1>5. ASSUME NEW c \in Client, NEW out \in Outcome, DeleteIndex(c, out) PROVE CallInv'
    BY <1>5, <1>w DEF DeleteIndex, IInv, TypeOK, CallInv
<1>6. ASSUME NEW c \in Client, NEW out \in Outcome, DeleteStaging(c, out) PROVE CallInv'
    BY <1>6, <1>w DEF DeleteStaging, IInv, TypeOK, CallInv
<1>7. ASSUME NEW c \in Client, NEW res, EndCall(c, res) PROVE CallInv'
    BY <1>7, <1>w DEF EndCall, IInv, TypeOK, CallInv
<1>8. ASSUME NEW c \in Client, ClientStep(c) PROVE CallInv'
    BY <1>8, <1>1, <1>2, <1>3, <1>4, <1>5, <1>6, <1>7 DEF ClientStep, Return, ClientCrash
<1> QED
    BY <1>8, <1>f
       DEF Next, vars, clientVars, FlusherStep, ReaderStep, Select, Lease, Upload,
           PromoteDelete, PromoteInsert, Release, FlusherCrash, LeaseExpire, Appear, StartRead,
           ProbeStaging, ProbeIndex, ReadWalrus, ReadError

\* A flusher reaches its promotion only after its upload succeeded.
LEMMA PackInvStep == IInv /\ [Next]_vars => PackInv'
<1> SUFFICES ASSUME IInv, [Next]_vars PROVE PackInv'
    OBVIOUS
<1>w. walrus \subseteq walrus'
    BY WalrusGrows
<1>f. CASE UNCHANGED flusherVars
    BY <1>f, <1>w DEF IInv, PackInv, flusherVars
<1>1. ASSUME NEW f \in Flusher, FlusherStep(f) PROVE PackInv'
    BY <1>1, <1>w DEF FlusherStep, Select, Lease, Upload, PromoteDelete, PromoteInsert,
                      Release, FlusherCrash, Idle, IInv, TypeOK, PackInv
<1> QED
    BY <1>1, <1>f, ZenonT(40)
       DEF Next, vars, flusherVars, ClientStep, ReaderStep, Begin, StagePutMany, DirectUpload,
           PutMany, DeleteIndex, DeleteStaging, Return, ClientCrash, EndCall, LeaseExpire, Appear,
           StartRead, ProbeStaging, ProbeIndex, ReadWalrus, ReadError

\* The rows a promotion locks.
LEMMA Locked ==
    ASSUME NEW f \in Flusher, fpc[f] = "insert"
    PROVE  fkeys[f] \subseteq StagingLocks
BY DEF StagingLocks

\* Row locks keep other writers off the survivors of an open promotion.
LEMMA PromotionExclusiveStep == IInv /\ [Next]_vars => PromotionExclusive'
<1> SUFFICES ASSUME IInv, [Next]_vars PROVE PromotionExclusive'
    OBVIOUS
<1> USE DEF IInv, TypeOK
\* Other processes only write staged rows no promotion has locked.
<1>s. ASSUME UNCHANGED flusherVars,
             \A k \in Key \cap StagingLocks : staging'[k] # NoValue \/ staging'[k] = staging[k]
      PROVE  PromotionExclusive'
    BY <1>s, Locked DEF PromotionExclusive, flusherVars, Present
<1>1. ASSUME NEW c \in Client, NEW out \in Outcome, StagePutMany(c, out)
      PROVE  PromotionExclusive'
    <2>1. UNCHANGED flusherVars
        BY <1>1 DEF StagePutMany
    <2>2. \A k \in Key : staging'[k] # NoValue \/ staging'[k] = staging[k]
        BY <1>1 DEF StagePutMany, Upsert
    <2> QED
        BY <2>1, <2>2, <1>s
<1>2. ASSUME NEW c \in Client, NEW out \in Outcome, DeleteStaging(c, out)
      PROVE  PromotionExclusive'
    <2>1. UNCHANGED flusherVars
        BY <1>2 DEF DeleteStaging
    <2>2. \A k \in Key \cap StagingLocks : staging'[k] = staging[k]
        BY <1>2 DEF DeleteStaging, Without, tables
    <2> QED
        BY <2>1, <2>2, <1>s
<1>3. CASE UNCHANGED <<staging, flusherVars>>
    BY <1>3, <1>s
<1>4. ASSUME NEW f \in Flusher, FlusherStep(f) PROVE PromotionExclusive'
    <2>1. CASE UNCHANGED staging /\ fpc'[f] # "insert" /\ fpc[f] # "insert"
               /\ \A g \in Flusher \ {f} : fpc'[g] = fpc[g] /\ fpack'[g] = fpack[g] /\ fkeys'[g] = fkeys[g]
        BY <2>1 DEF PromotionExclusive
    <2>2. ASSUME NEW out \in Outcome, PromoteDelete(f, out) PROVE PromotionExclusive'
        <3>1. CASE out = "failed"
            BY <2>2, <3>1 DEF PromoteDelete, PromotionExclusive, tables
        <3>2. CASE out = "ok"
            BY <2>2, <3>2, Locked DEF PromoteDelete, PromotionExclusive, Survivors, tables
        <3> QED
            BY <2>2, <3>1, <3>2 DEF PromoteDelete
    <2>3. ASSUME NEW out \in Outcome, PromoteInsert(f, out) PROVE PromotionExclusive'
        <3>1. fpc[f] = "insert" /\ fpc'[f] # "insert"
              /\ \A g \in Flusher \ {f} : fpc'[g] = fpc[g] /\ fpack'[g] = fpack[g] /\ fkeys'[g] = fkeys[g]
            BY <2>3 DEF PromoteInsert, Idle
        <3>2. \A k \in Key \ fkeys[f] : staging'[k] = staging[k]
            BY <2>3 DEF PromoteInsert, Without, Content
        <3>3. \A g \in Flusher \ {f} : fpc[g] = "insert" => fkeys[f] \cap fkeys[g] = {}
            BY <3>1 DEF PromotionExclusive
        <3> QED
            BY <3>1, <3>2, <3>3 DEF PromotionExclusive, Present
    <2>4. CASE FlusherCrash(f)
        BY <2>4 DEF FlusherCrash, Idle, PromotionExclusive, tables
    <2> QED
        BY <1>4, <2>1, <2>2, <2>3, <2>4 DEF FlusherStep, Select, Lease, Upload, Release, Idle, tables
<1> QED
    BY <1>1, <1>2, <1>3, <1>4, ZenonT(60)
       DEF Next, vars, tables, flusherVars, ClientStep, ReaderStep, Begin, DirectUpload,
           PutMany, DeleteIndex, Return, ClientCrash, EndCall, LeaseExpire, Appear,
           StartRead, ProbeStaging, ProbeIndex, ReadWalrus, ReadError

\* Bytes are only copied, under their key, from batches onwards.
LEMMA ProvenanceStep == IInv /\ [Next]_vars => Provenance'
<1> SUFFICES ASSUME IInv, [Next]_vars PROVE Provenance'
    OBVIOUS
<1> USE DEF IInv, TypeOK
<1> DEFINE Of(k) == Written(k) \cup {NoValue}
<1>b. \A c \in Client, k \in Key : batch[c].put[k] \in Of(k)
    <2> TAKE c \in Client, k \in Key
    <2>1. CASE batch[c] \in Batches
        BY <2>1 DEF Written
    <2>2. CASE batch[c] = EmptyBatch
        BY <2>2 DEF EmptyBatch, Nothing
    <2> QED
        BY <2>1, <2>2
<1>n. \A k \in Key : Nothing[k] \in Of(k)
    BY DEF Nothing
<1>s. ASSUME NEW c \in Client, NEW out \in Outcome, StagePutMany(c, out) PROVE Provenance'
    BY <1>s, <1>b, SMTT(30) DEF StagePutMany, Upsert, Only, Provenance, flusherVars
<1>r. ASSUME NEW c \in Client, NEW out \in Outcome, PutMany(c, out) PROVE Provenance'
    <2>1. \A k \in Key : Only(batch[c].put, ckeys[c])[k] \in Of(k)
        BY <1>b DEF Only
    <2> QED
        BY <1>r, <2>1, ZenonT(40) DEF PutMany, PointAt, Provenance, flusherVars
<1>d. ASSUME NEW c \in Client, NEW out \in Outcome, DeleteStaging(c, out) PROVE Provenance'
    <2>1. \A k \in Key : staging'[k] \in Of(k) /\ index'[k][k] \in Of(k)
        BY <1>d, <1>n DEF DeleteStaging, Without, IndexWithout, PointAt, Provenance, tables
    <2> QED
        BY <1>d, <2>1 DEF DeleteStaging, Provenance, flusherVars
<1>l. ASSUME NEW f \in Flusher, NEW out \in Outcome, Lease(f, out) PROVE Provenance'
    <2>1. \A k \in Key : Only(staging, Granted(f))[k] \in Of(k)
        BY DEF Only, Provenance
    <2> QED
        BY <1>l, <2>1, <1>n, ZenonT(40) DEF Lease, Idle, Provenance
<1>p. ASSUME NEW f \in Flusher, NEW out \in Outcome, PromoteInsert(f, out) PROVE Provenance'
    <2>1. \A k \in Key : staging'[k] \in Of(k) /\ index'[k][k] \in Of(k)
        BY <1>p DEF PromoteInsert, Without, PointAt, Provenance
    <2>2. \A k \in Key, g \in Flusher : fpack'[g][k] \in Of(k)
        BY <1>p, <1>n DEF PromoteInsert, Idle, Provenance
    <2> QED
        BY <2>1, <2>2 DEF Provenance
<1>i. ASSUME NEW f \in Flusher, Idle(f), UNCHANGED <<staging, index>> PROVE Provenance'
    BY <1>i, <1>n DEF Idle, Provenance
<1>u. CASE UNCHANGED <<staging, index, fpack>>
    BY <1>u DEF Provenance
<1> QED
    BY <1>s, <1>r, <1>d, <1>l, <1>p, <1>i, <1>u, ZenonT(60)
       DEF Next, vars, tables, flusherVars, ClientStep, FlusherStep, ReaderStep, Begin,
           DirectUpload, DeleteIndex, Return, ClientCrash, EndCall, Select, Upload,
           PromoteDelete, Release, FlusherCrash, LeaseExpire, Appear, StartRead, ProbeStaging,
           ProbeIndex, ReadWalrus, ReadError

\* Every step keeps the invariant.
LEMMA IInvStep == IInv /\ [Next]_vars => IInv'
BY TypeStep, WalrusFirstStep, CallInvStep, PackInvStep, PromotionExclusiveStep,
   ProvenanceStep DEF IInv

\* The invariant holds in every reachable state.
LEMMA IInvInvariant == Spec => []IInv
BY IInvInit, IInvStep, PTL DEF Spec

\* An index row disappears only with the staged copy of its key.
LEMMA UnindexedIsAbsent ==
    ASSUME IInv, IInv', [Next]_vars, NEW k \in Indexed, k \notin Indexed'
    PROVE  k \notin Present(Visible)'
<1> USE DEF IInv, TypeOK
<1>1. index'[k] # index[k] /\ k \in Key /\ index[k] # Nothing /\ index'[k] = Nothing
    BY DEF Indexed
<1>2. CASE UNCHANGED index
    BY <1>1, <1>2
<1>3. ASSUME NEW c \in Client, NEW out \in Outcome, PutMany(c, out) PROVE FALSE
    <2>1. cpc[c] = "record" /\ index'[k] = Only(batch[c].put, ckeys[c]) /\ k \in ckeys[c]
        BY <1>1, <1>3 DEF PutMany, PointAt
    <2>2. Only(batch[c].put, ckeys[c])[k] # NoValue
        BY <2>1 DEF CallInv, Present, Only
    <2> QED
        BY <1>1, <2>1, <2>2 DEF Nothing
<1>4. ASSUME NEW f \in Flusher, NEW out \in Outcome, PromoteInsert(f, out) PROVE FALSE
    <2>1. fpc[f] = "insert" /\ index'[k] = fpack[f] /\ k \in fkeys[f]
        BY <1>1, <1>4 DEF PromoteInsert, PointAt
    <2>2. fpack[f][k] # NoValue
        BY <2>1 DEF PromotionExclusive, Present
    <2> QED
        BY <1>1, <2>1, <2>2 DEF Nothing
<1>5. ASSUME NEW c \in Client, NEW out \in Outcome, DeleteStaging(c, out) PROVE k \notin Present(Visible)'
    <2>1. cpc[c] = "purge" /\ k \in ckeys[c] /\ staging' = Without(staging, batch[c].del)
        BY <1>1, <1>5 DEF DeleteStaging, IndexWithout, PointAt, tables
    <2>2. staging'[k] = NoValue
        BY <1>1, <2>1 DEF CallInv, Without
    <2>3. index'[k][k] = NoValue
        BY <1>1 DEF Nothing
    <2> QED
        BY <1>1, <2>2, <2>3 DEF Present, Visible
<1> QED
    BY <1>2, <1>3, <1>4, <1>5, ZenonT(60)
       DEF Next, vars, tables, ClientStep, FlusherStep, ReaderStep, Begin, StagePutMany,
           DirectUpload, DeleteIndex, Return, ClientCrash, EndCall, Select, Lease, Upload,
           PromoteDelete, Release, FlusherCrash, LeaseExpire, Appear, StartRead, ProbeStaging,
           ProbeIndex, ReadWalrus, ReadError

\* A key that is neither staged nor indexed is absent.
LEMMA NowhereIsAbsent ==
    ASSUME NEW k \in Key, k \notin Present(staging), k \notin Indexed
    PROVE  k \notin Present(Visible)
BY DEF Present, Indexed, Visible, Nothing

\* The Walrus-first ordering of uploadPack: in every reachable state, an index
\* row names a blob that Walrus holds and that contains the key.
THEOREM WalrusFirstHolds == Spec => []WalrusFirst
<1>1. IInv => WalrusFirst
    BY DEF IInv
<1> QED
    BY <1>1, IInvInvariant, PTL

\* The rows PromoteStaged's DELETE returned stay staged, and stay its own, until
\* the transaction commits.
THEOREM PromotionExclusiveHolds == Spec => []PromotionExclusive
<1>1. IInv => PromotionExclusive
    BY DEF IInv
<1> QED
    BY <1>1, IInvInvariant, PTL

-----------------------------------------------------------------------------
(* StagedIndex implements BlockStore when keys are content-addressed *)


\* A new database is an empty store.
LEMMA InitImplements == Init => Abs!Init
<1> SUFFICES ASSUME Init PROVE Abs!Init
    OBVIOUS
<1>1. Visible = Nothing
    BY DEF Init, Visible, Nothing
<1>2. Owed = [c \in Client |-> {}]
    BY EmptyBatchParts DEF Init, Owed
<1> QED
    BY <1>1, <1>2 DEF Init, Abs!Init, Abs!Nothing, Abs!EmptyBatch, Nothing, EmptyBatch

\* Where two copies of a block exist, they are equal.
LEMMA OneContent ==
    ASSUME ContentAddressed, NEW k \in Key,
           NEW v \in Written(k) \cup {NoValue}, NEW w \in Written(k) \cup {NoValue},
           v # NoValue, w # NoValue
    PROVE  v = w
BY DEF ContentAddressed

\* Moving survivors from staging to the index shows readers the same bytes.
LEMMA PromoteInvisible ==
    ASSUME ContentAddressed, IInv, NEW f \in Flusher, NEW out \in Outcome, PromoteInsert(f, out)
    PROVE  Visible' = Visible
<1> USE DEF IInv, TypeOK
<1>1. CASE out = "failed"
    BY <1>1 DEF PromoteInsert, Visible
<1>2. CASE out # "failed"
    <2>1. /\ fpc[f] = "insert"
          /\ staging' = Without(staging, fkeys[f])
          /\ index' = PointAt(fkeys[f], fpack[f])
        BY <1>2 DEF PromoteInsert
    <2>2. ASSUME NEW k \in Key PROVE Visible'[k] = Visible[k]
        <3>1. CASE k \in fkeys[f]
            <4>1. fpack[f][k] # NoValue /\ staging[k] # NoValue
                BY <2>1, <3>1 DEF PromotionExclusive, Present
            <4>2. fpack[f][k] = staging[k]
                BY <4>1, OneContent DEF Provenance
            <4> QED
                BY <2>1, <3>1, <4>1, <4>2 DEF Visible, Without, PointAt
        <3>2. CASE k \notin fkeys[f]
            BY <2>1, <3>2 DEF Visible, Without, PointAt
        <3> QED
            BY <3>1, <3>2
    <2> QED
        BY <2>2 DEF Visible
<1> QED
    BY <1>1, <1>2

\* No step of a flusher is visible to a client.
LEMMA FlusherImplements ==
    ASSUME ContentAddressed, IInv, NEW f \in Flusher, FlusherStep(f)
    PROVE  UNCHANGED <<Visible, batch, Owed, creply>>
<1>1. UNCHANGED clientVars
    BY DEF FlusherStep, Select, Lease, Upload, PromoteDelete, PromoteInsert, Release, FlusherCrash
<1>2. UNCHANGED <<batch, Owed, creply>>
    BY <1>1 DEF clientVars, Owed
<1>3. CASE UNCHANGED <<staging, index>>
    BY <1>2, <1>3 DEF Visible
<1>4. ASSUME NEW out \in Outcome, PromoteInsert(f, out) PROVE Visible' = Visible
    BY <1>4, PromoteInvisible
<1> QED
    BY <1>2, <1>3, <1>4
       DEF FlusherStep, Select, Lease, Upload, PromoteDelete, Release, FlusherCrash, tables

-----------------------------------------------------------------------------
(* Client steps *)

\* A call starts: all its Puts are owed.
LEMMA BeginImplements ==
    ASSUME IInv, NEW c \in Client, Begin(c)
    PROVE  Abs!Begin(c)
<1> USE DEF IInv, TypeOK
<1>1. PICK b \in Batches : batch' = [batch EXCEPT ![c] = b]
    BY DEF Begin
<1>2. Visible' = Visible
    BY DEF Begin, Visible, tables
<1>3. Owed' = [Owed EXCEPT ![c] = Present(b.put)]
    BY <1>1, ZenonT(40) DEF Begin, Owed
<1>4. batch[c] = EmptyBatch /\ creply' = [creply EXCEPT ![c] = "none"]
    BY DEF Begin
<1> QED
    BY <1>1, <1>2, <1>3, <1>4
       DEF Abs!Begin, Abs!EmptyBatch, Abs!Nothing, Abs!Present, EmptyBatch, Nothing, Present

\* Only c's entry of Owed changes.
LEMMA OwedUpdate ==
    ASSUME NEW c \in Client, NEW T, Owed'[c] = T, \A d \in Client \ {c} : Owed'[d] = Owed[d]
    PROVE  Owed' = [Owed EXCEPT ![c] = T]
<1>1. Owed = [d \in Client |-> Owed[d]] /\ Owed' = [d \in Client |-> Owed'[d]]
    BY DEF Owed
<1> QED
    BY <1>1

\* Owed is unchanged when each of its entries is.
LEMMA OwedSame ==
    ASSUME \A d \in Client : Owed'[d] = Owed[d]
    PROVE  Owed' = Owed
<1>1. Owed = [d \in Client |-> Owed[d]] /\ Owed' = [d \in Client |-> Owed'[d]]
    BY DEF Owed
<1> QED
    BY <1>1

\* Puts of S by c take effect, and the call learns about those of A.
Puts(c, S, A) ==
    /\ S \subseteq Present(batch[c].put)
    /\ A \subseteq S
    /\ Visible' = Upsert(Visible, Only(batch[c].put, S))
    /\ Owed' = [Owed EXCEPT ![c] = Owed[c] \ A]
    /\ batch' = batch
    /\ creply' = creply

\* When some Puts take effect and some of them are reported, that is a Put.
LEMMA PutImplements ==
    ASSUME NEW c \in Client, NEW S, NEW A, Puts(c, S, A)
    PROVE  Abs!Put(c)
BY DEF Puts, Abs!Put, Abs!Upsert, Abs!Only, Abs!Present, Upsert, Only, Present

\* Staging the small blocks of the call is a Put of the abstract store.
LEMMA StagePutManyImplements ==
    ASSUME IInv, NEW c \in Client, NEW out \in Outcome, StagePutMany(c, out)
    PROVE  Abs!Put(c) \/ UNCHANGED <<Visible, batch, Owed, creply>>
<1> USE DEF IInv, TypeOK
<1> DEFINE S == Small(batch[c])
<1>0. /\ cpc[c] = "stage" /\ cpc' = [cpc EXCEPT ![c] = "upload"]
      /\ UNCHANGED <<index, batch, ctodo, ckeys, creply>>
      /\ cerr' = [cerr EXCEPT ![c] = IF out = "ok" THEN @ ELSE @ \cup S]
    BY DEF StagePutMany, Report
<1>1. Owed[c] = Present(batch[c].put)
    BY <1>0 DEF Owed
<1>2. \A d \in Client \ {c} : Owed'[d] = Owed[d]
    BY <1>0 DEF Owed
<1>3. Owed'[c] = {k \in Present(batch[c].put) : k \in cerr'[c] \/ k \in Large(batch[c])}
    BY <1>0 DEF Owed, CallInv
<1>4. Present(batch[c].put) = S \cup Large(batch[c]) /\ S \in SUBSET Present(batch[c].put)
      /\ S \cap Large(batch[c]) = {}
    BY DEF Small, Large
<1>5. CASE out # "ok"
    <2>1. cerr'[c] = cerr[c] \cup S
        BY <1>0, <1>5
    <2>2. Owed'[c] = Owed[c]
        BY <1>1, <1>3, <1>4, <2>1
    <2>3. Owed' = Owed /\ Owed' = [Owed EXCEPT ![c] = @ \ {}]
        BY <1>2, <2>2, OwedUpdate, OwedSame
    <2>4. CASE out = "failed"
        BY <1>0, <2>3, <2>4 DEF StagePutMany, Visible
    <2>5. CASE out # "failed"
        <3>1. Visible' = Upsert(Visible, Only(batch[c].put, S))
            BY <1>0, <1>4, <2>5 DEF StagePutMany, Visible, Upsert, Only, Present
        <3>2. Puts(c, S, {})
            BY <1>0, <1>4, <2>3, <3>1 DEF Puts
        <3> QED
            BY <3>2, PutImplements
    <2> QED
        BY <2>4, <2>5
<1>6. CASE out = "ok"
    <2>1. cerr'[c] = cerr[c]
        BY <1>0, <1>6
    <2>2. Owed'[c] = Owed[c] \ (S \ cerr[c])
        BY <1>1, <1>3, <1>4, <2>1
    <2>3. Owed' = [Owed EXCEPT ![c] = @ \ (S \ cerr[c])]
        BY <1>2, <2>2, OwedUpdate
    <2>4. Visible' = Upsert(Visible, Only(batch[c].put, S))
        BY <1>0, <1>4, <1>6 DEF StagePutMany, Visible, Upsert, Only, Present
    <2>5. Puts(c, S, S \ cerr[c])
        BY <1>0, <1>4, <2>3, <2>4 DEF Puts
    <2> QED
        BY <2>5, PutImplements
<1> QED
    BY <1>5, <1>6

\* An upload alone shows readers nothing.
LEMMA DirectUploadImplements ==
    ASSUME IInv, NEW c \in Client, NEW k \in Key, NEW out \in Outcome, DirectUpload(c, k, out)
    PROVE  UNCHANGED <<Visible, batch, Owed, creply>>
<1> USE DEF IInv, TypeOK
<1>1. UNCHANGED <<Visible, batch, creply>>
    BY DEF DirectUpload, Visible
<1>2. \A d \in Client \ {c} : Owed'[d] = Owed[d]
    BY DEF DirectUpload, Report, Owed
<1>3. Owed'[c] = Owed[c]
    <2>1. CASE out = "ok"
        BY <2>1 DEF DirectUpload, Report, Owed, CallInv
    <2>2. CASE out # "ok"
        BY <2>2 DEF DirectUpload, Report, Owed, CallInv
    <2> QED
        BY <2>1, <2>2
<1> QED
    BY <1>1, <1>2, <1>3, OwedSame

\* The record of an oversize block makes it visible; a staged copy of the same
\* key holds the same bytes.
LEMMA PutManyImplements ==
    ASSUME ContentAddressed, IInv, NEW c \in Client, NEW out \in Outcome, PutMany(c, out)
    PROVE  Abs!Put(c) \/ UNCHANGED <<Visible, batch, Owed, creply>>
<1> USE DEF IInv, TypeOK
<1> DEFINE S == ckeys[c]
<1>0. /\ cpc[c] = "record" /\ cpc' = [cpc EXCEPT ![c] = "upload"]
      /\ UNCHANGED <<staging, batch, ctodo, creply>>
      /\ ckeys' = [ckeys EXCEPT ![c] = {}]
      /\ cerr' = [cerr EXCEPT ![c] = IF out = "ok" THEN @ ELSE @ \cup S]
    BY DEF PutMany, Report
<1>1. \A d \in Client \ {c} : Owed'[d] = Owed[d]
    BY <1>0 DEF Owed
<1>2. S \subseteq Present(batch[c].put)
    BY <1>0 DEF CallInv
<1>3. /\ Owed[c] = {k \in Present(batch[c].put) : k \in cerr[c] \/ k \in ctodo[c] \/ k \in S}
      /\ Owed'[c] = {k \in Present(batch[c].put) : k \in cerr'[c] \/ k \in ctodo[c]}
    BY <1>0 DEF Owed
<1>4. ASSUME out # "failed" PROVE Visible' = Upsert(Visible, Only(batch[c].put, S))
    <2>1. index' = PointAt(S, Only(batch[c].put, S))
        BY <1>4 DEF PutMany
    <2>2. ASSUME NEW k \in Key
          PROVE  Visible'[k] = Upsert(Visible, Only(batch[c].put, S))[k]
        <3>1. CASE k \in S
            <4>1. batch[c].put[k] # NoValue
                BY <1>2, <3>1 DEF Present
            <4>2. batch[c] \in Batches
                BY <4>1 DEF EmptyBatch, Nothing
            <4>3. batch[c].put[k] \in Written(k)
                BY <4>1, <4>2 DEF Written
            <4>4. staging[k] # NoValue => staging[k] = batch[c].put[k]
                BY <4>1, <4>3, OneContent DEF Provenance
            <4> QED
                BY <1>0, <2>1, <3>1, <4>1, <4>4 DEF Visible, Upsert, Only, PointAt
        <3>2. CASE k \notin S
            BY <1>0, <2>1, <3>2 DEF Visible, Upsert, Only, PointAt
        <3> QED
            BY <3>1, <3>2
    <2> QED
        BY <2>2 DEF Visible, Upsert
<1>5. CASE out # "ok"
    <2>1. Owed'[c] = Owed[c]
        BY <1>0, <1>3, <1>5
    <2>2. Owed' = Owed /\ Owed' = [Owed EXCEPT ![c] = @ \ {}]
        BY <1>1, <2>1, OwedUpdate, OwedSame
    <2>3. CASE out = "failed"
        BY <1>0, <2>2, <2>3 DEF PutMany, Visible
    <2>4. CASE out # "failed"
        <3>1. Puts(c, S, {})
            BY <1>0, <1>2, <1>4, <2>2, <2>4 DEF Puts
        <3> QED
            BY <3>1, PutImplements
    <2> QED
        BY <2>3, <2>4
<1>6. CASE out = "ok"
    <2>1. Owed'[c] = Owed[c] \ (S \ (cerr[c] \cup ctodo[c]))
        BY <1>0, <1>3, <1>6
    <2>2. Owed' = [Owed EXCEPT ![c] = @ \ (S \ (cerr[c] \cup ctodo[c]))]
        BY <1>1, <2>1, OwedUpdate
    <2>3. Puts(c, S, S \ (cerr[c] \cup ctodo[c]))
        BY <1>0, <1>2, <1>4, <1>6, <2>2 DEF Puts
    <2> QED
        BY <2>3, PutImplements
<1> QED
    BY <1>5, <1>6

\* A key of a batch is Put or Deleted, not both.
LEMMA PutOrDelete ==
    ASSUME TypeOK, NEW c \in Client
    PROVE  Present(batch[c].put) \cap batch[c].del = {}
BY BatchesAssumption, EmptyBatchParts DEF TypeOK, Batch

\* An uncommitted DELETE shows readers nothing.
LEMMA DeleteIndexImplements ==
    ASSUME IInv, NEW c \in Client, NEW out \in Outcome, DeleteIndex(c, out)
    PROVE  UNCHANGED <<Visible, batch, Owed, creply>>
<1> USE DEF IInv, TypeOK
<1>1. UNCHANGED <<Visible, batch, creply>>
    BY DEF DeleteIndex, Visible, tables
<1>2. \A d \in Client \ {c} : Owed'[d] = Owed[d]
    BY DEF DeleteIndex, Report, Owed
<1>3. Owed'[c] = Owed[c]
    <2>1. cerr'[c] \subseteq cerr[c] \cup batch[c].del /\ cerr[c] \subseteq cerr'[c]
        BY DEF DeleteIndex, Report
    <2>2. cpc[c] = "upload" /\ cpc'[c] \in {"return", "purge"} /\ ctodo[c] = {}
        BY DEF DeleteIndex
    <2>3. Owed[c] = Present(batch[c].put) \cap cerr[c]
        BY <2>2 DEF Owed
    <2>4. Owed'[c] = Present(batch[c].put) \cap cerr'[c]
        BY <1>1, <2>2 DEF Owed
    <2> QED
        BY <2>1, <2>3, <2>4, PutOrDelete
<1> QED
    BY <1>1, <1>2, <1>3, OwedSame

\* DeleteMany's commit makes some of its keys invisible; where an index row it
\* did not see survives (see DeleteWins), the key keeps its bytes.
LEMMA DeleteStagingImplements ==
    ASSUME ContentAddressed, IInv, NEW c \in Client, NEW out \in Outcome, DeleteStaging(c, out)
    PROVE  Abs!Delete(c) \/ UNCHANGED <<Visible, batch, Owed, creply>>
<1> USE DEF IInv, TypeOK
<1>1. UNCHANGED <<batch, creply>>
    BY DEF DeleteStaging
<1>2. Owed' = Owed
    <2>1. \A d \in Client \ {c} : Owed'[d] = Owed[d]
        BY DEF DeleteStaging, Report, Owed
    <2>2. cerr'[c] \subseteq cerr[c] \cup batch[c].del /\ cerr[c] \subseteq cerr'[c]
        BY DEF DeleteStaging, Report
    <2>3. cpc[c] = "purge" /\ cpc'[c] = "return"
        BY DEF DeleteStaging
    <2>4. Owed[c] = Present(batch[c].put) \cap cerr[c]
        BY <2>3 DEF Owed
    <2>5. Owed'[c] = Present(batch[c].put) \cap cerr'[c]
        BY <1>1, <2>3 DEF Owed
    <2> QED
        BY <2>1, <2>2, <2>4, <2>5, PutOrDelete, OwedSame
<1>3. CASE out = "failed"
    BY <1>1, <1>2, <1>3 DEF DeleteStaging, Visible, tables
<1>4. CASE out # "failed"
    <2> DEFINE S == {k \in batch[c].del : Visible'[k] = NoValue}
    <2>1. /\ staging' = Without(staging, batch[c].del)
          /\ index' = PointAt(ckeys[c], Nothing)
          /\ cpc[c] = "purge"
        BY <1>4 DEF DeleteStaging, IndexWithout
    <2>2. ckeys[c] \subseteq batch[c].del
        BY <2>1 DEF CallInv
    <2>3. ASSUME NEW k \in Key PROVE Visible'[k] = Without(Visible, S)[k]
        <3>1. CASE k \notin batch[c].del
            BY <2>1, <2>2, <3>1 DEF Visible, Without, PointAt
        <3>2. CASE k \in S
            BY <3>2 DEF Without
        <3>3. CASE k \in batch[c].del \ S
            <4>1. Visible'[k] # NoValue
                BY <3>3
            <4>2. Visible'[k] = index'[k][k]
                BY <2>1, <3>3 DEF Visible, Without
            <4>3. k \notin ckeys[c] /\ index'[k][k] = index[k][k]
                BY <2>1, <4>1, <4>2 DEF PointAt, Nothing
            <4>4. staging[k] # NoValue => staging[k] = index[k][k]
                BY <4>1, <4>2, <4>3, OneContent DEF Provenance
            <4>5. Visible[k] = index[k][k]
                BY <4>4 DEF Visible
            <4> QED
                BY <3>3, <4>2, <4>3, <4>5 DEF Without
        <3> QED
            BY <3>1, <3>2, <3>3
    <2>4. Visible' = Without(Visible, S)
        BY <2>3 DEF Visible, Without
    <2>5. \E T \in SUBSET batch[c].del : Visible' = Without(Visible, T)
        <3> WITNESS S \in SUBSET batch[c].del
        <3> QED
            BY <2>4
    <2> QED
        BY <1>1, <1>2, <2>5 DEF Abs!Delete, Abs!Without, Without
<1> QED
    BY <1>3, <1>4

\* The end of a call is a Return; ok only when nothing is owed.
LEMMA EndCallImplements ==
    ASSUME IInv, NEW c \in Client, cpc[c] # "idle", NEW res \in {"ok", "error"},
           res = "ok" => Owed[c] = {}, EndCall(c, res)
    PROVE  Abs!Return(c)
<1> USE DEF IInv, TypeOK
<1>1. Visible' = Visible
    BY DEF EndCall, Visible, tables
<1>2. Owed'[c] = {}
    BY EmptyBatchParts DEF EndCall, Owed
<1>3. \A d \in Client \ {c} : Owed'[d] = Owed[d]
    BY DEF EndCall, Owed
<1>4. Owed' = [Owed EXCEPT ![c] = {}]
    BY <1>2, <1>3, OwedUpdate
<1>5. batch[c] # EmptyBatch /\ batch' = [batch EXCEPT ![c] = EmptyBatch]
      /\ creply' = [creply EXCEPT ![c] = res]
    BY DEF EndCall
<1> QED
    BY <1>1, <1>4, <1>5 DEF Abs!Return, Abs!EmptyBatch, Abs!Nothing, EmptyBatch, Nothing

\* Commit returns nil only when every Put is covered by a successful step.
LEMMA ReturnImplements ==
    ASSUME IInv, NEW c \in Client, Return(c) \/ ClientCrash(c)
    PROVE  Abs!Return(c)
<1>1. CASE Return(c)
    <2>1. cpc[c] # "idle" /\ (cerr[c] = {} => Owed[c] = {})
        BY <1>1 DEF Return, Owed
    <2>2. CASE cerr[c] = {}
        BY <1>1, <2>1, <2>2, EndCallImplements DEF Return
    <2>3. CASE cerr[c] # {}
        BY <1>1, <2>1, <2>3, EndCallImplements DEF Return
    <2> QED
        BY <2>2, <2>3
<1>2. CASE ClientCrash(c)
    BY <1>2, EndCallImplements DEF ClientCrash
<1> QED
    BY <1>1, <1>2

-----------------------------------------------------------------------------
\* Every step implements a step of BlockStore or a stutter.
LEMMA NextImplements ==
    ASSUME ContentAddressed, IInv, [Next]_vars
    PROVE  [Abs!Next]_(Abs!vars)
<1>a. CASE UNCHANGED <<Visible, batch, Owed, creply>>
    BY <1>a DEF Abs!vars
<1>1. ASSUME NEW c \in Client, ClientStep(c) PROVE [Abs!Next]_(Abs!vars)
    BY <1>1, <1>a, BeginImplements, StagePutManyImplements, DirectUploadImplements,
       PutManyImplements, DeleteIndexImplements, DeleteStagingImplements, ReturnImplements
       DEF ClientStep, Abs!Next
<1>2. ASSUME NEW f \in Flusher, FlusherStep(f) PROVE [Abs!Next]_(Abs!vars)
    BY <1>2, <1>a, FlusherImplements
<1>3. CASE UNCHANGED <<staging, index, clientVars>>
    BY <1>3, <1>a DEF Visible, Owed, clientVars
<1> QED
    BY <1>1, <1>2, <1>3
       DEF Next, vars, tables, clientVars, ReaderStep, StartRead, ProbeStaging, ProbeIndex,
           ReadWalrus, ReadError, LeaseExpire, Appear

\* When keys are content-addressed, the data path implements BlockStore: nothing
\* but a client's own running call ever changes what a Get returns, whatever the
\* flushers, crashes, expiring leases and failing calls do, and a Put or Commit
\* that returned nil has made its blocks readable.
THEOREM Implementation == ContentAddressed => (Spec => Implements)
<1> SUFFICES ASSUME ContentAddressed PROVE Spec => Implements
    OBVIOUS
<1>1. Init => Abs!Init
    BY InitImplements
<1>2. IInv /\ [Next]_vars => [Abs!Next]_(Abs!vars)
    BY NextImplements
<1> QED
    BY <1>1, <1>2, IInvInvariant, PTL DEF Spec, Implements, Abs!Spec
=============================================================================
