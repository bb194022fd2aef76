---------------------------- MODULE StagedIndex ----------------------------
(***************************************************************************)
(* The Walrus datastore's data path: clients Put, Delete and Commit blocks *)
(* into a Postgres staging table, pack flushers claim staged blocks, store *)
(* them on Walrus as one blob and move them to the index, readers probe    *)
(* staging, then the index, then Walrus.                                   *)
(*                                                                         *)
(* Any number of nodes share the database, so a Client is one goroutine in *)
(* Put/Delete/Commit, a Flusher one pack slot of some node's flushStaged   *)
(* and a Reader one goroutine in Get/Has/GetSize.  The grain is the SQL    *)
(* statement at READ COMMITTED, the isolation of BeginTx(ctx, nil): a      *)
(* transaction of one statement is one step; the two-statement ones        *)
(* (DeleteMany, PromoteStaged) are two steps that hold row locks between   *)
(* them, the second statement and the commit being one step.  Values have  *)
(* no bytes here: a block is a model value, and a blob is the function     *)
(* from the keys it packs to their values.                                 *)
(***************************************************************************)
EXTENDS Blocks, Integers, FiniteSets

CONSTANTS
    Oversize,  \* the values of PackTargetSize bytes or more
    MaxPack,   \* most keys in one claim (quiltMaxPatches / concatMaxBlocks)
    Client, Flusher, Reader

ASSUME OversizeAssumption == Oversize \subseteq Value
ASSUME MaxPackAssumption == MaxPack \in Nat \ {0}

VARIABLES
    staging,  \* staging table: key -> value
    leased,   \* staging table: the keys whose leased_until lies in the future
    index,    \* index table: key -> the blob its row points into (Nothing: no row)
    walrus,   \* the blobs Walrus stores
    served,   \* those of them every aggregator serves
    cpc,      \* what the client's call does next
    batch,    \* the call's Puts and Deletes
    ctodo,    \* Commit: oversize blocks not yet uploaded
    ckeys,    \* the block being recorded, or the index rows an open DELETE locks
    cerr,     \* Commit's errs: the keys some failed step was about
    creply,   \* what the client's last call returned
    fpc,      \* what the flusher does next
    fpack,    \* the entries it claimed
    fkeys,    \* StageClaim's candidates, then PromoteStaged's survivors
    rpc,      \* what the reader does next
    rop,      \* "Get", or "Stat" for Has and GetSize
    rkey,     \* the key it reads
    rrec,     \* the blob its index record names
    rres      \* its answer

tables == <<staging, leased, index, walrus, served>>
clientVars == <<cpc, batch, ctodo, ckeys, cerr, creply>>
flusherVars == <<fpc, fpack, fkeys>>
readerVars == <<rpc, rop, rkey, rrec, rres>>
vars == <<staging, leased, index, walrus, served, cpc, batch, ctodo, ckeys, cerr,
          creply, fpc, fpack, fkeys, rpc, rop, rkey, rrec, rres>>

-----------------------------------------------------------------------------
(* Rows *)

\* Index rows of S that point into blob, upserted; index rows of S deleted.
PointAt(S, blob) == [k \in Key |-> IF k \in S THEN blob ELSE index[k]]

IndexWithout(S) == PointAt(S, Nothing)

Indexed == {k \in Key : index[k] # Nothing}

\* Put stages small values and uploads those of PackTargetSize or more.
Small(b) == {k \in Present(b.put) : b.put[k] \notin Oversize}
Large(b) == {k \in Present(b.put) : b.put[k] \in Oversize}

\* Mutant: the two statements run outside a transaction.
NoLocks == {}

\* Row locks held between the two statements of PromoteStaged and DeleteMany.
StagingLocks == UNION {fkeys[f] : f \in {g \in Flusher : fpc[g] = "insert"}}
IndexLocks == UNION {ckeys[c] : c \in {d \in Client : cpc[d] = "purge"}}

Claimable == Present(staging) \ leased

\* How a call to Postgres or Walrus ends: "failed" had no effect, "lost" took
\* effect but was reported as an error (timeout, lost reply).  A lock wait that
\* Postgres breaks as a deadlock is a "failed".
Outcome == {"ok", "failed", "lost"}

-----------------------------------------------------------------------------
(* Clients: Put, Delete and Batch.Commit *)

\* A call starts.  Put and Delete are the batches of one key: they make the
\* calls of Commit that concern their key and return its error.
Begin(c) ==
    /\ cpc[c] = "idle"
    /\ \E b \in Batches :
         /\ batch' = [batch EXCEPT ![c] = b]
         /\ ctodo' = [ctodo EXCEPT ![c] = Large(b)]
    /\ cpc' = [cpc EXCEPT ![c] = "stage"]
    /\ creply' = [creply EXCEPT ![c] = "none"]
    /\ UNCHANGED <<ckeys, cerr, tables, flusherVars, readerVars>>

\* Mutant: Commit drops the errors of its steps.
ReportDropped(c, out, S) == cerr' = cerr

\* Errors are collected and the call goes on with its next step.
Report(c, out, S) == cerr' = [cerr EXCEPT ![c] = IF out = "ok" THEN @ ELSE @ \cup S]

\* The upsert refreshes the bytes and clears the lease.  It waits for rows a
\* promotion has deleted and not committed.
StagePutMany(c, out) ==
    /\ cpc[c] = "stage"
    /\ LET S == Small(batch[c]) IN
         /\ \/ /\ out = "failed"
               /\ UNCHANGED <<staging, leased>>
            \/ /\ out # "failed"
               /\ S \cap StagingLocks = {}
               /\ staging' = Upsert(staging, Only(batch[c].put, S))
               /\ leased' = leased \ S
         /\ Report(c, out, S)
    /\ cpc' = [cpc EXCEPT ![c] = "upload"]
    /\ UNCHANGED <<index, walrus, served, batch, ctodo, ckeys, creply, flusherVars, readerVars>>

\* Mutant: the oversize block is recorded even if its upload failed.
DirectUploadUnchecked(c, k, out) ==
    /\ cpc[c] = "upload"
    /\ k \in ctodo[c]
    /\ walrus' = IF out = "failed" THEN walrus ELSE walrus \cup {Only(batch[c].put, {k})}
    /\ cpc' = [cpc EXCEPT ![c] = "record"]
    /\ ckeys' = [ckeys EXCEPT ![c] = {k}]
    /\ ctodo' = [ctodo EXCEPT ![c] = @ \ {k}]
    /\ Report(c, out, {k})
    /\ UNCHANGED <<staging, leased, index, served, batch, creply, flusherVars, readerVars>>

\* uploadPack of one oversize block: a blob of its own.
DirectUpload(c, k, out) ==
    /\ cpc[c] = "upload"
    /\ k \in ctodo[c]
    /\ walrus' = IF out = "failed" THEN walrus ELSE walrus \cup {Only(batch[c].put, {k})}
    /\ \/ /\ out = "ok"
          /\ cpc' = [cpc EXCEPT ![c] = "record"]
          /\ ckeys' = [ckeys EXCEPT ![c] = {k}]
       \/ /\ out # "ok"
          /\ UNCHANGED <<cpc, ckeys>>
    /\ ctodo' = [ctodo EXCEPT ![c] = @ \ {k}]
    /\ Report(c, out, {k})
    /\ UNCHANGED <<staging, leased, index, served, batch, creply, flusherVars, readerVars>>

\* The index row of the oversize block just stored.
PutMany(c, out) ==
    /\ cpc[c] = "record"
    /\ \/ /\ out = "failed"
          /\ UNCHANGED index
       \/ /\ out # "failed"
          /\ ckeys[c] \cap IndexLocks = {}
          /\ index' = PointAt(ckeys[c], Only(batch[c].put, ckeys[c]))
    /\ Report(c, out, ckeys[c])
    /\ cpc' = [cpc EXCEPT ![c] = "upload"]
    /\ ckeys' = [ckeys EXCEPT ![c] = {}]
    /\ UNCHANGED <<staging, leased, walrus, served, batch, ctodo, creply, flusherVars,
                   readerVars>>

\* DeleteMany's first statement: the index rows that exist now are deleted, not
\* yet committed.
DeleteIndex(c, out) ==
    /\ cpc[c] = "upload"
    /\ ctodo[c] = {}
    /\ batch[c].del # {}
    /\ \/ /\ out = "failed"
          /\ cpc' = [cpc EXCEPT ![c] = "return"]
          /\ UNCHANGED ckeys
       \/ /\ out = "ok"
          /\ batch[c].del \cap IndexLocks = {}
          /\ ckeys' = [ckeys EXCEPT ![c] = batch[c].del \cap Indexed]
          /\ cpc' = [cpc EXCEPT ![c] = "purge"]
    /\ Report(c, out, batch[c].del)
    /\ UNCHANGED <<tables, batch, ctodo, creply, flusherVars, readerVars>>

\* DeleteMany's second statement and the commit; "failed" rolls both back.
DeleteStaging(c, out) ==
    /\ cpc[c] = "purge"
    /\ \/ /\ out = "failed"
          /\ UNCHANGED tables
       \/ /\ out # "failed"
          /\ batch[c].del \cap StagingLocks = {}
          /\ staging' = Without(staging, batch[c].del)
          /\ leased' = leased \ batch[c].del
          /\ index' = IndexWithout(ckeys[c])
          /\ UNCHANGED <<walrus, served>>
    /\ Report(c, out, batch[c].del)
    /\ cpc' = [cpc EXCEPT ![c] = "return"]
    /\ ckeys' = [ckeys EXCEPT ![c] = {}]
    /\ UNCHANGED <<batch, ctodo, creply, flusherVars, readerVars>>

\* The call is over: its locks are gone with its transaction.
EndCall(c, reply) ==
    /\ creply' = [creply EXCEPT ![c] = reply]
    /\ cpc' = [cpc EXCEPT ![c] = "idle"]
    /\ batch' = [batch EXCEPT ![c] = EmptyBatch]
    /\ ctodo' = [ctodo EXCEPT ![c] = {}]
    /\ ckeys' = [ckeys EXCEPT ![c] = {}]
    /\ cerr' = [cerr EXCEPT ![c] = {}]
    /\ UNCHANGED <<tables, flusherVars, readerVars>>

\* Commit returns nil when no step failed.
Return(c) ==
    /\ \/ cpc[c] = "return"
       \/ cpc[c] = "upload" /\ ctodo[c] = {} /\ batch[c].del = {}
    /\ EndCall(c, IF cerr[c] = {} THEN "ok" ELSE "error")

\* The node dies in the middle of the call.
ClientCrash(c) ==
    /\ cpc[c] # "idle"
    /\ EndCall(c, "error")

-----------------------------------------------------------------------------
(* Flushers: flushStaged's claims and flushOnePack *)

\* Back to flushStaged's loop.
Idle(f) ==
    /\ fpc' = [fpc EXCEPT ![f] = "idle"]
    /\ fpack' = [fpack EXCEPT ![f] = Nothing]
    /\ fkeys' = [fkeys EXCEPT ![f] = {}]

\* StageClaim's SELECT.  Ripeness, age order and byte budget are abstracted to
\* the choice of the candidates.
Select(f) ==
    /\ fpc[f] = "idle"
    /\ \E S \in (SUBSET Claimable) \ {{}} :
         /\ Cardinality(S) <= MaxPack
         /\ fkeys' = [fkeys EXCEPT ![f] = S]
    /\ fpc' = [fpc EXCEPT ![f] = "lease"]
    /\ UNCHANGED <<fpack, tables, clientVars, readerVars>>

\* Mutants: the UPDATE does not look at the lease again, or leases deleted rows.
GrantedUnchecked(f) == fkeys[f] \cap Present(staging)
GrantedDeleted(f) == fkeys[f] \ leased

\* The candidates StageClaim's UPDATE still finds unleased.
Granted(f) == fkeys[f] \cap Claimable

\* StageClaim's UPDATE ... RETURNING; it waits for locked rows that qualify.  A
\* lost reply leaves rows leased by nobody.
Lease(f, out) ==
    /\ fpc[f] = "lease"
    /\ out # "failed" => Granted(f) \cap StagingLocks = {}
    /\ leased' = IF out = "failed" THEN leased ELSE leased \cup Granted(f)
    /\ \/ /\ out = "ok"
          /\ Granted(f) # {}
          /\ fpack' = [fpack EXCEPT ![f] = Only(staging, Granted(f))]
          /\ fpc' = [fpc EXCEPT ![f] = "upload"]
          /\ fkeys' = [fkeys EXCEPT ![f] = {}]
       \/ /\ out # "ok" \/ Granted(f) = {}
          /\ Idle(f)
    /\ UNCHANGED <<staging, index, walrus, served, clientVars, readerVars>>

\* Mutant: a failed upload is promoted like a successful one.
UploadUnchecked(f, out) ==
    /\ fpc[f] = "upload"
    /\ walrus' = IF out = "failed" THEN walrus ELSE walrus \cup {fpack[f]}
    /\ fpc' = [fpc EXCEPT ![f] = "promote"]
    /\ UNCHANGED <<staging, leased, index, served, fpack, fkeys, clientVars, readerVars>>

\* uploadPack: the claimed entries become one blob.  Blob IDs are derived from
\* the content, so storing it again changes nothing.
Upload(f, out) ==
    /\ fpc[f] = "upload"
    /\ walrus' = IF out = "failed" THEN walrus ELSE walrus \cup {fpack[f]}
    /\ fpc' = [fpc EXCEPT ![f] = IF out = "ok" THEN "promote" ELSE "release"]
    /\ UNCHANGED <<staging, leased, index, served, fpack, fkeys, clientVars, readerVars>>

\* Mutant: rows are inserted for every key of the pack.
SurvivorsAll(f) == Present(fpack[f])

\* The keys PromoteStaged's DELETE ... RETURNING finds still staged.
Survivors(f) == Present(fpack[f]) \cap Present(staging)

\* PromoteStaged's first statement: locks the survivors, not yet committed.
PromoteDelete(f, out) ==
    /\ fpc[f] = "promote"
    /\ \/ /\ out = "failed"
          /\ fpc' = [fpc EXCEPT ![f] = "release"]
          /\ UNCHANGED fkeys
       \/ /\ out = "ok"
          /\ Survivors(f) \cap StagingLocks = {}
          /\ fkeys' = [fkeys EXCEPT ![f] = Survivors(f)]
          /\ fpc' = [fpc EXCEPT ![f] = "insert"]
    /\ UNCHANGED <<fpack, tables, clientVars, readerVars>>

\* putManyTx for the survivors and the commit; "failed" rolls the move back.
PromoteInsert(f, out) ==
    /\ fpc[f] = "insert"
    /\ \/ /\ out = "failed"
          /\ UNCHANGED <<staging, leased, index>>
       \/ /\ out # "failed"
          /\ fkeys[f] \cap IndexLocks = {}
          /\ staging' = Without(staging, fkeys[f])
          /\ leased' = leased \ fkeys[f]
          /\ index' = PointAt(fkeys[f], fpack[f])
    /\ \/ /\ out = "ok"
          /\ Idle(f)
       \/ /\ out # "ok"
          /\ fpc' = [fpc EXCEPT ![f] = "release"]
          /\ fkeys' = [fkeys EXCEPT ![f] = {}]
          /\ UNCHANGED fpack
    /\ UNCHANGED <<walrus, served, clientVars, readerVars>>

\* StageRelease clears the lease of every key of the pack, whoever holds it now.
\* A failed release is only logged.
Release(f, out) ==
    /\ fpc[f] = "release"
    /\ \/ /\ out = "failed"
          /\ UNCHANGED leased
       \/ /\ out = "ok"
          /\ Present(fpack[f]) \cap StagingLocks = {}
          /\ leased' = leased \ Present(fpack[f])
    /\ Idle(f)
    /\ UNCHANGED <<staging, index, walrus, served, clientVars, readerVars>>

\* The node dies, or Close cancels the context and no release gets through.
FlusherCrash(f) ==
    /\ fpc[f] # "idle"
    /\ Idle(f)
    /\ UNCHANGED <<tables, clientVars, readerVars>>

\* The row of k becomes claimable again: leased_until passes.  The safety of the
\* data path holds whether or not this ever happens; what index.go:617 writes
\* into leased_until, and so when it passes, is the subject of PackFlusher.
LeaseExpire(k) ==
    /\ k \in leased
    /\ leased' = leased \ {k}
    /\ UNCHANGED <<staging, index, walrus, served, clientVars, flusherVars, readerVars>>

-----------------------------------------------------------------------------
(* Readers: Get, and Has and GetSize ("Stat"), which stop at Postgres *)

StartRead(r) ==
    /\ rpc[r] = "idle"
    /\ \E op \in {"Get", "Stat"}, k \in Key :
         /\ rop' = [rop EXCEPT ![r] = op]
         /\ rkey' = [rkey EXCEPT ![r] = k]
    /\ rpc' = [rpc EXCEPT ![r] = "staging"]
    /\ rres' = [rres EXCEPT ![r] = "none"]
    /\ UNCHANGED <<rrec, tables, clientVars, flusherVars>>

Answer(r, res) ==
    /\ rpc' = [rpc EXCEPT ![r] = "idle"]
    /\ rrec' = [rrec EXCEPT ![r] = Nothing]
    /\ rres' = [rres EXCEPT ![r] = res]

\* StageGet / StageGetSize: a staged block is served from Postgres.
ProbeStaging(r) ==
    /\ rpc[r] = "staging"
    /\ \/ /\ rkey[r] \in Present(staging)
          /\ Answer(r, "found")
       \/ /\ rkey[r] \notin Present(staging)
          /\ rpc' = [rpc EXCEPT ![r] = "index"]
          /\ UNCHANGED <<rrec, rres>>
    /\ UNCHANGED <<rop, rkey, tables, clientVars, flusherVars>>

\* index.Get
ProbeIndex(r) ==
    /\ rpc[r] = "index"
    /\ \/ /\ rkey[r] \notin Indexed
          /\ Answer(r, "notfound")
       \/ /\ rkey[r] \in Indexed
          /\ rop[r] = "Stat"
          /\ Answer(r, "found")
       \/ /\ rkey[r] \in Indexed
          /\ rop[r] = "Get"
          /\ rrec' = [rrec EXCEPT ![r] = index[rkey[r]]]
          /\ rpc' = [rpc EXCEPT ![r] = "walrus"]
          /\ UNCHANGED rres
    /\ UNCHANGED <<rop, rkey, tables, clientVars, flusherVars>>

\* ReadQuiltPatch / ReadRange.  A 404 ends the read at the aggregator asked first,
\* and ErrBlobNotFound becomes ErrNotFound, also if the blob is stored and another
\* aggregator has it already.
ReadWalrus(r) ==
    /\ rpc[r] = "walrus"
    /\ \/ /\ rrec[r] \in walrus /\ rrec[r][rkey[r]] # NoValue
          /\ Answer(r, "found")
       \/ /\ rrec[r] \notin served \/ rrec[r][rkey[r]] = NoValue
          /\ Answer(r, "notfound")
    /\ UNCHANGED <<rop, rkey, tables, clientVars, flusherVars>>

\* A stored blob becomes visible at the last of the aggregators that lagged.
Appear(b) ==
    /\ b \in walrus \ served
    /\ served' = served \cup {b}
    /\ UNCHANGED <<staging, leased, index, walrus, clientVars, flusherVars, readerVars>>

\* Any of the three calls fails.
ReadError(r) ==
    /\ rpc[r] # "idle"
    /\ Answer(r, "error")
    /\ UNCHANGED <<rop, rkey, tables, clientVars, flusherVars>>

-----------------------------------------------------------------------------
Init ==
    /\ staging = Nothing
    /\ leased = {}
    /\ index = [k \in Key |-> Nothing]
    /\ walrus = {}
    /\ served = {}
    /\ cpc = [c \in Client |-> "idle"]
    /\ batch = [c \in Client |-> EmptyBatch]
    /\ ctodo = [c \in Client |-> {}]
    /\ ckeys = [c \in Client |-> {}]
    /\ cerr = [c \in Client |-> {}]
    /\ creply = [c \in Client |-> "none"]
    /\ fpc = [f \in Flusher |-> "idle"]
    /\ fpack = [f \in Flusher |-> Nothing]
    /\ fkeys = [f \in Flusher |-> {}]
    /\ rpc = [r \in Reader |-> "idle"]
    /\ rop = [r \in Reader |-> "Get"]
    /\ rkey \in [Reader -> Key]
    /\ rrec = [r \in Reader |-> Nothing]
    /\ rres = [r \in Reader |-> "none"]

ClientStep(c) ==
    \/ Begin(c)
    \/ \E out \in Outcome : StagePutMany(c, out)
    \/ \E k \in Key, out \in Outcome : DirectUpload(c, k, out)
    \/ \E out \in Outcome : PutMany(c, out)
    \/ \E out \in Outcome : DeleteIndex(c, out)
    \/ \E out \in Outcome : DeleteStaging(c, out)
    \/ Return(c)
    \/ ClientCrash(c)

FlusherStep(f) ==
    \/ Select(f)
    \/ \E out \in Outcome : Lease(f, out)
    \/ \E out \in Outcome : Upload(f, out)
    \/ \E out \in Outcome : PromoteDelete(f, out)
    \/ \E out \in Outcome : PromoteInsert(f, out)
    \/ \E out \in Outcome : Release(f, out)
    \/ FlusherCrash(f)

\* Mutant: the index is probed before staging.
ReaderStepIndexFirst(r) ==
    \/ StartRead(r)
    \/ /\ \/ /\ rpc[r] = "staging" /\ rkey[r] \notin Indexed
             /\ rpc' = [rpc EXCEPT ![r] = "index"]
             /\ UNCHANGED <<rrec, rres>>
          \/ /\ rpc[r] = "staging" /\ rkey[r] \in Indexed
             /\ Answer(r, "found")
          \/ /\ rpc[r] = "index"
             /\ Answer(r, IF rkey[r] \in Present(staging) THEN "found" ELSE "notfound")
       /\ UNCHANGED <<rop, rkey, tables, clientVars, flusherVars>>
    \/ ReadError(r)

ReaderStep(r) ==
    \/ StartRead(r)
    \/ ProbeStaging(r)
    \/ ProbeIndex(r)
    \/ ReadWalrus(r)
    \/ ReadError(r)

Next ==
    \/ \E c \in Client : ClientStep(c)
    \/ \E f \in Flusher : FlusherStep(f)
    \/ \E r \in Reader : ReaderStep(r)
    \/ \E k \in Key : LeaseExpire(k)
    \/ \E b \in walrus : Appear(b)

Spec == Init /\ [][Next]_vars

-----------------------------------------------------------------------------
(* Properties *)

FlusherPC == {"idle", "lease", "upload", "promote", "insert", "release"}
ClientPC == {"idle", "stage", "upload", "record", "purge", "return"}
ReaderPC == {"idle", "staging", "index", "walrus"}

\* Every variable holds values of its kind; only staged rows are leased and an
\* idle client has no call.
TypeOK ==
    /\ staging \in Content
    /\ leased \subseteq Present(staging)
    /\ index \in [Key -> Content]
    /\ walrus \subseteq Content
    /\ served \subseteq walrus
    /\ cpc \in [Client -> ClientPC]
    /\ batch \in [Client -> Batches \cup {EmptyBatch}]
    /\ \A c \in Client : batch[c] = EmptyBatch <=> cpc[c] = "idle"
    /\ ctodo \in [Client -> SUBSET Key]
    /\ ckeys \in [Client -> SUBSET Key]
    /\ cerr \in [Client -> SUBSET Key]
    /\ creply \in [Client -> {"none", "ok", "error"}]
    /\ fpc \in [Flusher -> FlusherPC]
    /\ fpack \in [Flusher -> Content]
    /\ fkeys \in [Flusher -> SUBSET Key]
    /\ rpc \in [Reader -> ReaderPC]
    /\ rop \in [Reader -> {"Get", "Stat"}]
    /\ rkey \in [Reader -> Key]
    /\ rrec \in [Reader -> Content]
    /\ rres \in [Reader -> {"none", "found", "notfound", "error"}]

\* Walrus-first ordering (uploadPack): a committed index row always names a blob
\* that is stored and that holds the key, whatever fails, crashes, expires or is
\* retried in between, so no Get can run into a dangling row.
WalrusFirst ==
    \A k \in Indexed : index[k] \in walrus /\ index[k][k] # NoValue

\* The row locks of a promotion: between PromoteStaged's DELETE and its commit,
\* every survivor is still staged for everyone else and no other promotion has
\* it, so the commit moves exactly the rows it returned, each of them once.
PromotionExclusive ==
    \A f \in Flusher : fpc[f] = "insert" =>
      /\ fkeys[f] \subseteq Present(fpack[f]) \cap Present(staging)
      /\ \A g \in Flusher \ {f} : fpc[g] = "insert" => fkeys[f] \cap fkeys[g] = {}

\* What a Get of k, run now and alone, returns: the staged bytes, or else the
\* bytes of the indexed blob.
Visible == [k \in Key |-> IF staging[k] # NoValue THEN staging[k] ELSE index[k][k]]

\* The keys whose row names a stored blob that some aggregator does not serve yet.
Lagging == {k \in Indexed : index[k] \in walrus \ served}

\* The Puts of c's call that no successful step has covered yet.
Owed == [c \in Client |->
    {k \in Present(batch[c].put) :
       \/ k \in cerr[c]
       \/ cpc[c] = "stage"
       \/ cpc[c] \in {"upload", "record"} /\ k \in ctodo[c]
       \/ cpc[c] = "record" /\ k \in ckeys[c]}]

Abs == INSTANCE BlockStore
         WITH store <- Visible, pending <- batch, owed <- Owed, reply <- creply

\* The data path implements BlockStore when keys are content-addressed: claims,
\* uploads, promotions, releases, crashes and expiring leases never change what
\* a Get returns, only a client's running Put, Delete or Commit does, and a call
\* that returned nil has made all its Puts readable.
Implements == Abs!Spec
=============================================================================
