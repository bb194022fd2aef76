---------------------------- MODULE PackFlusher ----------------------------
(***************************************************************************)
(* When staged blocks are flushed: the background worker of every node     *)
(* (startFlushWorker, flushStaged, flushOnePack) over the shared staging   *)
(* table, with time, the ripeness tests, the FIFO claim under its count    *)
(* and byte limits, the ticker and the kick channel, rounds of up to       *)
(* Workers parallel uploads, the back-off after a failed round, the leases *)
(* on claimed rows and the faults that leave such a lease behind.          *)
(*                                                                         *)
(* What a promotion does to the two tables is StagedIndex's subject; here  *)
(* it takes the block out of staging.  Time is a tick per unit of the      *)
(* configured durations: a row carries its age and the ticks left of its   *)
(* lease instead of created_at and leased_until.  Postgres is version 15   *)
(* or later; an older one refuses the lease index.go:617 asks for as out   *)
(* of range, so there every claim fails and nothing leaves staging.        *)
(***************************************************************************)
EXTENDS Integers, FiniteSets, FiniteSetsExt

CONSTANTS
    Key,         \* blocks
    Size,        \* their sizes; a value of PackTargetSize is not staged
    Node,        \* the nodes sharing the database
    Workers,     \* packs uploaded in parallel by one node
    TargetSize,  \* PackTargetSize
    MaxCount,    \* quiltMaxPatches / concatMaxBlocks
    MaxAge,      \* PackMaxAge
    IdleFlush,   \* PackIdleFlush
    LeaseTime,   \* stageLease
    Horizon,     \* bound: a lease of more ticks than this does not end
    MaxFaults,   \* bound: faults in a behaviour that may leave a lease behind
    Ranks,       \* bound: blocks whose order is kept however old they are
    Poison       \* blocks no publisher takes: a pack with one of them always fails

ASSUME KeyAssumption == IsFiniteSet(Key)
ASSUME SizeAssumption == Size \in [Key -> 0 .. (TargetSize - 1)]
ASSUME LimitsAssumption ==
    /\ {Workers, TargetSize, MaxCount, MaxAge, IdleFlush, LeaseTime} \subseteq Nat \ {0}
    /\ {Horizon, MaxFaults, Ranks} \subseteq Nat
    /\ Poison \subseteq Key

\* Ages beyond both flush thresholds differ only in their order, which decides
\* what a claim takes first; it is kept for Ranks blocks.
AgeCap == IF MaxAge > IdleFlush THEN MaxAge ELSE IdleFlush

Slot == 1 .. Workers

VARIABLES
    age,      \* time since created_at of a staged block; -1: not staged
    lease,    \* time until leased_until; 0: claimable
    kick,     \* flushKick: a check is pending (capacity 1)
    tick,     \* the ticker's channel (capacity 1)
    npc,      \* what the worker does next
    packs,    \* the round's claimed packs still to finish; {}: free slot
    failed,   \* flushStaged: a pack of the round failed
    faults    \* crashes, lost claims and failed releases so far

vars == <<age, lease, kick, tick, npc, packs, failed, faults>>

-----------------------------------------------------------------------------
Staged == {k \in Key : age[k] >= 0}

\* Mutant: a row deleted since it was seen is still claimed.
ClaimableDeleted == {k \in Key : lease[k] = 0}

Claimable == {k \in Staged : lease[k] = 0}

Bytes(S) == MapThenSumSet(LAMBDA k : Size[k], S)

\* flushStaged's test on StageStats: enough bytes, oldest aged, newest idle.
Ripe ==
    /\ Claimable # {}
    /\ \/ Bytes(Claimable) >= TargetSize
       \/ \E k \in Claimable : age[k] >= MaxAge
       \/ \A k \in Claimable : age[k] >= IdleFlush

\* The rows StageClaim takes: oldest first (rows of one age in any order), at
\* most MaxCount, stopping at the first that would exceed the byte limit.
FirstRows ==
    {S \in (SUBSET Claimable) \ {{}} :
       /\ \A a \in S, b \in Claimable \ S : age[a] >= age[b]
       /\ Cardinality(S) <= MaxCount
       /\ Bytes(S) <= TargetSize
       /\ \/ S = Claimable
          \/ Cardinality(S) = MaxCount
          \/ \E b \in Claimable \ S :
               /\ \A d \in Claimable \ S : age[b] >= age[d]
               /\ Bytes(S) + Size[b] > TargetSize}

\* StageClaim binds stageLease, a Go Duration, to now() + $2: its driver sends the
\* bare count of nanoseconds and Postgres takes a bare number for seconds.
NanosPerSecond == 1000000000
LeaseGranted == LeaseTime * NanosPerSecond

\* Time since created_at and time until leased_until move together.
LeaseLeft == [k \in Key |-> IF lease[k] \in 1 .. Horizon THEN lease[k] - 1 ELSE lease[k]]

AgeLimit(k) == Max({AgeCap, AgeCap + Ranks - Cardinality({j \in Staged : age[j] > age[k]})})

Grown(k) == IF k \in Staged /\ age[k] < AgeLimit(k) THEN age[k] + 1 ELSE age[k]

TimePasses ==
    /\ age' = [k \in Key |-> Grown(k)]
    /\ lease' = LeaseLeft
    /\ UNCHANGED <<kick, tick, npc, packs, failed, faults>>

-----------------------------------------------------------------------------
(* Clients *)

\* Put or Commit on node n: StagePutMany, then kickFlusher unless the call fails
\* after its rows are in.  A re-put refreshes created_at and clears the lease.
Put(n, k, ok) ==
    /\ age' = [age EXCEPT ![k] = 0]
    /\ lease' = [lease EXCEPT ![k] = 0]
    /\ kick' = [kick EXCEPT ![n] = @ \/ ok]
    /\ UNCHANGED <<tick, npc, packs, failed, faults>>

Delete(k) ==
    /\ k \in Staged
    /\ age' = [age EXCEPT ![k] = -1]
    /\ lease' = [lease EXCEPT ![k] = 0]
    /\ UNCHANGED <<kick, tick, npc, packs, failed, faults>>

-----------------------------------------------------------------------------
(* The worker of node n *)

TickerFires(n) ==
    /\ ~ tick[n]
    /\ tick' = [tick EXCEPT ![n] = TRUE]
    /\ UNCHANGED <<age, lease, kick, npc, packs, failed, faults>>

\* Mutant: the worker waits for kicks alone.
WakeKicked(n) ==
    /\ npc[n] = "wait"
    /\ kick[n]
    /\ kick' = [kick EXCEPT ![n] = FALSE]
    /\ npc' = [npc EXCEPT ![n] = "stats"]
    /\ UNCHANGED <<age, lease, tick, packs, failed, faults>>

\* The worker's select: a tick or a kick starts flushStaged.
Wake(n) ==
    /\ npc[n] = "wait"
    /\ \/ /\ tick[n]
          /\ tick' = [tick EXCEPT ![n] = FALSE]
          /\ UNCHANGED kick
       \/ /\ kick[n]
          /\ kick' = [kick EXCEPT ![n] = FALSE]
          /\ UNCHANGED tick
    /\ npc' = [npc EXCEPT ![n] = "stats"]
    /\ UNCHANGED <<age, lease, packs, failed, faults>>

Free(n) == {i \in Slot : packs[n][i] = {}}

\* No further claim this round: upload the packs there are, or return.
StopClaiming(n) ==
    npc' = [npc EXCEPT ![n] = IF Free(n) = Slot THEN "wait" ELSE "upload"]

\* StageStats and the ripeness test.
Stats(n, ok) ==
    /\ npc[n] = "stats"
    /\ \/ /\ ok /\ Ripe
          /\ npc' = [npc EXCEPT ![n] = "claim"]
       \/ /\ ~ (ok /\ Ripe)
          /\ StopClaiming(n)
    /\ UNCHANGED <<age, lease, kick, tick, packs, failed, faults>>

\* StageClaim, on the rows there are by now.  "lost" leases them and is reported
\* as an error (the UPDATE's reply, or the scan of a row it returns): no pack has
\* them and nobody releases them.
Claim(n, out) ==
    /\ npc[n] = "claim"
    /\ \/ /\ out # "failed"
          /\ \E S \in FirstRows :
               /\ lease' = [k \in Key |-> IF k \in S THEN LeaseGranted ELSE lease[k]]
               /\ \/ /\ out = "ok"
                     /\ packs' = [packs EXCEPT ![n][Min(Free(n))] = S]
                     /\ npc' = [npc EXCEPT ![n] =
                                  IF Cardinality(Free(n)) = 1 THEN "upload" ELSE "stats"]
                     /\ UNCHANGED faults
                  \/ /\ out = "lost"
                     /\ faults < MaxFaults
                     /\ faults' = faults + 1
                     /\ StopClaiming(n)
                     /\ UNCHANGED packs
       \/ /\ out = "failed" \/ Claimable = {}
          /\ StopClaiming(n)
          /\ UNCHANGED <<lease, packs, faults>>
    /\ UNCHANGED <<age, kick, tick, failed>>

\* flushOnePack succeeds: the blocks still staged are promoted.
PackOk(n, i) ==
    /\ npc[n] = "upload"
    /\ packs[n][i] # {}
    /\ packs[n][i] \cap Poison = {}
    /\ age' = [k \in Key |-> IF k \in packs[n][i] THEN -1 ELSE age[k]]
    /\ lease' = [k \in Key |-> IF k \in packs[n][i] THEN 0 ELSE lease[k]]
    /\ packs' = [packs EXCEPT ![n][i] = {}]
    /\ UNCHANGED <<kick, tick, npc, failed, faults>>

\* flushOnePack fails and releases the claim; a StageRelease that fails is only
\* logged.
PackFailed(n, i, released) ==
    /\ npc[n] = "upload"
    /\ packs[n][i] # {}
    /\ \/ released /\ UNCHANGED faults
       \/ ~ released /\ faults < MaxFaults /\ faults' = faults + 1
    /\ lease' = [k \in Key |-> IF released /\ k \in packs[n][i] THEN 0 ELSE lease[k]]
    /\ packs' = [packs EXCEPT ![n][i] = {}]
    /\ failed' = [failed EXCEPT ![n] = TRUE]
    /\ UNCHANGED <<age, kick, tick, npc>>

\* wg.Wait: another round, or back off until the next tick or kick.
RoundEnds(n) ==
    /\ npc[n] = "upload"
    /\ Free(n) = Slot
    /\ npc' = [npc EXCEPT ![n] = IF failed[n] THEN "wait" ELSE "stats"]
    /\ failed' = [failed EXCEPT ![n] = FALSE]
    /\ UNCHANGED <<age, lease, kick, tick, packs, faults>>

\* The node dies with its claims and starts again.
Crash(n) ==
    /\ faults < MaxFaults
    /\ faults' = faults + 1
    /\ npc' = [npc EXCEPT ![n] = "wait"]
    /\ packs' = [packs EXCEPT ![n] = [i \in Slot |-> {}]]
    /\ failed' = [failed EXCEPT ![n] = FALSE]
    /\ kick' = [kick EXCEPT ![n] = FALSE]
    /\ tick' = [tick EXCEPT ![n] = FALSE]
    /\ UNCHANGED <<age, lease>>

-----------------------------------------------------------------------------
Init ==
    /\ age = [k \in Key |-> -1]
    /\ lease = [k \in Key |-> 0]
    /\ kick = [n \in Node |-> FALSE]
    /\ tick = [n \in Node |-> FALSE]
    /\ npc = [n \in Node |-> "wait"]
    /\ packs = [n \in Node |-> [i \in Slot |-> {}]]
    /\ failed = [n \in Node |-> FALSE]
    /\ faults = 0

PackStep(n, i) == PackOk(n, i) \/ \E released \in BOOLEAN : PackFailed(n, i, released)

WorkerStep(n) ==
    \/ Wake(n)
    \/ \E ok \in BOOLEAN : Stats(n, ok)
    \/ \E out \in {"ok", "failed", "lost"} : Claim(n, out)
    \/ \E i \in Slot : PackStep(n, i)
    \/ RoundEnds(n)

Next ==
    \/ TimePasses
    \/ \E n \in Node, k \in Key, ok \in BOOLEAN : Put(n, k, ok)
    \/ \E k \in Key : Delete(k)
    \/ \E n \in Node : TickerFires(n) \/ WorkerStep(n) \/ Crash(n)

\* Time passes, tickers fire and goroutines run (every HTTP request and SQL call
\* ends: RequestTimeout).  Postgres does not refuse every scan and claim of a
\* node, and no block's upload fails forever, packs with Poison excepted.
Fairness ==
    /\ WF_vars(TimePasses)
    /\ \A n \in Node :
         /\ WF_vars(TickerFires(n))
         /\ WF_vars(WorkerStep(n))
         /\ SF_vars(Stats(n, TRUE))
         /\ SF_vars(Claim(n, "ok"))
    /\ \A k \in Key : SF_vars(\E n \in Node, i \in Slot : k \in packs[n][i] /\ PackOk(n, i))

Spec == Init /\ [][Next]_vars

FairSpec == Spec /\ Fairness

\* A claim that may take a block first, a tie of ages included, does in the end.
FairTies ==
    \A n \in Node, k \in Key :
      SF_vars(Claim(n, "ok") /\ k \in UNION {packs'[n][i] \ packs[n][i] : i \in Slot})

FairTiesSpec == FairSpec /\ FairTies

-----------------------------------------------------------------------------
\* Every variable holds values of its kind; only staged blocks are leased.
TypeOK ==
    /\ age \in [Key -> -1 .. AgeCap + Ranks]
    /\ lease \in [Key -> 0 .. LeaseGranted]
    /\ \A k \in Key : lease[k] > 0 => k \in Staged
    /\ kick \in [Node -> BOOLEAN]
    /\ tick \in [Node -> BOOLEAN]
    /\ npc \in [Node -> {"wait", "stats", "claim", "upload"}]
    /\ packs \in [Node -> [Slot -> SUBSET Key]]
    /\ failed \in [Node -> BOOLEAN]
    /\ faults \in 0 .. MaxFaults

\* k is leased and in no pack: nobody works on it, and nobody may claim it.
Orphaned(k) == lease[k] > 0 /\ \A n \in Node, i \in Slot : k \notin packs[n][i]

\* "so blocks never wait indefinitely" (README.md:79): a staged block is in the
\* end promoted, deleted or written again (which restarts its age), however other
\* blocks keep arriving, uploads fail and are released, and an older block can
\* never be uploaded; only a fault that leaves its lease behind (a node's death,
\* the lost reply of a claim, a failed release) may keep it.
Drains == \A k \in Key \ Poison : age[k] > 0 ~> age[k] <= 0 \/ Orphaned(k)

\* "a crashed flusher's lease expires and the claim is retried" (CONTEXT.md:76):
\* rows left leased by a node that died, a claim whose reply was lost or a release
\* that failed become claimable again, unless they are written again or deleted.
\* A documented claim the code does not keep.
OrphanRetried == \A k \in Key : Orphaned(k) ~> ~ Orphaned(k)

\* "until this many bytes (or quiltMaxPatches) are ready" (walrus.go:49): a full
\* quilt's worth of claimable blocks is ripe whatever its bytes.
\* A documented claim the code does not keep.
FullCountIsRipe == Cardinality(Claimable) >= MaxCount => Ripe
=============================================================================
