------------------------- MODULE PackFlusherProofs -------------------------
(***************************************************************************)
(* Proofs about PackFlusher, for any nodes, blocks, workers and limits.    *)
(*                                                                         *)
(* The type invariant is not inductive by itself: a claim fills the first  *)
(* free slot of its round, and that there is one follows from how the      *)
(* rounds go (InRound).                                                    *)
(***************************************************************************)
EXTENDS PackFlusher, FiniteSetTheorems, WellFoundedInduction, TLAPS

USE KeyAssumption, SizeAssumption, LimitsAssumption

\* While the worker claims, a slot is free; when flushStaged has returned, every
\* pack it claimed is finished; a failure is remembered only during the uploads.
InRound ==
    \A n \in Node :
      /\ npc[n] \in {"stats", "claim"} => Free(n) # {}
      /\ npc[n] = "wait" => Free(n) = Slot
      /\ failed[n] => npc[n] = "upload"

FlushInv == TypeOK /\ InRound

-----------------------------------------------------------------------------
(* Numbers *)

Less == {p \in Nat \X Nat : p[1] < p[2]}

\* Min of a nonempty set of naturals is in it.
LEMMA MinIsMember ==
  ASSUME NEW S \in SUBSET Nat, S # {}
  PROVE  Min(S) \in S
<1>1. IsWellFoundedOn(Less, Nat)
  BY NatLessThanWellFounded DEF OpToRel, Less
<1>2. PICK x \in S : \A y \in S : ~(<<y, x>> \in Less)
  BY <1>1, WFMin
<1>3. \A y \in S : ~(y < x)
  BY <1>2 DEF Less
<1>4. \A y \in S : x <= y
  BY <1>3
<1>. QED  BY <1>4 DEF Min

\* Max of two numbers.
LEMMA MaxOfTwo ==
  ASSUME NEW a \in Int, NEW b \in Int
  PROVE  Max({a, b}) \in {a, b}
<1>1. CASE a >= b
  <2>1. \A y \in {a, b} : a >= y
    BY <1>1
  <2>. QED  BY <2>1 DEF Max
<1>2. CASE ~(a >= b)
  <2>1. \A y \in {a, b} : b >= y
    BY <1>2
  <2>. QED  BY <2>1 DEF Max
<1>. QED  BY <1>1, <1>2

\* The limits are numbers.
LEMMA Numbers ==
  /\ Workers \in Nat /\ Workers > 0
  /\ LeaseGranted \in Nat /\ LeaseGranted > 0
  /\ Horizon \in Nat
  /\ AgeCap \in Nat /\ AgeCap > 0 /\ Ranks \in Nat /\ MaxFaults \in Nat
  BY DEF AgeCap, LeaseGranted, NanosPerSecond

\* A round has at least one slot, and finitely many.
LEMMA SlotFacts == Slot \in SUBSET Nat /\ Slot # {} /\ IsFiniteSet(Slot)
<1>1. Slot \in SUBSET Nat /\ 1 \in Slot
  BY Numbers DEF Slot
<1>2. IsFiniteSet(Slot)
  BY Numbers, FS_Interval DEF Slot
<1>. QED  BY <1>1, <1>2

\* A row's age never passes its limit, which is the order of Ranks rows above the
\* later of the two thresholds.
LEMMA AgesBounded ==
  ASSUME TypeOK, NEW k \in Key
  PROVE  /\ Grown(k) \in -1 .. AgeCap + Ranks
         /\ age[k] >= 0 => Grown(k) >= 0
<1>. DEFINE older == {j \in Staged : age[j] > age[k]}
            c == Cardinality(older)
<1>1. c \in Nat
  <2>1. older \subseteq Key
    BY DEF Staged
  <2>. HIDE DEF older
  <2>. QED  BY <2>1, FS_Subset, FS_CardinalityType
<1>2. AgeLimit(k) \in {AgeCap, AgeCap + Ranks - c}
  <2>. HIDE DEF c
  <2>1. AgeCap \in Int /\ AgeCap + Ranks - c \in Int
    BY <1>1, Numbers
  <2>2. Max({AgeCap, AgeCap + Ranks - c}) \in {AgeCap, AgeCap + Ranks - c}
    BY <2>1, MaxOfTwo
  <2>. QED  BY <2>2 DEF AgeLimit, c, older
<1>. HIDE DEF c
<1>3. AgeLimit(k) \in Int /\ AgeLimit(k) <= AgeCap + Ranks
  BY <1>1, <1>2, Numbers
<1>4. age[k] \in Int /\ age[k] >= -1 /\ age[k] <= AgeCap + Ranks
  BY Numbers DEF TypeOK
<1>. QED  BY <1>3, <1>4, Numbers DEF Grown, Staged

-----------------------------------------------------------------------------
(* The steps *)

\* The invariant holds at the start.
LEMMA FlushInit == Init => FlushInv
<1>. SUFFICES ASSUME Init PROVE FlushInv
  OBVIOUS
<1>1. age \in [Key -> -1 .. AgeCap + Ranks] /\ lease \in [Key -> 0 .. LeaseGranted]
  BY Numbers DEF Init
<1>2. TypeOK
  BY <1>1, Numbers DEF Init, TypeOK
<1>3. InRound
  BY DEF Init, InRound, Free
<1>. QED  BY <1>2, <1>3 DEF FlushInv

\* The rounds do not depend on the rows.
LEMMA RowsAlone ==
  ASSUME FlushInv, UNCHANGED <<npc, packs, failed>>
  PROVE  InRound'
<1>1. \A n \in Node : Free(n)' = Free(n)
  BY DEF Free
<1>. QED  BY <1>1 DEF FlushInv, InRound

\* One lemma per action: each keeps the invariant.
LEMMA TimeStep == ASSUME FlushInv, TimePasses PROVE FlushInv'
<1>1. InRound'
  BY RowsAlone DEF TimePasses
<1>2. age' = [k \in Key |-> Grown(k)] /\ lease' = LeaseLeft
  BY DEF TimePasses
<1>3. age' \in [Key -> -1 .. AgeCap + Ranks] /\ \A k \in Key : age[k] >= 0 => age'[k] >= 0
  BY <1>2, AgesBounded DEF FlushInv
<1>4. lease' \in [Key -> 0 .. LeaseGranted] /\ \A k \in Key : lease'[k] > 0 => lease[k] > 0
  BY <1>2, Numbers DEF FlushInv, TypeOK, LeaseLeft
<1>5. \A k \in Key : lease'[k] > 0 => k \in Staged'
  BY <1>3, <1>4 DEF FlushInv, TypeOK, Staged
<1>6. UNCHANGED <<kick, tick, npc, packs, failed, faults>>
  BY DEF TimePasses
<1>7. TypeOK'
  BY <1>3, <1>4, <1>5, <1>6 DEF FlushInv, TypeOK
<1>. QED  BY <1>1, <1>7 DEF FlushInv

LEMMA PutStep ==
  ASSUME FlushInv, NEW n \in Node, NEW k \in Key, NEW ok \in BOOLEAN, Put(n, k, ok)
  PROVE  FlushInv'
<1>1. InRound'
  BY RowsAlone DEF Put
<1>2. age' \in [Key -> -1 .. AgeCap + Ranks] /\ lease' \in [Key -> 0 .. LeaseGranted]
  BY Numbers DEF FlushInv, TypeOK, Put
<1>3. \A j \in Key : lease'[j] > 0 => j \in Staged'
  BY DEF FlushInv, TypeOK, Put, Staged
<1>4. kick' \in [Node -> BOOLEAN]
  BY DEF FlushInv, TypeOK, Put
<1>5. TypeOK'
  BY <1>2, <1>3, <1>4 DEF FlushInv, TypeOK, Put
<1>. QED  BY <1>1, <1>5 DEF FlushInv

LEMMA DeleteStep ==
  ASSUME FlushInv, NEW k \in Key, Delete(k)
  PROVE  FlushInv'
<1>1. InRound'
  BY RowsAlone DEF Delete
<1>2. age' \in [Key -> -1 .. AgeCap + Ranks] /\ lease' \in [Key -> 0 .. LeaseGranted]
  BY Numbers DEF FlushInv, TypeOK, Delete
<1>3. \A j \in Key : lease'[j] > 0 => j \in Staged'
  BY DEF FlushInv, TypeOK, Delete, Staged
<1>4. TypeOK'
  BY <1>2, <1>3 DEF FlushInv, TypeOK, Delete
<1>. QED  BY <1>1, <1>4 DEF FlushInv

\* A step of the worker that leaves the rows and the packs alone.
LEMMA WorkerAlone ==
  ASSUME FlushInv, UNCHANGED <<age, lease, packs, faults>>,
         npc' \in [Node -> {"wait", "stats", "claim", "upload"}],
         kick' \in [Node -> BOOLEAN], tick' \in [Node -> BOOLEAN], failed' \in [Node -> BOOLEAN]
  PROVE  TypeOK' /\ \A n \in Node : Free(n)' = Free(n)
<1>1. Staged' = Staged
  BY DEF Staged
<1>2. TypeOK'
  BY <1>1 DEF FlushInv, TypeOK
<1>. QED  BY <1>2 DEF Free

LEMMA TickerStep ==
  ASSUME FlushInv, NEW n \in Node, TickerFires(n)
  PROVE  FlushInv'
<1>1. tick' \in [Node -> BOOLEAN]
  BY DEF FlushInv, TypeOK, TickerFires
<1>2. TypeOK'
  BY <1>1, WorkerAlone DEF FlushInv, TypeOK, TickerFires
<1>3. InRound'
  BY RowsAlone DEF TickerFires
<1>. QED  BY <1>2, <1>3 DEF FlushInv

LEMMA WakeStep ==
  ASSUME FlushInv, NEW n \in Node, Wake(n)
  PROVE  FlushInv'
<1>1. kick' \in [Node -> BOOLEAN] /\ tick' \in [Node -> BOOLEAN]
  BY DEF FlushInv, TypeOK, Wake
<1>2. /\ npc[n] = "wait" /\ npc' = [npc EXCEPT ![n] = "stats"]
      /\ npc' \in [Node -> {"wait", "stats", "claim", "upload"}]
      /\ UNCHANGED <<age, lease, packs, failed, faults>>
  BY DEF FlushInv, TypeOK, Wake
<1>3. TypeOK' /\ \A m \in Node : Free(m)' = Free(m)
  BY <1>1, <1>2, WorkerAlone DEF FlushInv, TypeOK
<1>4. Free(n) # {}
  BY <1>2, SlotFacts DEF FlushInv, InRound
<1>5. InRound'
  BY <1>2, <1>3, <1>4 DEF FlushInv, TypeOK, InRound
<1>. QED  BY <1>3, <1>5 DEF FlushInv

\* Leaving the claims leaves packs to upload, or no pack at all.
LEMMA RoundStops ==
  ASSUME FlushInv, NEW n \in Node, npc[n] \in {"stats", "claim"}, StopClaiming(n),
         UNCHANGED <<packs, failed>>
  PROVE  InRound' /\ npc' \in [Node -> {"wait", "stats", "claim", "upload"}]
<1>1. npc' = [npc EXCEPT ![n] = IF Free(n) = Slot THEN "wait" ELSE "upload"]
  BY DEF StopClaiming
<1>2. npc' \in [Node -> {"wait", "stats", "claim", "upload"}]
  BY <1>1 DEF FlushInv, TypeOK
<1>3. \A m \in Node : Free(m)' = Free(m)
  BY DEF Free
<1>4. ~failed[n]
  BY DEF FlushInv, InRound
<1>5. InRound'
  BY <1>1, <1>3, <1>4 DEF FlushInv, TypeOK, InRound
<1>. QED  BY <1>2, <1>5

LEMMA StopStep ==
  ASSUME FlushInv, NEW n \in Node, npc[n] \in {"stats", "claim"}, StopClaiming(n),
         UNCHANGED <<age, lease, kick, tick, packs, failed, faults>>
  PROVE  FlushInv'
<1>1. InRound' /\ npc' \in [Node -> {"wait", "stats", "claim", "upload"}]
  BY RoundStops
<1>2. TypeOK'
  BY <1>1, WorkerAlone DEF FlushInv, TypeOK
<1>. QED  BY <1>1, <1>2 DEF FlushInv

LEMMA StatsStep ==
  ASSUME FlushInv, NEW n \in Node, NEW ok \in BOOLEAN, Stats(n, ok)
  PROVE  FlushInv'
<1>0. npc[n] = "stats" /\ UNCHANGED <<age, lease, kick, tick, packs, failed, faults>>
  BY DEF Stats
<1>1. CASE npc' = [npc EXCEPT ![n] = "claim"]
  <2>1. npc' \in [Node -> {"wait", "stats", "claim", "upload"}]
    BY <1>1 DEF FlushInv, TypeOK
  <2>2. TypeOK' /\ \A m \in Node : Free(m)' = Free(m)
    BY <1>0, <2>1, WorkerAlone DEF FlushInv, TypeOK
  <2>3. InRound'
    BY <1>0, <1>1, <2>2 DEF FlushInv, TypeOK, InRound
  <2>. QED  BY <2>2, <2>3 DEF FlushInv
<1>2. CASE StopClaiming(n)
  BY <1>0, <1>2, StopStep
<1>. QED  BY <1>1, <1>2 DEF Stats

LEMMA ClaimStep ==
  ASSUME FlushInv, NEW n \in Node, NEW out \in {"ok", "failed", "lost"}, Claim(n, out)
  PROVE  FlushInv'
<1>0. npc[n] = "claim" /\ UNCHANGED <<age, kick, tick, failed>>
  BY DEF Claim
<1>1. CASE StopClaiming(n) /\ UNCHANGED <<lease, packs, faults>>
  BY <1>0, <1>1, StopStep
<1>2. ASSUME NEW S \in FirstRows,
             lease' = [k \in Key |-> IF k \in S THEN LeaseGranted ELSE lease[k]],
             faults < MaxFaults, faults' = faults + 1, StopClaiming(n), UNCHANGED packs
      PROVE  FlushInv'
  <2>1. lease' \in [Key -> 0 .. LeaseGranted] /\ faults' \in 0 .. MaxFaults
    BY <1>2, Numbers DEF FlushInv, TypeOK
  <2>2. \A k \in Key : lease'[k] > 0 => k \in Staged'
    BY <1>0, <1>2 DEF FlushInv, TypeOK, Staged, FirstRows, Claimable
  <2>3. InRound' /\ npc' \in [Node -> {"wait", "stats", "claim", "upload"}]
    BY <1>0, <1>2, RoundStops
  <2>4. TypeOK'
    BY <1>0, <1>2, <2>1, <2>2, <2>3 DEF FlushInv, TypeOK
  <2>. QED  BY <2>3, <2>4 DEF FlushInv
<1>3. ASSUME NEW S \in FirstRows,
             lease' = [k \in Key |-> IF k \in S THEN LeaseGranted ELSE lease[k]],
             packs' = [packs EXCEPT ![n][Min(Free(n))] = S],
             npc' = [npc EXCEPT ![n] = IF Cardinality(Free(n)) = 1 THEN "upload" ELSE "stats"],
             UNCHANGED faults
      PROVE  FlushInv'
  <2>. DEFINE F == Free(n)
              m == Min(F)
  <2>1. S \subseteq Claimable /\ S # {}
    BY DEF FirstRows
  <2>2. S \subseteq Staged /\ S \subseteq Key
    BY <2>1 DEF Claimable, Staged
  <2>3. F # {} /\ F \subseteq Slot
    BY <1>0 DEF FlushInv, InRound, Free
  <2>4. m \in F /\ m \in Slot
    <3>1. F \in SUBSET Nat
      BY <2>3, SlotFacts
    <3>. HIDE DEF F
    <3>. QED  BY <2>3, <3>1, MinIsMember
  <2>5. IsFiniteSet(F)
    BY <2>3, SlotFacts, FS_Subset
  <2>6. /\ packs' \in [Node -> [Slot -> SUBSET Key]]
        /\ packs' = [packs EXCEPT ![n] = [packs[n] EXCEPT ![m] = S]]
    <3>. HIDE DEF m
    <3>1. packs \in [Node -> [Slot -> SUBSET Key]]
      BY DEF FlushInv, TypeOK
    <3>2. packs' = [packs EXCEPT ![n] = [packs[n] EXCEPT ![m] = S]]
      BY <1>3 DEF m
    <3>. QED  BY <2>2, <2>4, <3>1, <3>2
  <2>. HIDE DEF m
  <2>7. packs'[n] = [packs[n] EXCEPT ![m] = S] /\ \A q \in Node \ {n} : packs'[q] = packs[q]
    BY <2>6 DEF FlushInv, TypeOK
  <2>8. Free(n)' = F \ {m}
    <3>1. \A i \in Slot : packs'[n][i] = IF i = m THEN S ELSE packs[n][i]
      BY <2>7 DEF FlushInv, TypeOK
    <3>. QED  BY <2>1, <3>1 DEF Free
  <2>9. \A q \in Node \ {n} : Free(q)' = Free(q)
    BY <2>7 DEF Free
  <2>10. Cardinality(F) # 1 => F \ {m} # {}
    <3>. SUFFICES ASSUME F \ {m} = {} PROVE Cardinality(F) = 1
      OBVIOUS
    <3>. HIDE DEF F
    <3>1. F = {m}
      BY <2>4
    <3>. QED  BY <3>1, FS_Singleton
  <2>11. npc' \in [Node -> {"wait", "stats", "claim", "upload"}]
    BY <1>3 DEF FlushInv, TypeOK
  <2>12. lease' \in [Key -> 0 .. LeaseGranted]
    BY <1>3, Numbers DEF FlushInv, TypeOK
  <2>13. \A k \in Key : lease'[k] > 0 => k \in Staged'
    BY <1>0, <1>3, <2>2 DEF FlushInv, TypeOK, Staged
  <2>14. TypeOK'
    BY <1>0, <1>3, <2>6, <2>11, <2>12, <2>13 DEF FlushInv, TypeOK
  <2>15. ~failed[n]
    BY <1>0 DEF FlushInv, InRound
  <2>16. InRound'
    <3>1. npc'[n] = IF Cardinality(F) = 1 THEN "upload" ELSE "stats"
      BY <1>3 DEF FlushInv, TypeOK
    <3>2. \A q \in Node \ {n} : npc'[q] = npc[q]
      BY <1>3 DEF FlushInv, TypeOK
    <3>. HIDE DEF F
    <3>3. /\ npc'[n] \in {"stats", "claim"} => Free(n)' # {}
          /\ npc'[n] # "wait" /\ ~failed'[n]
      BY <1>0, <2>8, <2>10, <2>15, <3>1
    <3>. QED  BY <1>0, <2>9, <3>2, <3>3 DEF FlushInv, InRound
  <2>. QED  BY <2>14, <2>16 DEF FlushInv
<1>. QED  BY <1>1, <1>3, <1>2 DEF Claim

\* A finished pack frees its slot; the worker still waits for the others.
LEMMA PackDone ==
  ASSUME FlushInv, NEW n \in Node, NEW i \in Slot, npc[n] = "upload",
         packs' = [packs EXCEPT ![n][i] = {}],
         UNCHANGED npc, failed' \in [Node -> BOOLEAN],
         \A q \in Node \ {n} : failed'[q] = failed[q]
  PROVE  InRound' /\ packs' \in [Node -> [Slot -> SUBSET Key]]
<1>1. packs \in [Node -> [Slot -> SUBSET Key]]
  BY DEF FlushInv, TypeOK
<1>2. packs' = [packs EXCEPT ![n] = [packs[n] EXCEPT ![i] = {}]]
  OBVIOUS
<1>3. packs' \in [Node -> [Slot -> SUBSET Key]] /\ \A q \in Node \ {n} : packs'[q] = packs[q]
  BY <1>1, <1>2
<1>4. \A q \in Node \ {n} : Free(q)' = Free(q)
  BY <1>3 DEF Free
<1>5. InRound'
  BY <1>4 DEF FlushInv, InRound
<1>. QED  BY <1>3, <1>5

LEMMA PackOkStep ==
  ASSUME FlushInv, NEW n \in Node, NEW i \in Slot, PackOk(n, i)
  PROVE  FlushInv'
<1>1. InRound' /\ packs' \in [Node -> [Slot -> SUBSET Key]]
  BY PackDone DEF PackOk, FlushInv, TypeOK
<1>2. age' \in [Key -> -1 .. AgeCap + Ranks] /\ lease' \in [Key -> 0 .. LeaseGranted]
  BY Numbers DEF FlushInv, TypeOK, PackOk
<1>3. \A k \in Key : lease'[k] > 0 => k \in Staged'
  BY DEF FlushInv, TypeOK, PackOk, Staged
<1>4. TypeOK'
  BY <1>1, <1>2, <1>3 DEF FlushInv, TypeOK, PackOk
<1>. QED  BY <1>1, <1>4 DEF FlushInv

LEMMA PackFailedStep ==
  ASSUME FlushInv, NEW n \in Node, NEW i \in Slot, NEW released \in BOOLEAN,
         PackFailed(n, i, released)
  PROVE  FlushInv'
<1>0. failed' \in [Node -> BOOLEAN] /\ \A q \in Node \ {n} : failed'[q] = failed[q]
  BY DEF FlushInv, TypeOK, PackFailed
<1>1. InRound' /\ packs' \in [Node -> [Slot -> SUBSET Key]]
  BY <1>0, PackDone DEF PackFailed
<1>2. lease' \in [Key -> 0 .. LeaseGranted] /\ \A k \in Key : lease'[k] > 0 => lease[k] > 0
  BY Numbers DEF FlushInv, TypeOK, PackFailed
<1>3. \A k \in Key : lease'[k] > 0 => k \in Staged'
  BY <1>2 DEF FlushInv, TypeOK, PackFailed, Staged
<1>4. faults' \in 0 .. MaxFaults
  BY Numbers DEF FlushInv, TypeOK, PackFailed
<1>5. TypeOK'
  BY <1>0, <1>1, <1>2, <1>3, <1>4 DEF FlushInv, TypeOK, PackFailed
<1>. QED  BY <1>1, <1>5 DEF FlushInv

LEMMA RoundEndsStep ==
  ASSUME FlushInv, NEW n \in Node, RoundEnds(n)
  PROVE  FlushInv'
<1>1. /\ npc' = [npc EXCEPT ![n] = IF failed[n] THEN "wait" ELSE "stats"]
      /\ failed' = [failed EXCEPT ![n] = FALSE] /\ Free(n) = Slot
      /\ UNCHANGED <<age, lease, kick, tick, packs, faults>>
  BY DEF RoundEnds
<1>2. /\ npc' \in [Node -> {"wait", "stats", "claim", "upload"}]
      /\ failed' \in [Node -> BOOLEAN]
  BY <1>1 DEF FlushInv, TypeOK
<1>3. TypeOK' /\ \A m \in Node : Free(m)' = Free(m)
  BY <1>1, <1>2, WorkerAlone DEF FlushInv, TypeOK
<1>4. InRound'
  BY <1>1, <1>3, SlotFacts DEF FlushInv, TypeOK, InRound
<1>. QED  BY <1>3, <1>4 DEF FlushInv

LEMMA CrashStep ==
  ASSUME FlushInv, NEW n \in Node, Crash(n)
  PROVE  FlushInv'
<1>1. packs' \in [Node -> [Slot -> SUBSET Key]]
  BY DEF FlushInv, TypeOK, Crash
<1>2. /\ npc' \in [Node -> {"wait", "stats", "claim", "upload"}]
      /\ kick' \in [Node -> BOOLEAN] /\ tick' \in [Node -> BOOLEAN] /\ failed' \in [Node -> BOOLEAN]
  BY DEF FlushInv, TypeOK, Crash
<1>3. faults' \in 0 .. MaxFaults
  BY Numbers DEF FlushInv, TypeOK, Crash
<1>4. \A k \in Key : lease'[k] > 0 => k \in Staged'
  BY DEF FlushInv, TypeOK, Crash, Staged
<1>5. TypeOK'
  BY <1>1, <1>2, <1>3, <1>4 DEF FlushInv, TypeOK, Crash
<1>6. Free(n)' = Slot
  BY DEF FlushInv, TypeOK, Crash, Free
<1>7. \A q \in Node \ {n} : Free(q)' = Free(q)
  BY DEF FlushInv, TypeOK, Crash, Free
<1>8. InRound'
  BY <1>6, <1>7 DEF FlushInv, TypeOK, InRound, Crash
<1>. QED  BY <1>5, <1>8 DEF FlushInv

\* Every step keeps the invariant.
LEMMA FlushStep == FlushInv /\ [Next]_vars => FlushInv'
<1>. SUFFICES ASSUME FlushInv, [Next]_vars PROVE FlushInv'
  OBVIOUS
<1>1. CASE UNCHANGED vars
  <2>1. InRound'
    BY <1>1, RowsAlone DEF vars
  <2>2. TypeOK'
    BY <1>1, WorkerAlone DEF vars, FlushInv, TypeOK
  <2>. QED  BY <2>1, <2>2 DEF FlushInv
<1>2. CASE TimePasses
  BY <1>2, TimeStep
<1>3. ASSUME NEW n \in Node, NEW k \in Key, NEW ok \in BOOLEAN, Put(n, k, ok) PROVE FlushInv'
  BY <1>3, PutStep
<1>4. ASSUME NEW k \in Key, Delete(k) PROVE FlushInv'
  BY <1>4, DeleteStep
<1>5. ASSUME NEW n \in Node, TickerFires(n) PROVE FlushInv'
  BY <1>5, TickerStep
<1>6. ASSUME NEW n \in Node, WorkerStep(n) PROVE FlushInv'
  BY <1>6, WakeStep, StatsStep, ClaimStep, PackOkStep, PackFailedStep, RoundEndsStep
     DEF WorkerStep, PackStep
<1>7. ASSUME NEW n \in Node, Crash(n) PROVE FlushInv'
  BY <1>7, CrashStep
<1>. QED  BY <1>1, <1>2, <1>3, <1>4, <1>5, <1>6, <1>7 DEF Next

\* The invariant holds in every reachable state.
LEMMA FlushInvariant == Spec => []FlushInv
  BY FlushInit, FlushStep, PTL DEF Spec

-----------------------------------------------------------------------------
(* The theorems *)

\* Only staged blocks are leased, and every variable of the flush workers and the
\* staging table holds values of its kind, through any number of nodes, parallel
\* packs, failures and faults.
THEOREM FlusherTypes == Spec => []TypeOK
<1>1. FlushInv => TypeOK
  BY DEF FlushInv
<1>. QED  BY <1>1, FlushInvariant, PTL

\* flushStaged returns to its select only when every pack it claimed has been
\* promoted or given up (wg.Wait, walrus.go:667), also after a failed claim in the
\* middle of a round, and never claims without a free slot.
THEOREM RoundsFinish == Spec => []InRound
<1>1. FlushInv => InRound
  BY DEF FlushInv
<1>. QED  BY <1>1, FlushInvariant, PTL
=============================================================================
