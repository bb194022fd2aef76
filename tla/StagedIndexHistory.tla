------------------------- MODULE StagedIndexHistory -------------------------
(***************************************************************************)
(* StagedIndex with history variables, for the properties that compare the *)
(* end of a call with what was true while it ran, and the owners of a      *)
(* lease with what happened to it.  The history variables only observe:    *)
(* every step of StagedIndex is a step here.                               *)
(***************************************************************************)
EXTENDS StagedIndex

ASSUME RolesAssumption == Client \cap Reader = {}

VARIABLES
    gone,     \* per client and reader: keys it may find missing, for they were Lacking
              \* at some instant of its last call
    cleared,  \* keys whose lease ended, in any way, under a flusher still at work
    expired   \* those of them whose lease had run out

hvars == <<vars, gone, cleared, expired>>

Absent == Key \ Present(Visible)

\* What p may find missing now: a Get also what some aggregator lacks.
Lacking(p) ==
    IF p \in Reader /\ rop[p] = "Get" THEN Absent \cup Lagging ELSE Absent

Busy(p) == IF p \in Client THEN cpc[p] # "idle" ELSE rpc[p] # "idle"

\* f is packing k: it was granted k's lease and has neither promoted nor given up.
Packing(f, k) == fpc[f] \in {"upload", "promote", "insert"} /\ fpack[f][k] # NoValue

HInit ==
    /\ Init
    /\ gone = [p \in Client \cup Reader |-> {}]
    /\ cleared = {}
    /\ expired = {}

Observe ==
    /\ gone' = [p \in Client \cup Reader |->
                 IF Busy(p) THEN gone[p] \cup Lacking(p)'
                 ELSE IF Busy(p)' THEN Lacking(p)' ELSE gone[p]]
    /\ cleared' = {k \in Key :
                    \/ k \in cleared /\ \E f \in Flusher : Packing(f, k)'
                    \/ k \notin leased' /\ \E f \in Flusher : Packing(f, k) /\ Packing(f, k)'}
    /\ expired' = {k \in cleared' : k \in expired \/ LeaseExpire(k)}

HNext == Next /\ Observe

HSpec == HInit /\ [][HNext]_hvars

-----------------------------------------------------------------------------
\* The probe order of Get, Has and GetSize (staging first, then the index, then
\* Walrus): a read answers "not found" only if there was an instant during the
\* read at which the key really was neither staged nor indexed, however the
\* promotion of its pack, a Delete and a re-Put interleave with the probes; a Get,
\* whose last probe ends at an aggregator's 404, also if at some instant the index
\* row named a stored blob that not every aggregator served yet.
GetNeverMisses == \A r \in Reader : rres[r] = "notfound" => rkey[r] \in gone[r]

\* PromoteStaged: "a Delete can never be undone by an in-flight pack upload"
\* (index.go:648): when DeleteMany has committed, each of its keys was absent at
\* some instant since the call began.
DeleteWins ==
    \A c \in Client : cpc[c] = "return" /\ cerr[c] = {} => batch[c].del \subseteq gone[c]

\* StageClaim's two statements: a block is in two packs at once only if its lease
\* was taken away from the first flusher while it worked (it ran out, a re-Put
\* or a Delete removed it, another flusher's release cleared it); two claims that
\* race never share a row.
ClaimsDisjoint ==
    \A f, g \in Flusher : \A k \in Key :
      f # g /\ Packing(f, k) /\ Packing(g, k) => k \in cleared

\* StageClaim: leases are taken "so concurrent flushers on different nodes never
\* build packs from the same blocks" until "the lease expires" (index.go:118):
\* two packs share a block only after its lease ran out.
\* A documented claim the code does not keep.
LeaseExclusive ==
    \A f, g \in Flusher : \A k \in Key :
      f # g /\ Packing(f, k) /\ Packing(g, k) => k \in expired
=============================================================================
