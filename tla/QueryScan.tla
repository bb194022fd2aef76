----------------------------- MODULE QueryScan -----------------------------
(***************************************************************************)
(* Query over StagedIndex: one List statement takes a snapshot of both     *)
(* tables, then the iterator, driven at the caller's pace, reports the     *)
(* listed keys one by one and fetches each value with an ordinary Get,     *)
(* while clients and flushers go on.  Key stands for the keys under the    *)
(* prefix; q.Limit and q.Offset, which keep a window of the listing, are   *)
(* not set.  A Reader's goroutine runs the query and its Gets.             *)
(***************************************************************************)
EXTENDS StagedIndex, Sequences, SequencesExt

VARIABLES
    open,      \* per reader: a query is under way
    keysOnly,  \* per reader: q.KeysOnly
    items,     \* per reader: what List returned and is not yet reported
    results,   \* per reader: the entries it reported, with how they ended
    missing,   \* history, per reader: keys absent at some instant of its query
    late       \* ... and keys indexed into a blob some aggregator did not serve yet

qvars == <<open, keysOnly, items, results, missing, late>>

\* Mutants: List without the staging table; UNION ALL.
ListedIndexOnly == SetToSeq({<<k, index[k][k]>> : k \in Indexed})
ListedTwice ==
    SetToSeq({<<k, index[k][k]>> : k \in Indexed}) \o SetToSeq({<<k, staging[k]>> : k \in Present(staging)})

\* SELECT key, size ... UNION SELECT key, size: one row per key and size.  A
\* value stands for its size: those written under one key differ in it.
Listed ==
    SetToSeq({<<k, index[k][k]>> : k \in Indexed} \cup {<<k, staging[k]>> : k \in Present(staging)})

\* Query: List runs before the iterator is returned.
StartQuery(r) ==
    /\ ~open[r]
    /\ open' = [open EXCEPT ![r] = TRUE]
    /\ \E only \in BOOLEAN : keysOnly' = [keysOnly EXCEPT ![r] = only]
    /\ items' = [items EXCEPT ![r] = Listed]
    /\ UNCHANGED <<vars, results>>

\* nextValue, keys only: the listed key is the entry.
NextKey(r) ==
    /\ open[r] /\ keysOnly[r] /\ items[r] # <<>>
    /\ results' = [results EXCEPT ![r] = Append(@, <<Head(items[r])[1], "listed">>)]
    /\ items' = [items EXCEPT ![r] = Tail(@)]
    /\ UNCHANGED <<vars, open, keysOnly>>

\* nextValue: w.Get of the listed key begins...
NextGet(r) ==
    /\ open[r] /\ ~keysOnly[r] /\ items[r] # <<>>
    /\ rpc[r] = "idle"
    /\ StartRead(r)
    /\ rop'[r] = "Get" /\ rkey'[r] = Head(items[r])[1]
    /\ UNCHANGED <<open, keysOnly, items, results>>

\* ... takes the steps of any Get, and its answer becomes the entry.
GetStep(r) ==
    /\ open[r] /\ rpc[r] # "idle"
    /\ ProbeStaging(r) \/ ProbeIndex(r) \/ ReadWalrus(r) \/ ReadError(r)
    /\ IF rpc'[r] = "idle"
       THEN /\ results' = [results EXCEPT ![r] = Append(@, <<rkey[r], rres'[r]>>)]
            /\ items' = [items EXCEPT ![r] = Tail(@)]
       ELSE UNCHANGED <<items, results>>
    /\ UNCHANGED <<open, keysOnly>>

\* The caller is done with the iterator and its entries.
EndQuery(r) ==
    /\ open[r] /\ items[r] = <<>> /\ rpc[r] = "idle"
    /\ open' = [open EXCEPT ![r] = FALSE]
    /\ results' = [results EXCEPT ![r] = <<>>]
    /\ UNCHANGED <<vars, keysOnly, items>>

Others ==
    /\ \/ \E c \in Client : ClientStep(c)
       \/ \E f \in Flusher : FlusherStep(f)
       \/ \E k \in Key : LeaseExpire(k)
       \/ \E b \in walrus : Appear(b)
    /\ UNCHANGED <<open, keysOnly, items, results>>

QInit ==
    /\ Init
    /\ open = [r \in Reader |-> FALSE]
    /\ keysOnly = [r \in Reader |-> FALSE]
    /\ items = [r \in Reader |-> <<>>]
    /\ results = [r \in Reader |-> <<>>]
    /\ missing = [r \in Reader |-> {}]
    /\ late = [r \in Reader |-> {}]

\* The history variables watch every instant of a query.
Watch ==
    /\ missing' = [r \in Reader |->
         IF open'[r] THEN missing[r] \cup (Key \ Present(Visible')) ELSE {}]
    /\ late' = [r \in Reader |-> IF open'[r] THEN late[r] \cup Lagging' ELSE {}]

QNext ==
    /\ \/ Others
       \/ \E r \in Reader : StartQuery(r) \/ NextKey(r) \/ NextGet(r) \/ GetStep(r) \/ EndQuery(r)
    /\ Watch

QSpec == QInit /\ [][QNext]_<<vars, qvars>>

-----------------------------------------------------------------------------
(* Properties *)

Entries(r, k) == {i \in 1..Len(results[r]) : results[r][i][1] = k}

\* "so blocks that are durably staged but not yet packed onto Walrus are visible
\* to Query" (index.go:392): a key that was present throughout a finished query
\* is among its entries, however its pack was promoted while the iterator was on
\* its way to it, and its Get ended in "not found" only if at some instant its
\* index row named a blob that not every aggregator served yet.
QueryComplete ==
    \A r \in Reader : open[r] /\ items[r] = <<>> =>
      \A k \in Key \ missing[r] :
        \E i \in Entries(r, k) : results[r][i][2] = "notfound" => k \in late[r]

\* "The UNION dedupes a key that is momentarily in both tables" (index.go:393):
\* no query reports a key twice.
ListedOnce == \A r \in Reader : \A k \in Key : Cardinality(Entries(r, k)) <= 1
=============================================================================
