------------------------------- MODULE Blocks -------------------------------
(***************************************************************************)
(* The vocabulary of the datastore interface: keys, block values and the   *)
(* write calls (Put, Delete, Batch.Commit), and maps from keys to values.  *)
(***************************************************************************)
CONSTANTS
    Key,       \* datastore keys
    Value,     \* block contents
    NoValue,   \* the absent value
    Batches    \* the write calls clients make; Put and Delete are batches of one

\* A map from keys to values with NoValue where there is no entry: the staging
\* table's value column, a pack, a blob's members, a batch's Puts.
Content == [Key -> Value \cup {NoValue}]

Nothing == [k \in Key |-> NoValue]

Present(t) == {k \in Key : t[k] # NoValue}

\* A batch is a Go map keyed by k.String(): the last Put or Delete of a key is
\* the only one it holds.
Batch == {b \in [put : Content, del : SUBSET Key] : Present(b.put) \cap b.del = {}}

EmptyBatch == [put |-> Nothing, del |-> {}]

ASSUME NoValueAssumption == NoValue \notin Value
ASSUME BatchesAssumption == Batches \subseteq Batch \ {EmptyBatch}

\* INSERT ... ON CONFLICT (key) DO UPDATE
Upsert(t, u) == [k \in Key |-> IF u[k] # NoValue THEN u[k] ELSE t[k]]

\* DELETE ... WHERE key = ANY(S)
Without(t, S) == [k \in Key |-> IF k \in S THEN NoValue ELSE t[k]]

\* The entries of t whose keys are in S
Only(t, S) == [k \in Key |-> IF k \in S THEN t[k] ELSE NoValue]

\* The values clients ever write under k.
Written(k) == {b.put[k] : b \in Batches} \ {NoValue}

\* "Keys are content-addressed (same key => same bytes)", index.go:512.
ContentAddressed == \A k \in Key : \A v, w \in Written(k) : v = w
=============================================================================
