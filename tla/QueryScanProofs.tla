-------------------------- MODULE QueryScanProofs --------------------------
(***************************************************************************)
(* Proofs about queries: they leave the data path as it is, and with       *)
(* content-addressed keys they report every key that was there throughout, *)
(* once, whatever clients and flushers do meanwhile.                       *)
(***************************************************************************)
EXTENDS QueryScan, StagedIndexProofs, FiniteSetTheorems

-----------------------------------------------------------------------------
(* A query only reads *)

\* Every step of a query is a step of a reader, or none, of the data path.
LEMMA QueryReads == QSpec => Spec
<1>1. QInit => Init
    BY DEF QInit
<1>2. [QNext]_<<vars, qvars>> => [Next]_vars
    BY DEF QNext, Others, StartQuery, NextKey, NextGet, GetStep, EndQuery, Next, ReaderStep
<1> QED
    BY <1>1, <1>2, PTL DEF QSpec, Spec

\* With queries running, an index row still names a blob that Walrus holds and
\* that contains the key.
THEOREM QueryWalrusFirst == QSpec => []WalrusFirst
BY QueryReads, WalrusFirstHolds, PTL

\* With queries running, the data path still implements BlockStore.
THEOREM QueryImplements == ContentAddressed => (QSpec => Implements)
<1> SUFFICES ASSUME ContentAddressed PROVE QSpec => Implements
    OBVIOUS
<1> QED
    BY QueryReads, Implementation, PTL

-----------------------------------------------------------------------------
(* What List returns *)

\* A finite set's sequence holds every element, each once.
LEMMA SetToSeqFacts ==
    ASSUME NEW S, IsFiniteSet(S)
    PROVE  /\ SetToSeq(S) \in Seq(S)
           /\ \A i, j \in DOMAIN SetToSeq(S) : SetToSeq(S)[i] = SetToSeq(S)[j] => i = j
           /\ \A x \in S : \E i \in DOMAIN SetToSeq(S) : SetToSeq(S)[i] = x
<1> DEFINE n == Cardinality(S)
<1>1. n \in Nat /\ ExistsBijection(1..n, S)
    BY FS_CardinalityType
<1>2. PICK g \in Bijection(1..n, S) : TRUE
    BY <1>1 DEF ExistsBijection
<1>3. g \in [1..n -> S] /\ IsInjective(g)
    BY <1>2 DEF Bijection, Injection
<1>4. SetToSeq(S) \in [1..n -> S] /\ IsInjective(SetToSeq(S))
    BY <1>3 DEF SetToSeq
<1>5. SetToSeq(S) \in Injection(1..n, S)
    BY <1>4 DEF Injection
<1>6. IsFiniteSet(1..n) /\ Cardinality(1..n) = n
    BY <1>1, FS_Interval
<1>7. SetToSeq(S) \in Surjection(1..n, S)
    BY <1>5, <1>6, FS_Injection
<1>8. SetToSeq(S) \in Seq(S)
    BY <1>1, <1>4
<1>9. \A x \in S : \E i \in 1..n : SetToSeq(S)[i] = x
    BY <1>7 DEF Surjection
<1> QED
    BY <1>4, <1>8, <1>9 DEF IsInjective

Rows == {<<k, index[k][k]>> : k \in Indexed} \cup {<<k, staging[k]>> : k \in Present(staging)}

\* The rows of the two tables are finitely many if the keys are.
LEMMA RowsFinite ==
    ASSUME IsFiniteSet(Key)
    PROVE  IsFiniteSet(Rows)
<1>1. IsFiniteSet(Indexed) /\ IsFiniteSet(Present(staging))
    BY FS_Subset DEF Indexed, Present
<1> DEFINE A == {<<k, index[k][k]>> : k \in Indexed}
           B == {<<k, staging[k]>> : k \in Present(staging)}
           f == [k \in Indexed |-> <<k, index[k][k]>>]
           g == [k \in Present(staging) |-> <<k, staging[k]>>]
<1>2. f \in Surjection(Indexed, A) /\ g \in Surjection(Present(staging), B)
    BY DEF Surjection
<1>3. IsFiniteSet(A) /\ IsFiniteSet(B)
    BY <1>1, <1>2, FS_Surjection
<1> QED
    BY <1>3, FS_Union DEF Rows

\* A listing and its report: the keys of all entries differ.
Distinct(rs, it) ==
    /\ \A i, j \in DOMAIN rs : rs[i][1] = rs[j][1] => i = j
    /\ \A i, j \in DOMAIN it : it[i][1] = it[j][1] => i = j
    /\ \A i \in DOMAIN rs, j \in DOMAIN it : rs[i][1] # it[j][1]

\* Key k has been reported or is still to be.
Has(rs, it, k) ==
    \/ \E i \in DOMAIN rs : rs[i][1] = k
    \/ \E j \in DOMAIN it : it[j][1] = k

Row == Key \X (Value \cup {NoValue})
Ending == {"listed", "none", "found", "notfound", "error"}

\* List returns every readable key, and with content-addressed keys once.
LEMMA ListedFacts ==
    ASSUME IInv, IsFiniteSet(Key)
    PROVE  /\ Listed \in Seq(Row)
           /\ \A k \in Present(Visible) : \E j \in DOMAIN Listed : Listed[j][1] = k
           /\ ContentAddressed => \A i, j \in DOMAIN Listed : Listed[i][1] = Listed[j][1] => i = j
<1>1. Listed = SetToSeq(Rows)
    BY DEF Listed, Rows
<1>2. /\ Listed \in Seq(Rows)
      /\ \A i, j \in DOMAIN Listed : Listed[i] = Listed[j] => i = j
      /\ \A x \in Rows : \E i \in DOMAIN Listed : Listed[i] = x
    BY <1>1, RowsFinite, SetToSeqFacts
<1> USE DEF IInv, TypeOK, Content
<1>3. Rows \subseteq Row
    BY DEF Rows, Row, Indexed, Present
<1>4. Listed \in Seq(Row)
    BY <1>2, <1>3
<1>5. ASSUME NEW k \in Present(Visible)
      PROVE  \E j \in DOMAIN Listed : Listed[j][1] = k
    <2>1. \E v : <<k, v>> \in Rows
        <3>1. CASE k \in Present(staging)
            BY <3>1 DEF Rows
        <3>2. CASE k \in Indexed
            BY <3>2 DEF Rows
        <3> QED
            BY <1>5, <3>1, <3>2, NowhereIsAbsent DEF Present
    <2> QED
        BY <1>2, <2>1
<1>6. ASSUME ContentAddressed, NEW i \in DOMAIN Listed, NEW j \in DOMAIN Listed,
             Listed[i][1] = Listed[j][1]
      PROVE  i = j
    <2>1. Listed[i] \in Rows /\ Listed[j] \in Rows
        BY <1>2
    <2>2. ASSUME NEW x \in Rows
          PROVE  /\ x = <<x[1], x[2]>> /\ x[1] \in Key
                 /\ x[2] \in Written(x[1]) \cup {NoValue} /\ x[2] # NoValue
        <3>1. CASE \E k \in Indexed : x = <<k, index[k][k]>>
            BY <3>1 DEF Indexed, WalrusFirst, Provenance
        <3>2. CASE \E k \in Present(staging) : x = <<k, staging[k]>>
            BY <3>2 DEF Present, Provenance
        <3> QED
            BY <3>1, <3>2 DEF Rows
    <2>3. Listed[i][2] = Listed[j][2]
        BY <1>6, <2>1, <2>2, OneContent
    <2>4. Listed[i] = Listed[j]
        BY <1>6, <2>1, <2>2, <2>3
    <2> QED
        BY <1>2, <2>4
<1> QED
    BY <1>4, <1>5, <1>6

\* Reporting the head of the listing keeps both.
LEMMA Advance ==
    ASSUME NEW rs \in Seq(Key \X Ending), NEW it \in Seq(Row), it # <<>>, NEW e \in Ending
    PROVE  LET ns == Append(rs, <<Head(it)[1], e>>) IN
           /\ ns \in Seq(Key \X Ending) /\ Tail(it) \in Seq(Row)
           /\ Distinct(rs, it) => Distinct(ns, Tail(it))
           /\ \A k : Has(rs, it, k) => Has(ns, Tail(it), k)
<1> DEFINE ns == Append(rs, <<Head(it)[1], e>>)
<1>1. Head(it) = it[1] /\ it[1] \in Row /\ it[1][1] \in Key
    BY DEF Row
<1>2. ns \in Seq(Key \X Ending) /\ Tail(it) \in Seq(Row)
    BY <1>1
<1>3. /\ DOMAIN ns = 1..Len(rs) + 1 /\ DOMAIN rs = 1..Len(rs)
      /\ \A i \in 1..Len(rs) : ns[i] = rs[i]
      /\ ns[Len(rs) + 1] = <<it[1][1], e>>
    BY <1>1
<1>4. /\ DOMAIN it = 1..Len(it) /\ DOMAIN Tail(it) = 1..Len(it) - 1
      /\ \A j \in 1..Len(it) - 1 : Tail(it)[j] = it[j + 1] /\ j + 1 \in 1..Len(it)
      /\ 1 \in DOMAIN it /\ Len(it) \in Nat /\ Len(rs) \in Nat
    BY <1>1
<1>5. ASSUME Distinct(rs, it) PROVE Distinct(ns, Tail(it))
    <2>1. ASSUME NEW i \in DOMAIN ns, NEW j \in DOMAIN ns, ns[i][1] = ns[j][1] PROVE i = j
        BY <1>3, <1>4, <1>5, <2>1 DEF Distinct
    <2>2. ASSUME NEW i \in DOMAIN Tail(it), NEW j \in DOMAIN Tail(it), Tail(it)[i][1] = Tail(it)[j][1]
          PROVE  i = j
        BY <1>4, <1>5, <2>2 DEF Distinct
    <2>3. ASSUME NEW i \in DOMAIN ns, NEW j \in DOMAIN Tail(it) PROVE ns[i][1] # Tail(it)[j][1]
        BY <1>3, <1>4, <1>5 DEF Distinct
    <2> QED
        BY <2>1, <2>2, <2>3 DEF Distinct
<1>6. ASSUME NEW k, Has(rs, it, k) PROVE Has(ns, Tail(it), k)
    <2>1. CASE \E i \in DOMAIN rs : rs[i][1] = k
        BY <1>3, <1>4, <2>1 DEF Has
    <2>2. CASE it[1][1] = k
        <3>1. Len(rs) + 1 \in DOMAIN ns /\ ns[Len(rs) + 1][1] = k
            BY <1>3, <1>4, <2>2
        <3> QED
            BY <3>1 DEF Has
    <2>3. CASE \E j \in DOMAIN it : j # 1 /\ it[j][1] = k
        <3>1. PICK j \in DOMAIN it : j # 1 /\ it[j][1] = k
            BY <2>3
        <3>2. j - 1 \in DOMAIN Tail(it) /\ Tail(it)[j - 1] = it[j]
            BY <1>4, <3>1
        <3> QED
            BY <3>1, <3>2 DEF Has
    <2> QED
        BY <1>6, <2>1, <2>2, <2>3 DEF Has
<1> QED
    BY <1>2, <1>5, <1>6

-----------------------------------------------------------------------------
(* The invariant of a query *)

QueryType ==
    /\ open \in [Reader -> BOOLEAN]
    /\ keysOnly \in [Reader -> BOOLEAN]
    /\ items \in [Reader -> Seq(Row)]
    /\ results \in [Reader -> Seq(Key \X Ending)]
    /\ missing \in [Reader -> SUBSET Key]
    /\ late \in [Reader -> SUBSET Key]

\* A reader reads only the head of an open listing, and a closed one is empty.
Cursor(r) ==
    /\ ~open[r] => items[r] = <<>> /\ results[r] = <<>> /\ rpc[r] = "idle"
    /\ rpc[r] # "idle" => items[r] # <<>> /\ ~keysOnly[r] /\ rkey[r] = Head(items[r])[1]

\* The key of a Get that said "not found".
Excused(r, k) == k \in missing[r] \/ k \in late[r]

\* Whatever was present throughout is in the listing; a Get that said "not
\* found", or is about to, is about a key that was missing or late.
Told(r) ==
    /\ open[r] => \A k \in Key \ missing[r] : Has(results[r], items[r], k)
    /\ \A i \in DOMAIN results[r] : results[r][i][2] = "notfound" => Excused(r, results[r][i][1])
    /\ rpc[r] = "index" => rkey[r] \in missing[r] \/ rkey[r] \in Indexed
    /\ rpc[r] = "walrus" =>
         /\ rrec[r] \in walrus /\ rrec[r][rkey[r]] # NoValue
         /\ rrec[r] \in served \/ rkey[r] \in late[r]

Once(r) == Distinct(results[r], items[r])

\* QueryComplete looks at finished queries only: Cursor and Told say what a
\* running one has still to do.
QInv == IInv /\ QueryType /\ \A r \in Reader : Cursor(r) /\ Told(r)

OnceInv == \A r \in Reader : Once(r)

\* What Watch records.
LEMMA Watched ==
    ASSUME QNext, NEW r \in Reader
    PROVE  /\ missing'[r] = IF open'[r] THEN missing[r] \cup (Key \ Present(Visible)') ELSE {}
           /\ late'[r] = IF open'[r] THEN late[r] \cup Lagging' ELSE {}
BY DEF QNext, Watch, Present

LEMMA WatchGrows ==
    ASSUME QNext, NEW r \in Reader, open'[r]
    PROVE  /\ missing[r] \cup (Key \ Present(Visible)') \subseteq missing'[r]
           /\ late[r] \cup Lagging' \subseteq late'[r]
BY Watched

\* A step of the composition is a step of the data path or none.
LEMMA QNextIsNext == QNext => [Next]_vars
BY DEF QNext, Others, StartQuery, NextKey, NextGet, GetStep, EndQuery, Next, ReaderStep

\* The step of another process leaves a reader's own variables alone.
Still(r) ==
    /\ rpc'[r] = rpc[r] /\ rkey'[r] = rkey[r] /\ rrec'[r] = rrec[r]
    /\ open'[r] = open[r] /\ keysOnly'[r] = keysOnly[r]
    /\ items'[r] = items[r] /\ results'[r] = results[r]

LEMMA StillHolds ==
    ASSUME QInv, IInv', QNext, NEW r \in Reader, Still(r)
    PROVE  Cursor(r)' /\ Told(r)' /\ (Once(r) => Once(r)')
<1>n. [Next]_vars
    BY QNextIsNext
<1>w. walrus \subseteq walrus' /\ served \subseteq served'
    BY <1>n, WalrusGrows, ServedGrows
<1>t. rkey[r] \in Key /\ open[r] \in BOOLEAN
    BY DEF QInv, IInv, TypeOK, QueryType
<1>1. Cursor(r)' /\ (Once(r) => Once(r)')
    BY DEF QInv, Cursor, Once, Still
<1>o. CASE ~open[r]
    BY <1>1, <1>o DEF Still, Told, QInv, Cursor
<1>p. CASE open[r]
    <2>2. missing[r] \subseteq missing'[r] /\ late[r] \subseteq late'[r]
        BY <1>p, Watched DEF Still
    <2>3. ASSUME rpc[r] = "index", rkey[r] \notin Indexed' PROVE rkey[r] \in missing'[r]
        <3>1. CASE rkey[r] \in missing[r]
            BY <2>2, <3>1
        <3>2. CASE rkey[r] \in Indexed
            <4>1. rkey[r] \notin Present(Visible)'
                BY <2>3, <1>n, <3>2, UnindexedIsAbsent DEF QInv
            <4> QED
                BY <1>p, <1>t, <4>1, Watched DEF Still
        <3> QED
            BY <2>3, <3>1, <3>2 DEF QInv, Told
    <2>4. \A k \in Key \ missing'[r] : Has(results'[r], items'[r], k)
        BY <1>p, <2>2 DEF QInv, Told, Still
    <2>5. \A i \in DOMAIN results'[r] :
            results'[r][i][2] = "notfound" => Excused(r, results[r][i][1])'
        BY <2>2 DEF QInv, Told, Still, Excused
    <2>6. rpc'[r] = "walrus" => /\ rrec'[r] \in walrus' /\ rrec'[r][rkey'[r]] # NoValue
                                /\ rrec'[r] \in served' \/ rkey'[r] \in late'[r]
        BY <1>w, <2>2 DEF QInv, Told, Still
    <2>7. rpc'[r] = "index" => rkey'[r] \in missing'[r] \/ rkey'[r] \in Indexed'
        BY <2>3 DEF Still
    <2> QED
        BY <1>1, <2>4, <2>5, <2>6, <2>7 DEF Told
<1> QED
    BY <1>t, <1>o, <1>p

\* The answer of a Get becomes the entry of the listing's head.
LEMMA EntryHolds ==
    ASSUME QInv, IInv', QNext, NEW r \in Reader, NEW e \in Ending, open[r], open'[r],
           items[r] # <<>>, rpc'[r] = "idle", e = "notfound" => Excused(r, Head(items[r])[1]),
           results' = [results EXCEPT ![r] = Append(@, <<Head(items[r])[1], e>>)],
           items' = [items EXCEPT ![r] = Tail(@)]
    PROVE  /\ results' \in [Reader -> Seq(Key \X Ending)] /\ items' \in [Reader -> Seq(Row)]
           /\ Cursor(r)' /\ Told(r)' /\ (Once(r) => Once(r)')
<1>1. items[r] \in Seq(Row) /\ results[r] \in Seq(Key \X Ending)
    BY DEF QInv, QueryType
<1>2. results'[r] = Append(results[r], <<Head(items[r])[1], e>>) /\ items'[r] = Tail(items[r])
    BY DEF QInv, QueryType
<1>3. /\ results'[r] \in Seq(Key \X Ending) /\ items'[r] \in Seq(Row)
      /\ Distinct(results[r], items[r]) => Distinct(results'[r], items'[r])
      /\ \A k : Has(results[r], items[r], k) => Has(results'[r], items'[r], k)
    BY <1>1, <1>2, Advance, ZenonT(40)
<1>4. results' \in [Reader -> Seq(Key \X Ending)] /\ items' \in [Reader -> Seq(Row)]
    BY <1>3 DEF QInv, QueryType
<1>5. \A k : Excused(r, k) => Excused(r, k)'
    BY Watched DEF Excused
<1>m. missing[r] \subseteq missing'[r]
    BY Watched
<1>6. Cursor(r)'
    BY DEF Cursor
<1>7. \A k \in Key \ missing'[r] : Has(results'[r], items'[r], k)
    BY <1>3, <1>m DEF QInv, Told
<1>8. ASSUME NEW i \in DOMAIN results'[r], results'[r][i][2] = "notfound"
      PROVE  Excused(r, results[r][i][1])'
    <2>1. CASE i \in DOMAIN results[r]
        <3>1. results'[r][i] = results[r][i]
            BY <1>1, <1>2, <2>1
        <3> QED
            BY <1>5, <1>8, <2>1, <3>1 DEF QInv, Told, Excused
    <2>2. CASE i \notin DOMAIN results[r]
        <3>1. results'[r][i] = <<Head(items[r])[1], e>>
            BY <1>1, <1>2, <2>2
        <3> QED
            BY <1>5, <1>8, <3>1 DEF Excused
    <2> QED
        BY <2>1, <2>2
<1>9. rpc'[r] # "index" /\ rpc'[r] # "walrus"
    OBVIOUS
<1> QED
    BY <1>3, <1>4, <1>6, <1>7, <1>8, <1>9 DEF Told, Once

\* What a reader's own step has to show.
Good(r) ==
    /\ open' \in [Reader -> BOOLEAN] /\ keysOnly' \in [Reader -> BOOLEAN]
    /\ items' \in [Reader -> Seq(Row)] /\ results' \in [Reader -> Seq(Key \X Ending)]
    /\ Cursor(r)' /\ Told(r)' /\ (ContentAddressed /\ Once(r) => Once(r)')

\* One lemma per action of a query: each keeps what is said of its reader.
LEMMA StartQueryHolds ==
    ASSUME IsFiniteSet(Key), QInv, IInv', QNext, NEW r \in Reader, StartQuery(r)
    PROVE  Good(r)
<1> USE DEF QInv, QueryType
<1>1. UNCHANGED vars /\ rpc[r] = "idle" /\ rpc'[r] = "idle"
    BY DEF StartQuery, Cursor, vars
<1>2. open'[r] /\ ~open[r] /\ items'[r] = Listed /\ results'[r] = <<>>
    BY DEF StartQuery, Cursor
<1>3. Key \ Present(Visible) \subseteq missing'[r]
    BY <1>1, <1>2, Watched DEF vars, Visible, Present
<1>4. open' \in [Reader -> BOOLEAN] /\ keysOnly' \in [Reader -> BOOLEAN]
    BY DEF StartQuery
<1>5. items' \in [Reader -> Seq(Row)] /\ results' \in [Reader -> Seq(Key \X Ending)]
    BY ListedFacts DEF StartQuery
<1>6. Cursor(r)'
    BY <1>1, <1>2 DEF Cursor
<1>7. Told(r)'
    BY <1>1, <1>2, <1>3, ListedFacts DEF Told, Has
<1>8. ContentAddressed => Once(r)'
    BY <1>2, ListedFacts DEF Once, Distinct
<1> QED
    BY <1>4, <1>5, <1>6, <1>7, <1>8 DEF Good

LEMMA NextKeyHolds ==
    ASSUME QInv, IInv', QNext, NEW r \in Reader, NextKey(r)
    PROVE  Good(r)
<1>1. rpc'[r] = "idle"
    BY DEF NextKey, vars, QInv, Cursor
<1>2. open' = open /\ keysOnly' = keysOnly /\ open[r]
    BY DEF NextKey
<1>3. items[r] # <<>> /\ items' = [items EXCEPT ![r] = Tail(@)]
      /\ results' = [results EXCEPT ![r] = Append(@, <<Head(items[r])[1], "listed">>)]
    BY DEF NextKey
<1>4. "listed" \in Ending
    BY DEF Ending
<1>5. /\ results' \in [Reader -> Seq(Key \X Ending)] /\ items' \in [Reader -> Seq(Row)]
      /\ Cursor(r)' /\ Told(r)' /\ (Once(r) => Once(r)')
    BY <1>1, <1>2, <1>3, <1>4, EntryHolds
<1> QED
    BY <1>2, <1>5 DEF Good, QInv, QueryType

LEMMA NextGetHolds ==
    ASSUME QInv, IInv', QNext, NEW r \in Reader, NextGet(r)
    PROVE  Good(r)
<1>1. UNCHANGED <<open, keysOnly, items, results>> /\ open[r] /\ ~keysOnly[r] /\ items[r] # <<>>
    BY DEF NextGet
<1>2. rpc'[r] = "staging" /\ rkey'[r] = Head(items[r])[1]
    BY DEF NextGet, StartRead, QInv, IInv, TypeOK
<1>3. missing[r] \subseteq missing'[r] /\ late[r] \subseteq late'[r]
    BY <1>1, Watched
<1> QED
    BY <1>1, <1>2, <1>3 DEF Good, QInv, QueryType, Cursor, Told, Once, Excused

LEMMA GetStepHolds ==
    ASSUME QInv, IInv', QNext, NEW r \in Reader, GetStep(r)
    PROVE  Good(r)
<1> USE DEF QInv, IInv, TypeOK
<1>1. /\ open' = open /\ keysOnly' = keysOnly /\ open[r] /\ open'[r] /\ rpc[r] # "idle"
      /\ items[r] # <<>> /\ ~keysOnly[r] /\ rkey[r] = Head(items[r])[1] /\ rkey[r] \in Key
    BY DEF GetStep, Cursor
<1>2. missing[r] \subseteq missing'[r] /\ late[r] \cup Lagging' \subseteq late'[r]
    <2>1. open'[r]
        BY <1>1
    <2> QED
        BY <2>1, WatchGrows, ZenonT(40)
<1>3. ASSUME rpc'[r] = "idle", rres'[r] = "notfound" => Excused(r, rkey[r]) PROVE Good(r)
    <2>1. rres'[r] \in Ending
        BY DEF Ending
    <2>2. /\ results' = [results EXCEPT ![r] = Append(@, <<Head(items[r])[1], rres'[r]>>)]
          /\ items' = [items EXCEPT ![r] = Tail(@)]
        BY <1>1, <1>3 DEF GetStep
    <2>3. PICK e \in Ending : e = rres'[r]
        BY <2>1
    <2>4. e = "notfound" => Excused(r, Head(items[r])[1])
        BY <1>1, <1>3, <2>3
    <2>5. results' = [results EXCEPT ![r] = Append(@, <<Head(items[r])[1], e>>)]
        BY <2>2, <2>3
    <2>6. /\ results' \in [Reader -> Seq(Key \X Ending)] /\ items' \in [Reader -> Seq(Row)]
          /\ Cursor(r)' /\ Told(r)' /\ (Once(r) => Once(r)')
        BY <1>1, <1>3, <2>2, <2>4, <2>5, EntryHolds
    <2> QED
        BY <1>1, <2>6 DEF Good, QueryType
<1>4. ASSUME rpc'[r] # "idle", rkey'[r] = rkey[r],
             rpc'[r] = "index" => rkey[r] \in missing'[r] \/ rkey[r] \in Indexed',
             rpc'[r] = "walrus" => /\ rrec'[r] \in walrus' /\ rrec'[r][rkey[r]] # NoValue
                                   /\ rrec'[r] \in served' \/ rkey[r] \in late'[r]
      PROVE  Good(r)
    <2>1. items' = items /\ results' = results
        BY <1>4 DEF GetStep
    <2> QED
        BY <1>1, <1>2, <1>4, <2>1 DEF Good, QueryType, Cursor, Told, Once, Excused
<1>5. CASE ProbeStaging(r)
    <2>1. CASE rkey[r] \in Present(staging)
        BY <1>3, <1>5, <2>1 DEF ProbeStaging, Answer
    <2>2. CASE rkey[r] \notin Present(staging)
        <3>1. rpc'[r] = "index" /\ rkey'[r] = rkey[r] /\ UNCHANGED <<staging, index>>
            BY <1>5, <2>2 DEF ProbeStaging, tables
        <3>2. CASE rkey[r] \in Indexed
            BY <1>4, <3>1, <3>2 DEF Indexed
        <3>3. CASE rkey[r] \notin Indexed
            <4>1. rkey[r] \notin Present(Visible)'
                BY <1>1, <2>2, <3>1, <3>3, NowhereIsAbsent DEF Present, Visible
            <4>2. rkey[r] \in missing'[r]
                <5>1. Key \ Present(Visible)' \subseteq missing'[r]
                    BY <1>1, WatchGrows, ZenonT(40)
                <5> QED
                    BY <1>1, <4>1, <5>1
            <4> QED
                BY <1>4, <3>1, <4>2
        <3> QED
            BY <3>2, <3>3
    <2> QED
        BY <2>1, <2>2
<1>6. CASE ProbeIndex(r)
    <2>1. rpc[r] = "index" /\ rkey'[r] = rkey[r] /\ UNCHANGED <<index, walrus, served>>
        BY <1>6 DEF ProbeIndex, tables
    <2>2. CASE rkey[r] \notin Indexed
        <3>1. rpc'[r] = "idle"
            BY <1>6, <2>2 DEF ProbeIndex, Answer
        <3> QED
            BY <1>3, <2>1, <2>2, <3>1 DEF Told, Excused
    <2>3. CASE rkey[r] \in Indexed /\ rop[r] = "Stat"
        BY <1>3, <1>6, <2>3 DEF ProbeIndex, Answer
    <2>4. CASE rkey[r] \in Indexed /\ rop[r] = "Get"
        <3>1. index[rkey[r]] \in walrus /\ index[rkey[r]][rkey[r]] # NoValue
            BY <2>4 DEF WalrusFirst
        <3>2. rpc'[r] = "walrus" /\ rrec'[r] = index[rkey[r]]
            BY <1>6, <2>4 DEF ProbeIndex, Answer
        <3>3. index[rkey[r]] \in served \/ rkey[r] \in late'[r]
            BY <1>1, <1>2, <2>1, <2>4, <3>1 DEF Lagging, Indexed
        <3> QED
            BY <1>4, <2>1, <3>1, <3>2, <3>3
    <2> QED
        BY <2>2, <2>3, <2>4
<1>7. CASE ReadWalrus(r)
    <2>1. rpc'[r] = "idle"
        BY <1>7 DEF ReadWalrus, Answer
    <2>2. rres'[r] = "notfound" => Excused(r, rkey[r])
        BY <1>7 DEF ReadWalrus, Answer, Told, Excused
    <2> QED
        BY <1>3, <2>1, <2>2
<1>8. CASE ReadError(r)
    BY <1>3, <1>8 DEF ReadError, Answer
<1> QED
    BY <1>5, <1>6, <1>7, <1>8 DEF GetStep

LEMMA EndQueryHolds ==
    ASSUME QInv, IInv', QNext, NEW r \in Reader, EndQuery(r)
    PROVE  Good(r)
<1>1. /\ UNCHANGED vars /\ UNCHANGED <<keysOnly, items>> /\ items[r] = <<>> /\ rpc[r] = "idle"
      /\ results' = [results EXCEPT ![r] = <<>>]
    BY DEF EndQuery
<1>2. ~open'[r] /\ open' \in [Reader -> BOOLEAN]
    BY DEF EndQuery, QInv, QueryType
<1>3. results' \in [Reader -> Seq(Key \X Ending)] /\ results'[r] = <<>>
    BY <1>1 DEF QInv, QueryType
<1> QED
    BY <1>1, <1>2, <1>3 DEF Good, QInv, QueryType, Cursor, Told, Once, Distinct, vars

\* Every step keeps what a query has still to do, and reports no key twice.
LEMMA QInvStep ==
    ASSUME IsFiniteSet(Key), QInv, [QNext]_<<vars, qvars>>
    PROVE  QInv' /\ (ContentAddressed /\ OnceInv => OnceInv')
<1>1. CASE UNCHANGED <<vars, qvars>>
    <2>1. IInv'
        BY <1>1, IInvStep DEF QInv
    <2> QED
        BY <1>1, <2>1 DEF QInv, OnceInv, QueryType, Cursor, Told, Once, Excused, Indexed, vars, qvars
<1>2. CASE QNext
    <2>1. IInv'
        BY <1>2, QNextIsNext, IInvStep DEF QInv
    <2>2. missing' \in [Reader -> SUBSET Key] /\ late' \in [Reader -> SUBSET Key]
        BY <1>2 DEF QNext, Watch, QInv, QueryType, Lagging, Indexed
    <2>3. ASSUME NEW q \in Reader, Good(q), \A r \in Reader \ {q} : Still(r)
          PROVE  QInv' /\ (ContentAddressed /\ OnceInv => OnceInv')
        <3>1. \A r \in Reader \ {q} : Cursor(r)' /\ Told(r)' /\ (Once(r) => Once(r)')
            BY <1>2, <2>1, <2>3, StillHolds
        <3> QED
            BY <2>1, <2>2, <2>3, <3>1 DEF QInv, OnceInv, QueryType, Good
    <2>4. CASE Others
        <3>1. UNCHANGED readerVars
            BY <2>4, ZenonT(40) DEF Others, readerVars, ClientStep, FlusherStep, Begin, StagePutMany,
               DirectUpload, PutMany, DeleteIndex, DeleteStaging, Return, ClientCrash, EndCall,
               Select, Lease, Upload, PromoteDelete, PromoteInsert, Release, FlusherCrash,
               LeaseExpire, Appear
        <3>2. \A r \in Reader : Still(r)
            BY <2>4, <3>1 DEF Others, Still, readerVars
        <3>3. \A r \in Reader : Cursor(r)' /\ Told(r)' /\ (Once(r) => Once(r)')
            BY <1>2, <2>1, <3>2, StillHolds
        <3> QED
            BY <2>1, <2>2, <2>4, <3>3 DEF QInv, OnceInv, QueryType, Others
    <2>5. ASSUME NEW q \in Reader,
                 StartQuery(q) \/ NextKey(q) \/ NextGet(q) \/ GetStep(q) \/ EndQuery(q)
          PROVE  QInv' /\ (ContentAddressed /\ OnceInv => OnceInv')
        <3>1. Good(q)
            BY <1>2, <2>1, <2>5, StartQueryHolds, NextKeyHolds, NextGetHolds, GetStepHolds, EndQueryHolds
        <3>2. ASSUME NEW r \in Reader \ {q} PROVE Still(r)
            BY <2>5 DEF Still, StartQuery, NextKey, NextGet, GetStep, EndQuery, StartRead,
               ProbeStaging, ProbeIndex, ReadWalrus, ReadError, Answer, vars,
               QInv, IInv, TypeOK, QueryType
        <3> QED
            BY <2>3, <3>1, <3>2
    <2> QED
        BY <1>2, <2>4, <2>5 DEF QNext
<1> QED
    BY <1>1, <1>2

\* The invariants hold at the start.
LEMMA QInvInit ==
    ASSUME QInit
    PROVE  QInv /\ OnceInv
<1>1. IInv
    BY IInvInit DEF QInit
<1>2. QueryType
    BY DEF QInit, QueryType
<1>3. \A r \in Reader : Cursor(r) /\ Told(r) /\ Once(r)
    BY DEF QInit, Init, Cursor, Told, Once, Distinct
<1> QED
    BY <1>1, <1>2, <1>3 DEF QInv, OnceInv

\* A query over finitely many keys is complete (src/index.go:391-431): a key
\* that was present from List to the iterator's end is among its entries, however
\* its pack was promoted meanwhile, and its Get answered "not found" only if at
\* some instant its row named a stored blob not every aggregator served yet.
THEOREM QueriesComplete == IsFiniteSet(Key) => (QSpec => []QueryComplete)
<1> SUFFICES ASSUME IsFiniteSet(Key) PROVE QSpec => []QueryComplete
    OBVIOUS
<1>1. QInit => QInv
    BY QInvInit
<1>2. QInv /\ [QNext]_<<vars, qvars>> => QInv'
    BY QInvStep
<1>3. QInv => QueryComplete
    <2> SUFFICES ASSUME QInv, NEW r \in Reader, open[r], items[r] = <<>>, NEW k \in Key \ missing[r]
                 PROVE  \E i \in Entries(r, k) : results[r][i][2] = "notfound" => k \in late[r]
        BY DEF QueryComplete
    <2>1. results[r] \in Seq(Key \X Ending)
        BY DEF QInv, QueryType
    <2>2. PICK i \in DOMAIN results[r] : results[r][i][1] = k
        BY <2>1 DEF QInv, Told, Has
    <2>3. i \in Entries(r, k)
        BY <2>1, <2>2 DEF Entries
    <2>4. results[r][i][2] = "notfound" => k \in late[r]
        BY <2>2 DEF QInv, Told, Excused
    <2> QED
        BY <2>3, <2>4
<1> QED
    BY <1>1, <1>2, <1>3, PTL DEF QSpec

\* "The UNION dedupes a key that is momentarily in both tables" (src/index.go:393):
\* when keys are content-addressed no query reports a key twice.
THEOREM QueriesReportOnce == IsFiniteSet(Key) /\ ContentAddressed => (QSpec => []ListedOnce)
<1> SUFFICES ASSUME IsFiniteSet(Key), ContentAddressed PROVE QSpec => []ListedOnce
    OBVIOUS
<1>1. QInit => QInv /\ OnceInv
    BY QInvInit
<1>2. QInv /\ OnceInv /\ [QNext]_<<vars, qvars>> => QInv' /\ OnceInv'
    BY QInvStep
<1>3. QInv /\ OnceInv => ListedOnce
    <2> SUFFICES ASSUME QInv, OnceInv, NEW r \in Reader, NEW k \in Key
                 PROVE  Cardinality(Entries(r, k)) <= 1
        BY DEF ListedOnce
    <2>1. results[r] \in Seq(Key \X Ending)
        BY DEF QInv, QueryType
    <2>2. \A i, j \in Entries(r, k) : i = j
        BY <2>1 DEF Entries, OnceInv, Once, Distinct
    <2>3. CASE Entries(r, k) = {}
        BY <2>3, FS_EmptySet
    <2>4. CASE Entries(r, k) # {}
        <3>1. PICK i : i \in Entries(r, k)
            BY <2>4
        <3>2. Entries(r, k) = {i}
            BY <2>2, <3>1
        <3> QED
            BY <3>2, FS_Singleton
    <2> QED
        BY <2>3, <2>4
<1> QED
    BY <1>1, <1>2, <1>3, PTL DEF QSpec
============================================================================
