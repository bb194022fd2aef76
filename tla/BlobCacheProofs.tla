-------------------------- MODULE BlobCacheProofs --------------------------
(***************************************************************************)
(* Proofs about BlobCache, for any readers, keys, body sizes and budget.   *)
(*                                                                         *)
(* Three groups.  What the running sums of a list are (they exist, they    *)
(* are unique, and how a push, a move to the front and a cut at the back   *)
(* change them), which rests on one induction over the naturals written    *)
(* as a fact about sets.  The book-keeping of the list, the map and the    *)
(* byte count, with what it says of evictions.  And who refers to which    *)
(* buffer, which is why no caller sees another caller's writes.            *)
(***************************************************************************)
EXTENDS BlobCache, SequenceTheorems, FiniteSetTheorems, WellFoundedInduction, TLAPS

-----------------------------------------------------------------------------
(* Induction over the naturals, and least and greatest elements *)

Less == {p \in Nat \X Nat : p[1] < p[2]}

\* Less is well-founded: what the library's least-element fact needs.
LEMMA LessIsWellFounded == IsWellFoundedOn(Less, Nat)
  BY NatLessThanWellFounded DEF OpToRel, Less

\* A nonempty set of naturals has a least element.
LEMMA LeastExists ==
  ASSUME NEW S \in SUBSET Nat, S # {}
  PROVE  \E x \in S : \A y \in S : x <= y
<1>1. PICK x \in S : \A y \in S : ~(<<y, x>> \in Less)
  BY LessIsWellFounded, WFMin
<1>2. \A y \in S : ~(y < x)
  BY <1>1 DEF Less
<1>. QED  BY <1>2

\* Induction: a set with 0 and every successor of its members holds all naturals.
LEMMA SetInduction ==
  ASSUME NEW S, 0 \in S, \A n \in Nat : n \in S => n + 1 \in S
  PROVE  Nat \subseteq S
<1>. SUFFICES ASSUME Nat \ S # {} PROVE FALSE
  OBVIOUS
<1>1. PICK x \in Nat \ S : \A y \in Nat \ S : x <= y
  BY LeastExists
<1>2. x - 1 \in Nat /\ x - 1 < x
  BY <1>1
<1>3. x - 1 \in S
  BY <1>1, <1>2
<1>. QED  BY <1>1, <1>2, <1>3

\* Min of a nonempty set of naturals is in it.
LEMMA MinIsMember ==
  ASSUME NEW S \in SUBSET Nat, S # {}
  PROVE  Min(S) \in S
  BY LeastExists DEF Min

\* Max of a nonempty bounded set is in it and the greatest.
LEMMA MaxIsGreatest ==
  ASSUME NEW n \in Nat, NEW S \in SUBSET (0..n), S # {}
  PROVE  Max(S) \in S /\ \A y \in S : y <= Max(S)
<1>. DEFINE T == {n - y : y \in S}
<1>1. T # {} /\ \A t \in T : t \in Nat
  <2>1. \A y \in S : n - y \in Nat
    OBVIOUS
  <2>2. T # {}
    OBVIOUS
  <2>. QED  BY <2>1, <2>2
<1>2. PICK t \in T : \A u \in T : t <= u
  <2>. HIDE DEF T
  <2>1. T \in SUBSET Nat  BY <1>1
  <2>. QED  BY <1>1, <2>1, LeastExists
<1>3. PICK x \in S : t = n - x
  OBVIOUS
<1>4. \A y \in S : x >= y
  BY <1>2, <1>3
<1>. QED  BY <1>4 DEF Max
-----------------------------------------------------------------------------
(* Running sums *)

\* What makes g the running sums of s, up to n entries.
Sum(s, n, g) ==
    /\ g \in [0..n -> Nat]
    /\ g[0] = 0
    /\ \A i \in 1..n : g[i] = g[i - 1] + Size[s[i]]

\* Two functions that are the running sums of a list are the same one.
LEMMA SumUnique ==
  ASSUME NEW s \in Seq(Key), NEW n \in 0..Len(s), NEW g, NEW h, Sum(s, n, g),
         DOMAIN h = 0..n, h[0] = 0, \A i \in 1..n : h[i] = h[i - 1] + Size[s[i]],
         h = [i \in 0..n |-> h[i]]
  PROVE  g = h
<1>. DEFINE S == {j \in Nat : j <= n => g[j] = h[j]}
<1>1. 0 \in S
  BY DEF Sum
<1>2. ASSUME NEW j \in Nat, j \in S PROVE j + 1 \in S
  <2>. SUFFICES ASSUME j + 1 <= n PROVE g[j + 1] = h[j + 1]
    OBVIOUS
  <2>1. j + 1 \in 1..n /\ (j + 1) - 1 = j /\ g[j] = h[j]
    BY <1>2
  <2>. QED  BY <2>1 DEF Sum
<1>3. Nat \subseteq S
  <2>. HIDE DEF S
  <2>. QED  BY <1>1, <1>2, SetInduction
<1>4. \A j \in 0..n : g[j] = h[j]
  <2>1. n \in Nat
    OBVIOUS
  <2>2. \A j \in 0..n : j \in Nat /\ j <= n
    BY <2>1
  <2>. QED  BY <1>3, <2>2
<1>. QED  BY <1>4 DEF Sum

\* The running sums of a list's first n entries exist.
LEMMA SumExists ==
  ASSUME NEW s \in Seq(Key), NEW n \in 0..Len(s)
  PROVE  \E g : Sum(s, n, g)
<1>. DEFINE S == {j \in Nat : j <= Len(s) => \E g : Sum(s, j, g)}
<1>1. 0 \in S
  <2>1. Sum(s, 0, [i \in 0..0 |-> 0])
    BY DEF Sum
  <2>. QED  BY <2>1
<1>2. ASSUME NEW j \in Nat, j \in S PROVE j + 1 \in S
  <2>. SUFFICES ASSUME j + 1 <= Len(s) PROVE \E g : Sum(s, j + 1, g)
    OBVIOUS
  <2>1. PICK g : Sum(s, j, g)
    BY <1>2
  <2>2. Size[s[j + 1]] \in Nat
    BY CacheAssumption
  <2>. DEFINE h == [i \in 0..(j + 1) |-> IF i <= j THEN g[i] ELSE g[j] + Size[s[j + 1]]]
  <2>3. h \in [0..(j + 1) -> Nat]
    BY <2>1, <2>2 DEF Sum
  <2>4. h[0] = 0
    BY <2>1 DEF Sum
  <2>5. ASSUME NEW i \in 1..(j + 1) PROVE h[i] = h[i - 1] + Size[s[i]]
    <3>1. CASE i = j + 1
      BY <3>1
    <3>2. CASE i <= j
      <4>1. i \in 1..j /\ i - 1 \in 0..j
        BY <3>2
      <4>. QED  BY <4>1, <2>1 DEF Sum
    <3>. QED  BY <3>1, <3>2
  <2>6. Sum(s, j + 1, h)
    <3>. HIDE DEF h
    <3>. QED  BY <2>3, <2>4, <2>5 DEF Sum
  <2>. QED  BY <2>6
<1>3. Nat \subseteq S
  <2>. HIDE DEF S
  <2>. QED  BY <1>1, <1>2, SetInduction
<1>. QED  BY <1>3

\* Sums computes the running sums, for every list of keys.
LEMMA SumsFacts ==
  ASSUME NEW s \in Seq(Key)
  PROVE  Sum(s, Len(s), Sums(s))
<1>1. PICK g : Sum(s, Len(s), g)
  BY SumExists
<1>2. g = [i \in 0..Len(s) |-> IF i = 0 THEN 0 ELSE g[i - 1] + Size[s[i]]]
  BY <1>1 DEF Sum
<1>3. Sums(s) = [i \in 0..Len(s) |-> IF i = 0 THEN 0 ELSE Sums(s)[i - 1] + Size[s[i]]]
  BY <1>2 DEF Sums
<1>. DEFINE h == Sums(s)
<1>4. DOMAIN h = 0..Len(s) /\ h[0] = 0 /\ h = [i \in 0..Len(s) |-> h[i]]
  BY <1>3
<1>5. \A i \in 1..Len(s) : h[i] = h[i - 1] + Size[s[i]]
  BY <1>3
<1>6. g = h
  <2>. HIDE DEF h
  <2>. QED  BY <1>1, <1>4, <1>5, SumUnique
<1>. QED  BY <1>1, <1>6

\* To know the running sums of a list it is enough to exhibit them.
LEMMA SumsAre ==
  ASSUME NEW s \in Seq(Key), NEW g, Sum(s, Len(s), g)
  PROVE  Sums(s) = g
<1>1. Sum(s, Len(s), Sums(s))
  BY SumsFacts
<1>. DEFINE h == Sums(s)
<1>2. DOMAIN h = 0..Len(s) /\ h[0] = 0 /\ h = [i \in 0..Len(s) |-> h[i]]
  BY <1>1 DEF Sum
<1>3. \A i \in 1..Len(s) : h[i] = h[i - 1] + Size[s[i]]
  BY <1>1 DEF Sum
<1>. HIDE DEF h
<1>4. g = h
  BY <1>2, <1>3, SumUnique
<1>. QED  BY <1>4 DEF h
-----------------------------------------------------------------------------
(* The list operations *)

\* PushFront: the list and its sums shift by one entry.
LEMMA Pushed ==
  ASSUME NEW s \in Seq(Key), NEW k \in Key
  PROVE  LET t == <<k>> \o s IN
         /\ t \in Seq(Key) /\ Len(t) = Len(s) + 1
         /\ t[1] = k /\ \A j \in 2..Len(t) : t[j] = s[j - 1]
         /\ Bytes(t) = Bytes(s) + Size[k]
<1>. DEFINE t == <<k>> \o s
<1>1. t \in Seq(Key) /\ Len(t) = Len(s) + 1 /\ t[1] = k
  OBVIOUS
<1>2. \A j \in 2..Len(t) : t[j] = s[j - 1]
  OBVIOUS
<1>. HIDE DEF t
<1>. DEFINE f == Sums(s)
            g == [j \in 0..Len(t) |-> IF j = 0 THEN 0 ELSE f[j - 1] + Size[k]]
<1>3. Sum(s, Len(s), f) /\ Size[k] \in Nat /\ Len(s) \in Nat
  BY SumsFacts, CacheAssumption
<1>. HIDE DEF f
<1>4. Sum(t, Len(t), g)
  <2>1. g \in [0..Len(t) -> Nat] /\ g[0] = 0
    <3>0. \A j \in 1..Len(t) : j - 1 \in 0..Len(s)
      BY <1>1, <1>3
    <3>1. \A j \in 1..Len(t) : f[j - 1] \in Nat
      BY <3>0, <1>3 DEF Sum
    <3>. QED  BY <1>1, <1>3, <3>1
  <2>2. ASSUME NEW j \in 1..Len(t) PROVE g[j] = g[j - 1] + Size[t[j]]
    <3>1. CASE j = 1
      BY <3>1, <1>1, <1>3 DEF Sum
    <3>2. CASE j # 1
      <4>1. j \in 2..Len(t) /\ j - 1 \in 1..Len(s) /\ j - 1 # 0 /\ j - 1 \in 0..Len(t)
        BY <3>2, <1>1
      <4>2. f[j - 1] = f[(j - 1) - 1] + Size[s[j - 1]]
        BY <4>1, <1>3 DEF Sum
      <4>3. f[j - 1] \in Nat /\ f[(j - 1) - 1] \in Nat /\ Size[s[j - 1]] \in Nat
        <5>1. (j - 1) - 1 \in 0..Len(s) /\ j - 1 \in 0..Len(s)
          BY <4>1, <1>3
        <5>2. \A i \in 0..Len(s) : f[i] \in Nat
          BY <1>3 DEF Sum
        <5>3. s[j - 1] \in Key
          BY <4>1
        <5>. QED  BY <5>1, <5>2, <5>3, CacheAssumption
      <4>. QED  BY <4>1, <4>2, <4>3, <1>2, <1>3, SMTT(30)
    <3>. QED  BY <3>1, <3>2
  <2>. HIDE DEF g
  <2>. QED  BY <2>1, <2>2 DEF Sum
<1>5. Sums(t) = g
  <2>. HIDE DEF g
  <2>. QED  BY <1>1, <1>4, SumsAre
<1>6. Bytes(t) = f[Len(s)] + Size[k]
  BY <1>1, <1>3, <1>5 DEF Bytes
<1>. QED  BY <1>1, <1>2, <1>6 DEF Bytes, f, t

\* MoveToFront: the entries before the i-th shift by one and the others stay, so
\* the list holds the same entries and the same bytes.
LEMMA Moved ==
  ASSUME NEW s \in Seq(Key), NEW i \in 1..Len(s)
  PROVE  LET t == <<s[i]>> \o RemoveAt(s, i) IN
         /\ t \in Seq(Key) /\ Len(t) = Len(s)
         /\ t[1] = s[i]
         /\ \A j \in 2..i : t[j] = s[j - 1]
         /\ \A j \in (i + 1)..Len(s) : t[j] = s[j]
         /\ Bytes(t) = Bytes(s)
<1>. DEFINE a == SubSeq(s, 1, i - 1)
            b == SubSeq(s, i + 1, Len(s))
            t == <<s[i]>> \o (a \o b)
<1>0. Len(s) \in Nat /\ i \in Nat /\ i >= 1 /\ i <= Len(s) /\ s[i] \in Key
  OBVIOUS
<1>1. a \in Seq(Key) /\ Len(a) = i - 1 /\ \A j \in 1..(i - 1) : a[j] = s[j]
  <2>1. \A j \in 1..(i - 1) : s[j] \in Key
    OBVIOUS
  <2>. QED  BY <1>0, <2>1, SubSeqProperties
<1>2. b \in Seq(Key) /\ Len(b) = Len(s) - i /\ \A j \in 1..(Len(s) - i) : b[j] = s[i + j]
  <2>1. \A j \in (i + 1)..Len(s) : s[j] \in Key
    OBVIOUS
  <2>. QED  BY <1>0, <2>1, SubSeqProperties
<1>. HIDE DEF a, b
<1>3. /\ a \o b \in Seq(Key) /\ Len(a \o b) = Len(s) - 1
      /\ \A j \in 1..(Len(s) - 1) : (a \o b)[j] = IF j <= i - 1 THEN s[j] ELSE s[j + 1]
  <2>1. /\ a \o b \in Seq(Key) /\ Len(a \o b) = Len(s) - 1
        /\ \A j \in 1..(Len(s) - 1) : (a \o b)[j] = IF j <= i - 1 THEN a[j] ELSE b[j - (i - 1)]
    <3>1. /\ a \o b \in Seq(Key) /\ Len(a \o b) = Len(a) + Len(b)
          /\ \A j \in 1..(Len(a) + Len(b)) :
               (a \o b)[j] = IF j <= Len(a) THEN a[j] ELSE b[j - Len(a)]
      BY <1>1, <1>2, ConcatProperties
    <3>2. Len(a) + Len(b) = Len(s) - 1
      BY <1>0, <1>1, <1>2
    <3>. QED  BY <3>1, <3>2, <1>1
  <2>2. ASSUME NEW j \in 1..(Len(s) - 1), j > i - 1 PROVE b[j - (i - 1)] = s[j + 1]
    <3>1. j - (i - 1) \in 1..(Len(s) - i) /\ i + (j - (i - 1)) = j + 1
      BY <2>2, <1>0
    <3>. QED  BY <3>1, <1>2
  <2>3. ASSUME NEW j \in 1..(Len(s) - 1), j <= i - 1 PROVE a[j] = s[j]
    BY <2>3, <1>0, <1>1
  <2>. QED  BY <2>1, <2>2, <2>3, <1>0
<1>4. /\ t \in Seq(Key) /\ Len(t) = Len(s) /\ t[1] = s[i]
      /\ \A j \in 2..Len(s) : t[j] = (a \o b)[j - 1]
  <2>. DEFINE u == a \o b
  <2>1. u \in Seq(Key) /\ Len(u) = Len(s) - 1
    BY <1>3
  <2>. HIDE DEF u
  <2>2. /\ <<s[i]>> \o u \in Seq(Key) /\ Len(<<s[i]>> \o u) = Len(s) /\ (<<s[i]>> \o u)[1] = s[i]
        /\ \A j \in 2..Len(s) : (<<s[i]>> \o u)[j] = u[j - 1]
    BY <1>0, <2>1
  <2>. QED  BY <2>2 DEF u
<1>5. \A j \in 2..i : t[j] = s[j - 1]
  <2>1. \A j \in 2..i : j \in 2..Len(s) /\ j - 1 \in 1..(Len(s) - 1) /\ j - 1 <= i - 1
    BY <1>0
  <2>. QED  BY <1>3, <1>4, <2>1
<1>6. \A j \in (i + 1)..Len(s) : t[j] = s[j]
  <2>1. \A j \in (i + 1)..Len(s) :
          j \in 2..Len(s) /\ j - 1 \in 1..(Len(s) - 1) /\ ~(j - 1 <= i - 1) /\ (j - 1) + 1 = j
    BY <1>0
  <2>. QED  BY <1>3, <1>4, <2>1
<1>7. t = <<s[i]>> \o RemoveAt(s, i)
  BY DEF RemoveAt, a, b
<1>. HIDE DEF t
<1>. DEFINE f == Sums(s)
            g == [j \in 0..Len(s) |->
                    IF j = 0 THEN 0 ELSE IF j <= i THEN f[j - 1] + Size[s[i]] ELSE f[j]]
<1>8. Sum(s, Len(s), f) /\ Size[s[i]] \in Nat
  BY <1>0, SumsFacts, CacheAssumption
<1>. HIDE DEF f
<1>9. f[i] = f[i - 1] + Size[s[i]] /\ \A j \in 0..Len(s) : f[j] \in Nat
  BY <1>8 DEF Sum
<1>10. Sum(t, Len(s), g)
  <2>1. g \in [0..Len(s) -> Nat] /\ g[0] = 0
    <3>1. \A j \in 1..Len(s) : j - 1 \in 0..Len(s)
      BY <1>0
    <3>2. \A j \in 1..Len(s) : f[j - 1] + Size[s[i]] \in Nat
      BY <1>8, <1>9, <3>1
    <3>3. \A j \in 0..Len(s) : g[j] \in Nat
      BY <1>0, <1>9, <3>2
    <3>. QED  BY <1>0, <3>3
  <2>2. ASSUME NEW j \in 1..Len(s) PROVE g[j] = g[j - 1] + Size[t[j]]
    <3>0. j - 1 \in 0..Len(s) /\ f[j] = f[j - 1] + Size[s[j]]
      BY <1>8 DEF Sum
    <3>1. CASE j = 1
      BY <3>1, <1>0, <1>4, <1>8 DEF Sum
    <3>2. CASE j # 1 /\ j <= i
      <4>1. j - 1 \in 1..Len(s) /\ j - 1 # 0 /\ j - 1 <= i /\ j \in 2..i
        BY <3>2, <1>0
      <4>2. f[j - 1] = f[(j - 1) - 1] + Size[s[j - 1]]
        BY <4>1, <1>8 DEF Sum
      <4>3. g[j] = f[j - 1] + Size[s[i]] /\ g[j - 1] = f[(j - 1) - 1] + Size[s[i]]
        BY <3>0, <4>1, <3>2
      <4>4. Size[s[j - 1]] \in Nat /\ f[(j - 1) - 1] \in Nat
        <5>1. (j - 1) - 1 \in 0..Len(s)
          BY <4>1, <1>0
        <5>. QED  BY <5>1, <4>1, <1>9, CacheAssumption
      <4>5. t[j] = s[j - 1]
        BY <4>1, <1>5
      <4>. HIDE DEF g
      <4>. QED  BY <4>2, <4>3, <4>4, <4>5, <1>8
    <3>3. CASE j = i + 1
      BY <3>3, <3>0, <1>0, <1>6, <1>9
    <3>4. CASE j > i + 1
      BY <3>4, <3>0, <1>0, <1>6
    <3>. QED  BY <3>1, <3>2, <3>3, <3>4, <1>0
  <2>. HIDE DEF g
  <2>. QED  BY <2>1, <2>2, <1>4 DEF Sum
<1>11. Sums(t) = g
  <2>. HIDE DEF g
  <2>. QED  BY <1>4, <1>10, SumsAre
<1>12. g[Len(s)] = f[Len(s)]
  BY <1>0, <1>9
<1>13. Bytes(t) = Bytes(s)
  <2>. HIDE DEF g
  <2>. QED  BY <1>4, <1>11, <1>12 DEF Bytes, f
<1>. QED  BY <1>4, <1>5, <1>6, <1>7, <1>13

\* A list cut after n entries.
LEMMA Cut ==
  ASSUME NEW s \in Seq(Key), NEW n \in 0..Len(s)
  PROVE  LET t == SubSeq(s, 1, n) IN
         /\ t \in Seq(Key) /\ Len(t) = n
         /\ \A j \in 1..n : t[j] = s[j]
         /\ Bytes(t) = Sums(s)[n]
<1>. DEFINE t == SubSeq(s, 1, n)
<1>1. t \in Seq(Key) /\ Len(t) = n /\ \A j \in 1..n : t[j] = s[j]
  <2>1. n \in Nat /\ \A j \in 1..n : s[j] \in Key
    OBVIOUS
  <2>. QED  BY <2>1, SubSeqProperties
<1>. HIDE DEF t
<1>. DEFINE f == Sums(s)
            g == [j \in 0..n |-> f[j]]
<1>2. Sum(s, Len(s), f)
  BY SumsFacts
<1>. HIDE DEF f
<1>3. Sum(t, n, g)
  <2>0. n \in Nat /\ Len(s) \in Nat /\ n <= Len(s)
    OBVIOUS
  <2>1. g \in [0..n -> Nat] /\ g[0] = 0
    <3>1. \A j \in 0..n : j \in 0..Len(s)
      BY <2>0
    <3>. QED  BY <1>2, <2>0, <3>1 DEF Sum
  <2>2. ASSUME NEW j \in 1..n PROVE g[j] = g[j - 1] + Size[t[j]]
    <3>1. j \in 0..n /\ j - 1 \in 0..n /\ j \in 1..Len(s)
      BY <2>0
    <3>. QED  BY <1>1, <1>2, <3>1 DEF Sum
  <2>. HIDE DEF g
  <2>. QED  BY <2>1, <2>2 DEF Sum
<1>4. Sums(t) = g
  <2>. HIDE DEF g
  <2>. QED  BY <1>1, <1>3, SumsAre
<1>5. Bytes(t) = f[n]
  BY <1>1, <1>4 DEF Bytes
<1>. QED  BY <1>1, <1>5 DEF f, t
-----------------------------------------------------------------------------
(* The inductive invariant *)

Slot == 1..(1 + 2 * Cardinality(Reader))

BufferOf(k) == {<<k, i>> : i \in Slot}

MaybeBuffer == {Nil} \cup UNION {BufferOf(k) : k \in Key}

CacheType ==
    /\ ll \in Seq(Key)
    /\ data \in [Key -> MaybeBuffer]
    /\ pc \in [Reader -> {"idle", "fetch", "add", "copy", "held", "dirty"}]
    /\ key \in [Reader -> Key]
    /\ cur \in [Reader -> MaybeBuffer]
    /\ out \in [Reader -> MaybeBuffer]

\* A key is listed once, and exactly when the map has a buffer for it.
Listed ==
    /\ \A i, j \in 1..Len(ll) : ll[i] = ll[j] => i = j
    /\ \A k \in Key : Contains(ll, k) <=> data[k] # Nil

\* The count is the listed bytes, and nothing listed is over the cap.
Counted ==
    /\ curBytes = Bytes(ll)
    /\ IF MaxBytes > 0 THEN curBytes <= MaxBytes ELSE Len(ll) = 0
    /\ \A i \in 1..Len(ll) : Size[ll[i]] <= MaxEntrySize

\* Which buffer a reader has at each point, and whose body it holds.
Holding ==
    /\ \A k \in Key : data[k] \in BufferOf(k) \cup {Nil}
    /\ \A r \in Reader :
         /\ IF pc[r] \in {"add", "copy"} THEN cur[r] \in BufferOf(key[r]) ELSE cur[r] = Nil
         /\ IF pc[r] \in {"held", "dirty"} THEN out[r] \in BufferOf(key[r]) ELSE out[r] = Nil

\* A caller's buffer is its own: neither cached, nor copied from, nor another's.
Own ==
    \A r \in Reader : pc[r] \in {"held", "dirty"} =>
      /\ \A k \in Key : data[k] # out[r]
      /\ \A q \in Reader : cur[q] # out[r]
      /\ \A q \in Reader : out[q] = out[r] => q = r

\* Only buffers that a caller holds and has overwritten are dirty.
Overwritten == \A b \in dirty : \E r \in Reader : pc[r] = "dirty" /\ out[r] = b

CacheInv == CacheType /\ Listed /\ Counted /\ Holding /\ Own /\ Overwritten

USE CacheAssumption

\* No buffer is Nil, and a buffer names the key whose body it was made for.
LEMMA NilIsNoBuffer == \A k : Nil \notin BufferOf(k)
  BY DEF Nil, BufferOf

LEMMA BufferOrNil == Nil \in MaybeBuffer /\ \A k \in Key : BufferOf(k) \subseteq MaybeBuffer
  BY DEF MaybeBuffer

LEMMA BufferHoldsKey == \A k : \A b \in BufferOf(k) : b[1] = k
  BY DEF BufferOf

\* make finds a buffer nobody refers to: a reader refers to one at most.
LEMMA FreshIsFree ==
  ASSUME CacheInv, NEW r \in Reader, NEW k \in Key
  PROVE  Fresh(k) \in BufferOf(k) /\ Fresh(k) \notin Live
<1>. DEFINE h == [q \in Reader |-> IF cur[q] = Nil THEN out[q] ELSE cur[q]]
            H == {h[q] : q \in Reader}
            T == H \cup {data[k]}
            F == {i \in Slot : <<k, i>> \notin Live}
            n == Cardinality(Reader)
<1>1. n \in Nat /\ n > 0
  <2>1. n \in Nat
    BY FS_CardinalityType
  <2>2. n # 0
    BY FS_EmptySet
  <2>. QED  BY <2>1, <2>2
<1>2. IsFiniteSet(H) /\ Cardinality(H) <= n
  <2>1. h \in Surjection(Reader, H)
    BY DEF Surjection
  <2>. HIDE DEF h, H
  <2>. QED  BY <2>1, FS_Surjection
<1>3. IsFiniteSet(T) /\ Cardinality(T) \in Nat /\ Cardinality(T) <= n + 1
  <2>. HIDE DEF H
  <2>1. Cardinality(H) \in Nat
    BY <1>2, FS_CardinalityType
  <2>. QED  BY <1>1, <1>2, <2>1, FS_AddElement
<1>4. IsFiniteSet(Slot) /\ Cardinality(Slot) = 1 + 2 * n
  <2>1. PICK m : m = 1 + 2 * n
    OBVIOUS
  <2>2. m \in Int /\ 1 <= m
    BY <1>1, <2>1
  <2>3. IsFiniteSet(1..m) /\ Cardinality(1..m) = m
    BY <2>2, FS_Interval
  <2>. QED  BY <2>1, <2>3 DEF Slot
<1>5. ASSUME NEW i \in Slot, <<k, i>> \in Live PROVE <<k, i>> \in T
  <2>0. <<k, i>> \in BufferOf(k) /\ <<k, i>> # Nil
    BY NilIsNoBuffer DEF BufferOf
  <2>1. CASE \E j \in Key : <<k, i>> = data[j]
    <3>1. PICK j \in Key : <<k, i>> = data[j]
      BY <2>1
    <3>2. <<k, i>> \in BufferOf(j)
      BY <3>1, <2>0 DEF CacheInv, Holding
    <3>3. j = k
      BY <3>2, <2>0, BufferHoldsKey
    <3>. QED  BY <3>1, <3>3
  <2>2. CASE \E q \in Reader : <<k, i>> = cur[q]
    BY <2>2, <2>0
  <2>3. CASE \E q \in Reader : <<k, i>> = out[q]
    <3>1. PICK q \in Reader : <<k, i>> = out[q]
      BY <2>3
    <3>2. cur[q] = Nil
      BY <3>1, <2>0 DEF CacheInv, Holding, CacheType
    <3>. QED  BY <3>1, <3>2
  <2>. QED  BY <1>5, <2>1, <2>2, <2>3 DEF Live
<1>6. F # {}
  <2>. SUFFICES ASSUME F = {} PROVE FALSE
    OBVIOUS
  <2>. DEFINE f == [i \in Slot |-> <<k, i>>]
  <2>1. f \in [Slot -> T]
    BY <1>5
  <2>2. \A i, j \in Slot : f[i] = f[j] => i = j
    OBVIOUS
  <2>3. Cardinality(T) < Cardinality(Slot)
    BY <1>1, <1>3, <1>4
  <2>. HIDE DEF f, T
  <2>. QED  BY <1>3, <1>4, <2>1, <2>2, <2>3, FS_PigeonHole
<1>7. Min(F) \in F
  <2>1. F \in SUBSET Nat
    BY <1>1 DEF Slot
  <2>. HIDE DEF F
  <2>. QED  BY <1>6, <2>1, MinIsMember
<1>8. Fresh(k) = <<k, Min(F)>>
  BY DEF Fresh, Slot
<1>. QED  BY <1>7, <1>8 DEF BufferOf
-----------------------------------------------------------------------------
(* What get and add do to the list *)

Fronted(k) == IF data[k] = Nil THEN PushFront(k) ELSE MoveToFront(k)

\* The key comes first, every other entry slips back by one place at most, and
\* no entry appears or disappears otherwise.
LEMMA FrontedFacts ==
  ASSUME CacheInv, NEW k \in Key
  PROVE  LET s == Fronted(k) IN
         /\ s \in Seq(Key) /\ Len(s) >= 1 /\ s[1] = k
         /\ \A p, q \in 1..Len(s) : s[p] = s[q] => p = q
         /\ \A p \in 1..Len(s) : s[p] = k \/ \E i \in 1..Len(ll) : s[p] = ll[i]
         /\ \A i \in 1..Len(ll) : \E p \in 1..Len(s) : p <= i + 1 /\ s[p] = ll[i]
         /\ Bytes(s) = Bytes(ll) + (IF data[k] = Nil THEN Size[k] ELSE 0)
<1>0. ll \in Seq(Key) /\ Len(ll) \in Nat /\ Bytes(ll) \in Nat
  <2>1. ll \in Seq(Key) /\ Len(ll) \in Nat
    BY DEF CacheInv, CacheType
  <2>. QED  BY <2>1, SumsFacts DEF Bytes, Sum
<1>1. CASE data[k] = Nil
  <2>. DEFINE s == <<k>> \o ll
  <2>1. /\ s \in Seq(Key) /\ Len(s) = Len(ll) + 1
        /\ s[1] = k /\ \A j \in 2..Len(s) : s[j] = ll[j - 1]
        /\ Bytes(s) = Bytes(ll) + Size[k]
    BY <1>0, Pushed
  <2>2. Fronted(k) = s
    BY <1>1 DEF Fronted, PushFront
  <2>. HIDE DEF s
  <2>3. \A i \in 1..Len(ll) : ll[i] # k
    BY <1>1 DEF CacheInv, Listed, Contains
  <2>4. \A j \in 2..Len(s) : j - 1 \in 1..Len(ll) /\ s[j] = ll[j - 1]
    BY <1>0, <2>1
  <2>5. \A i \in 1..Len(ll) : i + 1 \in 1..Len(s) /\ s[i + 1] = ll[i]
    <3>1. \A i \in 1..Len(ll) : i + 1 \in 1..Len(s) /\ i + 1 \in 2..Len(s) /\ (i + 1) - 1 = i
      BY <1>0, <2>1
    <3>. QED  BY <3>1, <2>1
  <2>6. \A p \in 1..Len(s) : p = 1 \/ p \in 2..Len(s)
    BY <1>0, <2>1
  <2>7. ASSUME NEW p \in 1..Len(s), NEW q \in 1..Len(s), s[p] = s[q] PROVE p = q
    <3>1. CASE p = 1 \/ q = 1
      BY <3>1, <2>1, <2>3, <2>4, <2>6, <2>7
    <3>2. CASE p # 1 /\ q # 1
      <4>1. p - 1 \in 1..Len(ll) /\ q - 1 \in 1..Len(ll) /\ ll[p - 1] = ll[q - 1]
        BY <3>2, <2>4, <2>6, <2>7
      <4>2. p - 1 = q - 1
        BY <4>1 DEF CacheInv, Listed
      <4>. QED  BY <4>2, <2>7, <1>0, <2>1
    <3>. QED  BY <3>1, <3>2
  <2>8. Len(s) >= 1
    BY <1>0, <2>1
  <2>9. \A i \in 1..Len(ll) : \E p \in 1..Len(s) : p <= i + 1 /\ s[p] = ll[i]
    BY <2>5
  <2>. QED  BY <1>1, <2>1, <2>2, <2>4, <2>6, <2>7, <2>8, <2>9
<1>2. CASE data[k] # Nil
  <2>. DEFINE c == CHOOSE i \in 1..Len(ll) : ll[i] = k
              s == <<ll[c]>> \o RemoveAt(ll, c)
  <2>1. c \in 1..Len(ll) /\ ll[c] = k
    BY <1>2 DEF CacheInv, Listed, Contains
  <2>2. Fronted(k) = s
    BY <1>2, <2>1 DEF Fronted, MoveToFront
  <2>. HIDE DEF c
  <2>3. /\ s \in Seq(Key) /\ Len(s) = Len(ll)
        /\ s[1] = ll[c]
        /\ \A j \in 2..c : s[j] = ll[j - 1]
        /\ \A j \in (c + 1)..Len(ll) : s[j] = ll[j]
        /\ Bytes(s) = Bytes(ll)
    BY <1>0, <2>1, Moved
  <2>. HIDE DEF s
  <2>4. ASSUME NEW p \in 1..Len(s)
        PROVE  LET i == IF p = 1 THEN c ELSE IF p <= c THEN p - 1 ELSE p
               IN i \in 1..Len(ll) /\ s[p] = ll[i]
    <3>1. CASE p = 1
      BY <3>1, <2>1, <2>3
    <3>2. CASE p \in 2..c
      <4>1. p # 1 /\ p <= c /\ p - 1 \in 1..Len(ll)
        BY <3>2, <1>0, <2>1
      <4>2. s[p] = ll[p - 1]
        BY <3>2, <2>3
      <4>. QED  BY <4>1, <4>2
    <3>3. CASE p \in (c + 1)..Len(ll)
      BY <3>3, <1>0, <2>1, <2>3
    <3>. QED  BY <3>1, <3>2, <3>3, <1>0, <2>1, <2>3
  <2>5. ASSUME NEW p \in 1..Len(s), NEW q \in 1..Len(s), s[p] = s[q] PROVE p = q
    <3>. DEFINE i == IF p = 1 THEN c ELSE IF p <= c THEN p - 1 ELSE p
                j == IF q = 1 THEN c ELSE IF q <= c THEN q - 1 ELSE q
    <3>1. i \in 1..Len(ll) /\ s[p] = ll[i] /\ j \in 1..Len(ll) /\ s[q] = ll[j]
      BY <2>4
    <3>2. i = j
      <4>. HIDE DEF i, j
      <4>. QED  BY <3>1, <2>5 DEF CacheInv, Listed
    <3>3. p \in Nat /\ q \in Nat /\ c \in Nat /\ p >= 1 /\ q >= 1 /\ c >= 1
      BY <1>0, <2>1, <2>3
    <3>. QED  BY <3>2, <3>3
  <2>6. ASSUME NEW i \in 1..Len(ll) PROVE \E p \in 1..Len(s) : p <= i + 1 /\ s[p] = ll[i]
    <3>1. CASE i = c
      <4>1. 1 \in 1..Len(s) /\ 1 <= i + 1 /\ s[1] = ll[i]
        BY <3>1, <1>0, <2>1, <2>3
      <4>. QED  BY <4>1
    <3>2. CASE i < c
      <4>1. i + 1 \in 1..Len(s) /\ i + 1 \in 2..c /\ (i + 1) - 1 = i /\ i + 1 <= i + 1
        BY <3>2, <1>0, <2>1, <2>3
      <4>2. s[i + 1] = ll[i]
        BY <4>1, <2>3
      <4>. QED  BY <4>1, <4>2
    <3>3. CASE i > c
      <4>1. i \in 1..Len(s) /\ i \in (c + 1)..Len(ll) /\ i <= i + 1
        BY <3>3, <1>0, <2>1, <2>3
      <4>. QED  BY <4>1, <2>3
    <3>4. i = c \/ i < c \/ i > c
      BY <1>0, <2>1
    <3>. QED  BY <3>1, <3>2, <3>3, <3>4, Zenon
  <2>7. Len(s) >= 1
    BY <1>0, <2>1, <2>3
  <2>8. \A p \in 1..Len(s) : \E i \in 1..Len(ll) : s[p] = ll[i]
    BY <2>4
  <2>9. Bytes(s) = Bytes(ll) + (IF data[k] = Nil THEN Size[k] ELSE 0)
    BY <1>0, <1>2, <2>3
  <2>. QED  BY <2>1, <2>2, <2>3, <2>5, <2>6, <2>7, <2>8, <2>9, ZenonT(40)
<1>. QED  BY <1>1, <1>2

\* The eviction loop keeps the longest beginning of the list that fits.
LEMMA KeptFacts ==
  ASSUME NEW s \in Seq(Key), MaxBytes > 0
  PROVE  \E n \in 0..Len(s) :
           /\ Kept(s, Bytes(s)) = SubSeq(s, 1, n)
           /\ Sums(s)[n] <= MaxBytes
           /\ \A m \in 0..Len(s) : Sums(s)[m] <= MaxBytes => m <= n
<1>. DEFINE f == Sums(s)
            F == {i \in 0..Len(s) : i = 0 \/ Bytes(s) - (Bytes(s) - f[i]) <= MaxBytes}
            n == Max(F)
<1>1. Len(s) \in Nat /\ f[0] = 0 /\ Bytes(s) \in Nat /\ \A i \in 0..Len(s) : f[i] \in Nat
  <2>1. Sum(s, Len(s), Sums(s)) /\ Len(s) \in Nat
    BY SumsFacts
  <2>2. f[0] = 0 /\ \A i \in 0..Len(s) : f[i] \in Nat
    BY <2>1 DEF Sum
  <2>3. Len(s) \in 0..Len(s)
    BY <2>1
  <2>. QED  BY <2>1, <2>2, <2>3 DEF Bytes
<1>2. Kept(s, Bytes(s)) = SubSeq(s, 1, n)
  BY DEF Kept
<1>. HIDE DEF f
<1>3. n \in F /\ \A m \in F : m <= n
  <2>1. F \in SUBSET (0..Len(s)) /\ 0 \in F
    BY <1>1
  <2>. HIDE DEF F
  <2>. QED  BY <1>1, <2>1, MaxIsGreatest
<1>4. \A i \in 0..Len(s) : i \in F <=> f[i] <= MaxBytes
  BY <1>1
<1>. HIDE DEF n
<1>5. n \in 0..Len(s) /\ f[n] <= MaxBytes /\ \A m \in 0..Len(s) : f[m] <= MaxBytes => m <= n
  <2>1. n \in 0..Len(s)
    BY <1>3
  <2>. HIDE DEF F
  <2>. QED  BY <2>1, <1>3, <1>4
<1>. QED  BY <1>2, <1>5 DEF f

\* The cap on an entry is within the budget.
LEMMA EntryCap == MaxBytes > 0 => MaxEntrySize \in Nat /\ MaxEntrySize <= MaxBytes
  BY DEF MaxEntrySize

\* A quarter of the budget each: four entries always fit.
LEMMA FourFit == MaxBytes >= 4 => 4 * MaxEntrySize <= MaxBytes
  BY DEF MaxEntrySize

\* The first four entries of a list of entries within the cap.
LEMMA FirstFour ==
  ASSUME NEW s \in Seq(Key), NEW M \in Nat, \A i \in 1..Len(s) : Size[s[i]] <= M,
         NEW m \in 0..Len(s), m <= 4
  PROVE  Sums(s)[m] <= 4 * M
<1>. DEFINE f == Sums(s)
<1>1. Len(s) \in Nat /\ Sum(s, Len(s), f)
  BY SumsFacts
<1>. HIDE DEF f
<1>2. f[0] = 0 /\ \A i \in 1..Len(s) : f[i] = f[i - 1] + Size[s[i]]
  BY <1>1 DEF Sum
<1>3. \A i \in 1..Len(s) : Size[s[i]] \in Nat
  OBVIOUS
<1>4. \A i \in 0..Len(s) : f[i] \in Nat
  BY <1>1 DEF Sum
<1>5. \A i \in 1..Len(s) : i - 1 \in 0..Len(s) /\ f[i] <= f[i - 1] + M
  <2>1. \A i \in 1..Len(s) : i - 1 \in 0..Len(s)
    BY <1>1
  <2>2. ASSUME NEW i \in 1..Len(s) PROVE f[i] <= f[i - 1] + M
    <3>1. f[i] = f[i - 1] + Size[s[i]]
      BY <1>2
    <3>2. f[i - 1] \in Nat /\ Size[s[i]] \in Nat /\ Size[s[i]] <= M
      BY <1>3, <1>4, <2>1
    <3>. QED  BY <3>1, <3>2
  <2>. QED  BY <2>1, <2>2
<1>6. 1 <= Len(s) => f[1] <= M
  BY <1>1, <1>2, <1>5
<1>7. 2 <= Len(s) => f[2] <= 2 * M
  <2>. SUFFICES ASSUME 2 <= Len(s) PROVE f[2] <= 2 * M
    OBVIOUS
  <2>1. 2 \in 1..Len(s) /\ 2 \in 0..Len(s) /\ 1 \in 0..Len(s) /\ 2 - 1 = 1
    BY <1>1
  <2>. QED  BY <2>1, <1>4, <1>5, <1>6
<1>8. 3 <= Len(s) => f[3] <= 3 * M
  <2>. SUFFICES ASSUME 3 <= Len(s) PROVE f[3] <= 3 * M
    OBVIOUS
  <2>1. 3 \in 1..Len(s) /\ 3 \in 0..Len(s) /\ 2 \in 0..Len(s) /\ 3 - 1 = 2
    BY <1>1
  <2>. QED  BY <2>1, <1>4, <1>5, <1>7
<1>9. 4 <= Len(s) => f[4] <= 4 * M
  <2>. SUFFICES ASSUME 4 <= Len(s) PROVE f[4] <= 4 * M
    OBVIOUS
  <2>1. 4 \in 1..Len(s) /\ 4 \in 0..Len(s) /\ 3 \in 0..Len(s) /\ 4 - 1 = 3
    BY <1>1
  <2>. QED  BY <2>1, <1>4, <1>5, <1>8, SMTT(30)
<1>10. f[m] <= 4 * M
  <2>1. m \in {0, 1, 2, 3, 4} /\ m <= Len(s) /\ f[m] \in Nat
    BY <1>1, <1>4
  <2>. QED  BY <2>1, <1>2, <1>6, <1>7, <1>8, <1>9, SMTT(30)
<1>. QED  BY <1>10 DEF f

\* What add does when the body is within the cap: the list is cut after some n
\* entries of the fronted one, everything that fits is kept, the key's entry among it.
LEMMA AddFacts ==
  ASSUME CacheInv, NEW r \in Reader, Add(r), MaxBytes > 0, Size[key[r]] <= MaxEntrySize
  PROVE  LET s == Fronted(key[r]) IN
         \E n \in 1..Len(s) :
           /\ ll' = SubSeq(s, 1, n)
           /\ curBytes' = Bytes(ll')
           /\ Sums(s)[n] <= MaxBytes
           /\ \A m \in 0..Len(s) : Sums(s)[m] <= MaxBytes => m <= n
           /\ data' = [k \in Key |-> IF ~Contains(ll', k) THEN Nil
                                     ELSE IF k = key[r] THEN cur[r] ELSE data[k]]
<1>. DEFINE k == key[r]
            s == Fronted(k)
            grown == curBytes + Size[k] - (IF data[k] = Nil THEN 0 ELSE Size[k])
<1>1. k \in Key /\ Size[k] \in Nat
  BY DEF CacheInv, CacheType
<1>2. s \in Seq(Key) /\ Len(s) >= 1 /\ s[1] = k
  <2>. HIDE DEF k
  <2>. QED  BY <1>1, FrontedFacts
<1>3. Bytes(s) = Bytes(ll) + (IF data[k] = Nil THEN Size[k] ELSE 0)
  <2>. HIDE DEF k
  <2>. QED  BY <1>1, FrontedFacts
<1>4. Bytes(ll) \in Nat /\ Bytes(s) \in Nat /\ curBytes = Bytes(ll)
  <2>1. ASSUME NEW u \in Seq(Key) PROVE Bytes(u) \in Nat
    <3>1. Sum(u, Len(u), Sums(u)) /\ Len(u) \in 0..Len(u)
      BY SumsFacts
    <3>. QED  BY <3>1 DEF Sum, Bytes
  <2>. HIDE DEF s
  <2>. QED  BY <1>2, <2>1 DEF CacheInv, CacheType, Counted
<1>5. grown = Bytes(s)
  <2>. HIDE DEF k, s
  <2>. QED  BY <1>1, <1>3, <1>4
<1>6. /\ ll' = Kept(s, grown)
      /\ curBytes' = grown - (Bytes(s) - Bytes(ll'))
      /\ data' = [j \in Key |-> IF ~Contains(ll', j) THEN Nil
                                ELSE IF j = key[r] THEN cur[r] ELSE data[j]]
  BY DEF Add, Fronted
<1>. HIDE DEF k, s, grown
<1>7. PICK n \in 0..Len(s) :
        /\ Kept(s, Bytes(s)) = SubSeq(s, 1, n)
        /\ Sums(s)[n] <= MaxBytes
        /\ \A m \in 0..Len(s) : Sums(s)[m] <= MaxBytes => m <= n
  BY <1>2, KeptFacts
<1>8. n \in 1..Len(s)
  <2>1. Len(s) \in Nat /\ 1 \in 1..Len(s) /\ 1 \in 0..Len(s)
    BY <1>2
  <2>2. Sums(s)[1] = 0 + Size[k]
    BY <1>2, <2>1, SumsFacts DEF Sum
  <2>3. Sums(s)[1] <= MaxBytes
    BY <1>1, <2>2, EntryCap DEF k
  <2>. QED  BY <1>7, <2>1, <2>3
<1>9. ll' = SubSeq(s, 1, n)
  BY <1>5, <1>6, <1>7
<1>10. curBytes' = Bytes(ll')
  <2>. DEFINE t == SubSeq(s, 1, n)
  <2>1. t \in Seq(Key) /\ Bytes(t) = Sums(s)[n]
    BY <1>2, Cut
  <2>2. Bytes(t) \in Nat
    BY <2>1, <1>2, SumsFacts DEF Sum
  <2>. HIDE DEF t
  <2>3. Bytes(s) - (Bytes(s) - Bytes(t)) = Bytes(t)
    BY <1>4, <2>2
  <2>4. ll' = t
    BY <1>9 DEF t
  <2>. QED  BY <1>5, <1>6, <2>3, <2>4
<1>. QED  BY <1>6, <1>7, <1>8, <1>9, <1>10 DEF k, s
-----------------------------------------------------------------------------
(* Every step keeps the invariant *)

\* The invariant holds of an empty cache.
LEMMA CacheInit == Init => CacheInv
<1>. SUFFICES ASSUME Init PROVE CacheInv
  OBVIOUS
<1>1. CacheType
  <2>1. ll \in Seq(Key)
    BY DEF Init
  <2>2. /\ data \in [Key -> MaybeBuffer]
        /\ cur \in [Reader -> MaybeBuffer] /\ out \in [Reader -> MaybeBuffer]
    BY BufferOrNil DEF Init
  <2>. QED  BY <2>1, <2>2 DEF Init, CacheType
<1>2. Listed
  BY DEF Init, Listed, Contains
<1>3. Counted
  <2>1. Sums(<<>>)[0] = 0
    <3>1. <<>> \in Seq(Key)
      OBVIOUS
    <3>. QED  BY <3>1, SumsFacts DEF Sum
  <2>. QED  BY <2>1 DEF Init, Counted, Bytes
<1>4. Holding /\ Own /\ Overwritten
  BY DEF Init, Holding, Own, Overwritten
<1>. QED  BY <1>1, <1>2, <1>3, <1>4 DEF CacheInv

\* A step that leaves the list, the map and the count alone.
LEMMA BooksUntouched ==
  ASSUME CacheInv, UNCHANGED <<ll, data, curBytes>>
  PROVE  Listed' /\ Counted'
  BY DEF CacheInv, Listed, Counted

\* A lookup keeps the invariant: a hit moves the key to the front.
LEMMA GetStep ==
  ASSUME CacheInv, NEW r \in Reader, NEW k \in Key, Get(r, k)
  PROVE  CacheInv'
<1>. USE DEF CacheInv
<1>1. CASE data[k] = Nil
  <2>1. Listed' /\ Counted'
    BY <1>1, BooksUntouched DEF Get
  <2>2. CacheType'
    BY <1>1 DEF CacheType, Get
  <2>3. Holding'
    BY <1>1 DEF CacheType, Holding, Get
  <2>4. Own'
    <3>1. \A q \in Reader : pc'[q] \in {"held", "dirty"} => pc[q] \in {"held", "dirty"}
      BY <1>1 DEF CacheType, Get
    <3>2. UNCHANGED <<data, cur, out>>
      BY <1>1 DEF Get
    <3>. QED  BY <3>1, <3>2 DEF Own
  <2>5. Overwritten'
    BY <1>1 DEF CacheType, Overwritten, Get
  <2>. QED  BY <2>1, <2>2, <2>3, <2>4, <2>5
<1>2. CASE data[k] # Nil
  <2>. DEFINE s == Fronted(k)
  <2>1. /\ s \in Seq(Key)
        /\ \A p, q \in 1..Len(s) : s[p] = s[q] => p = q
        /\ \A p \in 1..Len(s) : s[p] = k \/ \E i \in 1..Len(ll) : s[p] = ll[i]
        /\ \A i \in 1..Len(ll) : \E p \in 1..Len(s) : s[p] = ll[i]
        /\ Bytes(s) = Bytes(ll) + (IF data[k] = Nil THEN Size[k] ELSE 0)
    BY FrontedFacts, SMTT(30)
  <2>2. ll' = s
    BY <1>2 DEF Get, Fronted
  <2>. HIDE DEF s
  <2>3. \E i \in 1..Len(ll) : k = ll[i]
    BY <1>2 DEF Listed, Contains
  <2>4. Listed'
    <3>1. \A j \in Key : Contains(s, j) <=> Contains(ll, j)
      <4>. SUFFICES ASSUME NEW j \in Key PROVE Contains(s, j) <=> Contains(ll, j)
        OBVIOUS
      <4>1. ASSUME NEW p \in 1..Len(s), s[p] = j PROVE \E i \in 1..Len(ll) : ll[i] = j
        BY <4>1, <2>1, <2>3
      <4>2. ASSUME NEW i \in 1..Len(ll), ll[i] = j PROVE \E p \in 1..Len(s) : s[p] = j
        BY <4>2, <2>1
      <4>. QED  BY <4>1, <4>2 DEF Contains
    <3>2. UNCHANGED data
      BY DEF Get
    <3>. QED  BY <2>1, <2>2, <3>1, <3>2 DEF Listed
  <2>5. Counted'
    <3>1. Bytes(s) = Bytes(ll) /\ Bytes(ll) \in Nat
      <4>1. ll \in Seq(Key)
        BY DEF CacheType
      <4>2. Sum(ll, Len(ll), Sums(ll)) /\ Len(ll) \in 0..Len(ll)
        BY <4>1, SumsFacts
      <4>3. Bytes(ll) \in Nat
        BY <4>2 DEF Sum, Bytes
      <4>. QED  BY <1>2, <2>1, <4>3
    <3>2. UNCHANGED curBytes
      BY DEF Get
    <3>3. \A p \in 1..Len(s) : Size[s[p]] <= MaxEntrySize
      BY <2>1, <2>3 DEF Counted
    <3>4. Len(ll) # 0 /\ MaxBytes > 0
      BY <2>3 DEF Counted, CacheType
    <3>. QED  BY <2>2, <3>1, <3>2, <3>3, <3>4 DEF Counted
  <2>6. data[k] \in BufferOf(k)
    BY <1>2 DEF Holding
  <2>7. CacheType'
    <3>1. data[k] \in MaybeBuffer
      BY DEF CacheType
    <3>. QED  BY <1>2, <2>1, <2>2, <3>1 DEF CacheType, Get
  <2>8. Holding'
    BY <1>2, <2>6 DEF CacheType, Holding, Get
  <2>9. Own'
    <3>1. \A q \in Reader : pc'[q] \in {"held", "dirty"} => pc[q] \in {"held", "dirty"}
      BY <1>2 DEF CacheType, Get
    <3>2. UNCHANGED <<data, out>> /\ \A q \in Reader : cur'[q] = cur[q] \/ cur'[q] = data[k]
      BY <1>2 DEF CacheType, Get
    <3>. QED  BY <3>1, <3>2 DEF Own
  <2>10. Overwritten'
    BY <1>2 DEF CacheType, Overwritten, Get
  <2>. QED  BY <2>4, <2>5, <2>7, <2>8, <2>9, <2>10
<1>. QED  BY <1>1, <1>2

\* A fetched body is in a buffer nobody else refers to.
LEMMA FetchWholeStep ==
  ASSUME CacheInv, NEW r \in Reader, FetchWhole(r)
  PROVE  CacheInv'
<1>. DEFINE b == Fresh(key[r])
<1>0. key[r] \in Key
  BY DEF CacheInv, CacheType
<1>1. b \in BufferOf(key[r]) /\ b \notin Live
  BY <1>0, FreshIsFree
<1>2. /\ pc[r] = "fetch" /\ pc' = [pc EXCEPT ![r] = "add"] /\ cur' = [cur EXCEPT ![r] = b]
      /\ UNCHANGED <<ll, data, curBytes, dirty, key, out>>
  BY DEF FetchWhole
<1>. HIDE DEF b
<1>. USE DEF CacheInv
<1>3. Listed' /\ Counted'
  BY <1>2, BooksUntouched
<1>4. CacheType'
  <2>1. b \in MaybeBuffer
    BY <1>0, <1>1, BufferOrNil
  <2>. QED  BY <1>2, <2>1 DEF CacheType
<1>5. Holding'
  BY <1>1, <1>2 DEF CacheType, Holding
<1>6. Own'
  <2>1. \A q \in Reader : out[q] # b
    BY <1>1 DEF Live
  <2>. QED  BY <1>2, <2>1 DEF CacheType, Own
<1>7. Overwritten'
  BY <1>2 DEF CacheType, Overwritten
<1>. QED  BY <1>3, <1>4, <1>5, <1>6, <1>7

\* A buffer given to a caller was nobody's before.
LEMMA GivenOut ==
  ASSUME CacheInv, NEW r \in Reader, NEW b \in BufferOf(key[r]), b \notin Live,
         pc[r] \in {"fetch", "copy"},
         pc' = [pc EXCEPT ![r] = "held"],
         out' = [out EXCEPT ![r] = b],
         cur' = [cur EXCEPT ![r] = Nil],
         UNCHANGED <<ll, data, curBytes, dirty, key>>
  PROVE  CacheInv'
<1>. USE DEF CacheInv
<1>0. key[r] \in Key
  BY DEF CacheType
<1>1. Listed' /\ Counted'
  BY BooksUntouched
<1>2. CacheType'
  <2>1. b \in MaybeBuffer /\ Nil \in MaybeBuffer
    BY <1>0, BufferOrNil
  <2>. QED  BY <2>1 DEF CacheType
<1>3. Holding'
  BY DEF CacheType, Holding
<1>4. Own'
  <2>1. /\ \A k \in Key : data[k] # b
        /\ \A q \in Reader : cur[q] # b /\ out[q] # b
    BY DEF Live
  <2>2. b # Nil
    BY NilIsNoBuffer
  <2>3. \A q \in Reader : pc[q] \in {"held", "dirty"} => out[q] # Nil
    BY NilIsNoBuffer DEF Holding
  <2>. SUFFICES ASSUME NEW q \in Reader, pc'[q] \in {"held", "dirty"}
                PROVE  /\ \A k \in Key : data[k] # out'[q]
                       /\ \A p \in Reader : cur'[p] # out'[q]
                       /\ \A p \in Reader : out'[p] = out'[q] => p = q
    BY DEF Own
  <2>4. CASE q = r
    BY <2>1, <2>2, <2>4 DEF CacheType
  <2>5. CASE q # r
    <3>1. pc[q] \in {"held", "dirty"} /\ out'[q] = out[q]
      BY <2>5 DEF CacheType
    <3>2. /\ \A k \in Key : data[k] # out[q]
          /\ \A p \in Reader : cur[p] # out[q]
          /\ \A p \in Reader : out[p] = out[q] => p = q
      BY <3>1 DEF Own
    <3>. QED  BY <3>1, <3>2, <2>1, <2>3, <2>5 DEF CacheType
  <2>. QED  BY <2>4, <2>5
<1>5. Overwritten'
  BY DEF CacheType, Overwritten
<1>. QED  BY <1>1, <1>2, <1>3, <1>4, <1>5

\* So is a range that is handed over as it is.
LEMMA FetchPartialStep ==
  ASSUME CacheInv, NEW r \in Reader, FetchPartial(r)
  PROVE  CacheInv'
<1>. DEFINE b == Fresh(key[r])
<1>0. key[r] \in Key
  BY DEF CacheInv, CacheType
<1>1. b \in BufferOf(key[r]) /\ b \notin Live
  BY <1>0, FreshIsFree
<1>2. /\ pc[r] = "fetch" /\ pc' = [pc EXCEPT ![r] = "held"] /\ out' = [out EXCEPT ![r] = b]
      /\ UNCHANGED <<ll, data, curBytes, dirty, key, cur>>
  BY DEF FetchPartial
<1>. HIDE DEF b
<1>3. cur' = [cur EXCEPT ![r] = Nil]
  BY <1>2 DEF CacheInv, CacheType, Holding
<1>. QED  BY <1>1, <1>2, <1>3, GivenOut

\* What a reader copies from is not dirty, so its copy is not.
LEMMA CopyStep ==
  ASSUME CacheInv, NEW r \in Reader, Copy(r)
  PROVE  CacheInv'
<1>. DEFINE b == Fresh(key[r])
<1>0. key[r] \in Key
  BY DEF CacheInv, CacheType
<1>1. b \in BufferOf(key[r]) /\ b \notin Live
  BY <1>0, FreshIsFree
<1>2. /\ pc[r] = "copy" /\ pc' = [pc EXCEPT ![r] = "held"] /\ out' = [out EXCEPT ![r] = b]
      /\ cur' = [cur EXCEPT ![r] = Nil]
      /\ dirty' = IF cur[r] \in dirty THEN dirty \cup {b} ELSE dirty
      /\ UNCHANGED <<ll, data, curBytes, key>>
  BY DEF Copy
<1>. HIDE DEF b
<1>3. cur[r] \notin dirty
  BY DEF CacheInv, Overwritten, Own
<1>. QED  BY <1>1, <1>2, <1>3, GivenOut

\* A caller overwrites its own buffer only.
LEMMA ScribbleStep ==
  ASSUME CacheInv, NEW r \in Reader, Scribble(r)
  PROVE  CacheInv'
<1>. USE DEF CacheInv
<1>1. Listed' /\ Counted'
  BY BooksUntouched DEF Scribble
<1>2. CacheType'
  BY DEF CacheType, Scribble
<1>3. Holding'
  BY DEF CacheType, Holding, Scribble
<1>4. Own'
  BY DEF CacheType, Own, Scribble
<1>5. Overwritten'
  BY DEF CacheType, Overwritten, Scribble
<1>. QED  BY <1>1, <1>2, <1>3, <1>4, <1>5

\* A released buffer is nobody's any more, so it is no longer among the dirty ones.
LEMMA ReleaseStep ==
  ASSUME CacheInv, NEW r \in Reader, Release(r)
  PROVE  CacheInv'
<1>. USE DEF CacheInv
<1>1. Listed' /\ Counted'
  BY BooksUntouched DEF Release
<1>2. CacheType'
  BY BufferOrNil DEF CacheType, Release
<1>3. Holding'
  BY DEF CacheType, Holding, Release
<1>4. Own'
  <2>1. \A q \in Reader : pc[q] \in {"held", "dirty"} => out[q] # Nil
    BY NilIsNoBuffer DEF Holding
  <2>. QED  BY <2>1 DEF CacheType, Own, Release
<1>5. Overwritten'
  <2>. SUFFICES ASSUME NEW b \in dirty'
                PROVE  \E q \in Reader : pc'[q] = "dirty" /\ out'[q] = b
    BY DEF Overwritten
  <2>1. b \in dirty /\ b \in Live'
    BY DEF Release
  <2>2. PICK q \in Reader : pc[q] = "dirty" /\ out[q] = b
    BY <2>1 DEF Overwritten
  <2>3. q # r
    <3>. SUFFICES ASSUME q = r PROVE FALSE
      OBVIOUS
    <3>1. b # Nil
      BY <2>2, NilIsNoBuffer DEF Holding
    <3>2. /\ \A k \in Key : data[k] # b
          /\ \A p \in Reader : cur[p] # b
          /\ \A p \in Reader : out'[p] # b
      BY <2>2, <3>1 DEF Own, CacheType, Release
    <3>3. UNCHANGED <<data, cur>>
      BY DEF Release
    <3>. QED  BY <2>1, <3>2, <3>3 DEF Live
  <2>. QED  BY <2>2, <2>3 DEF Release, CacheType
<1>. QED  BY <1>1, <1>2, <1>3, <1>4, <1>5

\* An add keeps list, map and count in step, whether it inserts, replaces or evicts.
LEMMA AddStep ==
  ASSUME CacheInv, NEW r \in Reader, Add(r)
  PROVE  CacheInv'
<1>. USE DEF CacheInv
<1>0. /\ pc[r] = "add" /\ pc' = [pc EXCEPT ![r] = "copy"]
      /\ UNCHANGED <<dirty, key, cur, out>>
      /\ key[r] \in Key /\ cur[r] \in BufferOf(key[r])
  BY DEF Add, CacheType, Holding
<1>1. \A q \in Reader : pc'[q] \in {"held", "dirty"} => pc[q] \in {"held", "dirty"}
  BY <1>0 DEF CacheType
<1>2. Overwritten'
  BY <1>0 DEF CacheType, Overwritten
<1>3. CASE ~(MaxBytes > 0 /\ Size[key[r]] <= MaxEntrySize)
  <2>1. UNCHANGED <<ll, data, curBytes>>
    BY <1>3 DEF Add
  <2>2. Listed' /\ Counted'
    BY <2>1, BooksUntouched
  <2>3. CacheType'
    BY <1>0, <2>1 DEF CacheType
  <2>4. Holding'
    BY <1>0, <2>1 DEF CacheType, Holding
  <2>5. Own'
    BY <1>0, <1>1, <2>1 DEF Own
  <2>. QED  BY <1>2, <2>2, <2>3, <2>4, <2>5
<1>4. CASE MaxBytes > 0 /\ Size[key[r]] <= MaxEntrySize
  <2>. DEFINE s == Fronted(key[r])
  <2>1. /\ s \in Seq(Key) /\ Len(s) >= 1 /\ s[1] = key[r]
        /\ \A p, q \in 1..Len(s) : s[p] = s[q] => p = q
        /\ \A p \in 1..Len(s) : s[p] = key[r] \/ \E i \in 1..Len(ll) : s[p] = ll[i]
    BY <1>0, FrontedFacts
  <2>2. PICK n \in 1..Len(s) :
          /\ ll' = SubSeq(s, 1, n)
          /\ curBytes' = Bytes(ll')
          /\ Sums(s)[n] <= MaxBytes
          /\ data' = [k \in Key |-> IF ~Contains(ll', k) THEN Nil
                                    ELSE IF k = key[r] THEN cur[r] ELSE data[k]]
    BY <1>4, AddFacts
  <2>. HIDE DEF s
  <2>. DEFINE t == SubSeq(s, 1, n)
  <2>3. n \in 0..Len(s) /\ n \in Nat
    BY <2>1
  <2>4. t \in Seq(Key) /\ Len(t) = n /\ (\A j \in 1..n : t[j] = s[j]) /\ Bytes(t) = Sums(s)[n]
    BY <2>1, <2>3, Cut
  <2>5. ll' = t
    BY <2>2
  <2>. HIDE DEF t
  <2>6. \A j \in 1..n : j \in 1..Len(s)
    BY <2>1, <2>3, <2>2
  <2>7. \A k \in Key : Contains(t, k) => k = key[r] \/ data[k] # Nil
    <3>. SUFFICES ASSUME NEW k \in Key, NEW j \in 1..n, t[j] = k, k # key[r] PROVE data[k] # Nil
      BY <2>4 DEF Contains
    <3>1. PICK i \in 1..Len(ll) : s[j] = ll[i]
      BY <2>1, <2>4, <2>6
    <3>2. Contains(ll, k)
      BY <3>1, <2>4 DEF Contains
    <3>. QED  BY <3>2 DEF Listed
  <2>8. cur[r] # Nil
    BY <1>0, NilIsNoBuffer
  <2>9. Listed'
    <3>1. \A i, j \in 1..Len(ll') : ll'[i] = ll'[j] => i = j
      <4>1. ASSUME NEW i \in 1..n, NEW j \in 1..n, t[i] = t[j] PROVE i = j
        <5>1. s[i] = s[j] /\ i \in 1..Len(s) /\ j \in 1..Len(s)
          BY <4>1, <2>4, <2>6
        <5>. QED  BY <5>1, <2>1
      <4>. QED  BY <2>4, <2>5, <4>1
    <3>2. \A k \in Key : Contains(ll', k) <=> data'[k] # Nil
      BY <2>2, <2>5, <2>7, <2>8
    <3>. QED  BY <3>1, <3>2 DEF Listed
  <2>10. Counted'
    <3>1. Bytes(t) <= MaxBytes
      BY <2>2, <2>4
    <3>2. \A i \in 1..Len(t) : Size[t[i]] <= MaxEntrySize
      <4>1. \A j \in 1..Len(s) : Size[s[j]] <= MaxEntrySize
        BY <1>4, <2>1 DEF Counted
      <4>. QED  BY <2>4, <2>6, <4>1
    <3>3. curBytes' = Bytes(t)
      BY <2>2, <2>5
    <3>. QED  BY <1>4, <2>5, <3>1, <3>2, <3>3 DEF Counted
  <2>11. \A k \in Key : data'[k] \in {Nil, data[k]} \/ (k = key[r] /\ data'[k] = cur[r])
    BY <2>2
  <2>12. CacheType'
    <3>1. \A k \in Key : data'[k] \in MaybeBuffer
      BY <1>0, <2>11, BufferOrNil DEF CacheType
    <3>2. data' \in [Key -> MaybeBuffer]
      BY <2>2, <3>1
    <3>. QED  BY <1>0, <2>4, <2>5, <3>2 DEF CacheType
  <2>13. Holding'
    <3>1. \A k \in Key : data'[k] \in BufferOf(k) \cup {Nil}
      BY <1>0, <2>11 DEF Holding
    <3>2. \A q \in Reader :
            /\ pc'[q] \in {"add", "copy"} <=> pc[q] \in {"add", "copy"}
            /\ pc'[q] \in {"held", "dirty"} <=> pc[q] \in {"held", "dirty"}
      BY <1>0 DEF CacheType
    <3>. QED  BY <1>0, <3>1, <3>2 DEF Holding
  <2>14. Own'
    <3>1. \A q \in Reader : pc[q] \in {"held", "dirty"} => out[q] # Nil
      BY NilIsNoBuffer DEF Holding
    <3>. QED  BY <1>0, <1>1, <2>11, <3>1 DEF Own
  <2>. QED  BY <1>2, <2>9, <2>10, <2>12, <2>13, <2>14
<1>. QED  BY <1>3, <1>4

\* Every step keeps the invariant.
LEMMA CacheStep == CacheInv /\ [Next]_vars => CacheInv'
<1>. SUFFICES ASSUME CacheInv, [Next]_vars PROVE CacheInv'
  OBVIOUS
<1>1. CASE UNCHANGED vars
  BY <1>1 DEF vars, CacheInv, CacheType, Listed, Counted, Holding, Own, Overwritten
<1>2. ASSUME NEW r \in Reader, NEW k \in Key, Get(r, k) PROVE CacheInv'
  BY <1>2, GetStep
<1>3. ASSUME NEW r \in Reader, FetchWhole(r) PROVE CacheInv'
  BY <1>3, FetchWholeStep
<1>4. ASSUME NEW r \in Reader, FetchPartial(r) PROVE CacheInv'
  BY <1>4, FetchPartialStep
<1>5. ASSUME NEW r \in Reader, Add(r) PROVE CacheInv'
  BY <1>5, AddStep
<1>6. ASSUME NEW r \in Reader, Copy(r) PROVE CacheInv'
  BY <1>6, CopyStep
<1>7. ASSUME NEW r \in Reader, Scribble(r) PROVE CacheInv'
  BY <1>7, ScribbleStep
<1>8. ASSUME NEW r \in Reader, Release(r) PROVE CacheInv'
  BY <1>8, ReleaseStep
<1>. QED  BY <1>1, <1>2, <1>3, <1>4, <1>5, <1>6, <1>7, <1>8 DEF Next

\* The invariant holds in every reachable state.
LEMMA CacheInvariant == Spec => []CacheInv
  BY CacheInit, CacheStep, PTL DEF Spec

-----------------------------------------------------------------------------
(* The theorems *)

\* However many readers look up, replace and evict the same keys at once, the
\* list, the map and the byte count of the cache (cache.go) agree, and the cached
\* bytes never exceed the budget: for any sizes and any budget.
THEOREM CacheAccounts == Spec => []Accounting
<1>1. CacheInv => Accounting
  <2>. SUFFICES ASSUME CacheInv PROVE Accounting
    OBVIOUS
  <2>0. ll \in Seq(Key) /\ DOMAIN ll = 1..Len(ll)
    BY DEF CacheInv, CacheType
  <2>1. IsInjective(ll)
    BY <2>0 DEF CacheInv, Listed, IsInjective
  <2>2. \A k \in Key : Contains(ll, k) <=> data[k] # Nil
    BY DEF CacheInv, Listed
  <2>3. curBytes <= Max({0, MaxBytes})
    <3>1. CASE MaxBytes > 0
      <4>1. \A x \in {0, MaxBytes} : (\A y \in {0, MaxBytes} : x >= y) <=> x = MaxBytes
        BY <3>1
      <4>2. Max({0, MaxBytes}) = MaxBytes
        BY <4>1 DEF Max
      <4>. QED  BY <3>1, <4>2 DEF CacheInv, Counted
    <3>2. CASE ~(MaxBytes > 0)
      <4>1. \A x \in {0, MaxBytes} : (\A y \in {0, MaxBytes} : x >= y) <=> x = 0
        BY <3>2
      <4>2. Max({0, MaxBytes}) = 0
        BY <4>1 DEF Max
      <4>3. Sum(ll, Len(ll), Sums(ll))
        BY <2>0, SumsFacts
      <4>4. curBytes = 0
        BY <3>2, <4>3 DEF CacheInv, Counted, Bytes, Sum
      <4>. QED  BY <4>2, <4>4
    <3>. QED  BY <3>1, <3>2
  <2>. QED  BY <2>1, <2>2, <2>3 DEF Accounting, CacheInv, Counted
<1>. QED  BY <1>1, CacheInvariant, PTL

\* A caller is given its key's body and nobody else's writes (sliceBlob and
\* ReadQuiltPatch copy): for any number of readers, whatever was replaced or
\* evicted while one of them copied.
THEOREM CacheServesTheBody == Spec => []ServesTheBody
<1>1. CacheInv => ServesTheBody
  <2>. SUFFICES ASSUME CacheInv, NEW r \in Reader, pc[r] = "held"
                PROVE  out[r][1] = key[r] /\ out[r] \notin dirty
    BY DEF ServesTheBody
  <2>1. out[r][1] = key[r]
    BY BufferHoldsKey DEF CacheInv, Holding
  <2>2. ASSUME out[r] \in dirty PROVE FALSE
    <3>1. PICK q \in Reader : pc[q] = "dirty" /\ out[q] = out[r]
      BY <2>2 DEF CacheInv, Overwritten
    <3>2. q = r
      BY <3>1 DEF CacheInv, Own
    <3>. QED  BY <3>1, <3>2
  <2>. QED  BY <2>1, <2>2
<1>. QED  BY <1>1, CacheInvariant, PTL

\* With a budget of four bytes or more, and with no cache at all, an add never
\* evicts one of the three entries used last before it ("Don't let one entry
\* consume more than a quarter of the budget", cache.go:35).  A budget of one to
\* three bytes has the whole budget as its cap.
THEOREM CacheKeepsRecent ==
  ASSUME MaxBytes \notin 1..3
  PROVE  Spec => AddKeepsRecent
<1>. DEFINE Keeps == \A k \in Key :
              data[k] # Nil /\ data'[k] = Nil =>
                ~\E i \in 1..Len(ll) : i <= 3 /\ ll[i] = k
<1>1. ASSUME CacheInv, NEW r \in Reader, Add(r) PROVE Keeps
  <2>. SUFFICES ASSUME NEW k \in Key, data[k] # Nil, data'[k] = Nil,
                       NEW i \in 1..Len(ll), i <= 3, ll[i] = k
                PROVE  FALSE
    OBVIOUS
  <2>0. key[r] \in Key
    BY <1>1 DEF CacheInv, CacheType
  <2>1. MaxBytes > 0 /\ Size[key[r]] <= MaxEntrySize
    BY <1>1 DEF Add
  <2>2. MaxBytes >= 4 /\ 4 * MaxEntrySize <= MaxBytes /\ MaxEntrySize \in Nat
    BY <2>1, FourFit, EntryCap
  <2>. DEFINE s == Fronted(key[r])
  <2>3. /\ s \in Seq(Key)
        /\ \A p \in 1..Len(s) : s[p] = key[r] \/ \E j \in 1..Len(ll) : s[p] = ll[j]
        /\ \A j \in 1..Len(ll) : \E p \in 1..Len(s) : p <= j + 1 /\ s[p] = ll[j]
    BY <1>1, <2>0, FrontedFacts
  <2>4. PICK n \in 1..Len(s) :
          /\ ll' = SubSeq(s, 1, n)
          /\ \A m \in 0..Len(s) : Sums(s)[m] <= MaxBytes => m <= n
          /\ data' = [j \in Key |-> IF ~Contains(ll', j) THEN Nil
                                    ELSE IF j = key[r] THEN cur[r] ELSE data[j]]
    BY <1>1, <2>1, AddFacts
  <2>. HIDE DEF s
  <2>5. PICK p \in 1..Len(s) : p <= i + 1 /\ s[p] = ll[i]
    BY <2>3
  <2>6. p \in 0..Len(s) /\ p <= 4 /\ Len(s) \in Nat
    BY <2>3, <2>5
  <2>7. Sums(s)[p] <= MaxBytes
    <3>1. \A j \in 1..Len(s) : Size[s[j]] <= MaxEntrySize
      BY <1>1, <2>1, <2>3 DEF CacheInv, Counted
    <3>2. Sums(s)[p] <= 4 * MaxEntrySize
      BY <2>2, <2>3, <2>6, <3>1, FirstFour
    <3>3. Sums(s)[p] \in Nat
      BY <2>3, <2>6, SumsFacts DEF Sum
    <3>. QED  BY <2>2, <3>2, <3>3
  <2>8. p \in 1..n /\ n \in 0..Len(s)
    BY <2>4, <2>5, <2>6, <2>7
  <2>9. Contains(ll', k)
    <3>1. Len(SubSeq(s, 1, n)) = n /\ \A j \in 1..n : SubSeq(s, 1, n)[j] = s[j]
      BY <2>3, <2>8, Cut
    <3>. QED  BY <2>4, <2>5, <2>8, <3>1 DEF Contains
  <2>10. cur[r] # Nil
    BY <1>1, NilIsNoBuffer DEF CacheInv, Holding, Add
  <2>. QED  BY <2>4, <2>9, <2>10
<1>2. ASSUME CacheInv, [Next]_vars PROVE [Keeps]_vars
  <2>1. ASSUME UNCHANGED data PROVE Keeps
    BY <2>1
  <2>. HIDE DEF Keeps
  <2>. QED
    BY <1>1, <1>2, <2>1 DEF Next, vars, Get, FetchWhole, FetchPartial, Copy, Scribble, Release
<1>. QED  BY <1>2, CacheInvariant, PTL DEF Spec, AddKeepsRecent
=============================================================================
