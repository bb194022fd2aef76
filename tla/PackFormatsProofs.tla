------------------------- MODULE PackFormatsProofs -------------------------
(***************************************************************************)
(* Proofs about PackFormats, for any keys, blocks, chunk and committee.    *)
(*                                                                         *)
(* What a buffer that blocks are appended to holds (by induction over the  *)
(* blocks), what the encoded size computed locally is (integer division    *)
(* against a least even symbol size), and that every row made from a pack  *)
(* says truly where its key's bytes are.                                   *)
(***************************************************************************)
EXTENDS PackFormats, SequenceTheorems, FiniteSetTheorems, WellFoundedInduction, TLAPS

-----------------------------------------------------------------------------
(* Induction over the naturals, and greatest elements *)

Less == {p \in Nat \X Nat : p[1] < p[2]}

\* Less is well-founded: what the library's least-element fact needs.
LEMMA LessIsWellFounded == IsWellFoundedOn(Less, Nat)
  BY NatLessThanWellFounded DEF OpToRel, Less

\* A nonempty set of naturals has a least element.
LEMMA LeastExists ==
  ASSUME NEW S \in SUBSET Nat, S # {}
  PROVE  \E x \in S : \A y \in S : x <= y
<1>1. PICK x \in S : \A y \in S : ~(<<y, x>> \in Less)
  BY LessIsWellFounded, WFMin
<1>2. \A y \in S : ~(y < x)
  BY <1>1 DEF Less
<1>. QED  BY <1>2

\* Induction: a set with 0 and every successor of its members holds all naturals.
LEMMA SetInduction ==
  ASSUME NEW S, 0 \in S, \A n \in Nat : n \in S => n + 1 \in S
  PROVE  Nat \subseteq S
<1>. SUFFICES ASSUME Nat \ S # {} PROVE FALSE
  OBVIOUS
<1>1. PICK x \in Nat \ S : \A y \in Nat \ S : x <= y
  BY LeastExists
<1>2. x - 1 \in Nat /\ x - 1 < x
  BY <1>1
<1>3. x - 1 \in S
  BY <1>1, <1>2
<1>. QED  BY <1>1, <1>2, <1>3

\* Max of a nonempty bounded set is in it and the greatest.
LEMMA MaxIsGreatest ==
  ASSUME NEW n \in Nat, NEW S \in SUBSET (0..n), S # {}
  PROVE  Max(S) \in S /\ \A y \in S : y <= Max(S)
<1>. DEFINE T == {n - y : y \in S}
<1>1. T # {} /\ \A t \in T : t \in Nat
  <2>1. \A y \in S : n - y \in Nat
    OBVIOUS
  <2>2. T # {}
    OBVIOUS
  <2>. QED  BY <2>1, <2>2
<1>2. PICK t \in T : \A u \in T : t <= u
  <2>. HIDE DEF T
  <2>1. T \in SUBSET Nat  BY <1>1
  <2>. QED  BY <1>1, <2>1, LeastExists
<1>3. PICK x \in S : t = n - x
  OBVIOUS
<1>4. \A y \in S : x >= y
  BY <1>2, <1>3
<1>. QED  BY <1>4 DEF Max
-----------------------------------------------------------------------------
(* The buffer blocks are appended to *)

\* What makes g the buffers after 0 to n blocks of s.
Appended(s, n, g) ==
    /\ g \in [0..n -> Seq(Nat)]
    /\ g[0] = <<>>
    /\ \A i \in 1..n : g[i] = g[i - 1] \o Bytes[s[i]]

\* Two functions that are the buffers of a pack are the same one.
LEMMA BuffersUnique ==
  ASSUME NEW s \in Seq(Key), NEW n \in 0..Len(s), NEW g, NEW h, Appended(s, n, g),
         DOMAIN h = 0..n, h[0] = <<>>, \A i \in 1..n : h[i] = h[i - 1] \o Bytes[s[i]],
         h = [i \in 0..n |-> h[i]]
  PROVE  g = h
<1>. DEFINE S == {j \in Nat : j <= n => g[j] = h[j]}
<1>1. 0 \in S
  BY DEF Appended
<1>2. ASSUME NEW j \in Nat, j \in S PROVE j + 1 \in S
  <2>. SUFFICES ASSUME j + 1 <= n PROVE g[j + 1] = h[j + 1]
    OBVIOUS
  <2>1. j + 1 \in 1..n /\ (j + 1) - 1 = j /\ g[j] = h[j]
    BY <1>2
  <2>2. g[j + 1] = g[j] \o Bytes[s[j + 1]] /\ h[j + 1] = h[j] \o Bytes[s[j + 1]]
    BY <2>1 DEF Appended
  <2>. QED  BY <2>1, <2>2
<1>3. Nat \subseteq S
  <2>. HIDE DEF S
  <2>. QED  BY <1>1, <1>2, SetInduction
<1>4. \A j \in 0..n : g[j] = h[j]
  <2>1. n \in Nat
    OBVIOUS
  <2>2. \A j \in 0..n : j \in Nat /\ j <= n
    BY <2>1
  <2>. QED  BY <1>3, <2>2
<1>. QED  BY <1>4 DEF Appended

\* The buffers of a pack's first n blocks exist.
LEMMA BuffersExist ==
  ASSUME NEW s \in Seq(Key), NEW n \in 0..Len(s)
  PROVE  \E g : Appended(s, n, g)
<1>. DEFINE S == {j \in Nat : j <= Len(s) => \E g : Appended(s, j, g)}
<1>1. 0 \in S
  <2>1. Appended(s, 0, [i \in 0..0 |-> <<>>])
    BY DEF Appended
  <2>. QED  BY <2>1
<1>2. ASSUME NEW j \in Nat, j \in S PROVE j + 1 \in S
  <2>. SUFFICES ASSUME j + 1 <= Len(s) PROVE \E g : Appended(s, j + 1, g)
    OBVIOUS
  <2>1. PICK g : Appended(s, j, g)
    BY <1>2
  <2>2. Bytes[s[j + 1]] \in Seq(Nat)
    BY PackAssumption
  <2>. DEFINE more == g[j] \o Bytes[s[j + 1]]
              h == [i \in 0..(j + 1) |-> IF i <= j THEN g[i] ELSE more]
  <2>3. \A i \in 0..j : g[i] \in Seq(Nat)
    BY <2>1 DEF Appended
  <2>4. more \in Seq(Nat)
    <3>1. g[j] \in Seq(Nat)
      BY <2>3
    <3>. QED  BY <2>2, <3>1
  <2>. HIDE DEF more
  <2>5. h \in [0..(j + 1) -> Seq(Nat)]
    BY <2>3, <2>4
  <2>6. h[0] = <<>>
    BY <2>1 DEF Appended
  <2>7. ASSUME NEW i \in 1..(j + 1) PROVE h[i] = h[i - 1] \o Bytes[s[i]]
    <3>1. CASE i = j + 1
      <4>1. h[i] = more /\ h[i - 1] = g[j]
        BY <3>1
      <4>. QED  BY <3>1, <4>1 DEF more
    <3>2. CASE i <= j
      <4>1. i \in 1..j /\ i - 1 \in 0..j
        BY <3>2
      <4>2. h[i] = g[i] /\ h[i - 1] = g[i - 1]
        BY <4>1
      <4>3. g[i] = g[i - 1] \o Bytes[s[i]]
        BY <4>1, <2>1 DEF Appended
      <4>. QED  BY <4>2, <4>3
    <3>. QED  BY <3>1, <3>2
  <2>8. Appended(s, j + 1, h)
    <3>. HIDE DEF h
    <3>. QED  BY <2>5, <2>6, <2>7 DEF Appended
  <2>. QED  BY <2>8
<1>3. Nat \subseteq S
  <2>. HIDE DEF S
  <2>. QED  BY <1>1, <1>2, SetInduction
<1>. QED  BY <1>3

\* Buffers computes them, for every sequence of keys.
LEMMA BuffersFacts ==
  ASSUME NEW s \in Seq(Key)
  PROVE  Appended(s, Len(s), Buffers(s))
<1>1. PICK g : Appended(s, Len(s), g)
  BY BuffersExist
<1>2. g = [i \in 0..Len(s) |-> IF i = 0 THEN <<>> ELSE g[i - 1] \o Bytes[s[i]]]
  BY <1>1, SMTT(30) DEF Appended
<1>3. Buffers(s) = [i \in 0..Len(s) |-> IF i = 0 THEN <<>> ELSE Buffers(s)[i - 1] \o Bytes[s[i]]]
  BY <1>2 DEF Buffers
<1>. DEFINE h == Buffers(s)
<1>4. DOMAIN h = 0..Len(s) /\ h[0] = <<>> /\ h = [i \in 0..Len(s) |-> h[i]]
  BY <1>3
<1>5. \A i \in 1..Len(s) : h[i] = h[i - 1] \o Bytes[s[i]]
  BY <1>3
<1>6. g = h
  <2>. HIDE DEF h
  <2>. QED  BY <1>1, <1>4, <1>5, BuffersUnique
<1>. QED  BY <1>1, <1>6

\* What is in the buffer stays there: a later buffer begins with an earlier one.
LEMMA BuffersGrow ==
  ASSUME NEW s \in Seq(Key), NEW i \in 0..Len(s), NEW j \in i..Len(s)
  PROVE  LET b == Buffers(s) IN
         /\ b[i] \in Seq(Nat) /\ b[j] \in Seq(Nat)
         /\ Len(b[i]) <= Len(b[j])
         /\ \A m \in 1..Len(b[i]) : b[j][m] = b[i][m]
<1>. DEFINE b == Buffers(s)
            P(n) == /\ Len(b[i]) <= Len(b[n])
                    /\ \A m \in 1..Len(b[i]) : b[n][m] = b[i][m]
            S == {d \in Nat : i + d <= Len(s) => P(i + d)}
<1>0. Len(s) \in Nat /\ i \in Nat /\ j \in Nat /\ i <= j /\ j <= Len(s)
  OBVIOUS
<1>1. Appended(s, Len(s), b)
  BY BuffersFacts
<1>. HIDE DEF b
<1>2. \A n \in 0..Len(s) : b[n] \in Seq(Nat) /\ Len(b[n]) \in Nat
  BY <1>1 DEF Appended
<1>3. 0 \in S
  <2>1. i + 0 = i
    BY <1>0
  <2>. QED  BY <2>1, <1>2
<1>4. ASSUME NEW d \in Nat, d \in S PROVE d + 1 \in S
  <2>. SUFFICES ASSUME i + (d + 1) <= Len(s) PROVE P(i + (d + 1))
    OBVIOUS
  <2>. DEFINE n == i + d
  <2>1. n \in 0..Len(s) /\ i + (d + 1) = n + 1 /\ n + 1 \in 1..Len(s) /\ (n + 1) - 1 = n
    BY <1>0
  <2>2. P(n)
    BY <1>4, <2>1
  <2>. HIDE DEF n
  <2>3. b[n + 1] = b[n] \o Bytes[s[n + 1]]
    BY <1>1, <2>1 DEF Appended
  <2>4. b[n] \in Seq(Nat) /\ Bytes[s[n + 1]] \in Seq(Nat) /\ b[i] \in Seq(Nat)
    BY <1>2, <2>1, PackAssumption
  <2>5. /\ Len(b[n + 1]) = Len(b[n]) + Len(Bytes[s[n + 1]])
        /\ \A m \in 1..Len(b[n]) : b[n + 1][m] = b[n][m]
    <3>. DEFINE u == b[n]
                v == Bytes[s[n + 1]]
    <3>1. u \in Seq(Nat) /\ v \in Seq(Nat)
      BY <2>4
    <3>. HIDE DEF u, v
    <3>2. Len(u \o v) = Len(u) + Len(v) /\ \A m \in 1..Len(u) : (u \o v)[m] = u[m]
      BY <3>1
    <3>. QED  BY <2>3, <3>2 DEF u, v
  <2>6. P(n + 1)
    <3>1. Len(b[i]) \in Nat /\ Len(b[n]) \in Nat /\ Len(Bytes[s[n + 1]]) \in Nat
      BY <2>4
    <3>2. \A m \in 1..Len(b[i]) : m \in 1..Len(b[n])
      BY <2>2, <3>1
    <3>3. Len(b[i]) <= Len(b[n + 1])
      <4>1. Len(b[i]) <= Len(b[n])
        BY <2>2
      <4>2. Len(b[n + 1]) = Len(b[n]) + Len(Bytes[s[n + 1]])
        BY <2>5
      <4>3. \A x, y, z \in Nat : x <= y => x <= y + z
        OBVIOUS
      <4>. QED  BY <3>1, <4>1, <4>2, <4>3, Zenon
    <3>. QED  BY <2>2, <2>5, <3>2, <3>3
  <2>. QED  BY <2>1, <2>6
<1>5. Nat \subseteq S
  <2>. HIDE DEF S
  <2>. QED  BY <1>3, <1>4, SetInduction
<1>6. P(j)
  <2>. DEFINE d == j - i
  <2>1. d \in Nat /\ i + d = j
    BY <1>0
  <2>. HIDE DEF d
  <2>. QED  BY <1>0, <1>5, <2>1
<1>. QED  BY <1>2, <1>6 DEF b

\* The bytes at a block's offset are the block.
LEMMA RangeIsBlock ==
  ASSUME NEW s \in Seq(Key), NEW i \in 1..Len(s)
  PROVE  LET full == Concat(s)
             offset == Len(Buffers(s)[i - 1])
             size == Len(Bytes[s[i]])
         IN /\ full \in Seq(Nat) /\ offset \in Nat /\ size \in Nat
            /\ offset + size <= Len(full)
            /\ SubSeq(full, offset + 1, offset + size) = Bytes[s[i]]
<1>. DEFINE b == Buffers(s)
            full == b[Len(s)]
            block == Bytes[s[i]]
            offset == Len(b[i - 1])
            size == Len(block)
<1>0. Len(s) \in Nat /\ i \in 0..Len(s) /\ i - 1 \in 0..Len(s) /\ Len(s) \in i..Len(s)
  OBVIOUS
<1>1. b[i] = b[i - 1] \o block /\ b[i - 1] \in Seq(Nat)
  BY <1>0, BuffersFacts DEF Appended
<1>2. block \in Seq(Nat)
  BY PackAssumption
<1>3. /\ b[i] \in Seq(Nat) /\ full \in Seq(Nat) /\ Len(b[i]) <= Len(full)
      /\ \A m \in 1..Len(b[i]) : full[m] = b[i][m]
  BY <1>0, BuffersGrow
<1>. HIDE DEF b, full, block
<1>4. /\ Len(b[i]) = offset + size /\ offset \in Nat /\ size \in Nat
      /\ \A m \in 1..(offset + size) : b[i][m] = IF m <= offset THEN b[i - 1][m] ELSE block[m - offset]
  BY <1>1, <1>2, ConcatProperties
<1>. HIDE DEF offset, size
<1>5. ASSUME NEW m \in 1..size PROVE full[(offset + 1) + m - 1] = block[m]
  <2>1. offset + m \in 1..(offset + size) /\ ~(offset + m <= offset) /\ (offset + m) - offset = m
        /\ (offset + 1) + m - 1 = offset + m
    BY <1>4
  <2>2. b[i][offset + m] = block[m]
    BY <1>4, <2>1
  <2>. QED  BY <1>3, <1>4, <2>1, <2>2
<1>6. Len(full) \in Nat /\ offset + size <= Len(full)
  BY <1>3, <1>4
<1>. DEFINE t == SubSeq(full, offset + 1, offset + size)
<1>7. t \in Seq(Nat) /\ Len(t) = size /\ \A m \in 1..size : t[m] = full[(offset + 1) + m - 1]
  <2>1. \A m \in (offset + 1)..(offset + size) : full[m] \in Nat
    <3>1. \A m \in (offset + 1)..(offset + size) : m \in 1..Len(full)
      BY <1>4, <1>6
    <3>. QED  BY <1>3, <3>1
  <2>2. /\ t \in Seq(Nat)
        /\ Len(t) = IF offset + 1 <= offset + size THEN (offset + size) - (offset + 1) + 1 ELSE 0
        /\ \A m \in 1..((offset + size) - (offset + 1) + 1) : t[m] = full[(offset + 1) + m - 1]
    BY <2>1, <1>4, SubSeqProperties
  <2>3. (offset + size) - (offset + 1) + 1 = size
    BY <1>4
  <2>. HIDE DEF t
  <2>. QED  BY <2>2, <2>3, <1>4
<1>. HIDE DEF t
<1>8. t = block
  <2>1. Len(block) = size /\ \A m \in 1..size : t[m] = block[m]
    BY <1>5, <1>7 DEF size
  <2>. QED  BY <1>2, <1>7, <2>1
<1>. QED  BY <1>3, <1>4, <1>6, <1>8 DEF b, full, block, offset, size, t, Concat
-----------------------------------------------------------------------------
(* The encoded size *)

\* Division by a positive number, and what the provers need of products.
LEMMA Division ==
  ASSUME NEW a \in Nat, NEW d \in Nat, d > 0
  PROVE  /\ a \div d \in Nat
         /\ d * (a \div d) <= a
         /\ a < d * (a \div d) + d
  OBVIOUS

\* Two facts about products that the size formula needs.
LEMMA ProductGrows ==
  ASSUME NEW d \in Nat, NEW x \in Nat, NEW y \in Nat, x <= y
  PROVE  d * x \in Nat /\ d * y \in Nat /\ d * x <= d * y
  OBVIOUS

LEMMA Distributes ==
  ASSUME NEW d \in Nat, NEW x \in Nat
  PROVE  d * (x + 1) = d * x + d
  OBVIOUS

\* A committee has at least one primary and one secondary source symbol, so
\* encoding.go's guard against counts that are not positive never fires.
LEMMA SymbolCounts ==
  ASSUME NEW shards \in Int
  PROVE  LET n == Shards(shards) IN
         /\ n \in Nat /\ n > 0
         /\ PrimarySymbols(n) \in Nat /\ PrimarySymbols(n) > 0
         /\ SecondarySymbols(n) \in Nat /\ SecondarySymbols(n) > 0
<1>. DEFINE n == Shards(shards)
<1>1. n \in Nat /\ n > 0
  BY DEF Shards, DefaultNShards
<1>. HIDE DEF n
<1>2. (n - 1) \div 3 \in Nat /\ 3 * ((n - 1) \div 3) <= n - 1
  BY <1>1
<1>3. /\ PrimarySymbols(n) \in Nat /\ PrimarySymbols(n) > 0
      /\ SecondarySymbols(n) \in Nat /\ SecondarySymbols(n) > 0
  BY <1>1, <1>2 DEF PrimarySymbols, SecondarySymbols, MaxFaulty
<1>. QED  BY <1>1, <1>3 DEF n

Fits(d, length, s) == s % 2 = 0 /\ d * s >= length

\* Rounding up to a whole and then to an even number gives the least even symbol
\* size whose d symbols hold the blob, an empty blob counting as one byte.
LEMMA LeastEvenSize ==
  ASSUME NEW length \in Nat, NEW d \in Nat, d > 0
  PROVE  LET u == IF length < 1 THEN 1 ELSE length
             s == (u - 1) \div d + 1
             e == IF s % 2 = 1 THEN s + 1 ELSE s
         IN /\ e \in 2..(length + 2)
            /\ Fits(d, length, e)
            /\ \A t \in 2..(e - 1) : ~Fits(d, length, t)
<1>. DEFINE u == IF length < 1 THEN 1 ELSE length
            q == (u - 1) \div d
            s == q + 1
            e == IF s % 2 = 1 THEN s + 1 ELSE s
<1>1. /\ u \in Nat /\ u >= 1 /\ u - 1 \in Nat
      /\ length <= u /\ u <= length + 1 /\ (length > 0 => u = length)
  OBVIOUS
<1>. HIDE DEF u
<1>2. q \in Nat /\ d * q <= u - 1 /\ u - 1 < d * q + d
  BY <1>1, Division
<1>3. q <= u - 1
  <2>1. 1 * q <= d * q
    BY <1>2
  <2>. QED  BY <1>1, <1>2, <2>1
<1>. HIDE DEF q
<1>4. e \in Nat /\ e % 2 = 0 /\ s <= e /\ e <= s + 1 /\ e >= 2 /\ (e = s \/ s % 2 = 1)
  BY <1>2
<1>5. e \in 2..(length + 2)
  <2>1. e <= length + 2
    <3>1. CASE length = 0
      <4>1. u = 1 /\ q = 0
        BY <3>1, <1>1, <1>2, <1>3 DEF u
      <4>. QED  BY <3>1, <4>1
    <3>2. CASE length > 0
      <4>1. u = length
        BY <3>2, <1>1
      <4>. QED  BY <4>1, <1>1, <1>2, <1>3, <1>4
    <3>. QED  BY <3>1, <3>2
  <2>. QED  BY <1>4, <2>1
<1>6. d * e >= length
  <2>1. d * s = d * q + d
    BY <1>2, Distributes
  <2>2. d * s <= d * e /\ d * s \in Nat /\ d * e \in Nat
    <3>. HIDE DEF e
    <3>. QED  BY <1>2, <1>4, ProductGrows
  <2>3. d * q \in Nat
    BY <1>2
  <2>. HIDE DEF s, e
  <2>. QED  BY <1>1, <1>2, <2>1, <2>2, <2>3
<1>7. ASSUME NEW t \in 2..(e - 1), t % 2 = 0 PROVE d * t < length
  <2>1. t \in Nat /\ t <= q
    BY <1>2, <1>4, <1>7
  <2>2. d * t <= d * q /\ d * t \in Nat /\ d * q \in Nat
    BY <1>2, <2>1, ProductGrows
  <2>3. u > 1
    BY <1>1, <1>2, <1>3, <2>1
  <2>. QED  BY <1>1, <1>2, <2>2, <2>3
<1>8. Fits(d, length, e) /\ \A t \in 2..(e - 1) : ~Fits(d, length, t)
  <2>1. ASSUME NEW t \in 2..(e - 1), t % 2 = 0 PROVE ~(d * t >= length)
    <3>1. t \in Nat
      BY <1>4
    <3>2. d * t \in Nat /\ d * t < length
      BY <1>7, <2>1, <3>1
    <3>. QED  BY <3>2
  <2>. HIDE DEF e
  <2>. QED  BY <1>4, <1>6, <2>1 DEF Fits
<1>. QED  BY <1>5, <1>8 DEF u, q

\* The figure computed locally is the one Walrus bills, and is positive.
LEMMA EncodedIsBilled ==
  ASSUME NEW length \in Nat, nShards \in Int
  PROVE  EncodedBlobLength(length, nShards) = Billed(length) /\ Billed(length) > 0
<1>. DEFINE n == Shards(nShards)
            p == PrimarySymbols(n)
            q == SecondarySymbols(n)
            d == p * q
            u == IF length < 1 THEN 1 ELSE length
            e == SymbolSize(u, n)
            Least(s) == Fits(d, length, s) /\ \A t \in 2..(s - 1) : ~Fits(d, length, t)
<1>1. n \in Nat /\ n > 0 /\ p \in Nat /\ p > 0 /\ q \in Nat /\ q > 0
  BY SymbolCounts
<1>2. d \in Nat /\ d > 0
  <2>. HIDE DEF p, q
  <2>. QED  BY <1>1
<1>3. e = LET s == (u - 1) \div d + 1 IN IF s % 2 = 1 THEN s + 1 ELSE s
  BY DEF SymbolSize
<1>4. e \in 2..(length + 2) /\ Least(e)
  <2>. HIDE DEF d, e
  <2>. QED  BY <1>2, <1>3, LeastEvenSize
<1>5. ASSUME NEW s \in 2..(length + 2), Least(s) PROVE s = e
  <2>. HIDE DEF d, e
  <2>1. s \in Nat /\ e \in Nat /\ s >= 2 /\ e >= 2
    BY <1>4, <1>5
  <2>2. ~(s < e)
    <3>. SUFFICES ASSUME s < e PROVE FALSE
      OBVIOUS
    <3>1. s \in 2..(e - 1)
      BY <2>1
    <3>. QED  BY <3>1, <1>4, <1>5
  <2>3. ~(e < s)
    <3>. SUFFICES ASSUME e < s PROVE FALSE
      OBVIOUS
    <3>1. e \in 2..(s - 1)
      BY <2>1
    <3>. QED  BY <3>1, <1>4, <1>5
  <2>. QED  BY <2>1, <2>2, <2>3
<1>6. (CHOOSE s \in 2..(length + 2) : Least(s)) = e
  <2>. HIDE DEF Least, e
  <2>. QED  BY <1>4, <1>5
<1>7. Billed(length) = n * (64 * n + 32) + n * (p + q) * (CHOOSE s \in 2..(length + 2) : Least(s))
  BY DEF Billed, Fits
<1>8. EncodedBlobLength(length, nShards) = n * (n * 32 * 2 + 32) + (p + q) * e * n
  BY DEF EncodedBlobLength
<1>. HIDE DEF n, p, q, d, e, Least
<1>9. e \in Nat
  BY <1>4
<1>10. n * (n * 32 * 2 + 32) + (p + q) * e * n = n * (64 * n + 32) + n * (p + q) * e
  BY <1>1, <1>9
<1>11. n * (64 * n + 32) + n * (p + q) * e > 0
  <2>1. n * (64 * n + 32) > 0 /\ n * (64 * n + 32) \in Nat
    BY <1>1
  <2>2. n * (p + q) * e \in Nat
    BY <1>1, <1>9
  <2>. QED  BY <2>1, <2>2
<1>. QED  BY <1>6, <1>7, <1>8, <1>10, <1>11
-----------------------------------------------------------------------------
(* The inductive invariant *)

\* A row made from pack p, stored as blob b for n shards, says truly where its
\* key's bytes are: a patch that is the key's, or the key's range of the blob
\* with the blob's encoded size.
TrueRow(p, n, b, row) ==
    /\ row # NoRow /\ row.key \in Key /\ row.size = Len(Bytes[row.key])
    /\ \/ row.patch \in 1..Len(p) /\ p[row.patch] = row.key
       \/ /\ row.patch = NoPatch
          /\ b = Concat(p) /\ row.encoded = EncodedBlobLength(Len(b), n)
          /\ \E i \in 1..Len(p) : p[i] = row.key /\ row.offset = Len(Buffers(p)[i - 1])

PackType ==
    /\ pack \in Seq(Key) /\ nShards \in Int
    /\ staging \subseteq Key
    /\ Len(recs) \in Nat
    /\ index = [k \in Key |-> index[k]]

\* Rows are made from this upload, and reach the index once it is promoted.
RowsTrue ==
    /\ pc = "upload" => recs = <<>>
    /\ \A i \in 1..Len(recs) : TrueRow(pack, nShards, blob, recs[i])
    /\ \A k \in Key : index[k] # NoRow =>
         pc = "done" /\ index[k].key = k /\ TrueRow(pack, nShards, blob, index[k])

PackInv == PackType /\ RowsTrue /\ ReadsBack

USE PackAssumption

\* The fields of a row.
LEMMA RowIsSome ==
  ASSUME NEW k, NEW patch, NEW offset, NEW encoded
  PROVE  /\ Row(k, patch, offset, encoded) # NoRow
         /\ Row(k, patch, offset, encoded).key = k
         /\ Row(k, patch, offset, encoded).patch = patch
         /\ Row(k, patch, offset, encoded).offset = offset
         /\ Row(k, patch, offset, encoded).size = Len(Bytes[k])
         /\ Row(k, patch, offset, encoded).encoded = encoded
<1>1. DOMAIN Row(k, patch, offset, encoded) # {}
  BY DEF Row
<1>2. DOMAIN NoRow = {}
  BY DEF NoRow
<1>3. Row(k, patch, offset, encoded) # NoRow
  BY <1>1, <1>2
<1>. QED  BY <1>3 DEF Row

\* Whether the publisher reports a size or not, the one recorded is the same.
LEMMA RecordedIsEncoded ==
  ASSUME NEW length \in Nat, nShards \in Int, NEW reported \in Reported(length)
  PROVE  RecordedSize(reported, length) = EncodedBlobLength(length, nShards)
<1>1. EncodedBlobLength(length, nShards) = Billed(length) /\ Billed(length) > 0
  BY EncodedIsBilled
<1>2. reported = Billed(length) \/ reported = 0
  BY DEF Reported
<1>. QED  BY <1>1, <1>2 DEF RecordedSize

\* The invariant holds before the upload.
LEMMA PackInit == Init => PackInv
<1>. SUFFICES ASSUME Init PROVE PackInv
  OBVIOUS
<1>1. PICK n \in 1..MaxPack : pack \in [1..n -> Key]
  BY DEF Init
<1>2. pack \in Seq(Key)
  BY <1>1
<1>3. DOMAIN pack = 1..n /\ \A i \in 1..n : pack[i] \in Key
  BY <1>1
<1>4. staging \subseteq Key
  BY <1>3 DEF Init, ToSet
<1>5. PackType
  BY <1>2, <1>4 DEF Init, PackType
<1>6. RowsTrue
  BY DEF Init, RowsTrue
<1>7. ReadsBack
  BY DEF Init, ReadsBack
<1>. QED  BY <1>5, <1>6, <1>7 DEF PackInv

\* An upload makes true rows and touches neither the index nor the last Get.
LEMMA Uploaded ==
  ASSUME PackInv, pc = "upload", pc' # "upload", pc' # "done",
         Len(recs') \in Nat,
         \A i \in 1..Len(recs') : TrueRow(pack, nShards, blob', recs'[i]),
         UNCHANGED <<conf, pack, staging, index, cached, got>>
  PROVE  PackInv'
<1>1. UNCHANGED <<nShards, pack, staging, index, got>>
  BY DEF conf
<1>2. PackType'
  BY <1>1 DEF PackInv, PackType
<1>3. \A k \in Key : index[k] = NoRow
  BY DEF PackInv, RowsTrue
<1>4. RowsTrue'
  BY <1>1, <1>3 DEF RowsTrue
<1>5. ReadsBack'
  BY <1>1 DEF PackInv, ReadsBack
<1>. QED  BY <1>2, <1>4, <1>5 DEF PackInv

\* One lemma per action: each keeps the invariant.
LEMMA SingleStep ==
  ASSUME PackInv, UploadSingleBlock PROVE PackInv'
<1>0. pack \in Seq(Key) /\ Len(pack) = 1 /\ nShards \in Int
  BY DEF PackInv, PackType, UploadSingleBlock
<1>1. pack[1] \in Key /\ 1 \in 1..Len(pack)
  BY <1>0
<1>. DEFINE b == Bytes[pack[1]]
<1>2. b \in Seq(Nat) /\ Len(b) \in Nat
  BY <1>1
<1>3. Buffers(pack)[0] = <<>> /\ Buffers(pack)[1] = <<>> \o b
  <2>1. Appended(pack, 1, Buffers(pack))
    BY <1>0, BuffersFacts
  <2>2. 1 \in 1..1 /\ 1 - 1 = 0
    OBVIOUS
  <2>. QED  BY <2>1, <2>2 DEF Appended
<1>4. b = Concat(pack) /\ Len(Buffers(pack)[1 - 1]) = 0
  <2>1. <<>> \o b = b
    <3>. HIDE DEF b
    <3>. QED  BY <1>2
  <2>2. 1 - 1 = 0 /\ Len(<<>>) = 0
    OBVIOUS
  <2>. QED  BY <1>0, <1>3, <2>1, <2>2 DEF Concat
<1>5. /\ blob' = b /\ UNCHANGED <<conf, pack, staging, index, cached, got>>
      /\ pc = "upload" /\ pc' = "promote"
  BY DEF UploadSingleBlock
<1>6. PICK reported \in Reported(Len(b)) :
        recs' = <<Row(pack[1], NoPatch, 0, RecordedSize(reported, Len(b)))>>
  BY <1>5 DEF UploadSingleBlock
<1>. HIDE DEF b
<1>7. RecordedSize(reported, Len(b)) = EncodedBlobLength(Len(b), nShards)
  BY <1>0, <1>2, RecordedIsEncoded
<1>. DEFINE row == Row(pack[1], NoPatch, 0, EncodedBlobLength(Len(b), nShards))
<1>8. TrueRow(pack, nShards, b, row)
  <2>1. /\ row # NoRow /\ row.key = pack[1] /\ row.patch = NoPatch /\ row.offset = 0
        /\ row.size = Len(Bytes[pack[1]]) /\ row.encoded = EncodedBlobLength(Len(b), nShards)
    BY RowIsSome
  <2>. HIDE DEF row
  <2>. QED  BY <1>1, <1>4, <2>1 DEF TrueRow
<1>9. recs' = <<row>>
  BY <1>6, <1>7
<1>. HIDE DEF row
<1>10. Len(recs') \in Nat /\ \A i \in 1..Len(recs') : recs'[i] = row
  BY <1>9
<1>. QED  BY <1>5, <1>8, <1>10, Uploaded

LEMMA ConcatStep ==
  ASSUME PackInv, UploadConcatPack PROVE PackInv'
<1>0. pack \in Seq(Key) /\ Len(pack) \in Nat /\ nShards \in Int
  BY DEF PackInv, PackType
<1>. DEFINE b == Concat(pack)
<1>1. b \in Seq(Nat) /\ Len(b) \in Nat
  <2>1. Appended(pack, Len(pack), Buffers(pack)) /\ Len(pack) \in 0..Len(pack)
    BY <1>0, BuffersFacts
  <2>. QED  BY <2>1 DEF Appended, Concat
<1>2. /\ blob' = b /\ UNCHANGED <<conf, pack, staging, index, cached, got>>
      /\ pc = "upload" /\ pc' = "promote"
  BY DEF UploadConcatPack
<1>3. PICK reported \in Reported(Len(b)) :
        recs' = [i \in Positions |->
                   Row(pack[i], NoPatch, OffsetOf(i), RecordedSize(reported, Len(b)))]
  BY <1>2 DEF UploadConcatPack
<1>4. RecordedSize(reported, Len(b)) = EncodedBlobLength(Len(b), nShards)
  <2>. HIDE DEF b
  <2>. QED  BY <1>0, <1>1, RecordedIsEncoded
<1>5. Len(recs') = Len(pack)
  BY <1>0, <1>3 DEF Positions
<1>6. ASSUME NEW i \in 1..Len(pack) PROVE TrueRow(pack, nShards, b, recs'[i])
  <2>. DEFINE row == Row(pack[i], NoPatch, OffsetOf(i), EncodedBlobLength(Len(b), nShards))
  <2>1. recs'[i] = row
    BY <1>3, <1>4 DEF Positions
  <2>2. /\ row # NoRow /\ row.key = pack[i] /\ row.patch = NoPatch /\ row.offset = OffsetOf(i)
        /\ row.size = Len(Bytes[pack[i]]) /\ row.encoded = EncodedBlobLength(Len(b), nShards)
    BY RowIsSome
  <2>3. pack[i] \in Key
    BY <1>0
  <2>. HIDE DEF row
  <2>. QED  BY <2>1, <2>2, <2>3 DEF TrueRow, OffsetOf
<1>. QED  BY <1>0, <1>2, <1>5, <1>6, Uploaded

\* A pair that is accepted names a member and that member's patch.
LEMMA AcceptedPairs ==
  ASSUME NEW answer \in Answers, Acceptable(answer), pack \in Seq(Key)
  PROVE  /\ Len(answer) = Len(pack)
         /\ \A i \in 1..Len(answer) :
              answer[i][1] \in 1..Len(pack) /\ answer[i][2] = answer[i][1]
<1>. DEFINE pair == {<<i, i>> : i \in Positions} \cup {<<1, NoPatch>>, <<0, 1>>}
<1>1. PICK n \in 0..Len(pack) : answer \in [1..n -> pair]
  BY DEF Answers
<1>2. Len(answer) = n
  BY <1>1
<1>3. ASSUME NEW i \in 1..Len(answer)
      PROVE  answer[i][1] \in 1..Len(pack) /\ answer[i][2] = answer[i][1]
  <2>1. answer[i] \in pair
    BY <1>1, <1>2
  <2>2. answer[i][2] # NoPatch /\ answer[i][1] \in 1..Len(pack)
    BY DEF Acceptable, Positions
  <2>3. CASE \E j \in Positions : answer[i] = <<j, j>>
    BY <2>2, <2>3
  <2>4. CASE answer[i] = <<1, NoPatch>>
    BY <2>2, <2>4
  <2>5. CASE answer[i] = <<0, 1>>
    BY <2>2, <2>5
  <2>. QED  BY <2>1, <2>3, <2>4, <2>5
<1>. QED  BY <1>3 DEF Acceptable

LEMMA QuiltStep ==
  ASSUME PackInv, UploadQuiltPack PROVE PackInv'
<1>0. pack \in Seq(Key) /\ Len(pack) \in Nat
  BY DEF PackInv, PackType
<1>1. pc = "upload" /\ UNCHANGED <<conf, pack, staging, index, cached, got>>
  BY DEF UploadQuiltPack
<1>2. CASE pc' = "release" /\ UNCHANGED recs
  <2>1. recs' = <<>>
    BY <1>1, <1>2 DEF PackInv, RowsTrue
  <2>2. Len(recs') \in Nat /\ 1..Len(recs') = {}
    BY <2>1
  <2>. QED  BY <1>1, <1>2, <2>2, Uploaded
<1>3. ASSUME NEW answer \in Answers, NEW encoded, Acceptable(answer), pc' = "promote",
             recs' = [i \in 1..Len(answer) |-> QuiltRow(answer, i, encoded)]
      PROVE  PackInv'
  <2>1. /\ Len(answer) = Len(pack)
        /\ \A i \in 1..Len(answer) :
             answer[i][1] \in 1..Len(pack) /\ answer[i][2] = answer[i][1]
    BY <1>0, <1>3, AcceptedPairs
  <2>2. Len(recs') = Len(pack)
    BY <1>0, <1>3, <2>1
  <2>3. ASSUME NEW i \in 1..Len(pack) PROVE TrueRow(pack, nShards, blob', recs'[i])
    <3>. DEFINE j == answer[i][1]
                row == Row(pack[j], j, 0, encoded)
    <3>1. recs'[i] = row /\ j \in 1..Len(pack)
      BY <1>3, <2>1 DEF QuiltRow
    <3>. HIDE DEF j
    <3>2. row # NoRow /\ row.key = pack[j] /\ row.patch = j /\ row.size = Len(Bytes[pack[j]])
      BY RowIsSome
    <3>3. pack[j] \in Key
      BY <1>0, <3>1
    <3>. HIDE DEF row
    <3>. QED  BY <3>1, <3>2, <3>3 DEF TrueRow
  <2>. QED  BY <1>0, <1>1, <1>3, <2>2, <2>3, Uploaded
<1>. QED  BY <1>2, <1>3 DEF UploadQuiltPack

\* The greatest of the positions a key has among the survivors.
LEMMA LastSurvivor ==
  ASSUME PackInv, NEW k, NEW at, at = {i \in Survivors : recs[i].key = k}, at # {}
  PROVE  Max(at) \in 1..Len(recs) /\ recs[Max(at)].key = k
<1>1. Len(recs) \in Nat
  BY DEF PackInv, PackType
<1>2. at \in SUBSET (0..Len(recs))
  BY <1>1 DEF Survivors
<1>3. Max(at) \in at
  BY <1>1, <1>2, MaxIsGreatest
<1>. QED  BY <1>3 DEF Survivors

\* What PromoteStaged puts into the index.
LEMMA Promoted ==
  ASSUME PackInv, PromoteStaged, ~Refused, NEW k \in Key
  PROVE  \/ index'[k] = index[k] /\ ~\E i \in Survivors : recs[i].key = k
         \/ \E i \in 1..Len(recs) : index'[k] = recs[i] /\ recs[i].key = k
<1>. DEFINE at == {i \in Survivors : recs[i].key = k}
<1>1. index'[k] = IF at = {} THEN index[k] ELSE recs[Max(at)]
  BY DEF PromoteStaged
<1>2. at # {} => Max(at) \in 1..Len(recs) /\ recs[Max(at)].key = k
  <2>1. at = {i \in Survivors : recs[i].key = k}
    OBVIOUS
  <2>. HIDE DEF at
  <2>. QED  BY <2>1, LastSurvivor
<1>3. CASE at = {}
  BY <1>1, <1>3
<1>4. CASE at # {}
  <2>. HIDE DEF at
  <2>. QED  BY <1>1, <1>2, <1>4
<1>. QED  BY <1>3, <1>4

LEMMA PromoteStep ==
  ASSUME PackInv, PromoteStaged PROVE PackInv'
<1>1. UNCHANGED <<nShards, pack, blob, recs, cached, got>> /\ pc = "promote"
  BY DEF PromoteStaged, conf
<1>2. ReadsBack'
  BY <1>1 DEF PackInv, ReadsBack
<1>3. CASE Refused
  <2>1. UNCHANGED <<staging, index>> /\ pc' = "release"
    BY <1>3 DEF PromoteStaged
  <2>2. PackType'
    BY <1>1, <2>1 DEF PackInv, PackType
  <2>3. RowsTrue'
    BY <1>1, <2>1 DEF PackInv, RowsTrue
  <2>. QED  BY <1>2, <2>2, <2>3 DEF PackInv
<1>4. CASE ~Refused
  <2>1. pc' = "done" /\ staging' = staging \ PromotedKeys
    BY <1>4 DEF PromoteStaged
  <2>2. PackType'
    <3>1. index' = [k \in Key |-> index'[k]]
      BY <1>4 DEF PromoteStaged
    <3>. QED  BY <1>1, <2>1, <3>1 DEF PackInv, PackType
  <2>3. ASSUME NEW k \in Key, index'[k] # NoRow
        PROVE  index'[k].key = k /\ TrueRow(pack, nShards, blob, index'[k])
    <3>1. CASE index'[k] = index[k]
      BY <2>3, <3>1 DEF PackInv, RowsTrue
    <3>2. CASE \E i \in 1..Len(recs) : index'[k] = recs[i] /\ recs[i].key = k
      BY <3>2 DEF PackInv, RowsTrue
    <3>. QED  BY <1>4, <3>1, <3>2, Promoted
  <2>4. RowsTrue'
    BY <1>1, <2>1, <2>3 DEF PackInv, RowsTrue
  <2>. QED  BY <1>2, <2>2, <2>4 DEF PackInv
<1>. QED  BY <1>3, <1>4

LEMMA ReleaseStep ==
  ASSUME PackInv, StageRelease PROVE PackInv'
<1>1. /\ UNCHANGED <<nShards, pack, blob, staging, index, got>>
      /\ pc = "release" /\ pc' = "upload" /\ recs' = <<>>
  BY DEF StageRelease, conf
<1>2. PackType'
  BY <1>1 DEF PackInv, PackType
<1>3. RowsTrue'
  BY <1>1 DEF PackInv, RowsTrue
<1>4. ReadsBack'
  BY <1>1 DEF PackInv, ReadsBack
<1>. QED  BY <1>2, <1>3, <1>4 DEF PackInv

LEMMA DeleteStep ==
  ASSUME PackInv, NEW k \in Key, Delete(k) PROVE PackInv'
<1>1. /\ UNCHANGED <<nShards, pack, pc, blob, recs>> /\ got' = NoRow
      /\ staging' = staging \ {k} /\ index' = [index EXCEPT ![k] = NoRow]
  BY DEF Delete, conf
<1>2. PackType'
  BY <1>1 DEF PackInv, PackType
<1>3. \A j \in Key : index'[j] = NoRow \/ index'[j] = index[j]
  BY <1>1 DEF PackInv, PackType
<1>4. RowsTrue'
  BY <1>1, <1>3 DEF PackInv, RowsTrue
<1>5. ReadsBack'
  BY <1>1 DEF ReadsBack
<1>. QED  BY <1>2, <1>4, <1>5 DEF PackInv

\* A read changes nothing the rows depend on.
LEMMA ReadLeavesRows ==
  ASSUME PackInv, UNCHANGED <<conf, pack, pc, blob, recs, staging, index>>
  PROVE  PackType' /\ RowsTrue'
<1>1. UNCHANGED <<nShards, pack, pc, blob, recs, staging, index>>
  BY DEF conf
<1>2. PackType'
  BY <1>1 DEF PackInv, PackType
<1>3. RowsTrue'
  BY <1>1 DEF PackInv, RowsTrue
<1>. QED  BY <1>2, <1>3

LEMMA ReadQuiltPatchStep ==
  ASSUME PackInv, NEW k \in Key, ReadQuiltPatch(k) PROVE PackInv'
<1>1. PackType' /\ RowsTrue'
  BY ReadLeavesRows DEF ReadQuiltPatch
<1>2. pack[index[k].patch] = k
  BY DEF PackInv, RowsTrue, TrueRow, ReadQuiltPatch
<1>3. got' = <<k, Bytes[k]>>
  BY <1>2 DEF ReadQuiltPatch
<1>4. ReadsBack'
  BY <1>3 DEF ReadsBack
<1>. QED  BY <1>1, <1>4 DEF PackInv

LEMMA ReadRangeStep ==
  ASSUME PackInv, NEW k \in Key, ReadRange(k) PROVE PackInv'
<1>1. PackType' /\ RowsTrue'
  BY ReadLeavesRows DEF ReadRange
<1>. DEFINE row == index[k]
<1>2. row # NoRow /\ row.patch = NoPatch
  BY DEF ReadRange
<1>3. row.key = k /\ TrueRow(pack, nShards, blob, row) /\ pack \in Seq(Key)
  BY <1>2 DEF PackInv, RowsTrue, PackType
<1>. DEFINE read == \/ row.size = 0 /\ got' = <<k, <<>>>>
                    \/ got' = <<k, SliceBlob(blob, row.offset, row.size)>>
                    \/ got' = <<k, SubSeq(blob, row.offset + 1, row.offset + row.size)>>
<1>4. read
  BY DEF ReadRange, PartialBody
<1>. HIDE DEF row
<1>5. NoPatch \notin 1..Len(pack)
  BY <1>3 DEF NoPatch
<1>6. PICK i \in 1..Len(pack) : pack[i] = k /\ row.offset = Len(Buffers(pack)[i - 1])
  BY <1>2, <1>3, <1>5 DEF TrueRow
<1>7. blob = Concat(pack) /\ row.size = Len(Bytes[k])
  BY <1>2, <1>3, <1>5 DEF TrueRow
<1>8. /\ blob \in Seq(Nat) /\ row.offset \in Nat /\ row.size \in Nat
      /\ row.offset + row.size <= Len(blob)
      /\ SubSeq(blob, row.offset + 1, row.offset + row.size) = Bytes[k]
  BY <1>3, <1>6, <1>7, RangeIsBlock, ZenonT(40)
<1>9. SliceBlob(blob, row.offset, row.size) = Bytes[k]
  <2>1. ~(row.offset + row.size > Len(blob))
    <3>1. Len(blob) \in Nat
      BY <1>8
    <3>. QED  BY <1>8, <3>1
  <2>. QED  BY <1>8, <2>1 DEF SliceBlob
<1>10. row.size = 0 => Bytes[k] = <<>>
  <2>1. Bytes[k] \in Seq(Nat)
    OBVIOUS
  <2>. QED  BY <1>7, <2>1, EmptySeq
<1>11. got' = <<k, Bytes[k]>>
  BY <1>4, <1>8, <1>9, <1>10
<1>12. ReadsBack'
  BY <1>11 DEF ReadsBack
<1>. QED  BY <1>1, <1>12 DEF PackInv

\* Every step keeps the invariant.
LEMMA PackStep == PackInv /\ [Next]_vars => PackInv'
<1>. SUFFICES ASSUME PackInv, [Next]_vars PROVE PackInv'
  OBVIOUS
<1>1. CASE UNCHANGED vars
  <2>1. UNCHANGED <<nShards, pack, pc, blob, recs, staging, index, got>>
    BY <1>1 DEF vars, conf
  <2>2. PackType' /\ ReadsBack'
    BY <2>1 DEF PackInv, PackType, ReadsBack
  <2>3. RowsTrue'
    BY <2>1 DEF PackInv, RowsTrue
  <2>. QED  BY <2>2, <2>3 DEF PackInv
<1>2. CASE UploadSingleBlock
  BY <1>2, SingleStep
<1>3. CASE UploadConcatPack
  BY <1>3, ConcatStep
<1>4. CASE UploadQuiltPack
  BY <1>4, QuiltStep
<1>5. CASE UploadFails
  <2>1. pc = "upload" /\ pc' = "release" /\ UNCHANGED <<conf, pack, staging, index, cached, got, recs>>
    BY <1>5 DEF UploadFails
  <2>2. recs' = <<>>
    BY <2>1 DEF PackInv, RowsTrue
  <2>3. Len(recs') \in Nat /\ 1..Len(recs') = {}
    BY <2>2
  <2>. QED  BY <2>1, <2>3, Uploaded
<1>6. CASE PromoteStaged
  BY <1>6, PromoteStep
<1>7. CASE StageRelease
  BY <1>7, ReleaseStep
<1>8. ASSUME NEW k \in Key, Delete(k) PROVE PackInv'
  BY <1>8, DeleteStep
<1>9. ASSUME NEW k \in Key, ReadQuiltPatch(k) PROVE PackInv'
  BY <1>9, ReadQuiltPatchStep
<1>10. ASSUME NEW k \in Key, ReadRange(k) PROVE PackInv'
  BY <1>10, ReadRangeStep
<1>. QED  BY <1>1, <1>2, <1>3, <1>4, <1>5, <1>6, <1>7, <1>8, <1>9, <1>10 DEF Next

\* The invariant holds in every reachable state.
LEMMA PackInvariant == Spec => []PackInv
  BY PackInit, PackStep, PTL DEF Spec

-----------------------------------------------------------------------------
(* The theorems *)

\* A Get returns exactly the block's bytes, for any blocks, packs and chunks:
\* whether it was stored alone, as a range of a concatenated blob or as a member
\* of a quilt whose answer lists the members in any order, and whether the
\* aggregator serves the range, the whole blob, or the cache does (uploadPack,
\* ReadRange, sliceBlob, ReadQuiltPatch).
THEOREM PacksReadBack == Spec => []ReadsBack
<1>1. PackInv => ReadsBack
  BY DEF PackInv
<1>. QED  BY <1>1, PackInvariant, PTL

\* The row of a plain or a concatenated blob records what Walrus bills for it,
\* for any length and any committee, whether the publisher reports the figure or
\* EncodedBlobLength computes it.
THEOREM PacksBilledAlike == Spec => []BilledAlike
<1>1. PackInv => BilledAlike
  <2>. SUFFICES ASSUME PackInv, NEW k \in Key, index[k] # NoRow, index[k].patch = NoPatch
                PROVE  index[k].encoded = Billed(Len(blob))
    BY DEF BilledAlike
  <2>1. TrueRow(pack, nShards, blob, index[k]) /\ pack \in Seq(Key) /\ nShards \in Int
    BY DEF PackInv, RowsTrue, PackType
  <2>2. NoPatch \notin 1..Len(pack)
    BY <2>1 DEF NoPatch
  <2>3. blob = Concat(pack) /\ index[k].encoded = EncodedBlobLength(Len(blob), nShards)
    BY <2>1, <2>2 DEF TrueRow
  <2>4. Len(blob) \in Nat
    <3>1. Appended(pack, Len(pack), Buffers(pack)) /\ Len(pack) \in 0..Len(pack)
      BY <2>1, BuffersFacts
    <3>2. blob \in Seq(Nat)
      BY <2>3, <3>1 DEF Appended, Concat
    <3>. QED  BY <3>2
  <2>. QED  BY <2>1, <2>3, <2>4, EncodedIsBilled
<1>. QED  BY <1>1, PackInvariant, PTL

\* No flush loses a block, whatever the publisher leaves out of its answer: a key
\* leaves staging only in the transaction that inserts its index row, or by a
\* Delete (uploadQuiltPack, PromoteStaged).
THEOREM PacksLoseNone == Spec => NoneLost
<1>. DEFINE None == \A k \in staging \ staging' : index'[k] # NoRow \/ Delete(k)
<1>1. ASSUME PackInv, PromoteStaged PROVE None
  <2>. SUFFICES ASSUME NEW k \in staging, k \notin staging' PROVE index'[k] # NoRow
    OBVIOUS
  <2>1. ~Refused /\ k \in PromotedKeys /\ k \in Key
    BY <1>1 DEF PromoteStaged, PackInv, PackType
  <2>2. \E i \in Survivors : recs[i].key = k
    BY <2>1 DEF PromotedKeys, Survivors
  <2>3. PICK i \in 1..Len(recs) : index'[k] = recs[i]
    BY <1>1, <2>1, <2>2, Promoted
  <2>. QED  BY <1>1, <2>3 DEF PackInv, RowsTrue, TrueRow
<1>2. ASSUME UNCHANGED staging PROVE None
  BY <1>2
<1>3. ASSUME NEW k \in Key, Delete(k) PROVE None
  <2>1. \A j \in staging \ staging' : j = k
    BY <1>3 DEF Delete
  <2>. QED  BY <1>3, <2>1
<1>4. ASSUME PackInv, [Next]_vars PROVE [None]_vars
  <2>. HIDE DEF None
  <2>1. CASE UNCHANGED vars
    BY <2>1
  <2>2. CASE PromoteStaged
    BY <1>1, <1>4, <2>2
  <2>3. CASE \E k \in Key : Delete(k)
    BY <1>3, <2>3
  <2>4. CASE UploadSingleBlock \/ UploadConcatPack \/ UploadQuiltPack \/ UploadFails \/ StageRelease
    BY <1>2, <2>4
       DEF UploadSingleBlock, UploadConcatPack, UploadQuiltPack, UploadFails, StageRelease
  <2>5. CASE \E k \in Key : ReadQuiltPatch(k) \/ ReadRange(k)
    BY <1>2, <2>5 DEF ReadQuiltPatch, ReadRange
  <2>. QED  BY <1>4, <2>1, <2>2, <2>3, <2>4, <2>5 DEF Next
<1>. QED  BY <1>4, PackInvariant, PTL DEF Spec, NoneLost

\* EncodedStorageUnits: whole units cover an encoded size with less than one to
\* spare, for every size.
THEOREM UnitsCover ==
  ASSUME NEW e \in Nat, e > 0
  PROVE  LET units == EncodedStorageUnits(e)
         IN units * StorageUnitBytes >= e /\ (units - 1) * StorageUnitBytes < e
  BY DEF EncodedStorageUnits, StorageUnitBytes
=============================================================================
