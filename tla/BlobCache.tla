----------------------------- MODULE BlobCache -----------------------------
(***************************************************************************)
(* The byte-bounded LRU of whole bodies, and the two reads that use it     *)
(* (ReadRange by blob, ReadQuiltPatch by patch): look up, fetch on a miss, *)
(* add, and hand the caller a copy.  The lock covers a lookup and an add,  *)
(* never the fetch between them nor the copy after them, so two readers    *)
(* may miss the same key and both add it, and an entry may be replaced or  *)
(* evicted while a reader still copies from it.                            *)
(*                                                                         *)
(* A buffer is a Go slice: <<k, i>> is the i-th one made to hold the body  *)
(* of k.  A caller may overwrite the one it was given (Scribble).  The     *)
(* endpoints and their failures are in WalrusClient: here a fetch answers. *)
(***************************************************************************)
EXTENDS Integers, Sequences, FiniteSets, SequencesExt, FiniteSetsExt

CONSTANTS
    Reader, Key,
    Size,      \* bytes of each key's body
    MaxBytes   \* the budget; not positive: no cache

ASSUME CacheAssumption ==
    /\ IsFiniteSet(Reader)
    /\ Size \in [Key -> Nat]
    /\ MaxBytes \in Int

VARIABLES
    ll,        \* the list of keys, most recently used first
    data,      \* items: the buffer of each key in the list
    curBytes,
    dirty,     \* the buffers a caller has overwritten
    pc, key,   \* per reader: where it is, what it reads
    cur,       \* per reader: the buffer it copies from
    out        \* per reader: the buffer its caller was given

vars == <<ll, data, curBytes, dirty, pc, key, cur, out>>

Nil == <<>>

\* The buffers somebody refers to; the rest is the garbage collector's.
Live == {data[k] : k \in Key} \cup {cur[r] : r \in Reader} \cup {out[r] : r \in Reader}

\* make([]byte, n) for a body of k: a cached one and two per reader can be live.
Fresh(k) ==
    LET slot == 1..(1 + 2 * Cardinality(Reader))
    IN <<k, Min({i \in slot : <<k, i>> \notin Live})>>

\* Mutant: the cap is half of the budget.
HalfBudget == IF MaxBytes \div 2 > 0 THEN MaxBytes \div 2 ELSE MaxBytes

\* newBlobCache: a quarter of the budget per entry, all of a tiny one.
MaxEntrySize == IF MaxBytes \div 4 > 0 THEN MaxBytes \div 4 ELSE MaxBytes

\* Sums(s)[i]: the bytes of the first i entries of s.
Sums(s) ==
    LET sum[i \in 0..Len(s)] == IF i = 0 THEN 0 ELSE sum[i - 1] + Size[s[i]]
    IN sum

Bytes(s) == Sums(s)[Len(s)]

PushFront(k) == <<k>> \o ll

MoveToFront(k) == <<k>> \o RemoveAt(ll, CHOOSE i \in 1..Len(ll) : ll[i] = k)

-----------------------------------------------------------------------------
Get(r, k) ==
    /\ pc[r] = "idle"
    /\ key' = [key EXCEPT ![r] = k]
    /\ \/ /\ data[k] # Nil
          /\ ll' = MoveToFront(k)
          /\ cur' = [cur EXCEPT ![r] = data[k]]
          /\ pc' = [pc EXCEPT ![r] = "copy"]
       \/ /\ data[k] = Nil
          /\ pc' = [pc EXCEPT ![r] = "fetch"]
          /\ UNCHANGED <<ll, cur>>
    /\ UNCHANGED <<data, curBytes, dirty, out>>

\* 200: the whole body, to be added.
FetchWhole(r) ==
    /\ pc[r] = "fetch"
    /\ cur' = [cur EXCEPT ![r] = Fresh(key[r])]
    /\ pc' = [pc EXCEPT ![r] = "add"]
    /\ UNCHANGED <<ll, data, curBytes, dirty, key, out>>

\* 206 of a range read: part of the body, never cached, handed over as it is.
FetchPartial(r) ==
    /\ pc[r] = "fetch"
    /\ out' = [out EXCEPT ![r] = Fresh(key[r])]
    /\ pc' = [pc EXCEPT ![r] = "held"]
    /\ UNCHANGED <<ll, data, curBytes, dirty, key, cur>>

\* The eviction loop: drop from the back while the count, bytes at first, is over
\* the budget and an entry is left.
Kept(s, bytes) ==
    LET within(i) == bytes - (Bytes(s) - Sums(s)[i]) <= MaxBytes
    IN SubSeq(s, 1, Max({i \in 0..Len(s) : i = 0 \/ within(i)}))

\* Mutant: replacing an entry forgets to subtract the old body.
AddTwice(r) ==
    /\ pc[r] = "add"
    /\ pc' = [pc EXCEPT ![r] = "copy"]
    /\ IF MaxBytes > 0 /\ Size[key[r]] <= MaxEntrySize
       THEN LET s == IF data[key[r]] = Nil THEN PushFront(key[r]) ELSE MoveToFront(key[r])
                grown == curBytes + Size[key[r]]
            IN
            /\ ll' = Kept(s, grown)
            /\ data' = [k \in Key |-> IF ~Contains(ll', k) THEN Nil
                                      ELSE IF k = key[r] THEN cur[r] ELSE data[k]]
            /\ curBytes' = grown - (Bytes(s) - Bytes(ll'))
       ELSE UNCHANGED <<ll, data, curBytes>>
    /\ UNCHANGED <<dirty, key, cur, out>>

\* add: too large a body is left out; otherwise insert in front, or replace and
\* move to the front, and evict.  All under the lock.
Add(r) ==
    /\ pc[r] = "add"
    /\ pc' = [pc EXCEPT ![r] = "copy"]
    /\ IF MaxBytes > 0 /\ Size[key[r]] <= MaxEntrySize
       THEN LET new == data[key[r]] = Nil
                s == IF new THEN PushFront(key[r]) ELSE MoveToFront(key[r])
                grown == curBytes + Size[key[r]] - (IF new THEN 0 ELSE Size[key[r]])
            IN
            /\ ll' = Kept(s, grown)
            /\ data' = [k \in Key |-> IF ~Contains(ll', k) THEN Nil
                                      ELSE IF k = key[r] THEN cur[r] ELSE data[k]]
            /\ curBytes' = grown - (Bytes(s) - Bytes(ll'))
       ELSE UNCHANGED <<ll, data, curBytes>>
    /\ UNCHANGED <<dirty, key, cur, out>>

\* Mutant: the reader hands out the cached buffer itself.
CopyNothing(r) ==
    /\ pc[r] = "copy"
    /\ out' = [out EXCEPT ![r] = cur[r]]
    /\ cur' = [cur EXCEPT ![r] = Nil]
    /\ pc' = [pc EXCEPT ![r] = "held"]
    /\ UNCHANGED <<ll, data, curBytes, dirty, key>>

\* sliceBlob, and ReadQuiltPatch's make and copy: a buffer of the caller's own.
Copy(r) ==
    /\ pc[r] = "copy"
    /\ LET b == Fresh(key[r]) IN
         /\ out' = [out EXCEPT ![r] = b]
         /\ dirty' = IF cur[r] \in dirty THEN dirty \cup {b} ELSE dirty
    /\ cur' = [cur EXCEPT ![r] = Nil]
    /\ pc' = [pc EXCEPT ![r] = "held"]
    /\ UNCHANGED <<ll, data, curBytes, key>>

\* The caller overwrites the bytes it was given.
Scribble(r) ==
    /\ pc[r] = "held"
    /\ dirty' = dirty \cup {out[r]}
    /\ pc' = [pc EXCEPT ![r] = "dirty"]
    /\ UNCHANGED <<ll, data, curBytes, key, cur, out>>

\* The caller is done with them.
Release(r) ==
    /\ pc[r] \in {"held", "dirty"}
    /\ out' = [out EXCEPT ![r] = Nil]
    /\ pc' = [pc EXCEPT ![r] = "idle"]
    /\ UNCHANGED <<ll, data, curBytes, key, cur>>
    /\ dirty' = dirty \cap Live'

-----------------------------------------------------------------------------
Init ==
    /\ ll = <<>>
    /\ data = [k \in Key |-> Nil]
    /\ curBytes = 0
    /\ dirty = {}
    /\ pc = [r \in Reader |-> "idle"]
    /\ key \in [Reader -> Key]
    /\ cur = [r \in Reader |-> Nil]
    /\ out = [r \in Reader |-> Nil]

Next ==
    \E r \in Reader :
      \/ \E k \in Key : Get(r, k)
      \/ FetchWhole(r) \/ FetchPartial(r) \/ Add(r) \/ Copy(r) \/ Scribble(r) \/ Release(r)

Spec == Init /\ [][Next]_vars

-----------------------------------------------------------------------------
(* Properties *)

\* The list, the map and the byte count agree and stay within the budget,
\* whichever readers add, replace and evict the same keys at once.
Accounting ==
    /\ IsInjective(ll)
    /\ \A k \in Key : Contains(ll, k) <=> data[k] # Nil
    /\ curBytes = Bytes(ll)
    /\ curBytes <= Max({0, MaxBytes})

\* "Don't let one entry consume more than a quarter of the budget" (cache.go:35):
\* with a budget of four bytes or more, an add never evicts one of the three
\* entries used last before it.
AddKeepsRecent ==
    [][\A k \in Key :
         data[k] # Nil /\ data'[k] = Nil =>
           ~\E i \in 1..Len(ll) : i <= 3 /\ ll[i] = k]_vars

\* "It copies so callers can't mutate cached blob bytes" (client.go:475): what a
\* reader is given is its key's body, whatever earlier callers did to theirs and
\* whatever was replaced or evicted meanwhile.
ServesTheBody ==
    \A r \in Reader : pc[r] = "held" => out[r][1] = key[r] /\ out[r] \notin dirty
=============================================================================
