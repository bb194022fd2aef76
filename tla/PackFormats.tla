---------------------------- MODULE PackFormats ----------------------------
(***************************************************************************)
(* From a claimed pack to index rows and back to bytes: the three formats  *)
(* of uploadPack (one blob, a concatenated blob with byte ranges, a quilt  *)
(* with patches), the publisher's answer, the encoded size recorded for it,*)
(* the rows PromoteStaged inserts in chunks, and the ways a Get reads a    *)
(* row back.                                                               *)
(*                                                                         *)
(* External: the publisher stores the bytes it is sent, and a pair of      *)
(* identifier and patch in its answer is a true one; but it may list the   *)
(* members in any order, leave some out, repeat some, list a member nobody *)
(* sent or give no patch.  Identifiers are positions in the pack; patch i  *)
(* of the quilt is the member at position i.                               *)
(***************************************************************************)
EXTENDS EncodedSize, Sequences, FiniteSets, SequencesExt, FiniteSetsExt

CONSTANTS
    Key,
    Bytes,    \* per key: its block, a sequence of bytes
    MaxPack,  \* most blocks in a pack
    Chunk,    \* putManyChunk: rows per INSERT
    Committee \* the shard counts tried

ASSUME PackAssumption ==
    /\ Bytes \in [Key -> Seq(Nat)]
    /\ MaxPack \in Nat \ {0} /\ Chunk \in Nat \ {0}
    /\ Committee \subseteq Int

VARIABLES
    disableQuilt, nShards,
    pack,      \* flushOnePack's entries: the keys, in order
    pc,
    blob,      \* the bytes of the blob stored for the pack
    recs,      \* uploadPack's rows
    staging,   \* the keys staged
    index,     \* the index rows: key -> row, or NoRow
    cached,    \* the blob is in the client's cache
    got        \* the last Get: its key and bytes

conf == <<disableQuilt, nShards>>
vars == <<conf, pack, pc, blob, recs, staging, index, cached, got>>

NoRow == <<>>
NoPatch == 0
Positions == 1..Len(pack)

\* A row: the patch of a quilt member, or the byte range of a blob; and the encoded
\* size of the whole blob.
Row(k, patch, offset, encoded) ==
    [key |-> k, patch |-> patch, offset |-> offset, size |-> Len(Bytes[k]), encoded |-> encoded]

\* Buffers(s)[i]: the buffer once the first i blocks of s are appended.
Buffers(s) ==
    LET buf[i \in 0..Len(s)] == IF i = 0 THEN <<>> ELSE buf[i - 1] \o Bytes[s[i]]
    IN buf

Concat(s) == Buffers(s)[Len(s)]

-----------------------------------------------------------------------------
(* The encoded size of a row *)

\* External: what Walrus bills for a blob: replicated metadata, and slivers of the
\* least even symbol size whose source symbols hold the blob.
Billed(length) ==
    LET n == Shards(nShards)
        fits(s) == s % 2 = 0 /\ PrimarySymbols(n) * SecondarySymbols(n) * s >= length
        least == CHOOSE s \in 2..(length + 2) : fits(s) /\ \A t \in 2..(s - 1) : ~fits(t)
    IN n * (64 * n + 32) + n * (PrimarySymbols(n) + SecondarySymbols(n)) * least

\* External: the size in a publisher's answer: a new blob's; none if the blob was
\* certified before.
Reported(length) == {Billed(length), 0}

\* encodedSize: the publisher's figure, or the one computed here.
RecordedSize(reported, unencoded) ==
    IF reported > 0 THEN reported ELSE EncodedBlobLength(unencoded, nShards)

-----------------------------------------------------------------------------
(* uploadPack *)

UploadSingleBlock ==
    /\ pc = "upload" /\ Len(pack) = 1
    /\ blob' = Bytes[pack[1]]
    /\ \E reported \in Reported(Len(blob')) :
         recs' = <<Row(pack[1], NoPatch, 0, RecordedSize(reported, Len(blob')))>>
    /\ pc' = "promote"
    /\ UNCHANGED <<conf, pack, staging, index, cached, got>>

\* The running offset: the bytes appended before block i.
OffsetOf(i) == Len(Buffers(pack)[i - 1])

UploadConcatPack ==
    /\ pc = "upload" /\ Len(pack) > 1 /\ disableQuilt
    /\ blob' = Concat(pack)
    /\ \E reported \in Reported(Len(blob')) :
         recs' = [i \in Positions |->
                    Row(pack[i], NoPatch, OffsetOf(i), RecordedSize(reported, Len(blob')))]
    /\ pc' = "promote"
    /\ UNCHANGED <<conf, pack, staging, index, cached, got>>

\* What a publisher may answer to a quilt: pairs of identifier and patch.
\* Identifier 0 is nobody's.
Answers ==
    LET pair == {<<i, i>> : i \in Positions} \cup {<<1, NoPatch>>, <<0, 1>>}
    IN UNION {[1..n -> pair] : n \in 0..Len(pack)}

\* External: what a quilt adds to its members' bytes, some positive number.
Framing == 3

\* Mutant: rows are matched by position, not by identifier.
QuiltRowByPosition(answer, i, encoded) == Row(pack[i], answer[i][2], 0, encoded)

\* keyByID and sizeByID: the row of the member the publisher named.
QuiltRow(answer, i, encoded) == Row(pack[answer[i][1]], answer[i][2], 0, encoded)

\* parseQuiltStoreResponse and the loop over its patches: as many as blocks, each
\* with a patch and a known identifier.
Acceptable(answer) ==
    /\ Len(answer) = Len(pack)
    /\ \A i \in 1..Len(answer) : answer[i][2] # NoPatch /\ answer[i][1] \in Positions

UploadQuiltPack ==
    /\ pc = "upload" /\ Len(pack) > 1 /\ ~disableQuilt
    /\ blob' = Concat(pack)
    /\ \E answer \in Answers, reported \in Reported(Len(blob') + Framing) :
         IF Acceptable(answer)
         THEN /\ LET encoded == RecordedSize(reported, Len(blob'))
                 IN recs' = [i \in 1..Len(answer) |-> QuiltRow(answer, i, encoded)]
              /\ pc' = "promote"
         ELSE /\ pc' = "release"
              /\ UNCHANGED recs
    /\ UNCHANGED <<conf, pack, staging, index, cached, got>>

\* The upload fails.
UploadFails ==
    /\ pc = "upload"
    /\ pc' = "release"
    /\ UNCHANGED <<conf, pack, blob, recs, staging, index, cached, got>>

-----------------------------------------------------------------------------
(* PromoteStaged and StageRelease *)

\* DELETE ... RETURNING: the rows whose key is still staged.
Survivors == {i \in 1..Len(recs) : recs[i].key \in staging}

\* The INSERT a surviving row goes into.
ChunkOf(i) == Cardinality({j \in Survivors : j < i}) \div Chunk

\* External: Postgres refuses an INSERT ... ON CONFLICT that names a key twice.
Refused ==
    \E i, j \in Survivors : i # j /\ recs[i].key = recs[j].key /\ ChunkOf(i) = ChunkOf(j)

\* Mutant: every key of the pack is deleted from staging.
PromotedKeysOfPack == {pack[i] : i \in Positions}

\* keys: the keys of the rows uploadPack returned.
PromotedKeys == {recs[i].key : i \in 1..Len(recs)}

\* The DELETE, the INSERTs for the survivors (the last one of a key wins), the
\* commit.
PromoteStaged ==
    /\ pc = "promote"
    /\ IF Refused
       THEN /\ pc' = "release"
            /\ UNCHANGED <<staging, index>>
       ELSE /\ staging' = staging \ PromotedKeys
            /\ index' = [k \in Key |->
                 LET at == {i \in Survivors : recs[i].key = k}
                 IN IF at = {} THEN index[k] ELSE recs[Max(at)]]
            /\ pc' = "done"
    /\ UNCHANGED <<conf, pack, blob, recs, cached, got>>

\* The pack is given back; a later claim uploads it again.
StageRelease ==
    /\ pc = "release"
    /\ pc' = "upload"
    /\ recs' = <<>>
    /\ UNCHANGED <<conf, pack, blob, staging, index, cached, got>>

\* A Delete of a key while its pack is under way.
Delete(k) ==
    /\ k \in staging \/ index[k] # NoRow
    /\ staging' = staging \ {k}
    /\ index' = [index EXCEPT ![k] = NoRow]
    /\ got' = NoRow
    /\ UNCHANGED <<conf, pack, pc, blob, recs, cached>>

-----------------------------------------------------------------------------
(* Get of an indexed row *)

\* full[offset:offset+length], clamped.
SliceBlob(full, offset, length) ==
    SubSeq(full, offset + 1, IF offset + length > Len(full) THEN Len(full) ELSE offset + length)

\* External: the body of a 206 is the range asked for.
PartialBody(row) == SubSeq(blob, row.offset + 1, row.offset + row.size)

ReadQuiltPatch(k) ==
    /\ index[k] # NoRow /\ index[k].patch # NoPatch
    /\ got' = <<k, Bytes[pack[index[k].patch]]>>
    /\ UNCHANGED <<conf, pack, pc, blob, recs, staging, index, cached>>

\* ReadRange: nothing to fetch for an empty block; a cached blob; the range; or
\* the whole blob from an aggregator that ignores Range, which is then cached.
ReadRange(k) ==
    /\ index[k] # NoRow /\ index[k].patch = NoPatch
    /\ LET row == index[k] IN
       \/ row.size = 0 /\ got' = <<k, <<>>>> /\ UNCHANGED cached
       \/ row.size > 0 /\ cached /\ got' = <<k, SliceBlob(blob, row.offset, row.size)>> /\ UNCHANGED cached
       \/ /\ row.size > 0 /\ ~cached /\ Len(PartialBody(row)) = row.size
          /\ got' = <<k, PartialBody(row)>>
          /\ UNCHANGED cached
       \/ /\ row.size > 0 /\ ~cached
          /\ got' = <<k, SliceBlob(blob, row.offset, row.size)>>
          /\ cached' = TRUE
    /\ UNCHANGED <<conf, pack, pc, blob, recs, staging, index>>

-----------------------------------------------------------------------------
Init ==
    /\ disableQuilt \in BOOLEAN /\ nShards \in Committee
    /\ pack \in {s \in UNION {[1..n -> Key] : n \in 1..MaxPack} : IsInjective(s)}
    /\ pc = "upload"
    /\ blob = <<>>
    /\ recs = <<>>
    /\ staging = ToSet(pack)
    /\ index = [k \in Key |-> NoRow]
    /\ cached = FALSE
    /\ got = NoRow

Next ==
    \/ UploadSingleBlock \/ UploadConcatPack \/ UploadQuiltPack \/ UploadFails
    \/ PromoteStaged \/ StageRelease
    \/ \E k \in Key : Delete(k) \/ ReadQuiltPatch(k) \/ ReadRange(k)

Spec == Init /\ [][Next]_vars

-----------------------------------------------------------------------------
(* Properties *)

\* Whatever the format, the order and the faults of the publisher's answer, and
\* the way the aggregator serves it, a Get returns exactly the block's bytes.
ReadsBack == got # NoRow => got[2] = Bytes[got[1]]

\* An answer that leaves a member out never loses its block: a key leaves staging
\* only for an index row or by a Delete.
NoneLost ==
    [][\A k \in staging \ staging' : index'[k] # NoRow \/ Delete(k)]_vars

\* "total is the blob's exact unencoded length, so the fallback is exact here too"
\* (walrus.go:831): whether the publisher reports a size or leaves it out, at every
\* committee size and remainder, the row of a plain or a concatenated blob records
\* what Walrus bills for it.  (A quilt's fallback is approximate by design.)
BilledAlike ==
    \A k \in Key :
      index[k] # NoRow /\ index[k].patch = NoPatch => index[k].encoded = Billed(Len(blob))

\* "flushOnePack uploads one claimed pack and promotes its members from staging to
\* the index, releasing the claim on failure" (walrus.go:676): a pack flushed
\* without error leaves none of its keys in staging.
\* A documented claim the code does not keep.
FlushedMeansPromoted == pc = "done" => staging \cap ToSet(pack) = {}
=============================================================================
