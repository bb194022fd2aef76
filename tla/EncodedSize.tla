---------------------------- MODULE EncodedSize ----------------------------
(***************************************************************************)
(* EncodedBlobLength and EncodedStorageUnits: the figures Walrus bills,    *)
(* computed locally for answers that carry none.                           *)
(***************************************************************************)
EXTENDS Integers

DefaultNShards == 1000

StorageUnitBytes == 1048576

\* A shard count that is not positive stands for the default.
Shards(n) == IF n <= 0 THEN DefaultNShards ELSE n

MaxFaulty(n) == (n - 1) \div 3
PrimarySymbols(n) == n - 2 * MaxFaulty(n)
SecondarySymbols(n) == n - MaxFaulty(n)

\* Mutant: rounding down.
SymbolSizeRoundedDown(u, n) ==
    LET s == u \div (PrimarySymbols(n) * SecondarySymbols(n))
    IN IF s = 0 THEN 2 ELSE IF s % 2 = 1 THEN s + 1 ELSE s

SymbolSize(u, n) ==
    LET s == (u - 1) \div (PrimarySymbols(n) * SecondarySymbols(n)) + 1
    IN IF s % 2 = 1 THEN s + 1 ELSE s

EncodedBlobLength(unencodedLength, nShards) ==
    LET n == Shards(nShards)
        u == IF unencodedLength < 1 THEN 1 ELSE unencodedLength
        sliverSize == (PrimarySymbols(n) + SecondarySymbols(n)) * SymbolSize(u, n) * n
        metadata == n * 32 * 2 + 32
    IN n * metadata + sliverSize

EncodedStorageUnits(encoded) ==
    IF encoded <= 0 THEN 0 ELSE (encoded + StorageUnitBytes - 1) \div StorageUnitBytes
=============================================================================
