--------------------------- MODULE MCPackFormats ---------------------------
(***************************************************************************)
(* Small instances of PackFormats.                                         *)
(***************************************************************************)
EXTENDS PackFormats

CONSTANTS k1, k2, k3, k4

\* Blocks of different sizes, an empty one too.
Blocks ==
    [k \in Key |-> CASE k = k1 -> <<1, 2>> [] k = k2 -> <<>> [] k = k3 -> <<3>> [] OTHER -> <<1, 2, 4, 5, 6, 7, 8, 9>>]

\* The example of encoding.go:27, for 1000 shards and for the default.
ASSUME DocumentedExample ==
    EncodedBlobLength(17, 1000) = 66034000 /\ EncodedBlobLength(17, 0) = 66034000

\* Units are whole and cover the encoded size with less than one to spare.
ASSUME WholeUnits ==
    \A e \in {1, 2, StorageUnitBytes - 1, StorageUnitBytes, StorageUnitBytes + 1, 66034000} :
      LET units == EncodedStorageUnits(e)
      IN units * StorageUnitBytes >= e /\ (units - 1) * StorageUnitBytes < e
=============================================================================
