---------------------------- MODULE MCBlobCache ----------------------------
(***************************************************************************)
(* Small instances of BlobCache.                                           *)
(***************************************************************************)
EXTENDS BlobCache, TLC

CONSTANTS k1, k2, k3, k4, k5, k6

\* For a budget of eight: k1 to k4 fill it, k5 is small, k6 is over the cap.
Sizes == [k \in Key |-> CASE k = k5 -> 1 [] k = k6 -> 3 [] OTHER -> 2]

Symmetric == Permutations(Reader) \cup Permutations({k1, k2, k3, k4})
=============================================================================
