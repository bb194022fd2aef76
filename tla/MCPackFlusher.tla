--------------------------- MODULE MCPackFlusher ---------------------------
(***************************************************************************)
(* Instances of PackFlusher for TLC: two blocks of which one is twice the  *)
(* other; together they exactly fill a pack of three units.                *)
(***************************************************************************)
EXTENDS PackFlusher

CONSTANTS k1, k2

SizeOf == [k \in Key |-> IF k = k1 THEN 1 ELSE 2]

\* No two blocks fit into one pack.
OnePerPack == [k \in Key |-> 2]
=============================================================================
