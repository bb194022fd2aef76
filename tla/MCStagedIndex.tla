--------------------------- MODULE MCStagedIndex ---------------------------
(***************************************************************************)
(* Instances of StagedIndex for TLC: keys k1 and k2 hold v1 and v2 (keys   *)
(* are content-addressed).                                                 *)
(***************************************************************************)
EXTENDS StagedIndex, TLC

CONSTANTS k1, k2, v1, v2

\* The batch that Puts the keys of S and Deletes those of D.
Write(S, D) ==
    [put |-> [k \in Key |-> IF k \notin S THEN NoValue ELSE IF k = k1 THEN v1 ELSE v2],
     del |-> D]

\* Puts and Deletes of one key.
OneKeyBatches == {Write({k1}, {}), Write({}, {k1})}

\* A Commit of two Puts, a Commit that Puts k2 and Deletes k1.
CommitBatches == {Write({k1, k2}, {}), Write({k2}, {k1})}

SlotSymmetry ==
    Permutations(Flusher) \cup Permutations(Client) \cup Permutations(Reader)
=============================================================================
