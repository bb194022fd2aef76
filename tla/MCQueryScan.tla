---------------------------- MODULE MCQueryScan ----------------------------
(***************************************************************************)
(* Instances of QueryScan for TLC.                                         *)
(***************************************************************************)
EXTENDS QueryScan, MCStagedIndex

\* k1 is overwritten with a value of another size.
OverwriteBatches ==
    {Write({k1}, {}), [put |-> [k \in Key |-> IF k = k1 THEN v2 ELSE NoValue], del |-> {}]}
=============================================================================
