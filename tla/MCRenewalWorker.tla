-------------------------- MODULE MCRenewalWorker --------------------------
(***************************************************************************)
(* Small instances of RenewalWorker.                                       *)
(***************************************************************************)
EXTENDS RenewalWorker, TLC

Symmetric == Permutations(Blob) \cup Permutations(Node)
=============================================================================
