------------------------ MODULE MCStagedIndexHistory ------------------------
(***************************************************************************)
(* Instances of StagedIndexHistory for TLC.                                *)
(***************************************************************************)
EXTENDS MCStagedIndex, StagedIndexHistory
=============================================================================
