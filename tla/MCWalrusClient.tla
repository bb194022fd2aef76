--------------------------- MODULE MCWalrusClient ---------------------------
(***************************************************************************)
(* Small instances of WalrusClient.                                        *)
(***************************************************************************)
EXTENDS WalrusClient
=============================================================================
