--------------------------- MODULE MCPluginConfig ---------------------------
(***************************************************************************)
(* Small instances of PluginConfig.                                        *)
(***************************************************************************)
EXTENDS PluginConfig

\* Values of either sign; 600 is a request timeout of ten minutes.
SomeNumbers == {-1, 0, 1, 600}
=============================================================================
