--------------------------- MODULE MCModuleStream ---------------------------
(* Instances of ModuleStream for TLC.                                      *)
EXTENDS ModuleStream, TLC
=============================================================================
