--------------------------- MODULE MCCallControl ---------------------------
(* An instance of CallControl for TLC.                                     *)
EXTENDS CallControl, TLC
=============================================================================
