----------------------------- MODULE MCShutdown -----------------------------
(* The instance of Shutdown for TLC: one call when the signal comes.        *)
EXTENDS Shutdown, TLC
=============================================================================
