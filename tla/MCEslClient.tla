---------------------------- MODULE MCEslClient ----------------------------
(* Instances of EslClient for TLC.                                         *)
EXTENDS EslClient, TLC

Perms == Permutations(Callers)
=============================================================================
