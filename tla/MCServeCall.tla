---------------------------- MODULE MCServeCall ----------------------------
(* Instances of ServeCall for TLC: two sessions, of one call or of two.    *)
EXTENDS ServeCall, TLC

Perms == Permutations(Sessions)
=============================================================================
