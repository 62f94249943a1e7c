----------------------------- MODULE MCSession -----------------------------
(* Instances of Session for TLC: two goroutines (a responder and the one   *)
(* that clears on barge-in) on a queue of one or two frames.               *)
EXTENDS Session, FiniteSets, TLC

Perms == Permutations(Senders)
=============================================================================
