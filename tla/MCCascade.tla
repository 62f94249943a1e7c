----------------------------- MODULE MCCascade -----------------------------
(* Instances of Cascade for TLC.                                           *)
EXTENDS Cascade, TLC
=============================================================================
