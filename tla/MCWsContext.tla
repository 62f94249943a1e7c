---------------------------- MODULE MCWsContext ----------------------------
(* Instances of WsContext for TLC.                                         *)
EXTENDS WsContext, TLC
=============================================================================
