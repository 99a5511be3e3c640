---------------------------- MODULE MCTurnDriver ----------------------------
(* TurnDriver for TLC: small numbers stand for its constants. *)
EXTENDS TurnDriver
=============================================================================
