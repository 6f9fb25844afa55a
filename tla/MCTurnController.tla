-------------------------- MODULE MCTurnController --------------------------
(* TurnController for TLC: three clients, turns of one or two ticks (none  *)
(* while disabled).                                                        *)
EXTENDS TurnController

CONSTANTS u1, u2, u3

MCUsers == {u1, u2, u3}
MCTurnTimes == {0, 1, 2}
=============================================================================
