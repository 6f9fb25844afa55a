--------------------------- MODULE MCClientTurns ---------------------------
(* ClientTurns for TLC: two clients and two virtual machines. *)
EXTENDS ClientTurns, TLC

CONSTANTS c1, c2, v1, v2

MCClients == {c1, c2}
MCVms == {v1, v2}
Alike == Permutations(MCClients) \cup Permutations(MCVms)
=============================================================================
