---------------------------- MODULE MCDirectChat ----------------------------
(* DirectChat for TLC: three clients, which are alike. *)
EXTENDS DirectChat, TLC

CONSTANTS c1, c2, c3

MCClients == {c1, c2, c3}
Alike == Permutations(MCClients)
=============================================================================
