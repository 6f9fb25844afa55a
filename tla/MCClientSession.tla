-------------------------- MODULE MCClientSession --------------------------
(* ClientSession for TLC: two clients, two names, one of them that of an   *)
(* account, and two virtual machines, the second not open to guests.       *)
EXTENDS ClientSession, TLC

CONSTANTS c1, c2, n1, n2, v1, v2

MCClients == {c1, c2}
MCNames == {n1, n2}
MCAccounts == {n2}
MCVms == {v1, v2}
MCGuestsDisallowed == {v2}

(* The clients are alike. *)
Alike == Permutations(MCClients)
=============================================================================
