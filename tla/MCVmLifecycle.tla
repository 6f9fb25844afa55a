--------------------------- MODULE MCVmLifecycle ---------------------------
(* VmLifecycle for TLC: a client and room for the one that replaces it. *)
EXTENDS VmLifecycle

CONSTANTS c1, c2

MCClients == {c1, c2}
=============================================================================
