------------------------------ MODULE MCVmInfo ------------------------------
(* VmInfo for TLC: two machines, which are alike. *)
EXTENDS VmInfo, TLC

CONSTANTS v1, v2

MCVms == {v1, v2}
=============================================================================
