-------------------------- MODULE MCVoteController --------------------------
(* VoteController for TLC: three users of one channel. *)
EXTENDS VoteController

CONSTANTS u1, u2, u3

MCUsers == {u1, u2, u3}
=============================================================================
