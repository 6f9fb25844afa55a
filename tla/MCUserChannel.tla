--------------------------- MODULE MCUserChannel ---------------------------
(* UserChannel for TLC: the ring buffer holds two messages and wraps.      *)
EXTENDS UserChannel

CONSTANTS u1, u2, u3, alice, bob, hello

MCUsers == {u1, u2, u3}
MCNames == {alice, bob}
MCTexts == {hello}
MCSymmetry == Permutations(MCUsers) \cup Permutations(MCNames)
=============================================================================
