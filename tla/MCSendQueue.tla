---------------------------- MODULE MCSendQueue ----------------------------
(* SendQueue for TLC: two kinds of messages, batches of none, one and two. *)
EXTENDS SendQueue

CONSTANTS m1, m2

MCMessages == {m1, m2}
MCBatches == {<< >>, <<m1>>, <<m1, m2>>}
=============================================================================
