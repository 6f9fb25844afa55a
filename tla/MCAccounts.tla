----------------------------- MODULE MCAccounts -----------------------------
(* Accounts for TLC.  An account can have a session and be given another,  *)
(* so that CreateSession and a change of password overlap.                 *)
EXTENDS Accounts, TLC

CONSTANTS n1, p1, p2, i1, s1, s2

OneName == {n1}
TwoPasswords == {p1, p2}
OneInvite == {i1}
TwoSessions == {s1, s2}

Interchangeable == Permutations(TwoPasswords) \cup Permutations(TwoSessions)
=============================================================================
