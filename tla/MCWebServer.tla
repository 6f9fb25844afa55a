---------------------------- MODULE MCWebServer ----------------------------
(* WebServer for TLC: two connections from one address, which may have one. *)
EXTENDS WebServer

CONSTANTS s1, s2

MCSockets == {s1, s2}
=============================================================================
