----------------------------- MODULE MCStartup -----------------------------
(* An instance of Startup for TLC: two processes on one database. *)
EXTENDS Startup

CONSTANTS p1, p2

MCProcess == {p1, p2}
=============================================================================
