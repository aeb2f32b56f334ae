----------------------------- MODULE MCLiveWatch -----------------------------
(* An instance of LiveWatch for TLC. *)
EXTENDS LiveWatch

CONSTANTS w1, q1, q2

MCWatcher == {w1}
MCRequest == {q1, q2}
=============================================================================
