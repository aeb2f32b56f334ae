---------------------------- MODULE MCWebSession ----------------------------
(* Instances of WebSession for TLC. *)
EXTENDS WebSession

CONSTANTS organizer, spectator, q1, q2

MCAccounts == {organizer, spectator}
MCOrganizers == {organizer}
MCTwoRequests == {q1, q2}
=============================================================================
