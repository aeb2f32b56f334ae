---------------------------- MODULE RoundPromise ----------------------------
(***************************************************************************)
(* What the backend promises about a round, without heats, requests or     *)
(* tables: a round is announced with its teams, the teams get results, and *)
(* the round finishes once, for good, when no team is missing.             *)
(***************************************************************************)
EXTENDS Integers, Sequences

CONSTANTS Name, MaxRounds

VARIABLES
    plan,   \* per round the teams that race in it
    have,   \* per round those of them that have a result
    done    \* the rounds that are over

vars == <<plan, have, done>>

Init == plan = <<>> /\ have = <<>> /\ done = {}

Announce(S) ==
    /\ plan' = Append(plan, S)
    /\ have' = Append(have, {})
    /\ UNCHANGED done

Record(rd, S) ==
    /\ rd \in DOMAIN plan
    /\ S \subseteq plan[rd]
    /\ have' = [have EXCEPT ![rd] = @ \cup S]
    /\ UNCHANGED <<plan, done>>

Finish(rd) ==
    /\ rd \in DOMAIN plan \ done
    /\ plan[rd] # {} /\ have[rd] = plan[rd]
    /\ done' = done \cup {rd}
    /\ UNCHANGED <<plan, have>>

Next == \/ \E S \in SUBSET Name : Announce(S)
        \/ \E rd \in DOMAIN plan : (\E S \in SUBSET Name : Record(rd, S)) \/ Finish(rd)

Spec == Init /\ [][Next]_vars

Fairness == \A rd \in 1..MaxRounds : WF_vars(Finish(rd))
=============================================================================
