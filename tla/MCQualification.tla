-------------------------- MODULE MCQualification --------------------------
(* An instance of Qualification for TLC: four teams. *)
EXTENDS Qualification

CONSTANTS a, b, c, d

MCTeam == {a, b, c, d}

\* Two times, one of them with a status, and two statuses without a time.
MCResults == {[time |-> 1, status |-> ""], [time |-> 2, status |-> "DNF"],
              [time |-> NoTime, status |-> "DSQ"], [time |-> NoTime, status |-> "DNS"]}

\* Two pairs, two uneven groups, one without teams, and three that are smaller
\* than three.
MCGroups == {<<<<a, b>>, <<c, d>>>>, <<<<a, b, c>>, <<d>>>>, <<<<a, b, c, d>>, <<>>>>,
             <<<<a, b>>, <<c>>, <<d>>>>}

\* Cuts that fall short of the last team and pass it, an empty and a negative one,
\* and names in the way of the name of the rest.
MCCuts == {<<[name |-> 2, size |-> 1], [name |-> 1, size |-> 1]>>,
           <<[name |-> 1, size |-> 0], [name |-> 0, size |-> 9], [name |-> 2, size |-> 1]>>,
           <<[name |-> 0, size |-> -1], [name |-> 2, size |-> 3]>>}
=============================================================================
