-------------------------- MODULE MCRoundLifecycle --------------------------
(* Instances of RoundLifecycle for TLC: two registered teams and a foreign ID. *)
EXTENDS RoundLifecycle

CONSTANTS a, b, x, s1, q1, q2

MCName == {a, b, x}
MCTeam == {a, b}
MCScore == {s1}
MCRequest == {q1, q2}

\* Result bodies: empty, one team each, a team of nobody.
MCBatch == {<<>>, a :> s1, b :> s1, x :> s1}
\* Whole results, and a correction of one of them.
MCFullBatch == {(a :> s1) @@ (b :> s1)}

\* Two groups of one, one group of two, a repeated and an unknown team.
MCGroups == {<<<<a>>, <<b>>>>, <<<<a, b>>>>, <<<<a, a>>>>, <<<<x>>>>}
\* A group without teams beside one with.
MCEmptyGroup == {<<<<a>>, <<>>>>}
\* One proper list and a repeated team.
MCFewGroups == {<<<<a>>, <<b>>>>, <<<<a, a>>>>}
MCAllGroups == MCGroups \cup MCEmptyGroup

\* Answers that conserve the teams and answers that drop, add or repeat one.
MCPlugin == {<<<<a>>, <<b>>>>, <<<<b, a>>>>, <<<<a>>>>, <<<<a>>, <<b>>, <<b>>>>}
MCCuts == {<<<<b, a>>>>}

Perms == Permutations(MCRequest)
=============================================================================
