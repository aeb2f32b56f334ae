---------------------------- MODULE Qualification ----------------------------
(***************************************************************************)
(* What the pre-phase computes: ranking.Rank orders the results of a group *)
(* or of a whole round, the bundled plugin timed-heats-reseeding.lua       *)
(* reseeds the ranked groups into the groups of the next round or deals    *)
(* the ranked teams out to divisions.  The results of the running round    *)
(* come in one by one, corrections included; RoundLifecycle has the        *)
(* requests and tables around this.                                        *)
(***************************************************************************)
EXTENDS Integers, Sequences, SequencesExt, FiniteSets, Functions, TLC

CONSTANTS
    Team,         \* the teams of the tournament
    Result,       \* records of a time (NoTime for null) and a status ("" for none)
    FirstGroups,  \* the group lists round 1 may be created with
    CutLists,     \* the cuts organizers ask for: sequences of names and sizes
    MaxRounds     \* bound on round numbers

NoTime == -1
Status == {"", "DNF", "DSQ", "DNS"}

ASSUME QualificationAssumption ==
    /\ Result \subseteq [time : Nat \cup {NoTime}, status : Status]
    /\ FirstGroups \subseteq Seq(Seq(Team))
    /\ \A groups \in FirstGroups :
          /\ IsInjective(FlattenSeq(groups))
          /\ ToSet(FlattenSeq(groups)) = Team
    /\ CutLists \subseteq Seq([name : Nat, size : Int])
    /\ MaxRounds \in Nat \ {0}

VARIABLES
    number,    \* the number of the running round
    groups,    \* its groups, in table order
    results,   \* the results it has so far, per team
    divisions  \* the divisions that the request before was answered with, if it was for them

vars == <<number, groups, results, divisions>>

-----------------------------------------------------------------------------
(* ranking.Rank.                                                           *)

StatusOrder == [s \in Status |-> CASE s = "DNF" -> 1 [] s = "DSQ" -> 2
                                   [] s = "DNS" -> 3 [] OTHER -> 4]

HasTime(r) == r.time # NoTime

\* The comparison function: times before statuses, and a time decides whatever
\* status came with it.
Less(r, s) ==
    \/ HasTime(r) /\ HasTime(s) /\ r.time < s.time
    \/ HasTime(r) /\ ~HasTime(s)
    \/ ~HasTime(r) /\ ~HasTime(s) /\ StatusOrder[r.status] < StatusOrder[s.status]

\* Mistake: a sort that is not stable, each best team is swapped to the front.
RankSwapping(list, res) ==
    LET swapped[p \in 0..Len(list)] ==
            IF p = 0 THEN list
            ELSE LET s == swapped[p - 1]
                     best == CHOOSE i \in p..Len(list) : \A j \in p..Len(list) :
                                 /\ ~Less(res[s[j]], res[s[i]])
                                 /\ j < i => Less(res[s[i]], res[s[j]])
                 IN  [s EXCEPT ![p] = s[best], ![best] = s[p]]
    IN  swapped[Len(list)]

\* A stable sort: before a team come those with a better result and those with an
\* equal one that were before it in the input.
Before(list, res, i, j) ==
    \/ Less(res[list[i]], res[list[j]])
    \/ i < j /\ ~Less(res[list[j]], res[list[i]])

Place(list, res, i) == Cardinality({j \in DOMAIN list : Before(list, res, j, i)}) + 1

Rank(list, res) ==
    [p \in DOMAIN list |-> list[CHOOSE i \in DOMAIN list : Place(list, res, i) = p]]

-----------------------------------------------------------------------------
(* next_round_groups of the plugin.                                        *)

\* Mistake: the remainder is left over.
TierCut(group, k, j) ==
    LET size == Len(group) \div k IN SubSeq(group, j * size + 1, (j + 1) * size)

\* Tier j = 0 .. k-1 of a ranked group; the last one takes the remainder.
Tier(group, k, j) ==
    LET size == Len(group) \div k
    IN  SubSeq(group, j * size + 1, IF j = k - 1 THEN Len(group) ELSE (j + 1) * size)

\* Mistake: the same tier of every group, fast teams with fast ones.
NextRoundGroupsByStrength(ranked) ==
    LET k == Len(ranked)
    IN  [n \in 1..k |-> FlattenSeq([i \in 1..k |-> Tier(ranked[i], k, n - 1)])]

\* New group n takes from each old group another tier.
NextRoundGroups(ranked) ==
    LET k == Len(ranked)
    IN  [n \in 1..k |-> FlattenSeq([i \in 1..k |-> Tier(ranked[i], k, (n - 1 + i - 1) % k)])]

-----------------------------------------------------------------------------
(* division_cuts of the plugin.  Name 1 is "Final", name n is "Final n",   *)
(* 0 is any other name.                                                    *)

\* How many teams the first j cuts have dealt out of total.
Dealt(cuts, total) ==
    LET dealt[j \in 0..Len(cuts)] ==
            IF j = 0 THEN 0
            ELSE LET size == IF cuts[j].size < 0 THEN 0 ELSE cuts[j].size
                 IN  IF size < total - dealt[j - 1] THEN dealt[j - 1] + size ELSE total
    IN  dealt

\* "Final", or the first of "Final 2", "Final 3", ... that no cut has taken.
FreeName(used) ==
    CHOOSE n \in 1..(Cardinality(used) + 1) : n \notin used /\ \A m \in 1..(n - 1) : m \in used

\* Mistake: teams beyond the cut lines are dropped.
DivisionCutsOnly(ranked, cuts) ==
    LET dealt == Dealt(cuts, Len(ranked))
        reached == {j \in DOMAIN cuts : dealt[j - 1] < Len(ranked)}
    IN  [j \in reached |-> [name |-> cuts[j].name,
                            teams |-> SubSeq(ranked, dealt[j - 1] + 1, dealt[j])]]

\* Cuts are served in order until the teams run out; a rest gets a division of its own.
DivisionCuts(ranked, cuts) ==
    LET total == Len(ranked)
        dealt == Dealt(cuts, total)
        reached == {j \in DOMAIN cuts : dealt[j - 1] < total}
        served == [j \in reached |-> [name |-> cuts[j].name,
                                      teams |-> SubSeq(ranked, dealt[j - 1] + 1, dealt[j])]]
        used == {cuts[j].name : j \in reached}
    IN  IF dealt[Len(cuts)] = total THEN served
        ELSE Append(served, [name |-> FreeName(used),
                             teams |-> SubSeq(ranked, dealt[Len(cuts)] + 1, total)])

-----------------------------------------------------------------------------
Ranked(res) == [i \in DOMAIN groups |-> Rank(groups[i], res)]

Everybody == FlattenSeq(groups)

Finished == DOMAIN results = Team

Init ==
    /\ number = 1
    /\ groups \in FirstGroups
    /\ results = <<>>
    /\ divisions = <<>>

\* A result is submitted or corrected; the groups are not computed again.
Record(t, r) ==
    /\ results' = [u \in DOMAIN results \cup {t} |-> IF u = t THEN r ELSE results[u]]
    /\ divisions' = <<>>
    /\ UNCHANGED <<number, groups>>

\* /next: the groups are ranked one by one and handed to the plugin.
NextRound ==
    /\ Finished
    /\ number < MaxRounds
    /\ number' = number + 1
    /\ groups' = NextRoundGroups(Ranked(results))
    /\ results' = <<>>
    /\ divisions' = <<>>

\* /divisions: the whole round is ranked, in the order of the groups, and cut.
ComputeDivisions(cuts) ==
    /\ Finished
    /\ divisions' = DivisionCuts(Rank(Everybody, results), cuts)
    /\ UNCHANGED <<number, groups, results>>

Next ==
    \/ \E t \in Team, r \in Result : Record(t, r)
    \/ NextRound
    \/ \E cuts \in CutLists : ComputeDivisions(cuts)

Spec == Init /\ [][Next]_vars

-----------------------------------------------------------------------------
(* Correctness.                                                            *)

\* Types, and beyond them: round after round every team is in exactly one group and
\* once in it, whatever the sizes of the groups and their remainders.
TeamsConserved ==
    /\ number \in 1..MaxRounds
    /\ DOMAIN results \subseteq Team
    /\ IsInjective(Everybody) /\ ToSet(Everybody) = Team

\* Reseeding mixes: when every group has at least as many teams as there are groups,
\* two group winners never meet in the next round, two last ones neither, and the
\* winner of a group does not meet its last one again.
HeatsMixed ==
    [][number' # number /\ (\A i \in DOMAIN groups : Len(groups[i]) >= Len(groups)) =>
          \A i, j \in DOMAIN groups, n \in DOMAIN groups' : i # j =>
             LET old == Ranked(results)
                 together(t, u) == {t, u} \subseteq ToSet(groups'[n])
             IN  /\ ~together(Head(old[i]), Head(old[j]))
                 /\ ~together(Last(old[i]), Last(old[j]))
                 /\ ~together(Head(old[i]), Last(old[i]))]_vars

\* Cutting deals the ranking out: no team of a later division beat one of an earlier
\* division, and every team is dealt once.
CutsDealRankingOut ==
    [][divisions' # divisions /\ divisions' # <<>> =>
          LET dealt == FlattenSeq([d \in DOMAIN divisions' |-> divisions'[d].teams])
          IN  /\ IsInjective(dealt) /\ ToSet(dealt) = Team
              /\ \A i, j \in DOMAIN dealt : i < j => ~Less(results[dealt[j]], results[dealt[i]])]_vars

\* Correcting one team's result moves this team only: the others keep their order,
\* those with equal results too, so one correction cannot swap two other teams.
Above(list, t, u) == \E p, q \in DOMAIN list : p < q /\ list[p] = t /\ list[q] = u

StandingsKeepOrder ==
    [][Finished /\ number' = number /\ results' # results =>
          \E old \in {Rank(Everybody, results)}, new \in {Rank(Everybody, results')} :
             \A p, q \in DOMAIN old :
                p < q /\ results'[old[p]] = results[old[p]] /\ results'[old[q]] = results[old[q]] =>
                   Above(new, old[p], old[q])]_vars
=============================================================================
