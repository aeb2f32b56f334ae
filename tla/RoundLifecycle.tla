--------------------------- MODULE RoundLifecycle ---------------------------
(***************************************************************************)
(* The life of the rounds of one tournament: the SQLite tables             *)
(* pre_phase_rounds, groups, divisions, heats and heat_results, and the    *)
(* HTTP handlers that write them.  net/http runs every request in a        *)
(* goroutine of its own and nothing locks a handler, so a handler is       *)
(* interleaved with the others between two repository calls; a repository  *)
(* call is one SQL statement or one transaction and is atomic.             *)
(*                                                                         *)
(* A table is a sequence: the primary keys are AUTOINCREMENT, no row is    *)
(* ever deleted, so the k-th row inserted has key k.  0 stands for NULL.   *)
(* Reads of data that never changes (a heat's group, a group's teams, a    *)
(* round's number) are merged with the handler's next call.                *)
(***************************************************************************)
EXTENDS Integers, Sequences, SequencesExt, FiniteSets, Functions, TLC

CONSTANTS
    Name,            \* the team-ID strings a request body may carry
    Team,            \* those of them that are registered in this tournament
    Score,           \* what one result records: a time or DNF, DSQ, DNS
    Request,         \* the requests that may be in flight together
    Batch,           \* the result bodies that are submitted
    RequestedGroups, \* the group lists that organizers send to POST .../rounds
    PluginGroups,    \* what the plugin's next_round_groups may return
    PluginCuts,      \* what the plugin's division_cuts may return
    MaxRounds,       \* bound on round numbers
    MaxHeats,        \* bound on the heats an operator keeps sending results for
    MaxDivisions,    \* bound on the rows of the divisions table
    MaxFaults        \* bound on failed repository calls and restarts

ASSUME LifecycleAssumption ==
    /\ Team \subseteq Name
    /\ Batch \subseteq UNION {[S -> Score] : S \in SUBSET Name}
    /\ RequestedGroups \subseteq Seq(Seq(Name))
    /\ PluginGroups \subseteq Seq(Seq(Name))
    /\ PluginCuts \subseteq Seq(Seq(Name))
    /\ MaxRounds \in Nat /\ MaxHeats \in Nat /\ MaxDivisions \in Nat /\ MaxFaults \in Nat

VARIABLES
    rounds,     \* pre_phase_rounds: number and status
    groups,     \* groups: round and teams
    divisions,  \* divisions: round and teams
    heats,      \* heats with their heat_results: round, group or division,
                \* status, and a function from team ID to score
    req,        \* per request: its handler, the repository call it makes
                \* next, the key it works on, the results it has read
    faults      \* failed calls and restarts so far

vars == <<rounds, groups, divisions, heats, req, faults>>

Idle == [handler |-> "none", call |-> "none", id |-> 0, results |-> <<>>]

Scores == UNION {[S -> Score] : S \in SUBSET Name}

TypeOK ==
    /\ rounds \in Seq([number : Nat, status : {"open", "closed"}])
    /\ groups \in Seq([round : Nat, teams : Seq(Name)])
    /\ divisions \in Seq([round : Nat, teams : Seq(Name)])
    /\ heats \in Seq([round : Nat, group : Nat, division : Nat,
                      status : {"scheduled", "closed"}, results : Scores])
    /\ req \in [Request -> [handler : {"none", "submit", "next", "divisions"},
                            call : {"none", "ListHeatResults", "SetHeatStatus",
                                    "ListHeatsForRound", "SetStatus",
                                    "ListResultsForRound", "RoundExists",
                                    "CreateRound", "CreateDivisions"},
                            id : Nat, results : Scores]]
    /\ faults \in Nat

Init ==
    /\ rounds = <<>> /\ groups = <<>> /\ divisions = <<>> /\ heats = <<>>
    /\ req = [q \in Request |-> Idle]
    /\ faults = 0

-----------------------------------------------------------------------------
(* Reading the tables.                                                     *)

GroupsOf(rd) == {g \in DOMAIN groups : groups[g].round = rd}

GroupHeatsOf(rd) == {h \in DOMAIN heats : heats[h].round = rd /\ heats[h].group # 0}

IsGroupHeat(h) == heats[h].group # 0

TeamsOf(rd) == UNION {ToSet(groups[g].teams) : g \in GroupsOf(rd)}

\* The IDs whose results a heat waits for: its group's or division's teams.
ValidTeams(h) ==
    IF IsGroupHeat(h) THEN ToSet(groups[heats[h].group].teams)
                      ELSE ToSet(divisions[heats[h].division].teams)

\* Mistake: counting results instead of looking for every team's.
HeatCompleteByCount(h) ==
    Cardinality(DOMAIN heats[h].results) >= Cardinality(ValidTeams(h)) /\ ValidTeams(h) # {}

\* heatComplete; a group or division without teams is never complete.
HeatComplete(h) ==
    /\ ValidTeams(h) # {}
    /\ ValidTeams(h) \subseteq DOMAIN heats[h].results

\* Mistake: one closed heat is taken for all of them.
RoundCompleteAny(rd) == \E h \in GroupHeatsOf(rd) : heats[h].status = "closed"

\* roundComplete: only the round's own group heats count.
RoundComplete(rd) == \A h \in GroupHeatsOf(rd) : heats[h].status = "closed"

NumberTaken(n) == \E rd \in DOMAIN rounds : rounds[rd].number = n

\* What resultsByTeam may hold: every team with a result in some heat of the
\* round, division heats included; with several rows for a team the last row
\* read wins, and the query does not order its rows.
ResultMaps(rd) ==
    LET in == {h \in DOMAIN heats : heats[h].round = rd}
        known == UNION {DOMAIN heats[h].results : h \in in}
    IN  {f \in [known -> Score] :
            \A t \in known : \E h \in in : /\ t \in DOMAIN heats[h].results
                                           /\ f[t] = heats[h].results[t]}

\* buildStandingsEntry: the result under which each team of a group or division is
\* listed; a team without one is left out.
StandingsEntry(teams, results) == [t \in ToSet(teams) \cap DOMAIN results |-> results[t]]

\* How often each team occurs in a list of lists.
Census(lists) ==
    LET places == UNION {{i} \X DOMAIN lists[i] : i \in DOMAIN lists}
    IN  [t \in UNION {ToSet(lists[i]) : i \in DOMAIN lists} |->
            Cardinality({p \in places : lists[p[1]][p[2]] = t})]

Begin(q, handler, call, id) ==
    req' = [req EXCEPT ![q] = [handler |-> handler, call |-> call,
                               id |-> id, results |-> <<>>]]

Continue(q, call) == req' = [req EXCEPT ![q].call = call]

Respond(q) == req' = [req EXCEPT ![q] = Idle]

At(q, handler, call) == req[q].handler = handler /\ req[q].call = call

-----------------------------------------------------------------------------
(* Creating a round: one transaction that inserts the round and its groups *)
(* and that the unique index on (tournament, number) makes fail when the   *)
(* number is taken.                                                        *)

\* Mistake: no unique index.
InsertRoundAgain(n, lists) ==
    /\ rounds' = Append(rounds, [number |-> n, status |-> "open"])
    /\ groups' = groups \o [i \in DOMAIN lists |->
                               [round |-> Len(rounds) + 1, teams |-> lists[i]]]

InsertRound(n, lists) ==
    /\ ~NumberTaken(n)
    /\ rounds' = Append(rounds, [number |-> n, status |-> "open"])
    /\ groups' = groups \o [i \in DOMAIN lists |->
                               [round |-> Len(rounds) + 1, teams |-> lists[i]]]

CreateRound(n, lists) ==
    /\ n >= 1 /\ n <= MaxRounds
    /\ Len(lists) > 0
    /\ ToSet(FlattenSeq(lists)) \subseteq Team
    /\ IsInjective(FlattenSeq(lists))
    /\ InsertRound(n, lists)
    /\ UNCHANGED <<divisions, heats, req, faults>>

-----------------------------------------------------------------------------
(* Scheduling: all heats of the request in one transaction.                *)

\* Mistake: a round's status on a heat.
NewHeatOpen(rd, g, d) == [round |-> rd, group |-> g, division |-> d,
                          status |-> "open", results |-> <<>>]

NewHeat(rd, g, d) == [round |-> rd, group |-> g, division |-> d,
                      status |-> "scheduled", results |-> <<>>]

\* Mistake: a selection of the groups is let through.
CoversPart(rd, gs) == ToSet(gs) \subseteq GroupsOf(rd) /\ IsInjective(gs)

\* The handler lets through an assignment list that is as long as the round
\* has groups and repeats none of them.
CoversRound(rd, gs) ==
    /\ Len(gs) = Cardinality(GroupsOf(rd))
    /\ ToSet(gs) \subseteq GroupsOf(rd)
    /\ IsInjective(gs)

\* Mistake: no count of the group's heats before the insert.
InsertGroupHeatsAgain(rd, gs) ==
    heats' = heats \o [i \in DOMAIN gs |-> NewHeat(rd, gs[i], 0)]

InsertGroupHeats(rd, gs) ==
    /\ \A h \in DOMAIN heats : heats[h].group \notin ToSet(gs)
    /\ heats' = heats \o [i \in DOMAIN gs |-> NewHeat(rd, gs[i], 0)]

ScheduleRound(rd, gs) ==
    /\ rd \in DOMAIN rounds
    /\ CoversRound(rd, gs)
    /\ InsertGroupHeats(rd, gs)
    /\ UNCHANGED <<rounds, groups, divisions, req, faults>>

\* A division that is listed twice is found scheduled the second time.
InsertDivisionHeats(ds) ==
    /\ ToSet(ds) \subseteq DOMAIN divisions
    /\ IsInjective(ds)
    /\ \A h \in DOMAIN heats : heats[h].division \notin ToSet(ds)
    /\ heats' = heats \o [i \in DOMAIN ds |->
                             NewHeat(divisions[ds[i]].round, 0, ds[i])]

\* Any list of divisions may be scheduled, of different rounds too.
ScheduleDivisions(ds) ==
    /\ Len(ds) > 0
    /\ InsertDivisionHeats(ds)
    /\ UNCHANGED <<rounds, groups, divisions, req, faults>>

-----------------------------------------------------------------------------
(* POST .../heats/{heat_id}/results: the upsert, then the closing cascade, *)
(* each a call of its own.  The IDs in the body are not compared with the  *)
(* heat's teams and the statuses of heat and round are not looked at, so a *)
(* correction is accepted at any time.                                     *)

\* Mistake: the body replaces what was recorded.
Replace(batch, old) == batch

\* INSERT ... ON CONFLICT (heat_id, team_id) DO UPDATE, for every entry of the body.
Upsert(batch, old) ==
    [t \in DOMAIN batch \cup DOMAIN old |-> IF t \in DOMAIN batch THEN batch[t] ELSE old[t]]

SubmitHeatResults(q, h, batch) ==
    /\ req[q] = Idle
    /\ h \in DOMAIN heats
    /\ heats' = [heats EXCEPT ![h].results = Upsert(batch, @)]
    /\ Begin(q, "submit", "ListHeatResults", h)
    /\ UNCHANGED <<rounds, groups, divisions, faults>>

\* Mistake: the heat is closed by the first results.
CloseOnFirstResult(q) ==
    /\ At(q, "submit", "ListHeatResults")
    /\ Continue(q, "SetHeatStatus")
    /\ UNCHANGED <<rounds, groups, divisions, heats, faults>>

ListHeatResults(q) ==
    /\ At(q, "submit", "ListHeatResults")
    /\ IF HeatComplete(req[q].id) THEN Continue(q, "SetHeatStatus") ELSE Respond(q)
    /\ UNCHANGED <<rounds, groups, divisions, heats, faults>>

\* Mistake: the round's heats are read before this one is closed.
SetHeatStatusLate(q) ==
    /\ At(q, "submit", "SetHeatStatus")
    /\ heats' = [heats EXCEPT ![req[q].id].status = "closed"]
    /\ IF IsGroupHeat(req[q].id) /\ RoundComplete(heats[req[q].id].round)
       THEN Continue(q, "SetStatus") ELSE Respond(q)
    /\ UNCHANGED <<rounds, groups, divisions, faults>>

\* Mistake: a heat that is closed already ends the cascade.
SetHeatStatusOnce(q) ==
    /\ At(q, "submit", "SetHeatStatus")
    /\ heats' = [heats EXCEPT ![req[q].id].status = "closed"]
    /\ IF IsGroupHeat(req[q].id) /\ heats[req[q].id].status = "scheduled"
       THEN Continue(q, "ListHeatsForRound") ELSE Respond(q)
    /\ UNCHANGED <<rounds, groups, divisions, faults>>

SetHeatStatus(q) ==
    /\ At(q, "submit", "SetHeatStatus")
    /\ heats' = [heats EXCEPT ![req[q].id].status = "closed"]
    /\ IF IsGroupHeat(req[q].id) THEN Continue(q, "ListHeatsForRound") ELSE Respond(q)
    /\ UNCHANGED <<rounds, groups, divisions, faults>>

ListHeatsForRound(q) ==
    /\ At(q, "submit", "ListHeatsForRound")
    /\ IF RoundComplete(heats[req[q].id].round) THEN Continue(q, "SetStatus") ELSE Respond(q)
    /\ UNCHANGED <<rounds, groups, divisions, heats, faults>>

SetStatus(q) ==
    /\ At(q, "submit", "SetStatus")
    /\ rounds' = [rounds EXCEPT ![heats[req[q].id].round].status = "closed"]
    /\ Respond(q)
    /\ UNCHANGED <<groups, divisions, heats, faults>>

-----------------------------------------------------------------------------
(* What /next and /divisions share: only a closed round is read.           *)

\* Mistake: an open round is read.
LoadAnyRound(q, handler, rd) ==
    /\ req[q] = Idle
    /\ rd \in DOMAIN rounds
    /\ Begin(q, handler, "ListResultsForRound", rd)
    /\ UNCHANGED <<rounds, groups, divisions, heats, faults>>

LoadClosedRound(q, handler, rd) ==
    /\ req[q] = Idle
    /\ rd \in DOMAIN rounds
    /\ rounds[rd].status = "closed"
    /\ Begin(q, handler, "ListResultsForRound", rd)
    /\ UNCHANGED <<rounds, groups, divisions, heats, faults>>

NextRound(q, rd) == LoadClosedRound(q, "next", rd)

ComputeDivisions(q, rd) == LoadClosedRound(q, "divisions", rd)

ListResultsForRound(q) ==
    /\ req[q].call = "ListResultsForRound"
    /\ \E results \in ResultMaps(req[q].id) :
          req' = [req EXCEPT ![q].results = results,
                             ![q].call = IF req[q].handler = "next" THEN "RoundExists"
                                                                    ELSE "CreateDivisions"]
    /\ UNCHANGED <<rounds, groups, divisions, heats, faults>>

RoundExists(q) ==
    /\ At(q, "next", "RoundExists")
    /\ IF NumberTaken(rounds[req[q].id].number + 1) THEN Respond(q)
                                                    ELSE Continue(q, "CreateRound")
    /\ UNCHANGED <<rounds, groups, divisions, heats, faults>>

\* The groups a round hands to the plugin, in the order of their IDs.
ListGroups(rd) ==
    LET ids == GroupsOf(rd)
        nth(i) == CHOOSE g \in ids : Cardinality({k \in ids : k < g}) = i - 1
    IN  [i \in 1..Cardinality(ids) |-> groups[nth(i)].teams]

\* Mistake: the plugin's answer is trusted.
CreateNextRoundUnchecked(q) ==
    /\ At(q, "next", "CreateRound")
    /\ \E lists \in PluginGroups :
          /\ rounds[req[q].id].number < MaxRounds
          /\ InsertRound(rounds[req[q].id].number + 1, lists)
    /\ Respond(q)
    /\ UNCHANGED <<divisions, heats, faults>>

\* The plugin's answer is inserted when every team of the round occurs in it as
\* often as in the round, and nobody else does, and the number is still free.
CreateNextRound(q) ==
    /\ At(q, "next", "CreateRound")
    /\ LET rd == req[q].id
       IN  \/ \E lists \in PluginGroups :
                 /\ Census(lists) = Census(ListGroups(rd))
                 /\ rounds[rd].number < MaxRounds
                 /\ InsertRound(rounds[rd].number + 1, lists)
           \* plugin error or timeout, rejected answer, number taken meanwhile
           \/ UNCHANGED <<rounds, groups>>
    /\ Respond(q)
    /\ UNCHANGED <<divisions, heats, faults>>

InsertDivisions(rd, lists) ==
    divisions' = divisions \o [i \in DOMAIN lists |-> [round |-> rd, teams |-> lists[i]]]

\* What division_cuts returns is inserted unchecked, whether or not the round
\* has been cut before.
CreateDivisions(q) ==
    /\ At(q, "divisions", "CreateDivisions")
    /\ \/ \E lists \in PluginCuts : /\ Len(divisions) + Len(lists) <= MaxDivisions
                                   /\ InsertDivisions(req[q].id, lists)
       \/ UNCHANGED divisions   \* plugin error or timeout
    /\ Respond(q)
    /\ UNCHANGED <<rounds, groups, heats, faults>>

-----------------------------------------------------------------------------
(* A call that fails ends its handler with a 500 and writes nothing; a     *)
(* restart ends every handler.  The tables keep what was committed.        *)

CallFails(q) ==
    /\ req[q] # Idle
    /\ faults < MaxFaults
    /\ faults' = faults + 1
    /\ Respond(q)
    /\ UNCHANGED <<rounds, groups, divisions, heats>>

Restart ==
    /\ \E q \in Request : req[q] # Idle
    /\ faults < MaxFaults
    /\ faults' = faults + 1
    /\ req' = [q \in Request |-> Idle]
    /\ UNCHANGED <<rounds, groups, divisions, heats>>

-----------------------------------------------------------------------------
Lists(S) == UNION {[1..n -> S] : n \in 1..Cardinality(S)}

User ==
    \/ \E n \in 1..MaxRounds, lists \in RequestedGroups : CreateRound(n, lists)
    \/ \E rd \in DOMAIN rounds : \E gs \in Lists(GroupsOf(rd)) : ScheduleRound(rd, gs)
    \/ \E ds \in Lists(DOMAIN divisions) : ScheduleDivisions(ds)
    \/ \E q \in Request, h \in DOMAIN heats, batch \in Batch : SubmitHeatResults(q, h, batch)
    \/ \E q \in Request, rd \in DOMAIN rounds : NextRound(q, rd) \/ ComputeDivisions(q, rd)

Handler(q) ==
    \/ ListHeatResults(q) \/ SetHeatStatus(q) \/ ListHeatsForRound(q) \/ SetStatus(q)
    \/ ListResultsForRound(q) \/ RoundExists(q) \/ CreateNextRound(q) \/ CreateDivisions(q)

Fault == Restart \/ \E q \in Request : CallFails(q)

Next == User \/ Fault \/ \E q \in Request : Handler(q)

Spec == Init /\ [][Next]_vars

\* The Go scheduler and SQLite let a started handler run; nobody has to start one.
FairSpec == Spec /\ \A q \in Request : WF_vars(Handler(q))

-----------------------------------------------------------------------------
(* Correctness.                                                            *)

\* A closed round is finished: each of its groups has a heat that is closed, and
\* that heat has a result for every team of the group.  (The cascade closes a round
\* after reading its heats, and a heat after reading its results, in separate
\* statements of handlers that run side by side.)
ClosedRoundFinished ==
    \A rd \in DOMAIN rounds : rounds[rd].status = "closed" =>
        \A g \in GroupsOf(rd) : \E h \in DOMAIN heats :
            heats[h].group = g /\ heats[h].status = "closed" /\ HeatComplete(h)

\* Groups and heats, and divisions and heats, are 1:1 ("already scheduled" is a
\* count inside the scheduling transaction, the tables have no such constraint).
OneHeatEach ==
    \A h, k \in DOMAIN heats : h # k =>
        IF IsGroupHeat(h) THEN heats[h].group # heats[k].group
                          ELSE heats[h].division # heats[k].division

\* A round's heats are scheduled together: no group of the round is left out when
\* another one has its heat, so a complete set of heats is a complete round.
ScheduledTogether ==
    \A h \in DOMAIN heats : IsGroupHeat(h) =>
        \A g \in GroupsOf(heats[h].round) : \E k \in GroupHeatsOf(heats[h].round) : heats[k].group = g

\* What makes the cascade safe although it acts on what it read before: a heat is
\* closed only when it is complete, and a submission on its way to close a heat or
\* a round is right about it, and stays right while others run.
CascadeJustified ==
    /\ \A h \in DOMAIN heats : heats[h].status = "closed" => HeatComplete(h)
    /\ \A q \in Request : req[q].handler = "submit" =>
          /\ req[q].call = "SetHeatStatus" => HeatComplete(req[q].id)
          /\ req[q].call \in {"ListHeatsForRound", "SetStatus"} => IsGroupHeat(req[q].id)
          /\ req[q].call = "SetStatus" => RoundComplete(heats[req[q].id].round)

\* Without a failure nothing is forgotten: a complete heat that is still open, and a
\* round whose heats are all closed but which is open itself, has a submission in
\* flight that is about to find it so, whatever order the submissions ran in.
ClosureUnderWay ==
    faults = 0 =>
      /\ \A h \in DOMAIN heats : HeatComplete(h) /\ heats[h].status = "scheduled" =>
            \E q \in Request : /\ req[q].handler = "submit" /\ req[q].id = h
                              /\ req[q].call \in {"ListHeatResults", "SetHeatStatus"}
      /\ \A rd \in DOMAIN rounds :
            GroupHeatsOf(rd) # {} /\ RoundComplete(rd) /\ rounds[rd].status = "open" =>
            \E q \in Request : /\ req[q].handler = "submit"
                              /\ req[q].id \in GroupHeatsOf(rd)
                              /\ req[q].call \in {"ListHeatsForRound", "SetStatus"}

\* What /next and /divisions rank has a result for every team of the round: no team
\* is ever ranked on the zero value of a missing map entry.
RankingSeesEveryTeam ==
    \A q \in Request :
        req[q].call \in {"RoundExists", "CreateRound", "CreateDivisions"} =>
            TeamsOf(req[q].id) \subseteq DOMAIN req[q].results

\* However POST .../rounds and two /next of the same round interleave, a round
\* number is used once (RoundExists is checked long before the insert).
UniqueRoundNumbers ==
    \A r1, r2 \in DOMAIN rounds : rounds[r1].number = rounds[r2].number => r1 = r2

\* A round that /next creates has exactly the teams of the round it was made from.
NextKeepsTeams ==
    [][\A q \in Request :
          req[q].call = "CreateRound" /\ req'[q] # req[q] /\ rounds' # rounds =>
              TeamsOf(Len(rounds))' = TeamsOf(req[q].id)]_vars

\* Corrections, late submissions, restarts and a second scheduling never take
\* anything back: closed stays closed, a team that has a result keeps one.
NothingReopens ==
    [][/\ \A rd \in DOMAIN rounds : rounds[rd].status = "closed" => rounds'[rd].status = "closed"
       /\ \A h \in DOMAIN heats : /\ heats[h].status = "closed" => heats'[h].status = "closed"
                                 /\ DOMAIN heats[h].results \subseteq DOMAIN heats'[h].results]_vars

\* Every heat of the round has the results it waits for.
ResultsIn(rd) ==
    /\ rd \in DOMAIN rounds
    /\ GroupHeatsOf(rd) # {}
    /\ \A h \in GroupHeatsOf(rd) : HeatComplete(h)

Closed(rd) == rd \in DOMAIN rounds /\ rounds[rd].status = "closed"

\* Operators send some results for every heat again and again.
Persistence ==
    \A h \in 1..MaxHeats :
        \/ []<>(h \notin DOMAIN heats)
        \/ []<><<\E q \in Request, batch \in Batch : SubmitHeatResults(q, h, batch)>>_vars

\* After a failed call or a restart in the middle of the cascade, sending any results
\* body to the heats again, an empty one too, lets the round close.
ResubmissionHeals ==
    Persistence => \A rd \in 1..MaxRounds : ResultsIn(rd) ~> Closed(rd)

-----------------------------------------------------------------------------
(* The tables and handlers implement RoundPromise.                         *)

\* The teams of the round with a result in the heat of their own group.
Recorded(rd) ==
    {t \in TeamsOf(rd) : \E h \in GroupHeatsOf(rd) :
                            t \in ValidTeams(h) /\ t \in DOMAIN heats[h].results}

Promise == INSTANCE RoundPromise WITH
    plan <- [rd \in DOMAIN rounds |-> TeamsOf(rd)],
    have <- [rd \in DOMAIN rounds |-> Recorded(rd)],
    done <- {rd \in DOMAIN rounds : rounds[rd].status = "closed"}

\* Seen from the rounds alone, with failures, restarts, corrections and rounds whose
\* groups are empty: teams never lose a result, a round ends once and complete.
KeepsPromise == Promise!Spec

NoEmptyGroup == \A g \in DOMAIN groups : groups[g].teams # <<>>

\* And it does end: when no call fails and no group is empty, a round whose teams all
\* have their result is closed by the submissions that brought the results.
KeepsPromiseFairly == [](faults = 0 /\ NoEmptyGroup) => Promise!Fairness

-----------------------------------------------------------------------------
(* What documents say that the code does not do; violated.                 *)

\* Platform design, section 5: a division's "teams race together (one or more heats)
\* and are ranked by that result": its standings hold results of its own heat.
DivisionRankedByItsHeat ==
    \A d \in DOMAIN divisions : \A results \in ResultMaps(divisions[d].round) :
        LET entry == StandingsEntry(divisions[d].teams, results)
        IN  \A t \in DOMAIN entry : \E h \in DOMAIN heats :
               /\ heats[h].division = d
               /\ t \in DOMAIN heats[h].results
               /\ heats[h].results[t] = entry[t]
=============================================================================
