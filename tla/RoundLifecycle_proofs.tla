----------------------- MODULE RoundLifecycle_proofs -----------------------
(* RoundLifecycle for every set of names, requests and bodies: types, that *)
(* a round is closed only when it is finished and for good, that rounds    *)
(* and heats are made once each with the teams they should have, and that  *)
(* the tables and handlers implement RoundPromise.                         *)
EXTENDS RoundLifecycle, FiniteSetTheorems, TLAPS

\* An upsert is again a function from team IDs to scores, and keeps every team.
LEMMA UpsertType ==
    ASSUME NEW f \in Scores, NEW g \in Scores
    PROVE  Upsert(f, g) \in Scores /\ DOMAIN g \subseteq DOMAIN Upsert(f, g)
<1>1. PICK S \in SUBSET Name : f \in [S -> Score]
  BY DEF Scores
<1>2. PICK T \in SUBSET Name : g \in [T -> Score]
  BY DEF Scores
<1>3. Upsert(f, g) \in [S \cup T -> Score]
  BY <1>1, <1>2 DEF Upsert
<1>. QED
  BY <1>2, <1>3 DEF Scores

\* A heat without results is well typed.
LEMMA EmptyScores == <<>> \in Scores
<1>1. <<>> \in [{} -> Score]
  OBVIOUS
<1>. QED
  BY <1>1 DEF Scores

RoundRow == [number : Nat, status : {"open", "closed"}]
ListRow == [round : Nat, teams : Seq(Name)]
HeatRow == [round : Nat, group : Nat, division : Nat,
            status : {"scheduled", "closed"}, results : Scores]
Calls == {"none", "ListHeatResults", "SetHeatStatus", "ListHeatsForRound", "SetStatus",
          "ListResultsForRound", "RoundExists", "CreateRound", "CreateDivisions"}
Locals == [handler : {"none", "submit", "next", "divisions"}, call : Calls,
           id : Nat, results : Scores]

\* Every key that is in use names a row: a heat's round and group or division, the
\* heat or round a handler works on.
TableKeysOK ==
    /\ \A g \in DOMAIN groups : groups[g].round \in DOMAIN rounds
    /\ \A d \in DOMAIN divisions : divisions[d].round \in DOMAIN rounds
    /\ \A h \in DOMAIN heats :
          /\ heats[h].round \in DOMAIN rounds
          /\ \/ heats[h].group \in DOMAIN groups /\ groups[heats[h].group].round = heats[h].round
             \/ heats[h].group = 0 /\ heats[h].division \in DOMAIN divisions

RequestKeysOK ==
    \A q \in Request :
          /\ req[q].handler = "submit" => req[q].id \in DOMAIN heats
          /\ req[q].handler \in {"next", "divisions"} => req[q].id \in DOMAIN rounds
          /\ req[q].call = "ListResultsForRound" => req[q].handler \in {"next", "divisions"}

KeysOK == TableKeysOK /\ RequestKeysOK

TypeInv == TypeOK /\ KeysOK

\* The empty database of a new tournament satisfies the type invariant.
LEMMA InitType == Init => TypeInv
  BY EmptyScores DEF Init, TypeInv, TypeOK, KeysOK, TableKeysOK, RequestKeysOK, Idle

\* Inserting rows at the end of a table: the old rows keep key and contents, the new
\* ones get the keys after them.
LEMMA InsertRows ==
    ASSUME NEW S, NEW s \in Seq(S), NEW f \in Seq(S)
    PROVE  /\ s \o f \in Seq(S)
           /\ \A i \in DOMAIN s : i \in DOMAIN (s \o f) /\ (s \o f)[i] = s[i]
           /\ \A i \in DOMAIN f : /\ Len(s) + i \in DOMAIN (s \o f) \ DOMAIN s
                                 /\ (s \o f)[Len(s) + i] = f[i]
           /\ \A k \in DOMAIN (s \o f) \ DOMAIN s :
                 \E i \in DOMAIN f : k = Len(s) + i /\ (s \o f)[k] = f[i]
<1>1. /\ s \o f \in Seq(S)
      /\ DOMAIN s = 1..Len(s) /\ Len(s) \in Nat /\ DOMAIN f = 1..Len(f) /\ Len(f) \in Nat
      /\ DOMAIN (s \o f) = 1..(Len(s) + Len(f))
      /\ \A i \in DOMAIN s : i \in DOMAIN (s \o f) /\ (s \o f)[i] = s[i]
      /\ \A i \in DOMAIN f : Len(s) + i \in DOMAIN (s \o f) /\ (s \o f)[Len(s) + i] = f[i]
      /\ \A k \in DOMAIN (s \o f) \ DOMAIN s :
            k - Len(s) \in DOMAIN f /\ (s \o f)[k] = f[k - Len(s)]
  OBVIOUS
<1>2. ASSUME NEW k \in DOMAIN (s \o f) \ DOMAIN s
      PROVE  \E i \in DOMAIN f : k = Len(s) + i /\ (s \o f)[k] = f[i]
  <2>1. k = Len(s) + (k - Len(s))
    BY <1>1
  <2>. QED  BY <1>1, <2>1
<1>3. \A i \in DOMAIN f : Len(s) + i \notin DOMAIN s
  BY <1>1
<1>. QED
  BY <1>1, <1>2, <1>3

\* The keys of a table of n rows are 1 to n.
LEMMA SeqDomain ==
    ASSUME NEW S, NEW s \in Seq(S)
    PROVE  Len(s) \in Nat /\ DOMAIN s = 1..Len(s)
  OBVIOUS

\* Rows computed per position of a request list form a sequence.
LEMMA FunctionIsSeq ==
    ASSUME NEW S, NEW n \in Nat, NEW f \in [1..n -> S]
    PROVE  f \in Seq(S) /\ DOMAIN f = 1..n
  OBVIOUS

\* The new rows of the groups and divisions tables.
Listed(rd, lists) == [i \in DOMAIN lists |-> [round |-> rd, teams |-> lists[i]]]

\* Inserting one row per group or division keeps the old rows and gives all new ones
\* the round they are inserted for.
LEMMA InsertLists ==
    ASSUME NEW table \in Seq(ListRow), NEW rd \in Nat, NEW lists \in Seq(Seq(Name))
    PROVE  /\ table \o Listed(rd, lists) \in Seq(ListRow)
           /\ \A g \in DOMAIN table : /\ g \in DOMAIN (table \o Listed(rd, lists))
                                     /\ (table \o Listed(rd, lists))[g] = table[g]
           /\ \A g \in DOMAIN (table \o Listed(rd, lists)) \ DOMAIN table :
                 (table \o Listed(rd, lists))[g].round = rd
<1>1. Len(lists) \in Nat /\ DOMAIN lists = 1..Len(lists)
  BY SeqDomain
<1>2. Listed(rd, lists) \in [1..Len(lists) -> ListRow]
  <2>1. \A i \in 1..Len(lists) : lists[i] \in Seq(Name)
    OBVIOUS
  <2>2. \A i \in 1..Len(lists) : [round |-> rd, teams |-> lists[i]] \in ListRow
    BY <2>1 DEF ListRow
  <2>. QED  BY <1>1, <2>2 DEF Listed
<1>3. Listed(rd, lists) \in Seq(ListRow) /\ DOMAIN Listed(rd, lists) = DOMAIN lists
  BY <1>1, <1>2, FunctionIsSeq
<1>4. \A i \in DOMAIN lists : Listed(rd, lists)[i].round = rd
  BY DEF Listed
<1>5. /\ table \o Listed(rd, lists) \in Seq(ListRow)
      /\ \A g \in DOMAIN table : /\ g \in DOMAIN (table \o Listed(rd, lists))
                                /\ (table \o Listed(rd, lists))[g] = table[g]
      /\ \A g \in DOMAIN (table \o Listed(rd, lists)) \ DOMAIN table :
            \E i \in DOMAIN Listed(rd, lists) :
                (table \o Listed(rd, lists))[g] = Listed(rd, lists)[i]
  <2>. DEFINE new == Listed(rd, lists)
  <2>1. new \in Seq(ListRow)
    BY <1>3
  <2>. HIDE DEF new
  <2>2. /\ table \o new \in Seq(ListRow)
        /\ \A g \in DOMAIN table : g \in DOMAIN (table \o new) /\ (table \o new)[g] = table[g]
        /\ \A g \in DOMAIN (table \o new) \ DOMAIN table :
              \E i \in DOMAIN new : (table \o new)[g] = new[i]
    BY <2>1, InsertRows
  <2>. QED  BY <2>2, Zenon DEF new
<1>. QED
  BY <1>3, <1>4, <1>5

\* CreateRound's transaction adds one open round and the groups that name it.
LEMMA InsertRoundRows ==
    ASSUME TypeInv, NEW n \in Nat, NEW lists \in Seq(Seq(Name)), InsertRound(n, lists)
    PROVE  /\ rounds' \in Seq(RoundRow)
           /\ groups' \in Seq(ListRow)
           /\ DOMAIN rounds' = DOMAIN rounds \cup {Len(rounds) + 1}
           /\ Len(rounds) + 1 \notin DOMAIN rounds
           /\ \A rd \in DOMAIN rounds : rounds'[rd] = rounds[rd]
           /\ rounds'[Len(rounds) + 1].status = "open"
           /\ \A g \in DOMAIN groups : g \in DOMAIN groups' /\ groups'[g] = groups[g]
           /\ \A g \in DOMAIN groups' \ DOMAIN groups : groups'[g].round = Len(rounds) + 1
<1>1. rounds \in Seq(RoundRow) /\ groups \in Seq(ListRow)
  BY DEF TypeInv, TypeOK, RoundRow, ListRow
<1>2. /\ rounds' = Append(rounds, [number |-> n, status |-> "open"])
      /\ groups' = groups \o Listed(Len(rounds) + 1, lists)
  BY DEF InsertRound, Listed
<1>3. [number |-> n, status |-> "open"] \in RoundRow
  BY DEF RoundRow
<1>4. /\ rounds' \in Seq(RoundRow)
      /\ DOMAIN rounds' = DOMAIN rounds \cup {Len(rounds) + 1}
      /\ Len(rounds) + 1 \notin DOMAIN rounds
      /\ \A rd \in DOMAIN rounds : rounds'[rd] = rounds[rd]
      /\ rounds'[Len(rounds) + 1].status = "open"
      /\ Len(rounds) + 1 \in Nat
  BY <1>1, <1>2, <1>3
<1>5. /\ groups \o Listed(Len(rounds) + 1, lists) \in Seq(ListRow)
      /\ \A g \in DOMAIN groups :
            /\ g \in DOMAIN (groups \o Listed(Len(rounds) + 1, lists))
            /\ (groups \o Listed(Len(rounds) + 1, lists))[g] = groups[g]
      /\ \A g \in DOMAIN (groups \o Listed(Len(rounds) + 1, lists)) \ DOMAIN groups :
            (groups \o Listed(Len(rounds) + 1, lists))[g].round = Len(rounds) + 1
  BY <1>1, <1>4, InsertLists
<1>. QED
  BY <1>2, <1>4, <1>5

\* /divisions adds rows for the round it was asked about only.
LEMMA CreateDivisionsRows ==
    ASSUME TypeInv, NEW rd \in DOMAIN rounds, NEW lists \in Seq(Seq(Name)),
           divisions' = divisions \o Listed(rd, lists)
    PROVE  /\ divisions' \in Seq(ListRow)
           /\ \A d \in DOMAIN divisions : d \in DOMAIN divisions' /\ divisions'[d] = divisions[d]
           /\ \A d \in DOMAIN divisions' \ DOMAIN divisions : divisions'[d].round = rd
<1>1. divisions \in Seq(ListRow) /\ rd \in Nat
  BY DEF TypeInv, TypeOK, ListRow
<1>2. /\ divisions \o Listed(rd, lists) \in Seq(ListRow)
      /\ \A d \in DOMAIN divisions : /\ d \in DOMAIN (divisions \o Listed(rd, lists))
                                    /\ (divisions \o Listed(rd, lists))[d] = divisions[d]
      /\ \A d \in DOMAIN (divisions \o Listed(rd, lists)) \ DOMAIN divisions :
            (divisions \o Listed(rd, lists))[d].round = rd
  BY <1>1, InsertLists
<1>. QED
  BY <1>2

\* A scheduling request is a non-empty list over the keys it may name.
LEMMA ListsType ==
    ASSUME NEW S, IsFiniteSet(S), NEW s \in Lists(S)
    PROVE  s \in Seq(S) /\ DOMAIN s = 1..Len(s) /\ Len(s) \in Nat \ {0}
<1>1. Cardinality(S) \in Nat
  BY FS_CardinalityType
<1>2. PICK n \in 1..Cardinality(S) : s \in [1..n -> S]
  BY DEF Lists
<1>3. n \in Nat \ {0}
  BY <1>1, <1>2
<1>. QED
  BY <1>2, <1>3

\* A round has finitely many groups, all in the table.
LEMMA GroupsFinite ==
    ASSUME TypeInv, NEW rd
    PROVE  IsFiniteSet(GroupsOf(rd)) /\ GroupsOf(rd) \subseteq DOMAIN groups
<1>1. DOMAIN groups = 1..Len(groups) /\ Len(groups) \in Nat
  BY DEF TypeInv, TypeOK
<1>2. IsFiniteSet(DOMAIN groups)
  BY <1>1, FS_Interval
<1>. QED
  BY <1>2, FS_Subset DEF GroupsOf

\* The divisions table is finite.
LEMMA DivisionsFinite ==
    ASSUME TypeInv
    PROVE  IsFiniteSet(DOMAIN divisions)
<1>1. DOMAIN divisions = 1..Len(divisions) /\ Len(divisions) \in Nat
  BY DEF TypeInv, TypeOK
<1>. QED
  BY <1>1, FS_Interval

\* No row has key 0, which stands for NULL.
LEMMA GroupKeys ==
    ASSUME TypeInv
    PROVE  DOMAIN groups \subseteq Nat \ {0} /\ DOMAIN divisions \subseteq Nat \ {0}
           /\ DOMAIN rounds \subseteq Nat \ {0} /\ DOMAIN heats \subseteq Nat \ {0}
<1>1. \A S, s : s \in Seq(S) => DOMAIN s \subseteq Nat \ {0}
  <2>. SUFFICES ASSUME NEW S, NEW s \in Seq(S)
                PROVE  DOMAIN s \subseteq Nat \ {0}
    OBVIOUS
  <2>1. DOMAIN s = 1..Len(s) /\ Len(s) \in Nat
    OBVIOUS
  <2>. QED  BY <2>1
<1>2. DOMAIN groups \subseteq Nat \ {0}
  BY <1>1, Zenon DEF TypeInv, TypeOK
<1>3. DOMAIN divisions \subseteq Nat \ {0}
  BY <1>1, Zenon DEF TypeInv, TypeOK
<1>4. DOMAIN rounds \subseteq Nat \ {0}
  BY <1>1, Zenon DEF TypeInv, TypeOK
<1>5. DOMAIN heats \subseteq Nat \ {0}
  BY <1>1, Zenon DEF TypeInv, TypeOK
<1>. QED  BY <1>2, <1>3, <1>4, <1>5

\* What scheduling does to the heats table.
LEMMA InsertHeats ==
    ASSUME TypeInv, NEW f \in Seq(HeatRow), heats' = heats \o f
    PROVE  /\ heats' \in Seq(HeatRow)
           /\ \A h \in DOMAIN heats : h \in DOMAIN heats' /\ heats'[h] = heats[h]
           /\ \A i \in DOMAIN f : /\ Len(heats) + i \in DOMAIN heats' \ DOMAIN heats
                                 /\ heats'[Len(heats) + i] = f[i]
           /\ \A k \in DOMAIN heats' \ DOMAIN heats :
                 \E i \in DOMAIN f : k = Len(heats) + i /\ heats'[k] = f[i]
<1>1. heats \in Seq(HeatRow)
  BY DEF TypeInv, TypeOK, HeatRow
<1>2. /\ heats \o f \in Seq(HeatRow)
      /\ \A h \in DOMAIN heats : h \in DOMAIN (heats \o f) /\ (heats \o f)[h] = heats[h]
      /\ \A i \in DOMAIN f : /\ Len(heats) + i \in DOMAIN (heats \o f) \ DOMAIN heats
                            /\ (heats \o f)[Len(heats) + i] = f[i]
      /\ \A k \in DOMAIN (heats \o f) \ DOMAIN heats :
            \E i \in DOMAIN f : k = Len(heats) + i /\ (heats \o f)[k] = f[i]
  BY <1>1, InsertRows
<1>. QED
  BY <1>2

\* ScheduleGroupHeats adds one scheduled heat per group of the request, in its order.
LEMMA ScheduleRoundRows ==
    ASSUME TypeInv, NEW rd \in DOMAIN rounds, NEW gs \in Lists(GroupsOf(rd)),
           ScheduleRound(rd, gs)
    PROVE  /\ heats' \in Seq(HeatRow)
           /\ \A h \in DOMAIN heats : h \in DOMAIN heats' /\ heats'[h] = heats[h]
           /\ \A i \in DOMAIN gs : /\ gs[i] \in GroupsOf(rd)
                                  /\ Len(heats) + i \in DOMAIN heats' \ DOMAIN heats
                                  /\ heats'[Len(heats) + i] = NewHeat(rd, gs[i], 0)
           /\ \A k \in DOMAIN heats' \ DOMAIN heats :
                 \E i \in DOMAIN gs : k = Len(heats) + i /\ heats'[k] = NewHeat(rd, gs[i], 0)
<1>. DEFINE f == [i \in DOMAIN gs |-> NewHeat(rd, gs[i], 0)]
<1>1. /\ DOMAIN gs = 1..Len(gs) /\ Len(gs) \in Nat
      /\ \A i \in DOMAIN gs : gs[i] \in GroupsOf(rd) /\ gs[i] \in Nat
  BY ListsType, GroupsFinite, GroupKeys
<1>2. \A i \in DOMAIN gs : NewHeat(rd, gs[i], 0) \in HeatRow
  BY <1>1, GroupKeys, EmptyScores DEF NewHeat, HeatRow
<1>3. f \in [1..Len(gs) -> HeatRow] /\ \A i \in DOMAIN gs : f[i] = NewHeat(rd, gs[i], 0)
  BY <1>1, <1>2
<1>4. heats' = heats \o f
  BY DEF ScheduleRound, InsertGroupHeats
<1>. HIDE DEF f
<1>5. f \in Seq(HeatRow) /\ DOMAIN f = DOMAIN gs
  BY <1>1, <1>3
<1>6. /\ heats' \in Seq(HeatRow)
      /\ \A h \in DOMAIN heats : h \in DOMAIN heats' /\ heats'[h] = heats[h]
      /\ \A i \in DOMAIN f : /\ Len(heats) + i \in DOMAIN heats' \ DOMAIN heats
                            /\ heats'[Len(heats) + i] = f[i]
      /\ \A k \in DOMAIN heats' \ DOMAIN heats :
            \E i \in DOMAIN f : k = Len(heats) + i /\ heats'[k] = f[i]
  BY <1>4, <1>5, InsertHeats
<1>. QED
  BY <1>1, <1>3, <1>5, <1>6

\* ScheduleDivisionHeats adds one scheduled heat per division of the request, for the
\* division's own round.
LEMMA ScheduleDivisionsRows ==
    ASSUME TypeInv, NEW ds \in Lists(DOMAIN divisions), ScheduleDivisions(ds)
    PROVE  /\ heats' \in Seq(HeatRow)
           /\ \A h \in DOMAIN heats : h \in DOMAIN heats' /\ heats'[h] = heats[h]
           /\ \A k \in DOMAIN heats' \ DOMAIN heats :
                 \E i \in DOMAIN ds : /\ k = Len(heats) + i /\ ds[i] \in DOMAIN divisions
                                     /\ heats'[k] = NewHeat(divisions[ds[i]].round, 0, ds[i])
<1>. DEFINE f == [i \in DOMAIN ds |-> NewHeat(divisions[ds[i]].round, 0, ds[i])]
<1>1. /\ DOMAIN ds = 1..Len(ds) /\ Len(ds) \in Nat
      /\ \A i \in DOMAIN ds : ds[i] \in DOMAIN divisions /\ ds[i] \in Nat
  BY ListsType, DivisionsFinite, GroupKeys
<1>2. \A i \in DOMAIN ds : divisions[ds[i]].round \in Nat
  <2>1. divisions \in Seq(ListRow)
    BY DEF TypeInv, TypeOK, ListRow
  <2>2. \A d \in DOMAIN divisions : divisions[d] \in ListRow
    BY <2>1
  <2>. QED  BY <1>1, <2>2 DEF ListRow
<1>3. \A i \in DOMAIN ds : NewHeat(divisions[ds[i]].round, 0, ds[i]) \in HeatRow
  BY <1>1, <1>2, EmptyScores DEF NewHeat, HeatRow
<1>4. /\ f \in [1..Len(ds) -> HeatRow]
      /\ \A i \in DOMAIN ds : f[i] = NewHeat(divisions[ds[i]].round, 0, ds[i])
  BY <1>1, <1>3
<1>5. heats' = heats \o f
  BY DEF ScheduleDivisions, InsertDivisionHeats
<1>. HIDE DEF f
<1>6. f \in Seq(HeatRow) /\ DOMAIN f = DOMAIN ds
  BY <1>1, <1>4
<1>7. /\ heats' \in Seq(HeatRow)
      /\ \A h \in DOMAIN heats : h \in DOMAIN heats' /\ heats'[h] = heats[h]
      /\ \A i \in DOMAIN f : /\ Len(heats) + i \in DOMAIN heats' \ DOMAIN heats
                            /\ heats'[Len(heats) + i] = f[i]
      /\ \A k \in DOMAIN heats' \ DOMAIN heats :
            \E i \in DOMAIN f : k = Len(heats) + i /\ heats'[k] = f[i]
  BY <1>5, <1>6, InsertHeats
<1>. QED
  BY <1>1, <1>4, <1>6, <1>7

\* The type invariant in terms of the row types.
LEMMA Typed ==
    ASSUME TypeInv
    PROVE  /\ rounds \in Seq(RoundRow) /\ groups \in Seq(ListRow)
           /\ divisions \in Seq(ListRow) /\ heats \in Seq(HeatRow)
           /\ req \in [Request -> Locals] /\ faults \in Nat
  BY DEF TypeInv, TypeOK, RoundRow, ListRow, HeatRow, Locals, Calls

\* Whatever /next or /divisions reads about a round is a function from names to scores.
LEMMA ResultMapsType ==
    ASSUME TypeInv, NEW rd, NEW f \in ResultMaps(rd)
    PROVE  f \in Scores
<1>. DEFINE in == {h \in DOMAIN heats : heats[h].round = rd}
            known == UNION {DOMAIN heats[h].results : h \in in}
<1>1. \A h \in DOMAIN heats : DOMAIN heats[h].results \subseteq Name
  <2>1. \A h \in DOMAIN heats : heats[h] \in HeatRow
    BY Typed
  <2>. QED  BY <2>1 DEF HeatRow, Scores
<1>2. known \subseteq Name
  BY <1>1
<1>3. f \in [known -> Score]
  BY DEF ResultMaps
<1>. QED
  BY <1>2, <1>3 DEF Scores

\* A step that only moves one request on to another call keeps the types and keys.
LEMMA MoveOn ==
    ASSUME TypeInv, NEW q \in Request, NEW l \in Locals,
           req' = [req EXCEPT ![q] = l], UNCHANGED <<rounds, groups, divisions, heats>>,
           faults' \in Nat,
           l.handler = "submit" => l.id \in DOMAIN heats,
           l.handler \in {"next", "divisions"} => l.id \in DOMAIN rounds,
           l.call = "ListResultsForRound" => l.handler \in {"next", "divisions"}
    PROVE  TypeInv'
  <1>1. req' \in [Request -> Locals]
    BY Typed
  <1>2. KeysOK'
    BY DEF TypeInv, KeysOK, TableKeysOK, RequestKeysOK, TypeOK
  <1>. QED  BY <1>1, <1>2 DEF TypeInv, TypeOK, Locals, Calls

\* A result body is well typed.
LEMMA BatchType == ASSUME NEW batch \in Batch PROVE batch \in Scores
  BY LifecycleAssumption DEF Scores

\* Handlers that only read and go on, or respond.
LEMMA ReadersType ==
    ASSUME TypeInv, NEW q \in Request,
           \/ ListHeatResults(q) \/ ListHeatsForRound(q) \/ ListResultsForRound(q)
           \/ RoundExists(q) \/ CallFails(q)
           \/ \E rd \in DOMAIN rounds : NextRound(q, rd) \/ ComputeDivisions(q, rd)
    PROVE  TypeInv'
<1>. DEFINE same == UNCHANGED <<rounds, groups, divisions, heats>> /\ faults' \in Nat
<1>1. Idle \in Locals
  BY EmptyScores DEF Idle, Locals, Calls
<1>2. req[q] \in Locals /\ faults \in Nat
  BY Typed
<1>3. CASE same /\ Respond(q)
  BY <1>1, <1>3, MoveOn DEF Respond, Idle
<1>4. ASSUME same, NEW call \in Calls \ {"ListResultsForRound"}, Continue(q, call)
      PROVE  TypeInv'
  <2>. DEFINE l == [req[q] EXCEPT !.call = call]
  <2>1. l \in Locals /\ l.handler = req[q].handler /\ l.id = req[q].id /\ l.call = call
    BY <1>2 DEF Locals
  <2>2. req' = [req EXCEPT ![q] = l]
    BY <1>4, Typed DEF Continue
  <2>3. /\ req[q].handler = "submit" => req[q].id \in DOMAIN heats
        /\ req[q].handler \in {"next", "divisions"} => req[q].id \in DOMAIN rounds
    BY DEF TypeInv, KeysOK, RequestKeysOK
  <2>. HIDE DEF l
  <2>. QED  BY <1>4, <2>1, <2>2, <2>3, MoveOn
<1>5. CASE ListHeatResults(q)
  BY <1>2, <1>3, <1>4, <1>5 DEF ListHeatResults, Calls
<1>6. CASE ListHeatsForRound(q)
  BY <1>2, <1>3, <1>4, <1>6 DEF ListHeatsForRound, Calls
<1>7. CASE ListResultsForRound(q)
  <2>1. PICK results \in ResultMaps(req[q].id) :
          req' = [req EXCEPT ![q].results = results,
                             ![q].call = IF req[q].handler = "next" THEN "RoundExists"
                                                                    ELSE "CreateDivisions"]
    BY <1>7 DEF ListResultsForRound
  <2>. DEFINE l == [req[q] EXCEPT !.results = results,
                                  !.call = IF req[q].handler = "next" THEN "RoundExists"
                                                                      ELSE "CreateDivisions"]
  <2>2. results \in Scores
    BY ResultMapsType
  <2>3. l \in Locals /\ l.handler = req[q].handler /\ l.id = req[q].id
        /\ l.call # "ListResultsForRound"
    BY <1>2, <2>2 DEF Locals, Calls
  <2>4. req' = [req EXCEPT ![q] = l]
    BY <2>1, Typed
  <2>5. /\ req[q].handler = "submit" => req[q].id \in DOMAIN heats
        /\ req[q].handler \in {"next", "divisions"} => req[q].id \in DOMAIN rounds
    BY DEF TypeInv, KeysOK, RequestKeysOK
  <2>6. same
    BY <1>2, <1>7 DEF ListResultsForRound
  <2>. HIDE DEF l
  <2>. QED  BY <2>3, <2>4, <2>5, <2>6, MoveOn
<1>8. CASE RoundExists(q)
  BY <1>2, <1>3, <1>4, <1>8 DEF RoundExists, Calls
<1>9. CASE CallFails(q)
  BY <1>2, <1>3, <1>9 DEF CallFails
<1>10. ASSUME NEW rd \in DOMAIN rounds, NextRound(q, rd) \/ ComputeDivisions(q, rd)
       PROVE  TypeInv'
  <2>1. PICK handler \in {"next", "divisions"} : LoadClosedRound(q, handler, rd)
    BY <1>10 DEF NextRound, ComputeDivisions
  <2>. DEFINE l == [handler |-> handler, call |-> "ListResultsForRound",
                    id |-> rd, results |-> <<>>]
  <2>2. l \in Locals /\ l.handler = handler /\ l.id = rd
    BY EmptyScores, GroupKeys DEF Locals, Calls
  <2>3. req' = [req EXCEPT ![q] = l] /\ same
    BY <1>2, <2>1 DEF LoadClosedRound, Begin
  <2>. HIDE DEF l
  <2>. QED  BY <2>2, <2>3, MoveOn
<1>. QED
  BY <1>5, <1>6, <1>7, <1>8, <1>9, <1>10

\* The UPDATEs of heats, heat_results and rounds leave every key alone.
SameHeatKeys ==
    \A k \in DOMAIN heats : /\ heats'[k].round = heats[k].round
                           /\ heats'[k].group = heats[k].group
                           /\ heats'[k].division = heats[k].division

\* The upsert changes the results of one heat and nothing else.
LEMMA SubmitRows ==
    ASSUME TypeInv, NEW q \in Request, NEW h \in DOMAIN heats, NEW batch \in Batch,
           SubmitHeatResults(q, h, batch)
    PROVE  /\ heats' \in Seq(HeatRow) /\ DOMAIN heats' = DOMAIN heats
           /\ heats' = [heats EXCEPT ![h] = [heats[h] EXCEPT !.results = Upsert(batch, heats[h].results)]]
           /\ DOMAIN heats[h].results \subseteq DOMAIN Upsert(batch, heats[h].results)
           /\ SameHeatKeys
           /\ req' = [req EXCEPT ![q] = [handler |-> "submit", call |-> "ListHeatResults",
                                         id |-> h, results |-> <<>>]]
<1>1. heats[h] \in HeatRow
  BY Typed
<1>2. /\ Upsert(batch, heats[h].results) \in Scores
      /\ DOMAIN heats[h].results \subseteq DOMAIN Upsert(batch, heats[h].results)
  BY <1>1, BatchType, UpsertType DEF HeatRow
<1>. DEFINE row == [heats[h] EXCEPT !.results = Upsert(batch, heats[h].results)]
<1>3. row \in HeatRow
  BY <1>1, <1>2 DEF HeatRow
<1>4. heats' = [heats EXCEPT ![h] = row]
  BY Typed DEF SubmitHeatResults
<1>5. heats' \in Seq(HeatRow) /\ DOMAIN heats' = DOMAIN heats
  <2>. HIDE DEF row
  <2>. QED  BY <1>3, <1>4, Typed
<1>6. SameHeatKeys
  BY <1>1, <1>4, Typed DEF SameHeatKeys, HeatRow
<1>. QED
  BY <1>2, <1>4, <1>5, <1>6 DEF SubmitHeatResults, Begin

\* SetHeatStatus changes the status of the handler's heat and nothing else.
LEMMA CloseHeatRows ==
    ASSUME TypeInv, NEW q \in Request, SetHeatStatus(q)
    PROVE  /\ heats' \in Seq(HeatRow) /\ DOMAIN heats' = DOMAIN heats
           /\ req[q].id \in DOMAIN heats
           /\ SameHeatKeys
           /\ heats' = [heats EXCEPT ![req[q].id] = [heats[req[q].id] EXCEPT !.status = "closed"]]
<1>. DEFINE h == req[q].id
            row == [heats[h] EXCEPT !.status = "closed"]
<1>1. h \in DOMAIN heats
  BY DEF SetHeatStatus, At, TypeInv, KeysOK, RequestKeysOK
<1>2. heats[h] \in HeatRow
  BY <1>1, Typed
<1>3. row \in HeatRow
  BY <1>2 DEF HeatRow
<1>4. heats' = [heats EXCEPT ![h] = row]
  BY Typed DEF SetHeatStatus
<1>5. heats' \in Seq(HeatRow) /\ DOMAIN heats' = DOMAIN heats
  <2>. HIDE DEF row, h
  <2>. QED  BY <1>1, <1>3, <1>4, Typed
<1>6. SameHeatKeys
  BY <1>2, <1>4, Typed DEF SameHeatKeys, HeatRow
<1>. QED
  BY <1>1, <1>4, <1>5, <1>6

\* SetStatus changes the status of the heat's round and nothing else.
LEMMA CloseRoundRows ==
    ASSUME TypeInv, NEW q \in Request, SetStatus(q)
    PROVE  /\ rounds' \in Seq(RoundRow) /\ DOMAIN rounds' = DOMAIN rounds
           /\ req[q].id \in DOMAIN heats /\ heats[req[q].id].round \in DOMAIN rounds
           /\ rounds' = [rounds EXCEPT ![heats[req[q].id].round] =
                             [rounds[heats[req[q].id].round] EXCEPT !.status = "closed"]]
<1>. DEFINE rd == heats[req[q].id].round
            row == [rounds[rd] EXCEPT !.status = "closed"]
<1>1. req[q].id \in DOMAIN heats /\ rd \in DOMAIN rounds
  BY DEF SetStatus, At, TypeInv, KeysOK, TableKeysOK, RequestKeysOK
<1>2. rounds[rd] \in RoundRow
  BY <1>1, Typed
<1>3. row \in RoundRow
  BY <1>2 DEF RoundRow
<1>4. rounds' = [rounds EXCEPT ![rd] = row]
  BY Typed DEF SetStatus
<1>5. rounds' \in Seq(RoundRow) /\ DOMAIN rounds' = DOMAIN rounds
  <2>. HIDE DEF row, rd
  <2>. QED  BY <1>1, <1>3, <1>4, Typed
<1>. QED
  BY <1>1, <1>4, <1>5

\* The three statements that update rows keep the type invariant.
LEMMA UpdatesType ==
    ASSUME TypeInv, NEW q \in Request,
           \/ \E h \in DOMAIN heats, batch \in Batch : SubmitHeatResults(q, h, batch)
           \/ SetHeatStatus(q) \/ SetStatus(q)
    PROVE  TypeInv'
<1>1. Idle \in Locals /\ Idle.handler = "none" /\ Idle.call = "none"
  BY EmptyScores DEF Idle, Locals, Calls
<1>2. req[q] \in Locals
  BY Typed
<1>3. ASSUME NEW h \in DOMAIN heats, NEW batch \in Batch, SubmitHeatResults(q, h, batch)
      PROVE  TypeInv'
  <2>1. [handler |-> "submit", call |-> "ListHeatResults", id |-> h, results |-> <<>>] \in Locals
    BY GroupKeys, EmptyScores DEF Locals, Calls
  <2>2. req' \in [Request -> Locals]
    <3>. DEFINE next == [handler |-> "submit", call |-> "ListHeatResults", id |-> h, results |-> <<>>]
    <3>1. req' = [req EXCEPT ![q] = next] /\ next \in Locals
      BY <1>3, <2>1, SubmitRows
    <3>2. req \in [Request -> Locals]
      BY Typed
    <3>. HIDE DEF next
    <3>. QED  BY <3>1, <3>2
  <2>3. TableKeysOK'
    BY <1>3, SubmitRows DEF SubmitHeatResults, TypeInv, KeysOK, TableKeysOK, SameHeatKeys
  <2>4. RequestKeysOK'
    <3>1. /\ DOMAIN heats' = DOMAIN heats /\ UNCHANGED rounds
          /\ req' = [req EXCEPT ![q] = [handler |-> "submit", call |-> "ListHeatResults",
                                        id |-> h, results |-> <<>>]]
      BY <1>3, SubmitRows DEF SubmitHeatResults
    <3>. QED
      BY <3>1, Typed DEF TypeInv, KeysOK, RequestKeysOK
  <2>. QED
    BY <1>3, <2>2, <2>3, <2>4, SubmitRows, Typed
    DEF SubmitHeatResults, TypeInv, KeysOK, TypeOK, RoundRow, ListRow, HeatRow, Locals, Calls
<1>4. CASE SetHeatStatus(q)
  <2>1. [req[q] EXCEPT !.call = "ListHeatsForRound"] \in Locals
    BY <1>2 DEF Locals, Calls
  <2>2. \/ req' = [req EXCEPT ![q] = [req[q] EXCEPT !.call = "ListHeatsForRound"]]
        \/ req' = [req EXCEPT ![q] = Idle]
    BY <1>4, Typed DEF SetHeatStatus, Continue, Respond
  <2>3. req' \in [Request -> Locals]
    BY <1>1, <2>1, <2>2, Typed
  <2>4. TableKeysOK'
    <3>1. SameHeatKeys /\ DOMAIN heats' = DOMAIN heats /\ UNCHANGED <<rounds, groups, divisions>>
      BY <1>4, CloseHeatRows DEF SetHeatStatus
    <3>2. TableKeysOK
      BY DEF TypeInv, KeysOK
    <3>. QED  BY <3>1, <3>2 DEF TableKeysOK, SameHeatKeys
  <2>5. RequestKeysOK'
    <3>1. [req[q] EXCEPT !.call = "ListHeatsForRound"].id = req[q].id
          /\ [req[q] EXCEPT !.call = "ListHeatsForRound"].handler = req[q].handler
          /\ [req[q] EXCEPT !.call = "ListHeatsForRound"].call = "ListHeatsForRound"
      BY <1>2 DEF Locals
    <3>. QED
      BY <1>1, <1>4, <2>2, <3>1, CloseHeatRows, Typed
      DEF SetHeatStatus, At, TypeInv, KeysOK, RequestKeysOK
  <2>. QED
    BY <1>4, <2>3, <2>4, <2>5, CloseHeatRows, Typed
    DEF SetHeatStatus, TypeInv, KeysOK, TypeOK, RoundRow, ListRow, HeatRow, Locals, Calls
<1>5. CASE SetStatus(q)
  <2>1. req' = [req EXCEPT ![q] = Idle] /\ req' \in [Request -> Locals]
    BY <1>1, <1>5, Typed DEF SetStatus, Respond
  <2>2. KeysOK'
    BY <1>1, <1>5, <2>1, CloseRoundRows, Typed
    DEF SetStatus, TypeInv, KeysOK, TableKeysOK, RequestKeysOK
  <2>. QED
    BY <1>5, <2>1, <2>2, CloseRoundRows, Typed
    DEF SetStatus, TypeInv, TypeOK, RoundRow, ListRow, HeatRow, Locals, Calls
<1>. QED
  BY <1>3, <1>4, <1>5

\* The transactions that insert rows keep the type invariant.
LEMMA InsertsType ==
    ASSUME TypeInv,
           \/ \E n \in 1..MaxRounds, lists \in RequestedGroups : CreateRound(n, lists)
           \/ \E rd \in DOMAIN rounds : \E gs \in Lists(GroupsOf(rd)) : ScheduleRound(rd, gs)
           \/ \E ds \in Lists(DOMAIN divisions) : ScheduleDivisions(ds)
           \/ \E q \in Request : CreateNextRound(q) \/ CreateDivisions(q)
           \/ Restart
    PROVE  TypeInv'
<1>1. Idle \in Locals /\ Idle.handler = "none" /\ Idle.call = "none"
  BY EmptyScores DEF Idle, Locals, Calls
\* A round is inserted, by the organizer or by /next.
<1>2. ASSUME NEW n \in Nat, NEW lists \in Seq(Seq(Name)), InsertRound(n, lists),
             UNCHANGED <<divisions, heats, faults>>, req' \in [Request -> Locals],
             \A q \in Request : req'[q] = req[q] \/ req'[q] = Idle
      PROVE  TypeInv'
  <2>1. TableKeysOK'
    BY <1>2, InsertRoundRows DEF TypeInv, KeysOK, TableKeysOK
  <2>2. RequestKeysOK'
    BY <1>1, <1>2, InsertRoundRows DEF TypeInv, KeysOK, RequestKeysOK
  <2>. QED
    BY <1>2, <2>1, <2>2, InsertRoundRows, Typed
    DEF TypeInv, KeysOK, TypeOK, RoundRow, ListRow, HeatRow, Locals, Calls
\* Heats are inserted with keys of rows that are there.
<1>3. ASSUME heats' \in Seq(HeatRow), UNCHANGED <<rounds, groups, divisions, req, faults>>,
             \A h \in DOMAIN heats : h \in DOMAIN heats' /\ heats'[h] = heats[h],
             \A k \in DOMAIN heats' \ DOMAIN heats :
                /\ heats'[k].round \in DOMAIN rounds
                /\ \/ /\ heats'[k].group \in DOMAIN groups
                      /\ groups[heats'[k].group].round = heats'[k].round
                   \/ heats'[k].group = 0 /\ heats'[k].division \in DOMAIN divisions
      PROVE  TypeInv'
  <2>1. TableKeysOK'
    BY <1>3 DEF TypeInv, KeysOK, TableKeysOK
  <2>2. RequestKeysOK'
    BY <1>3 DEF TypeInv, KeysOK, RequestKeysOK
  <2>. QED
    BY <1>3, <2>1, <2>2, Typed
    DEF TypeInv, KeysOK, TypeOK, RoundRow, ListRow, HeatRow, Locals, Calls
<1>4. ASSUME NEW n \in 1..MaxRounds, NEW lists \in RequestedGroups, CreateRound(n, lists)
      PROVE  TypeInv'
  BY <1>2, <1>4, Typed, LifecycleAssumption DEF CreateRound
<1>5. ASSUME NEW rd \in DOMAIN rounds, NEW gs \in Lists(GroupsOf(rd)), ScheduleRound(rd, gs)
      PROVE  TypeInv'
  <2>1. ASSUME NEW k \in DOMAIN heats' \ DOMAIN heats
        PROVE  /\ heats'[k].round \in DOMAIN rounds
               /\ heats'[k].group \in DOMAIN groups
               /\ groups[heats'[k].group].round = heats'[k].round
    <3>1. PICK i \in DOMAIN gs : heats'[k] = NewHeat(rd, gs[i], 0) /\ gs[i] \in GroupsOf(rd)
      BY <1>5, ScheduleRoundRows
    <3>. QED  BY <3>1 DEF NewHeat, GroupsOf
  <2>. QED  BY <1>3, <1>5, <2>1, ScheduleRoundRows DEF ScheduleRound, InsertGroupHeats
<1>6. ASSUME NEW ds \in Lists(DOMAIN divisions), ScheduleDivisions(ds)
      PROVE  TypeInv'
  <2>1. ASSUME NEW k \in DOMAIN heats' \ DOMAIN heats
        PROVE  /\ heats'[k].round \in DOMAIN rounds
               /\ heats'[k].group = 0 /\ heats'[k].division \in DOMAIN divisions
    <3>1. PICK i \in DOMAIN ds : /\ ds[i] \in DOMAIN divisions
                                 /\ heats'[k] = NewHeat(divisions[ds[i]].round, 0, ds[i])
      BY <1>6, ScheduleDivisionsRows
    <3>. QED  BY <3>1 DEF NewHeat, TypeInv, KeysOK, TableKeysOK
  <2>. QED  BY <1>3, <1>6, <2>1, ScheduleDivisionsRows DEF ScheduleDivisions, InsertDivisionHeats
<1>7. ASSUME NEW q \in Request, CreateNextRound(q)
      PROVE  TypeInv'
  <2>1. req' = [req EXCEPT ![q] = Idle]
    BY <1>7 DEF CreateNextRound, Respond
  <2>2. req' \in [Request -> Locals] /\ \A p \in Request : req'[p] = req[p] \/ req'[p] = Idle
    BY <1>1, <2>1, Typed
  <2>3. CASE UNCHANGED <<rounds, groups>>
    <3>1. UNCHANGED <<rounds, groups, divisions, heats>> /\ faults' \in Nat
      BY <1>7, <2>3, Typed DEF CreateNextRound
    <3>. QED  BY <1>1, <2>1, <3>1, MoveOn
  <2>4. ASSUME NEW lists \in PluginGroups, InsertRound(rounds[req[q].id].number + 1, lists)
        PROVE  TypeInv'
    <3>1. req[q].id \in DOMAIN rounds
      BY <1>7 DEF CreateNextRound, At, TypeInv, KeysOK, RequestKeysOK
    <3>2. rounds[req[q].id] \in RoundRow
      BY <3>1, Typed
    <3>3. rounds[req[q].id].number + 1 \in Nat
      BY <3>2 DEF RoundRow
    <3>4. lists \in Seq(Seq(Name))
      BY LifecycleAssumption
    <3>5. UNCHANGED <<divisions, heats, faults>>
      BY <1>7 DEF CreateNextRound
    <3>. QED  BY <1>2, <2>2, <2>4, <3>3, <3>4, <3>5
  <2>. QED  BY <1>7, <2>3, <2>4 DEF CreateNextRound
<1>8. ASSUME NEW q \in Request, CreateDivisions(q)
      PROVE  TypeInv'
  <2>1. req' = [req EXCEPT ![q] = Idle]
    BY <1>8 DEF CreateDivisions, InsertDivisions, Respond
  <2>2. UNCHANGED <<rounds, groups, heats, faults>>
    BY <1>8 DEF CreateDivisions, InsertDivisions
  <2>3. CASE UNCHANGED divisions
    BY <1>1, <2>1, <2>2, <2>3, Typed, MoveOn
  <2>4. ASSUME NEW lists \in PluginCuts, divisions' = divisions \o Listed(req[q].id, lists)
        PROVE  TypeInv'
    <3>1. req[q].id \in DOMAIN rounds
      BY <1>8 DEF CreateDivisions, InsertDivisions, At, TypeInv, KeysOK, RequestKeysOK
    <3>2. lists \in Seq(Seq(Name))
      BY LifecycleAssumption
    <3>3. /\ divisions' \in Seq(ListRow)
          /\ \A d \in DOMAIN divisions : d \in DOMAIN divisions' /\ divisions'[d] = divisions[d]
          /\ \A d \in DOMAIN divisions' \ DOMAIN divisions : divisions'[d].round = req[q].id
      BY <2>4, <3>1, <3>2, CreateDivisionsRows
    <3>4. req' \in [Request -> Locals]
      BY <1>1, <2>1, Typed
    <3>5. TableKeysOK'
      BY <2>2, <3>1, <3>3 DEF TypeInv, KeysOK, TableKeysOK
    <3>6. RequestKeysOK'
      BY <1>1, <2>1, <2>2, Typed DEF TypeInv, KeysOK, RequestKeysOK
    <3>. QED
      BY <2>2, <3>3, <3>4, <3>5, <3>6, Typed
      DEF TypeInv, KeysOK, TypeOK, RoundRow, ListRow, HeatRow, Locals, Calls
  <2>. QED  BY <1>8, <2>3, <2>4 DEF CreateDivisions, InsertDivisions, Listed
<1>9. CASE Restart
  <2>1. /\ UNCHANGED <<rounds, groups, divisions, heats>> /\ faults' \in Nat
        /\ req' = [q \in Request |-> Idle]
    BY <1>9, Typed DEF Restart
  <2>2. req' \in [Request -> Locals] /\ RequestKeysOK'
    BY <1>1, <2>1 DEF RequestKeysOK
  <2>3. TableKeysOK'
    BY <2>1 DEF TypeInv, KeysOK, TableKeysOK
  <2>. QED
    BY <2>1, <2>2, <2>3, Typed
    DEF TypeInv, KeysOK, TypeOK, RoundRow, ListRow, HeatRow, Locals, Calls
<1>. QED
  BY <1>4, <1>5, <1>6, <1>7, <1>8, <1>9

\* Every step of users, handlers and faults keeps the type invariant.
LEMMA StepType == TypeInv /\ [Next]_vars => TypeInv'
<1>1. ASSUME TypeInv, UNCHANGED vars
      PROVE  TypeInv'
  BY <1>1 DEF vars, TypeInv, TypeOK, KeysOK, TableKeysOK, RequestKeysOK
<1>2. ASSUME TypeInv, Next
      PROVE  TypeInv'
  BY <1>2, ReadersType, UpdatesType, InsertsType DEF Next, User, Handler, Fault
<1>. QED
  BY <1>1, <1>2

\* Every table row and every handler's local state stays well typed, and every key
\* that a row or a handler holds names a row, whatever is submitted and fails.
THEOREM TypeCorrect == Spec => []TypeInv
<1>1. Init => TypeInv
  BY InitType
<1>2. TypeInv /\ [Next]_vars => TypeInv'
  BY StepType
<1>. QED
  BY <1>1, <1>2, PTL DEF Spec

\* Tables and handler locals are always well typed.
THEOREM TypeOKCorrect == Spec => []TypeOK
  BY TypeCorrect, PTL DEF TypeInv

-----------------------------------------------------------------------------
(* That a round is closed only when it is finished, and for good.         *)

\* How any step changes the tables: rows are added or completed, never taken back.
RowsGrow ==
    /\ \A rd \in DOMAIN rounds :
          /\ rd \in DOMAIN rounds'
          /\ rounds[rd].status = "closed" => rounds'[rd].status = "closed"
    /\ \A g \in DOMAIN groups : g \in DOMAIN groups' /\ groups'[g] = groups[g]
    /\ \A g \in DOMAIN groups' \ DOMAIN groups : groups'[g].round \notin DOMAIN rounds
    /\ \A d \in DOMAIN divisions : d \in DOMAIN divisions' /\ divisions'[d] = divisions[d]
    /\ \A h \in DOMAIN heats :
          /\ h \in DOMAIN heats'
          /\ heats'[h].round = heats[h].round
          /\ heats'[h].group = heats[h].group
          /\ heats'[h].division = heats[h].division
          /\ heats[h].status = "closed" => heats'[h].status = "closed"
          /\ DOMAIN heats[h].results \subseteq DOMAIN heats'[h].results

\* A new heat is open, and group heats come for a whole round that had none.
NewHeatsCover ==
    \A k \in DOMAIN heats' \ DOMAIN heats :
        /\ heats'[k].status = "scheduled"
        /\ heats'[k].group # 0 =>
              /\ heats'[k].round \in DOMAIN rounds
              /\ GroupHeatsOf(heats'[k].round) = {}
              /\ \A g \in GroupsOf(heats'[k].round) : \E j \in DOMAIN heats' :
                    /\ heats'[j].group = g /\ g # 0
                    /\ heats'[j].round = heats'[k].round

\* Heats and rounds are closed by the submissions that found them complete.
ClosedBySubmission ==
    /\ \A h \in DOMAIN heats' : heats'[h].status = "closed" =>
          h \in DOMAIN heats /\ (heats[h].status = "closed" \/
            \E q \in Request : At(q, "submit", "SetHeatStatus") /\ req[q].id = h)
    /\ \A rd \in DOMAIN rounds' : rounds'[rd].status = "closed" =>
          rd \in DOMAIN rounds /\ (rounds[rd].status = "closed" \/
            \E q \in Request : At(q, "submit", "SetStatus") /\ heats[req[q].id].round = rd)

\* How a submission gets from one call to the next.
CascadeMoves ==
    \A q \in Request :
        \/ req'[q] = req[q]
        \/ req'[q].handler # "submit"
        \/ req'[q].call = "ListHeatResults"
        \/ /\ req[q].handler = "submit" /\ req'[q].id = req[q].id
           /\ \/ req'[q].call = "SetHeatStatus" /\ HeatComplete(req[q].id)
              \/ req'[q].call = "ListHeatsForRound" /\ IsGroupHeat(req[q].id)
              \/ /\ req[q].call = "ListHeatsForRound" /\ req'[q].call = "SetStatus"
                 /\ RoundComplete(heats[req[q].id].round)

StepFacts == RowsGrow /\ NewHeatsCover /\ ClosedBySubmission /\ CascadeMoves

\* A list that the schedule handler lets through names every group of the round.
LEMMA Covers ==
    ASSUME TypeInv, NEW rd, NEW gs \in Lists(GroupsOf(rd)), CoversRound(rd, gs)
    PROVE  \A g \in GroupsOf(rd) : \E i \in DOMAIN gs : gs[i] = g
<1>. DEFINE n == Len(gs)
<1>1. IsFiniteSet(GroupsOf(rd))
  BY GroupsFinite
<1>2. gs \in Seq(GroupsOf(rd)) /\ DOMAIN gs = 1..n /\ n \in Nat
  BY <1>1, ListsType
<1>3. gs \in Injection(1..n, GroupsOf(rd))
  BY <1>2 DEF CoversRound, Injection
<1>4. Cardinality(1..n) = Cardinality(GroupsOf(rd))
  BY <1>2, FS_Interval DEF CoversRound
<1>5. gs \in Surjection(1..n, GroupsOf(rd))
  BY <1>1, <1>3, <1>4, FS_Injection
<1>. QED
  BY <1>2, <1>5 DEF Surjection

\* Steps that leave the tables alone.
LEMMA SameTables ==
    ASSUME TypeInv, UNCHANGED <<rounds, groups, divisions, heats>>
    PROVE  RowsGrow /\ NewHeatsCover /\ ClosedBySubmission
  BY DEF RowsGrow, NewHeatsCover, ClosedBySubmission

\* What continuing or ending a handler does to its locals.
LEMMA Moves ==
    ASSUME TypeInv, NEW q \in Request
    PROVE  /\ Respond(q) => /\ req'[q].handler = "none"
                            /\ \A p \in Request \ {q} : req'[p] = req[p]
           /\ \A call : Continue(q, call) =>
                 /\ req'[q].handler = req[q].handler /\ req'[q].id = req[q].id
                 /\ req'[q].call = call
                 /\ \A p \in Request \ {q} : req'[p] = req[p]
           /\ \A handler, call, id : Begin(q, handler, call, id) =>
                 /\ req'[q].handler = handler /\ req'[q].id = id
                 /\ req'[q].call = call
                 /\ \A p \in Request \ {q} : req'[p] = req[p]
<1>1. req \in [Request -> Locals] /\ req[q] \in Locals
  BY Typed
<1>. QED
  BY <1>1 DEF Respond, Continue, Begin, Idle, Locals

\* Handler steps that read, and failures, leave every table as it is.
LEMMA ReadersFacts ==
    ASSUME TypeInv, NEW q \in Request,
           \/ ListHeatResults(q) \/ ListHeatsForRound(q) \/ ListResultsForRound(q)
           \/ RoundExists(q) \/ CallFails(q)
           \/ \E rd \in DOMAIN rounds : NextRound(q, rd) \/ ComputeDivisions(q, rd)
    PROVE  StepFacts
<1>1. UNCHANGED <<rounds, groups, divisions, heats>>
  BY DEF ListHeatResults, ListHeatsForRound, ListResultsForRound, RoundExists, CallFails,
         NextRound, ComputeDivisions, LoadClosedRound
<1>2. ASSUME ListHeatResults(q)
      PROVE  CascadeMoves
  BY <1>2, Moves DEF ListHeatResults, At, CascadeMoves
<1>3. ASSUME ListHeatsForRound(q)
      PROVE  CascadeMoves
  BY <1>3, Moves DEF ListHeatsForRound, At, CascadeMoves
<1>4. ASSUME ListResultsForRound(q)
      PROVE  CascadeMoves
  <2>1. req[q].handler # "submit"
    BY <1>4 DEF ListResultsForRound, TypeInv, KeysOK, RequestKeysOK
  <2>2. req'[q].handler = req[q].handler /\ \A p \in Request \ {q} : req'[p] = req[p]
    <3>1. PICK results : req' = [req EXCEPT ![q].results = results,
              ![q].call = IF req[q].handler = "next" THEN "RoundExists" ELSE "CreateDivisions"]
      BY <1>4 DEF ListResultsForRound
    <3>2. req \in [Request -> Locals] /\ req[q] \in Locals
      BY Typed
    <3>. QED  BY <3>1, <3>2 DEF Locals
  <2>. QED  BY <2>1, <2>2 DEF CascadeMoves
<1>5. ASSUME RoundExists(q)
      PROVE  CascadeMoves
  BY <1>5, Moves DEF RoundExists, At, CascadeMoves
<1>6. ASSUME CallFails(q)
      PROVE  CascadeMoves
  BY <1>6, Moves DEF CallFails, CascadeMoves
<1>7. ASSUME NEW rd \in DOMAIN rounds, NextRound(q, rd) \/ ComputeDivisions(q, rd)
      PROVE  CascadeMoves
  BY <1>7, Moves DEF NextRound, ComputeDivisions, LoadClosedRound, CascadeMoves
<1>. QED
  BY <1>1, <1>2, <1>3, <1>4, <1>5, <1>6, <1>7, SameTables DEF StepFacts

\* The upsert and the two status updates of the cascade.
LEMMA UpdatesFacts ==
    ASSUME TypeInv, NEW q \in Request,
           \/ \E h \in DOMAIN heats, batch \in Batch : SubmitHeatResults(q, h, batch)
           \/ SetHeatStatus(q) \/ SetStatus(q)
    PROVE  StepFacts
<1>1. ASSUME NEW h \in DOMAIN heats, NEW batch \in Batch, SubmitHeatResults(q, h, batch)
      PROVE  StepFacts
  <2>1. \A k \in DOMAIN heats : heats[k] \in HeatRow
    BY Typed
  <2>2. \A k \in DOMAIN heats : /\ heats'[k].status = heats[k].status
                               /\ DOMAIN heats[k].results \subseteq DOMAIN heats'[k].results
    <3>. DEFINE new == Upsert(batch, heats[h].results)
    <3>1. /\ heats' = [heats EXCEPT ![h] = [heats[h] EXCEPT !.results = new]]
          /\ DOMAIN heats[h].results \subseteq DOMAIN new
      BY <1>1, SubmitRows
    <3>. HIDE DEF new
    <3>2. ASSUME NEW k \in DOMAIN heats, k # h
          PROVE  heats'[k] = heats[k]
      BY <3>1, <3>2
    <3>3. heats'[h] = [heats[h] EXCEPT !.results = new]
      BY <3>1
    <3>4. heats'[h].status = heats[h].status /\ heats'[h].results = new
      BY <2>1, <3>3 DEF HeatRow
    <3>. QED  BY <3>1, <3>2, <3>4
  <2>3. UNCHANGED <<rounds, groups, divisions>> /\ DOMAIN heats' = DOMAIN heats /\ SameHeatKeys
    BY <1>1, SubmitRows DEF SubmitHeatResults
  <2>4. RowsGrow /\ NewHeatsCover /\ ClosedBySubmission
    BY <2>2, <2>3 DEF RowsGrow, NewHeatsCover, ClosedBySubmission, SameHeatKeys
  <2>5. CascadeMoves
    BY <1>1, Moves DEF SubmitHeatResults, CascadeMoves
  <2>. QED  BY <2>4, <2>5 DEF StepFacts
<1>2. ASSUME SetHeatStatus(q)
      PROVE  StepFacts
  <2>1. \A k \in DOMAIN heats : heats[k] \in HeatRow
    BY Typed
  <2>2. /\ \A k \in DOMAIN heats : DOMAIN heats[k].results \subseteq DOMAIN heats'[k].results
        /\ \A k \in DOMAIN heats : heats[k].status = "closed" => heats'[k].status = "closed"
        /\ \A k \in DOMAIN heats : k # req[q].id => heats'[k].status = heats[k].status
    <3>. DEFINE h == req[q].id
    <3>1. /\ h \in DOMAIN heats
          /\ heats' = [heats EXCEPT ![h] = [heats[h] EXCEPT !.status = "closed"]]
      BY <1>2, CloseHeatRows
    <3>. HIDE DEF h
    <3>2. \A k \in DOMAIN heats : k # h => heats'[k] = heats[k]
      BY <3>1
    <3>3. heats'[h].status = "closed" /\ heats'[h].results = heats[h].results
      BY <2>1, <3>1 DEF HeatRow
    <3>. QED  BY <3>2, <3>3 DEF h
  <2>3. UNCHANGED <<rounds, groups, divisions>> /\ DOMAIN heats' = DOMAIN heats /\ SameHeatKeys
        /\ At(q, "submit", "SetHeatStatus")
    BY <1>2, CloseHeatRows DEF SetHeatStatus
  <2>4. RowsGrow
    BY <2>2, <2>3 DEF RowsGrow, SameHeatKeys
  <2>4a. NewHeatsCover
    BY <2>3 DEF NewHeatsCover
  <2>5. ClosedBySubmission
    <3>1. ASSUME NEW h \in DOMAIN heats', heats'[h].status = "closed", heats[h].status # "closed"
          PROVE  h = req[q].id
      BY <2>2, <2>3, <3>1
    <3>. QED  BY <2>3, <3>1 DEF ClosedBySubmission
  <2>6. CascadeMoves
    BY <1>2, Moves DEF SetHeatStatus, At, CascadeMoves
  <2>. QED  BY <2>4, <2>4a, <2>5, <2>6 DEF StepFacts
<1>3. ASSUME SetStatus(q)
      PROVE  StepFacts
  <2>1. \A k \in DOMAIN rounds : rounds[k] \in RoundRow
    BY Typed
  <2>2. DOMAIN rounds' = DOMAIN rounds
        /\ \A k \in DOMAIN rounds :
              /\ rounds[k].status = "closed" => rounds'[k].status = "closed"
              /\ k # heats[req[q].id].round => rounds'[k].status = rounds[k].status
    <3>. DEFINE r == heats[req[q].id].round
    <3>1. /\ r \in DOMAIN rounds /\ DOMAIN rounds' = DOMAIN rounds
          /\ rounds' = [rounds EXCEPT ![r] = [rounds[r] EXCEPT !.status = "closed"]]
      BY <1>3, CloseRoundRows
    <3>. HIDE DEF r
    <3>2. \A k \in DOMAIN rounds : k # r => rounds'[k] = rounds[k]
      BY <3>1
    <3>3. rounds'[r].status = "closed"
      BY <2>1, <3>1 DEF RoundRow
    <3>. QED  BY <3>1, <3>2, <3>3 DEF r
  <2>3. UNCHANGED <<groups, divisions, heats>> /\ At(q, "submit", "SetStatus")
    BY <1>3 DEF SetStatus
  <2>4. RowsGrow /\ NewHeatsCover
    BY <2>2, <2>3 DEF RowsGrow, NewHeatsCover
  <2>5. ClosedBySubmission
    BY <2>2, <2>3 DEF ClosedBySubmission
  <2>6. CascadeMoves
    BY <1>3, Moves DEF SetStatus, At, CascadeMoves
  <2>. QED  BY <2>4, <2>5, <2>6 DEF StepFacts
<1>. QED
  BY <1>1, <1>2, <1>3

\* A round with its groups is inserted, by the organizer or by /next.
LEMMA InsertRoundFacts ==
    ASSUME TypeInv, NEW n \in Nat, NEW lists \in Seq(Seq(Name)), InsertRound(n, lists),
           UNCHANGED <<divisions, heats>>,
           \A q \in Request : req'[q] = req[q] \/ req'[q].handler # "submit"
    PROVE  StepFacts
<1>1. RowsGrow
  BY InsertRoundRows DEF RowsGrow
<1>2. NewHeatsCover
  BY DEF NewHeatsCover
<1>3. ClosedBySubmission
  BY InsertRoundRows DEF ClosedBySubmission
<1>4. CascadeMoves
  BY DEF CascadeMoves
<1>. QED
  BY <1>1, <1>2, <1>3, <1>4 DEF StepFacts

\* Heats are inserted for a round: it had none, and every group gets one.
LEMMA ScheduleRoundFacts ==
    ASSUME TypeInv, NEW rd \in DOMAIN rounds, NEW gs \in Lists(GroupsOf(rd)),
           ScheduleRound(rd, gs)
    PROVE  StepFacts
<1>1. /\ \A h \in DOMAIN heats : h \in DOMAIN heats' /\ heats'[h] = heats[h]
      /\ \A k \in DOMAIN heats' \ DOMAIN heats : \E i \in DOMAIN gs :
            gs[i] \in GroupsOf(rd) /\ heats'[k] = NewHeat(rd, gs[i], 0)
      /\ \A i \in DOMAIN gs : \E k \in DOMAIN heats' : heats'[k] = NewHeat(rd, gs[i], 0)
  BY ScheduleRoundRows
<1>2. /\ UNCHANGED <<rounds, groups, divisions, req>> /\ CoversRound(rd, gs)
      /\ \A h \in DOMAIN heats : heats[h].group \notin ToSet(gs)
  BY DEF ScheduleRound, InsertGroupHeats
<1>3. \A g \in GroupsOf(rd) : \E i \in DOMAIN gs : gs[i] = g
  BY <1>2, Covers
<1>4. GroupHeatsOf(rd) = {}
  <2>1. ASSUME NEW h \in GroupHeatsOf(rd)
        PROVE  heats[h].group \in GroupsOf(rd)
    BY <2>1 DEF GroupHeatsOf, GroupsOf, TypeInv, KeysOK, TableKeysOK
  <2>2. \A h \in GroupHeatsOf(rd) : heats[h].group \in ToSet(gs)
    BY <1>3, <2>1 DEF ToSet
  <2>. QED  BY <1>2, <2>2 DEF GroupHeatsOf
<1>5. RowsGrow
  BY <1>1, <1>2 DEF RowsGrow
<1>6. NewHeatsCover
  <2>1. ASSUME NEW k \in DOMAIN heats' \ DOMAIN heats
        PROVE  heats'[k].status = "scheduled" /\ heats'[k].round = rd
    BY <1>1, <2>1 DEF NewHeat
  <2>2. \A g \in GroupsOf(rd) : \E j \in DOMAIN heats' :
            heats'[j].group = g /\ g # 0 /\ heats'[j].round = rd
    <3>1. ASSUME NEW g \in GroupsOf(rd)
          PROVE  \E j \in DOMAIN heats' : heats'[j].group = g /\ heats'[j].round = rd
      <4>1. PICK i \in DOMAIN gs : gs[i] = g
        BY <1>3
      <4>2. PICK j \in DOMAIN heats' : heats'[j] = NewHeat(rd, gs[i], 0)
        BY <1>1
      <4>. QED  BY <4>1, <4>2 DEF NewHeat
    <3>2. 0 \notin GroupsOf(rd)
      BY GroupKeys DEF GroupsOf
    <3>. QED  BY <3>1, <3>2
  <2>. QED  BY <1>4, <2>1, <2>2 DEF NewHeatsCover
<1>7. ClosedBySubmission
  <2>1. \A k \in DOMAIN heats' \ DOMAIN heats : heats'[k].status = "scheduled"
    BY <1>1 DEF NewHeat
  <2>2. "scheduled" # "closed"
    OBVIOUS
  <2>. QED  BY <1>1, <1>2, <2>1, <2>2 DEF ClosedBySubmission
<1>8. CascadeMoves
  BY <1>2 DEF CascadeMoves
<1>. QED
  BY <1>5, <1>6, <1>7, <1>8 DEF StepFacts

\* Heats are inserted for divisions.
LEMMA ScheduleDivisionsFacts ==
    ASSUME TypeInv, NEW ds \in Lists(DOMAIN divisions), ScheduleDivisions(ds)
    PROVE  StepFacts
<1>1. /\ \A h \in DOMAIN heats : h \in DOMAIN heats' /\ heats'[h] = heats[h]
      /\ \A k \in DOMAIN heats' \ DOMAIN heats : \E i \in DOMAIN ds :
            heats'[k] = NewHeat(divisions[ds[i]].round, 0, ds[i])
  BY ScheduleDivisionsRows
<1>2. UNCHANGED <<rounds, groups, divisions, req>>
  BY DEF ScheduleDivisions, InsertDivisionHeats
<1>3. \A k \in DOMAIN heats' \ DOMAIN heats :
         heats'[k].status = "scheduled" /\ heats'[k].status # "closed" /\ heats'[k].group = 0
  BY <1>1 DEF NewHeat
<1>4. RowsGrow
  BY <1>1, <1>2 DEF RowsGrow
<1>5. NewHeatsCover
  BY <1>3 DEF NewHeatsCover
<1>6. ClosedBySubmission
  BY <1>1, <1>2, <1>3 DEF ClosedBySubmission
<1>7. CascadeMoves
  BY <1>2 DEF CascadeMoves
<1>. QED
  BY <1>4, <1>5, <1>6, <1>7 DEF StepFacts

\* The plugin's groups or divisions are inserted, or the handler ends without them.
LEMMA PluginFacts ==
    ASSUME TypeInv, NEW q \in Request, CreateNextRound(q) \/ CreateDivisions(q)
    PROVE  StepFacts
<1>1. req'[q].handler = "none" /\ \A p \in Request \ {q} : req'[p] = req[p]
  BY Moves DEF CreateNextRound, CreateDivisions, InsertDivisions
<1>2. CascadeMoves
  BY <1>1 DEF CascadeMoves
<1>3. CASE UNCHANGED <<rounds, groups, divisions, heats>>
  BY <1>2, <1>3, SameTables DEF StepFacts
<1>4. ASSUME CreateNextRound(q), ~ UNCHANGED <<rounds, groups>>
      PROVE  StepFacts
  <2>1. req[q].id \in DOMAIN rounds
    BY <1>4 DEF CreateNextRound, At, TypeInv, KeysOK, RequestKeysOK
  <2>2. rounds[req[q].id] \in RoundRow
    BY <2>1, Typed
  <2>3. rounds[req[q].id].number + 1 \in Nat
    BY <2>2 DEF RoundRow
  <2>4. PICK lists \in PluginGroups : InsertRound(rounds[req[q].id].number + 1, lists)
    BY <1>4 DEF CreateNextRound
  <2>5. lists \in Seq(Seq(Name))
    BY LifecycleAssumption
  <2>6. UNCHANGED <<divisions, heats>> /\ \A p \in Request : req'[p] = req[p] \/ req'[p].handler # "submit"
    BY <1>1, <1>4 DEF CreateNextRound
  <2>. QED  BY <2>3, <2>4, <2>5, <2>6, InsertRoundFacts
<1>5. ASSUME CreateDivisions(q), ~ UNCHANGED divisions
      PROVE  StepFacts
  <2>1. req[q].id \in DOMAIN rounds
    BY <1>5 DEF CreateDivisions, InsertDivisions, At, TypeInv, KeysOK, RequestKeysOK
  <2>2. PICK lists \in PluginCuts : divisions' = divisions \o Listed(req[q].id, lists)
    BY <1>5 DEF CreateDivisions, InsertDivisions, Listed
  <2>3. lists \in Seq(Seq(Name))
    BY LifecycleAssumption
  <2>4. \A d \in DOMAIN divisions : d \in DOMAIN divisions' /\ divisions'[d] = divisions[d]
    BY <2>1, <2>2, <2>3, CreateDivisionsRows
  <2>5. UNCHANGED <<rounds, groups, heats>>
    BY <1>5 DEF CreateDivisions, InsertDivisions
  <2>6. RowsGrow /\ NewHeatsCover /\ ClosedBySubmission
    BY <2>4, <2>5 DEF RowsGrow, NewHeatsCover, ClosedBySubmission
  <2>. QED  BY <1>2, <2>6 DEF StepFacts
<1>. QED
  BY <1>3, <1>4, <1>5 DEF CreateNextRound, CreateDivisions, InsertDivisions

\* Every step, a stuttering one too.
LEMMA EveryStep ==
    ASSUME TypeInv, [Next]_vars
    PROVE  StepFacts
<1>1. ASSUME UNCHANGED vars
      PROVE  StepFacts
  <2>1. UNCHANGED <<rounds, groups, divisions, heats>> /\ CascadeMoves
    BY <1>1 DEF vars, CascadeMoves
  <2>. QED  BY <2>1, SameTables DEF StepFacts
<1>2. ASSUME Restart
      PROVE  StepFacts
  <2>1. UNCHANGED <<rounds, groups, divisions, heats>> /\ CascadeMoves
    BY <1>2 DEF Restart, Idle, CascadeMoves
  <2>. QED  BY <2>1, SameTables DEF StepFacts
<1>3. ASSUME NEW n \in 1..MaxRounds, NEW lists \in RequestedGroups, CreateRound(n, lists)
      PROVE  StepFacts
  <2>1. n \in Nat /\ lists \in Seq(Seq(Name))
    BY LifecycleAssumption
  <2>2. InsertRound(n, lists) /\ UNCHANGED <<divisions, heats, req>>
    BY <1>3 DEF CreateRound
  <2>. QED  BY <2>1, <2>2, InsertRoundFacts
<1>. QED
  BY <1>1, <1>2, <1>3, ReadersFacts, UpdatesFacts, ScheduleRoundFacts,
     ScheduleDivisionsFacts, PluginFacts DEF Next, User, Handler, Fault

\* A heat waits for the same teams as long as it exists.
LEMMA SameValidTeams ==
    ASSUME TypeInv, StepFacts, NEW h \in DOMAIN heats
    PROVE  ValidTeams(h)' = ValidTeams(h)
<1>1. heats'[h].group = heats[h].group /\ heats'[h].division = heats[h].division
  BY DEF StepFacts, RowsGrow
<1>2. \/ heats[h].group \in DOMAIN groups /\ heats[h].group # 0
      \/ heats[h].group = 0 /\ heats[h].division \in DOMAIN divisions
  BY GroupKeys DEF TypeInv, KeysOK, TableKeysOK
<1>. QED
  BY <1>1, <1>2 DEF ValidTeams, IsGroupHeat, StepFacts, RowsGrow

\* What a step leaves as it is: a round's list of groups, its group heats once it has
\* any, the teams a heat waits for.  So what is complete stays complete.
LEMMA StaysComplete ==
    ASSUME TypeInv, StepFacts
    PROVE  /\ \A rd \in DOMAIN rounds : GroupsOf(rd)' = GroupsOf(rd)
           /\ \A h \in DOMAIN heats : HeatComplete(h) => HeatComplete(h)'
           /\ \A rd \in DOMAIN rounds : GroupHeatsOf(rd) # {} =>
                 /\ GroupHeatsOf(rd)' = GroupHeatsOf(rd)
                 /\ RoundComplete(rd) => RoundComplete(rd)'
<1>1. ASSUME NEW rd \in DOMAIN rounds
      PROVE  GroupsOf(rd)' = GroupsOf(rd)
  <2>1. \A g \in DOMAIN groups : g \in DOMAIN groups' /\ groups'[g] = groups[g]
    BY DEF StepFacts, RowsGrow
  <2>2. \A g \in DOMAIN groups' \ DOMAIN groups : groups'[g].round # rd
    BY DEF StepFacts, RowsGrow
  <2>. QED  BY <2>1, <2>2 DEF GroupsOf
<1>2. ASSUME NEW h \in DOMAIN heats, HeatComplete(h)
      PROVE  HeatComplete(h)'
  <2>1. DOMAIN heats[h].results \subseteq DOMAIN heats'[h].results
    BY DEF StepFacts, RowsGrow
  <2>. QED  BY <1>2, <2>1, SameValidTeams DEF HeatComplete
<1>3. ASSUME NEW rd \in DOMAIN rounds, GroupHeatsOf(rd) # {}
      PROVE  GroupHeatsOf(rd)' = GroupHeatsOf(rd)
  <2>1. \A h \in DOMAIN heats : /\ h \in DOMAIN heats' /\ heats'[h].round = heats[h].round
                               /\ heats'[h].group = heats[h].group
    BY DEF StepFacts, RowsGrow
  <2>2. \A k \in DOMAIN heats' \ DOMAIN heats : heats'[k].group # 0 => heats'[k].round # rd
    BY <1>3 DEF StepFacts, NewHeatsCover
  <2>. QED  BY <2>1, <2>2 DEF GroupHeatsOf
<1>4. ASSUME NEW rd \in DOMAIN rounds, GroupHeatsOf(rd) # {}, RoundComplete(rd)
      PROVE  RoundComplete(rd)'
  <2>1. \A h \in GroupHeatsOf(rd) : heats[h].status = "closed" => heats'[h].status = "closed"
    BY DEF StepFacts, RowsGrow, GroupHeatsOf
  <2>. QED  BY <1>3, <1>4, <2>1 DEF RoundComplete
<1>. QED
  BY <1>1, <1>2, <1>3, <1>4

\* A closed round is finished because the heats it was closed for were complete, those
\* heats were all its groups' heats, and nothing a later step does changes either.
ClosureInv == TypeInv /\ CascadeJustified /\ ScheduledTogether /\ ClosedRoundFinished

\* A new tournament has nothing to close.
LEMMA InitClosure == Init => ClosureInv
  BY InitType DEF Init, ClosureInv, CascadeJustified, ScheduledTogether, ClosedRoundFinished, Idle

\* A step keeps every submission right about what it is going to close.
LEMMA StepJustified ==
    ASSUME TypeInv, CascadeJustified, StepFacts
    PROVE  CascadeJustified'
<1>1. ASSUME NEW h \in DOMAIN heats', heats'[h].status = "closed"
      PROVE  HeatComplete(h)'
  <2>1. h \in DOMAIN heats /\ HeatComplete(h)
    BY <1>1 DEF StepFacts, ClosedBySubmission, At, CascadeJustified
  <2>. QED  BY <2>1, StaysComplete
<1>2. ASSUME NEW q \in Request, req'[q].handler = "submit",
             NEW h, h = req'[q].id
      PROVE  /\ req'[q].call = "SetHeatStatus" => HeatComplete(h)'
             /\ req'[q].call \in {"ListHeatsForRound", "SetStatus"} => IsGroupHeat(h)'
             /\ req'[q].call = "SetStatus" => RoundComplete(heats[h].round)'
  <2>1. CASE req'[q].call = "ListHeatResults"
    BY <2>1
  <2>2. CASE req'[q].call # "ListHeatResults"
    <3>1. /\ req[q].handler = "submit" /\ req[q].id = h
          /\ req'[q].call = "SetHeatStatus" => HeatComplete(h)
          /\ req'[q].call \in {"ListHeatsForRound", "SetStatus"} => IsGroupHeat(h)
          /\ req'[q].call = "SetStatus" => RoundComplete(heats[h].round)
      BY <1>2, <2>2 DEF StepFacts, CascadeMoves, CascadeJustified
    <3>2. /\ h \in DOMAIN heats /\ heats[h].round \in DOMAIN rounds
          /\ heats'[h].round = heats[h].round /\ heats'[h].group = heats[h].group
      BY <3>1 DEF TypeInv, KeysOK, TableKeysOK, RequestKeysOK, StepFacts, RowsGrow
    <3>3. IsGroupHeat(h) => IsGroupHeat(h)' /\ GroupHeatsOf(heats[h].round) # {}
      BY <3>2 DEF IsGroupHeat, GroupHeatsOf
    <3>4. ASSUME NEW rd, rd = heats[h].round, req'[q].call = "SetStatus"
          PROVE  RoundComplete(rd)'
      BY <3>1, <3>2, <3>3, <3>4, StaysComplete
    <3>5. req'[q].call = "SetStatus" => RoundComplete(heats[h].round)'
      BY <3>2, <3>4 DEF RoundComplete, GroupHeatsOf
    <3>. QED  BY <3>1, <3>2, <3>3, <3>5, StaysComplete
  <2>. QED  BY <2>1, <2>2
<1>. QED
  BY <1>1, <1>2 DEF CascadeJustified, HeatComplete, ValidTeams, IsGroupHeat, RoundComplete, GroupHeatsOf

\* A step leaves a round with heats for all of its groups or for none.
LEMMA StepTogether ==
    ASSUME TypeInv, ScheduledTogether, StepFacts
    PROVE  ScheduledTogether'
<1>. SUFFICES ASSUME NEW h \in DOMAIN heats', heats'[h].group # 0,
                     NEW g \in GroupsOf(heats[h].round)'
              PROVE  \E k \in GroupHeatsOf(heats[h].round)' : heats'[k].group = g
  BY DEF ScheduledTogether, IsGroupHeat
<1>. DEFINE rd == heats'[h].round
<1>1. g \in DOMAIN groups' /\ groups'[g].round = rd
  BY DEF GroupsOf
<1>2. CASE h \in DOMAIN heats
  <2>1. rd = heats[h].round /\ heats[h].group # 0 /\ rd \in DOMAIN rounds
    BY <1>2 DEF StepFacts, RowsGrow, TypeInv, KeysOK, TableKeysOK
  <2>2. g \in DOMAIN groups /\ groups[g].round = rd
    BY <1>1, <2>1 DEF StepFacts, RowsGrow
  <2>3. PICK k \in DOMAIN heats : heats[k].round = rd /\ heats[k].group # 0 /\ heats[k].group = g
    BY <1>2, <2>1, <2>2 DEF ScheduledTogether, IsGroupHeat, GroupsOf, GroupHeatsOf
  <2>4. k \in DOMAIN heats' /\ heats'[k].round = rd /\ heats'[k].group = g
    BY <2>3 DEF StepFacts, RowsGrow
  <2>. QED  BY <2>3, <2>4 DEF GroupHeatsOf
<1>3. CASE h \notin DOMAIN heats
  <2>1. rd \in DOMAIN rounds
        /\ \A x \in GroupsOf(rd) : \E j \in DOMAIN heats' :
              heats'[j].group = x /\ x # 0 /\ heats'[j].round = rd
    BY <1>3 DEF StepFacts, NewHeatsCover
  <2>2. g \in GroupsOf(rd)
    BY <1>1, <2>1 DEF StepFacts, RowsGrow, GroupsOf
  <2>3. PICK j \in DOMAIN heats' : heats'[j].group = g /\ g # 0 /\ heats'[j].round = rd
    BY <2>1, <2>2
  <2>. QED  BY <2>3 DEF GroupHeatsOf
<1>. QED
  BY <1>2, <1>3

\* A step leaves a closed round with a closed, complete heat for each group.
LEMMA StepFinished ==
    ASSUME ClosureInv, StepFacts
    PROVE  ClosedRoundFinished'
<1>. SUFFICES ASSUME NEW rd \in DOMAIN rounds', rounds'[rd].status = "closed",
                     NEW g \in GroupsOf(rd)'
              PROVE  \E h \in DOMAIN heats' : /\ heats'[h].group = g
                                             /\ heats'[h].status = "closed" /\ HeatComplete(h)'
  BY DEF ClosedRoundFinished
<1>1. rd \in DOMAIN rounds
  BY DEF StepFacts, ClosedBySubmission
<1>2. g \in GroupsOf(rd)
  BY <1>1, StaysComplete DEF ClosureInv
<1>3. \E h \in DOMAIN heats : heats[h].group = g /\ heats[h].status = "closed" /\ HeatComplete(h)
  <2>1. CASE rounds[rd].status = "closed"
    BY <1>1, <1>2, <2>1 DEF ClosureInv, ClosedRoundFinished
  <2>2. CASE rounds[rd].status # "closed"
    <3>1. PICK q \in Request : At(q, "submit", "SetStatus") /\ heats[req[q].id].round = rd
      BY <1>1, <2>2 DEF StepFacts, ClosedBySubmission
    <3>2. req[q].id \in DOMAIN heats
      BY <3>1 DEF ClosureInv, TypeInv, KeysOK, RequestKeysOK, At
    <3>3. IsGroupHeat(req[q].id) /\ RoundComplete(rd)
      BY <3>1 DEF ClosureInv, CascadeJustified, At
    <3>4. PICK h \in GroupHeatsOf(rd) : heats[h].group = g
      BY <1>2, <3>1, <3>2, <3>3 DEF ClosureInv, ScheduledTogether
    <3>5. h \in DOMAIN heats /\ heats[h].status = "closed"
      BY <3>3, <3>4 DEF RoundComplete, GroupHeatsOf
    <3>. QED  BY <3>4, <3>5 DEF ClosureInv, CascadeJustified
  <2>. QED  BY <2>1, <2>2
<1>. QED
  BY <1>3, StaysComplete DEF ClosureInv, StepFacts, RowsGrow

\* The invariant behind the closing cascade is inductive.
LEMMA StepClosure == ClosureInv /\ [Next]_vars => ClosureInv'
<1>. SUFFICES ASSUME ClosureInv, [Next]_vars
              PROVE  ClosureInv'
  OBVIOUS
<1>1. TypeInv /\ TypeInv' /\ StepFacts
  BY StepType, EveryStep DEF ClosureInv
<1>. QED
  BY <1>1, StepJustified, StepTogether, StepFinished DEF ClosureInv

\* The invariant holds in every state, for any number of teams, groups, rounds and
\* concurrent requests, with failed calls and restarts.
LEMMA ClosureCorrect == Spec => []ClosureInv
<1>1. Init => ClosureInv
  BY InitClosure
<1>2. ClosureInv /\ [Next]_vars => ClosureInv'
  BY StepClosure
<1>. QED
  BY <1>1, <1>2, PTL DEF Spec

\* A round is closed only when each of its groups has a closed and complete heat.
THEOREM ClosedRoundFinishedCorrect == Spec => []ClosedRoundFinished
  BY ClosureCorrect, PTL DEF ClosureInv

\* Closed heats are complete, and a submission that is about to close a heat or a
\* round is right about it in spite of what the others have done since it looked.
THEOREM CascadeJustifiedCorrect == Spec => []CascadeJustified
  BY ClosureCorrect, PTL DEF ClosureInv

\* A round has heats for all of its groups or for none.
THEOREM ScheduledTogetherCorrect == Spec => []ScheduledTogether
  BY ClosureCorrect, PTL DEF ClosureInv

\* Nothing that was closed reopens and no team loses its result.
THEOREM NothingReopensCorrect == Spec => NothingReopens
<1>1. TypeInv /\ [Next]_vars =>
        /\ \A rd \in DOMAIN rounds : rounds[rd].status = "closed" => rounds'[rd].status = "closed"
        /\ \A h \in DOMAIN heats : /\ heats[h].status = "closed" => heats'[h].status = "closed"
                                  /\ DOMAIN heats[h].results \subseteq DOMAIN heats'[h].results
  BY EveryStep DEF StepFacts, RowsGrow
<1>. QED
  BY <1>1, TypeCorrect, PTL DEF Spec, NothingReopens

-----------------------------------------------------------------------------
\* Without a failure, how the cascade is handed on: from a changed heat to the
\* submission that changed it, from call to call, and at each end for a reason.
HandedOn ==
    /\ \A h \in DOMAIN heats :
          \/ heats'[h].results = heats[h].results
          \/ \E q \in Request : /\ req'[q].handler = "submit" /\ req'[q].id = h
                                /\ req'[q].call = "ListHeatResults"
    /\ \A h \in DOMAIN heats' \ DOMAIN heats : DOMAIN heats'[h].results = {}
    /\ \A h \in DOMAIN heats : heats'[h].status = "closed" /\ IsGroupHeat(h) =>
          \/ heats[h].status = "closed"
          \/ \E q \in Request : /\ req'[q].handler = "submit" /\ req'[q].id = h
                                /\ req'[q].call = "ListHeatsForRound"
    /\ \A q \in Request : req[q].handler = "submit" =>
          \/ req'[q] = req[q]
          \/ /\ req[q].call = "ListHeatResults"
             /\ \/ /\ req'[q].call = "SetHeatStatus"
                   /\ req'[q].handler = "submit" /\ req'[q].id = req[q].id
                \/ ~HeatComplete(req[q].id) /\ UNCHANGED heats
          \/ req[q].call = "SetHeatStatus" /\ heats'[req[q].id].status = "closed"
          \/ /\ req[q].call = "ListHeatsForRound"
             /\ \/ /\ req'[q].call = "SetStatus"
                   /\ req'[q].handler = "submit" /\ req'[q].id = req[q].id
                \/ ~RoundComplete(heats[req[q].id].round) /\ UNCHANGED heats
          \/ req[q].call = "SetStatus" /\ rounds'[heats[req[q].id].round].status = "closed"

\* The steps of a handler that is no submission leave the cascade alone.
LEMMA OthersStay ==
    ASSUME TypeInv, NEW q \in Request, req[q].handler # "submit",
           \A p \in Request \ {q} : req'[p] = req[p], UNCHANGED heats
    PROVE  HandedOn
  BY DEF HandedOn

\* The steps of a submission hand the cascade on.
LEMMA SubmissionHandsOn ==
    ASSUME TypeInv, NEW q \in Request,
           \/ \E h \in DOMAIN heats, batch \in Batch : SubmitHeatResults(q, h, batch)
           \/ ListHeatResults(q) \/ SetHeatStatus(q) \/ ListHeatsForRound(q) \/ SetStatus(q)
    PROVE  HandedOn
<1>1. ASSUME NEW h \in DOMAIN heats, NEW batch \in Batch, SubmitHeatResults(q, h, batch)
      PROVE  HandedOn
  <2>. DEFINE row == [heats[h] EXCEPT !.results = Upsert(batch, heats[h].results)]
  <2>1. heats' = [heats EXCEPT ![h] = row] /\ DOMAIN heats' = DOMAIN heats
    BY <1>1, SubmitRows
  <2>2. row.status = heats[h].status
    BY Typed DEF HeatRow
  <2>. HIDE DEF row
  <2>3. /\ \A k \in DOMAIN heats : k # h => heats'[k] = heats[k]
        /\ \A k \in DOMAIN heats : heats'[k].status = heats[k].status
    BY <2>1, <2>2
  <2>4. /\ req[q].handler = "none"
        /\ req'[q].handler = "submit" /\ req'[q].id = h /\ req'[q].call = "ListHeatResults"
        /\ \A p \in Request \ {q} : req'[p] = req[p]
    BY <1>1, Moves DEF SubmitHeatResults, Idle
  <2>. QED  BY <2>1, <2>3, <2>4 DEF HandedOn
<1>2. ASSUME ListHeatResults(q)
      PROVE  HandedOn
  <2>1. UNCHANGED heats /\ At(q, "submit", "ListHeatResults")
        /\ (~HeatComplete(req[q].id) \/ Continue(q, "SetHeatStatus"))
        /\ (Respond(q) \/ Continue(q, "SetHeatStatus"))
    BY <1>2 DEF ListHeatResults
  <2>. QED  BY <2>1, Moves DEF HandedOn, At
<1>3. ASSUME SetHeatStatus(q)
      PROVE  HandedOn
  <2>. DEFINE h == req[q].id
              row == [heats[h] EXCEPT !.status = "closed"]
  <2>1. h \in DOMAIN heats /\ heats' = [heats EXCEPT ![h] = row] /\ DOMAIN heats' = DOMAIN heats
    BY <1>3, CloseHeatRows
  <2>2. row.status = "closed" /\ row.results = heats[h].results
    BY <2>1, Typed DEF HeatRow
  <2>3. At(q, "submit", "SetHeatStatus")
        /\ (IsGroupHeat(h) => Continue(q, "ListHeatsForRound"))
        /\ (Respond(q) \/ Continue(q, "ListHeatsForRound"))
    BY <1>3 DEF SetHeatStatus
  <2>4. IsGroupHeat(h) => /\ req'[q].handler = "submit" /\ req'[q].id = h
                          /\ req'[q].call = "ListHeatsForRound"
    BY <2>3, Moves DEF At
  <2>5. \A p \in Request \ {q} : req'[p] = req[p]
    BY <2>3, Moves
  <2>. HIDE DEF row, h
  <2>6. /\ \A k \in DOMAIN heats : k # h => heats'[k] = heats[k]
        /\ \A k \in DOMAIN heats : heats'[k].results = heats[k].results
        /\ heats'[h].status = "closed"
    BY <2>1, <2>2
  <2>. QED  BY <2>1, <2>3, <2>4, <2>5, <2>6 DEF HandedOn, At, h
<1>4. ASSUME ListHeatsForRound(q)
      PROVE  HandedOn
  <2>1. UNCHANGED heats /\ At(q, "submit", "ListHeatsForRound")
        /\ (~RoundComplete(heats[req[q].id].round) \/ Continue(q, "SetStatus"))
        /\ (Respond(q) \/ Continue(q, "SetStatus"))
    BY <1>4 DEF ListHeatsForRound
  <2>. QED  BY <2>1, Moves DEF HandedOn, At
<1>5. ASSUME SetStatus(q)
      PROVE  HandedOn
  <2>. DEFINE r == heats[req[q].id].round
  <2>1. /\ r \in DOMAIN rounds
        /\ rounds' = [rounds EXCEPT ![r] = [rounds[r] EXCEPT !.status = "closed"]]
    BY <1>5, CloseRoundRows
  <2>2. UNCHANGED heats /\ At(q, "submit", "SetStatus") /\ Respond(q)
    BY <1>5 DEF SetStatus
  <2>3. rounds[r] \in RoundRow
    BY <2>1, Typed
  <2>4. rounds'[r].status = "closed"
    <3>. HIDE DEF r
    <3>. QED  BY <2>1, <2>3 DEF RoundRow
  <2>. QED  BY <2>2, <2>4, Moves DEF HandedOn, At
<1>. QED
  BY <1>1, <1>2, <1>3, <1>4, <1>5

\* So does every other step that is no failure.
LEMMA EveryStepHandsOn ==
    ASSUME TypeInv, [Next]_vars, faults' = 0
    PROVE  HandedOn /\ faults = 0
<1>1. ASSUME UNCHANGED vars
      PROVE  HandedOn /\ faults = 0
  BY <1>1 DEF vars, HandedOn
<1>2. faults \in Nat
  BY Typed
<1>3. ~Fault
  BY <1>2 DEF Fault, Restart, CallFails
<1>4. ASSUME NEW n \in 1..MaxRounds, NEW lists \in RequestedGroups, CreateRound(n, lists)
      PROVE  HandedOn /\ faults = 0
  BY <1>4 DEF CreateRound, HandedOn
<1>5. ASSUME NEW rd \in DOMAIN rounds, NEW gs \in Lists(GroupsOf(rd)), ScheduleRound(rd, gs)
      PROVE  HandedOn /\ faults = 0
  <2>1. /\ \A h \in DOMAIN heats : heats'[h] = heats[h]
        /\ \A k \in DOMAIN heats' \ DOMAIN heats : \E i \in DOMAIN gs :
              heats'[k] = NewHeat(rd, gs[i], 0)
    BY <1>5, ScheduleRoundRows
  <2>2. UNCHANGED <<req, faults>>
    BY <1>5 DEF ScheduleRound
  <2>3. \A k \in DOMAIN heats' \ DOMAIN heats : heats'[k].results = <<>>
    BY <2>1 DEF NewHeat
  <2>. QED  BY <2>1, <2>2, <2>3 DEF HandedOn
<1>6. ASSUME NEW ds \in Lists(DOMAIN divisions), ScheduleDivisions(ds)
      PROVE  HandedOn /\ faults = 0
  <2>1. /\ \A h \in DOMAIN heats : heats'[h] = heats[h]
        /\ \A k \in DOMAIN heats' \ DOMAIN heats : \E i \in DOMAIN ds :
              heats'[k] = NewHeat(divisions[ds[i]].round, 0, ds[i])
    BY <1>6, ScheduleDivisionsRows
  <2>2. UNCHANGED <<req, faults>>
    BY <1>6 DEF ScheduleDivisions
  <2>3. \A k \in DOMAIN heats' \ DOMAIN heats : heats'[k].results = <<>>
    BY <2>1 DEF NewHeat
  <2>. QED  BY <2>1, <2>2, <2>3 DEF HandedOn
<1>7. ASSUME NEW q \in Request,
             \/ \E h \in DOMAIN heats, batch \in Batch : SubmitHeatResults(q, h, batch)
             \/ ListHeatResults(q) \/ SetHeatStatus(q) \/ ListHeatsForRound(q) \/ SetStatus(q)
      PROVE  HandedOn /\ faults = 0
  <2>1. UNCHANGED faults
    BY <1>7 DEF SubmitHeatResults, ListHeatResults, SetHeatStatus, ListHeatsForRound, SetStatus
  <2>. QED  BY <1>7, <2>1, SubmissionHandsOn
<1>8. ASSUME NEW q \in Request, RoundExists(q) \/ CreateNextRound(q) \/ CreateDivisions(q)
      PROVE  HandedOn /\ faults = 0
  <2>1. /\ req[q].handler \in {"next", "divisions"} /\ UNCHANGED <<heats, faults>>
        /\ (Respond(q) \/ Continue(q, "CreateRound"))
    BY <1>8 DEF RoundExists, CreateNextRound, CreateDivisions, At
  <2>. QED  BY <2>1, Moves, OthersStay
<1>9. ASSUME NEW q \in Request, ListResultsForRound(q)
      PROVE  HandedOn /\ faults = 0
  <2>1. UNCHANGED <<heats, faults>> /\ \A p \in Request \ {q} : req'[p] = req[p]
    BY <1>9, Typed DEF ListResultsForRound
  <2>2. req[q].handler # "submit"
    BY <1>9 DEF ListResultsForRound, TypeInv, KeysOK, RequestKeysOK
  <2>. QED  BY <2>1, <2>2, OthersStay
<1>10. ASSUME NEW q \in Request, NEW rd \in DOMAIN rounds, NextRound(q, rd) \/ ComputeDivisions(q, rd)
       PROVE  HandedOn /\ faults = 0
  <2>1. /\ req[q].handler = "none" /\ UNCHANGED <<heats, faults>>
        /\ \E handler : Begin(q, handler, "ListResultsForRound", rd)
    BY <1>10 DEF NextRound, ComputeDivisions, LoadClosedRound, Idle
  <2>. QED  BY <2>1, Moves, OthersStay
<1>. QED
  BY <1>1, <1>3, <1>4, <1>5, <1>6, <1>7, <1>8, <1>9, <1>10 DEF Next, User, Handler

\* A step leaves every complete heat that is open with its submission.
LEMMA StepHeatUnderWay ==
    ASSUME TypeInv, faults = 0, ClosureUnderWay, StepFacts, HandedOn,
           NEW h \in DOMAIN heats', HeatComplete(h)', heats'[h].status = "scheduled"
    PROVE  \E q \in Request : /\ req'[q].handler = "submit" /\ req'[q].id = h
                              /\ req'[q].call \in {"ListHeatResults", "SetHeatStatus"}
<1>1. h \in DOMAIN heats
  <2>1. ValidTeams(h)' # {} /\ ValidTeams(h)' \subseteq DOMAIN heats'[h].results
    BY DEF HeatComplete
  <2>. QED  BY <2>1 DEF HandedOn
<1>2. heats[h].status = "scheduled"
  <2>1. heats[h] \in HeatRow
    BY <1>1, Typed
  <2>. QED  BY <1>1, <2>1 DEF HeatRow, StepFacts, RowsGrow
<1>3. ValidTeams(h)' = ValidTeams(h)
  BY <1>1, SameValidTeams
<1>4. CASE heats'[h].results # heats[h].results
  BY <1>1, <1>4 DEF HandedOn
<1>5. CASE heats'[h].results = heats[h].results
  <2>1. HeatComplete(h)
    BY <1>3, <1>5 DEF HeatComplete
  <2>2. PICK q \in Request : /\ req[q].handler = "submit" /\ req[q].id = h
                             /\ req[q].call \in {"ListHeatResults", "SetHeatStatus"}
    BY <1>1, <1>2, <2>1 DEF ClosureUnderWay
  <2>. QED  BY <2>1, <2>2 DEF HandedOn
<1>. QED
  BY <1>4, <1>5

\* A step leaves every open round whose heats are closed with its submission.
LEMMA StepRoundUnderWay ==
    ASSUME TypeInv, faults = 0, ClosureUnderWay, StepFacts, HandedOn,
           NEW rd \in DOMAIN rounds', GroupHeatsOf(rd)' # {}, RoundComplete(rd)',
           rounds'[rd].status = "open", TypeInv'
    PROVE  \E q \in Request : /\ req'[q].handler = "submit"
                              /\ req'[q].id \in GroupHeatsOf(rd)'
                              /\ req'[q].call \in {"ListHeatsForRound", "SetStatus"}
<1>1. \A h \in DOMAIN heats' : heats'[h].round = rd /\ heats'[h].group # 0 =>
          h \in DOMAIN heats /\ heats'[h].status = "closed"
  <2>1. \A h \in GroupHeatsOf(rd)' : heats'[h].status = "closed"
    BY DEF RoundComplete
  <2>. QED  BY <2>1 DEF GroupHeatsOf, StepFacts, NewHeatsCover
<1>2. PICK h \in DOMAIN heats : heats'[h].round = rd /\ heats'[h].group # 0
  BY <1>1 DEF GroupHeatsOf
<1>3. rd \in DOMAIN rounds /\ h \in GroupHeatsOf(rd)
  BY <1>2 DEF StepFacts, RowsGrow, TypeInv, KeysOK, TableKeysOK, GroupHeatsOf
<1>4. GroupHeatsOf(rd)' = GroupHeatsOf(rd)
  BY <1>3, StaysComplete
<1>5. rounds[rd].status = "open"
  <2>1. rounds[rd] \in RoundRow
    BY <1>3, Typed
  <2>. QED  BY <1>3, <2>1 DEF RoundRow, StepFacts, RowsGrow
<1>6. CASE RoundComplete(rd)
  <2>1. PICK q \in Request : /\ req[q].handler = "submit" /\ req[q].id \in GroupHeatsOf(rd)
                             /\ req[q].call \in {"ListHeatsForRound", "SetStatus"}
    BY <1>3, <1>5, <1>6 DEF ClosureUnderWay
  <2>2. heats[req[q].id].round = rd
    BY <2>1 DEF GroupHeatsOf
  <2>3. \/ req'[q] = req[q]
        \/ /\ req'[q].call = "SetStatus"
           /\ req'[q].handler = "submit" /\ req'[q].id = req[q].id
    BY <1>6, <2>1, <2>2 DEF HandedOn
  <2>. QED  BY <1>4, <2>1, <2>3
<1>7. CASE ~RoundComplete(rd)
  <2>1. PICK k \in GroupHeatsOf(rd) : heats[k].status # "closed"
    BY <1>7 DEF RoundComplete
  <2>2. k \in DOMAIN heats /\ IsGroupHeat(k) /\ heats'[k].round = rd /\ heats'[k].group # 0
        /\ k \in DOMAIN heats'
    BY <2>1 DEF GroupHeatsOf, IsGroupHeat, StepFacts, RowsGrow
  <2>3. heats'[k].status = "closed"
    BY <1>1, <2>2
  <2>. QED  BY <1>4, <2>1, <2>2, <2>3 DEF HandedOn
<1>. QED
  BY <1>6, <1>7

\* Without a failure no complete heat and no round with closed heats is forgotten: a
\* submission in flight is about to find it so.
THEOREM ClosureUnderWayCorrect == Spec => []ClosureUnderWay
<1>1. Init => ClosureUnderWay
  BY DEF Init, ClosureUnderWay
<1>2. TypeInv /\ ClosureUnderWay /\ [Next]_vars => ClosureUnderWay'
  <2>. SUFFICES ASSUME TypeInv, ClosureUnderWay, [Next]_vars, faults' = 0
                PROVE  ClosureUnderWay'
    BY DEF ClosureUnderWay
  <2>1. TypeInv' /\ StepFacts /\ HandedOn /\ faults = 0
    BY StepType, EveryStep, EveryStepHandsOn
  <2>2. \A h \in DOMAIN heats' : HeatComplete(h)' /\ heats'[h].status = "scheduled" =>
           \E q \in Request : /\ req'[q].handler = "submit" /\ req'[q].id = h
                              /\ req'[q].call \in {"ListHeatResults", "SetHeatStatus"}
    BY <2>1, StepHeatUnderWay
  <2>3. \A rd \in DOMAIN rounds' :
           GroupHeatsOf(rd)' # {} /\ RoundComplete(rd)' /\ rounds'[rd].status = "open" =>
           \E q \in Request : /\ req'[q].handler = "submit"
                              /\ req'[q].id \in GroupHeatsOf(rd)'
                              /\ req'[q].call \in {"ListHeatsForRound", "SetStatus"}
    BY <2>1, StepRoundUnderWay
  <2>. QED
    BY <2>2, <2>3 DEF ClosureUnderWay, HeatComplete, ValidTeams, IsGroupHeat, RoundComplete, GroupHeatsOf
<1>. QED
  BY <1>1, <1>2, TypeCorrect, PTL DEF Spec

-----------------------------------------------------------------------------
(* That rounds and heats are made once each, what /next and /divisions     *)
(* rank, and that the tables and handlers implement RoundPromise.          *)

\* How a step changes the rounds table: not at all, one status, or one new round.
LEMMA RoundsStep ==
    ASSUME TypeInv, [Next]_vars
    PROVE  \/ UNCHANGED rounds
           \/ \E q \in Request : SetStatus(q)
           \/ \E n \in Nat, lists \in Seq(Seq(Name)) : InsertRound(n, lists)
<1>1. ASSUME NEW n \in 1..MaxRounds, NEW lists \in RequestedGroups, CreateRound(n, lists)
      PROVE  \E m \in Nat, l \in Seq(Seq(Name)) : InsertRound(m, l)
  BY <1>1, LifecycleAssumption DEF CreateRound
<1>2. ASSUME NEW q \in Request, CreateNextRound(q), rounds' # rounds
      PROVE  \E m \in Nat, l \in Seq(Seq(Name)) : InsertRound(m, l)
  <2>1. req[q].id \in DOMAIN rounds
    BY <1>2 DEF CreateNextRound, At, TypeInv, KeysOK, RequestKeysOK
  <2>2. rounds[req[q].id] \in RoundRow
    BY <2>1, Typed
  <2>3. rounds[req[q].id].number + 1 \in Nat
    BY <2>2 DEF RoundRow
  <2>4. PICK lists \in PluginGroups : InsertRound(rounds[req[q].id].number + 1, lists)
    BY <1>2 DEF CreateNextRound
  <2>5. lists \in Seq(Seq(Name))
    BY LifecycleAssumption
  <2>. QED  BY <2>3, <2>4, <2>5
<1>3. ASSUME NEW q \in Request,
             \/ CallFails(q) \/ ListHeatResults(q) \/ SetHeatStatus(q) \/ ListHeatsForRound(q)
             \/ ListResultsForRound(q) \/ RoundExists(q) \/ CreateDivisions(q)
             \/ \E h \in DOMAIN heats, batch \in Batch : SubmitHeatResults(q, h, batch)
             \/ \E rd \in DOMAIN rounds : NextRound(q, rd) \/ ComputeDivisions(q, rd)
      PROVE  UNCHANGED rounds
  BY <1>3 DEF CallFails, ListHeatResults, SetHeatStatus, ListHeatsForRound, ListResultsForRound,
     RoundExists, CreateDivisions, SubmitHeatResults, NextRound, ComputeDivisions, LoadClosedRound
<1>4. ASSUME \/ UNCHANGED vars \/ Restart
             \/ \E rd \in DOMAIN rounds : \E gs \in Lists(GroupsOf(rd)) : ScheduleRound(rd, gs)
             \/ \E ds \in Lists(DOMAIN divisions) : ScheduleDivisions(ds)
      PROVE  UNCHANGED rounds
  BY <1>4 DEF vars, Restart, ScheduleRound, ScheduleDivisions
<1>. QED
  BY <1>1, <1>2, <1>3, <1>4 DEF Next, User, Handler, Fault

\* A new round has a number that no round had.
LEMMA InsertRoundNumber ==
    ASSUME TypeInv, UniqueRoundNumbers, NEW n \in Nat, NEW lists \in Seq(Seq(Name)),
           InsertRound(n, lists)
    PROVE  UniqueRoundNumbers'
<1>1. /\ DOMAIN rounds' = DOMAIN rounds \cup {Len(rounds) + 1}
      /\ Len(rounds) + 1 \notin DOMAIN rounds
      /\ \A rd \in DOMAIN rounds : rounds'[rd] = rounds[rd]
  BY InsertRoundRows
<1>2. rounds'[Len(rounds) + 1].number = n
  <2>1. rounds' = Append(rounds, [number |-> n, status |-> "open"]) /\ rounds \in Seq(RoundRow)
    BY Typed DEF InsertRound
  <2>2. rounds'[Len(rounds) + 1] = [number |-> n, status |-> "open"]
    BY <2>1
  <2>. QED  BY <2>2
<1>3. \A rd \in DOMAIN rounds : rounds'[rd].number # n
  BY <1>1 DEF InsertRound, NumberTaken
<1>. QED
  BY <1>1, <1>2, <1>3 DEF UniqueRoundNumbers

\* A step keeps the round numbers apart.
LEMMA StepUnique ==
    ASSUME TypeInv, UniqueRoundNumbers, [Next]_vars
    PROVE  UniqueRoundNumbers'
<1>1. ASSUME UNCHANGED rounds
      PROVE  UniqueRoundNumbers'
  BY <1>1 DEF UniqueRoundNumbers
<1>2. ASSUME NEW q \in Request, SetStatus(q)
      PROVE  UniqueRoundNumbers'
  <2>. DEFINE r == heats[req[q].id].round
  <2>1. /\ r \in DOMAIN rounds /\ DOMAIN rounds' = DOMAIN rounds
        /\ rounds' = [rounds EXCEPT ![r] = [rounds[r] EXCEPT !.status = "closed"]]
    BY <1>2, CloseRoundRows
  <2>. HIDE DEF r
  <2>2. rounds[r] \in RoundRow
    BY <2>1, Typed
  <2>3. rounds'[r].number = rounds[r].number
    BY <2>1, <2>2 DEF RoundRow
  <2>4. \A k \in DOMAIN rounds : k # r => rounds'[k] = rounds[k]
    BY <2>1
  <2>5. \A k \in DOMAIN rounds : rounds'[k].number = rounds[k].number
    BY <2>3, <2>4
  <2>. QED  BY <2>1, <2>5 DEF UniqueRoundNumbers
<1>3. ASSUME NEW n \in Nat, NEW lists \in Seq(Seq(Name)), InsertRound(n, lists)
      PROVE  UniqueRoundNumbers'
  BY <1>3, InsertRoundNumber
<1>. QED
  BY <1>1, <1>2, <1>3, RoundsStep

\* However requests interleave, a round number is used once.
THEOREM UniqueRoundNumbersCorrect == Spec => []UniqueRoundNumbers
<1>1. Init => UniqueRoundNumbers
  BY DEF Init, UniqueRoundNumbers
<1>2. TypeInv /\ UniqueRoundNumbers /\ [Next]_vars => UniqueRoundNumbers'
  BY StepUnique
<1>. QED
  BY <1>1, <1>2, TypeCorrect, PTL DEF Spec

-----------------------------------------------------------------------------
\* Inductive form of OneHeatEach: a group's heat has no division, so that its NULL is
\* not mistaken for the key of one.
HeatsApart ==
    /\ \A h \in DOMAIN heats : heats[h].group # 0 => heats[h].division = 0
    /\ OneHeatEach

\* How a step changes the heats table: rows keep their keys, or new rows are added by
\* one of the two scheduling transactions.
LEMMA HeatsStep ==
    ASSUME TypeInv, [Next]_vars
    PROVE  \/ DOMAIN heats' = DOMAIN heats /\ SameHeatKeys
           \/ \E rd \in DOMAIN rounds : \E gs \in Lists(GroupsOf(rd)) : ScheduleRound(rd, gs)
           \/ \E ds \in Lists(DOMAIN divisions) : ScheduleDivisions(ds)
<1>1. ASSUME NEW q \in Request,
             \/ SetHeatStatus(q)
             \/ \E h \in DOMAIN heats, batch \in Batch : SubmitHeatResults(q, h, batch)
      PROVE  DOMAIN heats' = DOMAIN heats /\ SameHeatKeys
  BY <1>1, SubmitRows, CloseHeatRows
<1>2. ASSUME UNCHANGED heats
      PROVE  DOMAIN heats' = DOMAIN heats /\ SameHeatKeys
  BY <1>2 DEF SameHeatKeys
<1>3. ASSUME NEW q \in Request,
             \/ CallFails(q) \/ ListHeatResults(q) \/ ListHeatsForRound(q) \/ SetStatus(q)
             \/ ListResultsForRound(q) \/ RoundExists(q) \/ CreateNextRound(q)
             \/ CreateDivisions(q)
             \/ \E rd \in DOMAIN rounds : NextRound(q, rd) \/ ComputeDivisions(q, rd)
      PROVE  UNCHANGED heats
  BY <1>3 DEF CallFails, ListHeatResults, ListHeatsForRound, SetStatus, ListResultsForRound,
     RoundExists, CreateNextRound, CreateDivisions, NextRound, ComputeDivisions, LoadClosedRound
<1>4. ASSUME \/ UNCHANGED vars \/ Restart
             \/ \E n \in 1..MaxRounds, lists \in RequestedGroups : CreateRound(n, lists)
      PROVE  UNCHANGED heats
  BY <1>4 DEF vars, Restart, CreateRound
<1>. QED
  BY <1>1, <1>2, <1>3, <1>4 DEF Next, User, Handler, Fault

\* ScheduleGroupHeats: the groups of the request are different ones without a heat.
LEMMA RoundHeatsApart ==
    ASSUME TypeInv, HeatsApart, NEW rd \in DOMAIN rounds, NEW gs \in Lists(GroupsOf(rd)),
           ScheduleRound(rd, gs)
    PROVE  HeatsApart'
<1>1. /\ \A h \in DOMAIN heats : h \in DOMAIN heats' /\ heats'[h] = heats[h]
      /\ \A k \in DOMAIN heats' \ DOMAIN heats : \E i \in DOMAIN gs :
            k = Len(heats) + i /\ heats'[k] = NewHeat(rd, gs[i], 0)
      /\ \A i \in DOMAIN gs : gs[i] \in GroupsOf(rd)
  BY ScheduleRoundRows
<1>2. /\ \A i, j \in DOMAIN gs : gs[i] = gs[j] => i = j
      /\ \A h \in DOMAIN heats, i \in DOMAIN gs : heats[h].group # gs[i]
  BY DEF ScheduleRound, CoversRound, InsertGroupHeats, IsInjective, ToSet
<1>3. \A i \in DOMAIN gs : gs[i] # 0
  BY <1>1, GroupKeys DEF GroupsOf
<1>4. \A k \in DOMAIN heats' \ DOMAIN heats : \E i \in DOMAIN gs :
         k = Len(heats) + i /\ heats'[k].group = gs[i] /\ heats'[k].division = 0
  BY <1>1 DEF NewHeat
<1>5. \A h \in DOMAIN heats' : heats'[h].group # 0 => heats'[h].division = 0
  BY <1>1, <1>4 DEF HeatsApart
<1>6. ASSUME NEW h \in DOMAIN heats', NEW k \in DOMAIN heats', h # k
      PROVE  IF heats'[h].group # 0 THEN heats'[h].group # heats'[k].group
                                    ELSE heats'[h].division # heats'[k].division
  <2>1. CASE h \in DOMAIN heats /\ k \in DOMAIN heats
    BY <1>1, <1>6, <2>1 DEF HeatsApart, OneHeatEach, IsGroupHeat
  <2>2. CASE h \notin DOMAIN heats
    <3>1. PICK i \in DOMAIN gs : h = Len(heats) + i /\ heats'[h].group = gs[i]
      BY <1>4, <2>2
    <3>2. heats'[k].group # gs[i]
      BY <1>1, <1>2, <1>4, <1>6, <3>1
    <3>. QED  BY <1>3, <3>1, <3>2
  <2>3. CASE h \in DOMAIN heats /\ k \notin DOMAIN heats
    <3>1. heats'[k].division = 0 /\ heats'[k].group # heats[h].group
      BY <1>2, <1>4, <2>3
    <3>2. heats[h].group = 0 => heats[h].division # 0
      BY <2>3, GroupKeys DEF TypeInv, KeysOK, TableKeysOK
    <3>. QED  BY <1>1, <2>3, <3>1, <3>2
  <2>. QED  BY <2>1, <2>2, <2>3
<1>. QED
  BY <1>5, <1>6 DEF HeatsApart, OneHeatEach, IsGroupHeat

\* ScheduleDivisionHeats: the same for divisions.
LEMMA DivisionHeatsApart ==
    ASSUME TypeInv, HeatsApart, NEW ds \in Lists(DOMAIN divisions), ScheduleDivisions(ds)
    PROVE  HeatsApart'
<1>1. /\ \A h \in DOMAIN heats : h \in DOMAIN heats' /\ heats'[h] = heats[h]
      /\ \A k \in DOMAIN heats' \ DOMAIN heats : \E i \in DOMAIN ds :
            /\ k = Len(heats) + i /\ ds[i] \in DOMAIN divisions
            /\ heats'[k] = NewHeat(divisions[ds[i]].round, 0, ds[i])
  BY ScheduleDivisionsRows
<1>2. /\ \A i, j \in DOMAIN ds : ds[i] = ds[j] => i = j
      /\ \A h \in DOMAIN heats, i \in DOMAIN ds : heats[h].division # ds[i]
  BY DEF ScheduleDivisions, InsertDivisionHeats, IsInjective, ToSet
<1>3. \A k \in DOMAIN heats' \ DOMAIN heats : \E i \in DOMAIN ds :
         k = Len(heats) + i /\ heats'[k].group = 0 /\ heats'[k].division = ds[i]
  BY <1>1 DEF NewHeat
<1>4. \A h \in DOMAIN heats' : heats'[h].group # 0 => heats'[h].division = 0
  BY <1>1, <1>3 DEF HeatsApart
<1>5. ASSUME NEW h \in DOMAIN heats', NEW k \in DOMAIN heats', h # k
      PROVE  IF heats'[h].group # 0 THEN heats'[h].group # heats'[k].group
                                    ELSE heats'[h].division # heats'[k].division
  <2>1. CASE h \in DOMAIN heats /\ k \in DOMAIN heats
    BY <1>1, <1>5, <2>1 DEF HeatsApart, OneHeatEach, IsGroupHeat
  <2>2. CASE h \notin DOMAIN heats
    <3>1. PICK i \in DOMAIN ds : /\ h = Len(heats) + i /\ heats'[h].group = 0
                                 /\ heats'[h].division = ds[i]
      BY <1>3, <2>2
    <3>2. heats'[k].division # ds[i]
      BY <1>1, <1>2, <1>3, <1>5, <3>1
    <3>. QED  BY <3>1, <3>2
  <2>3. CASE h \in DOMAIN heats /\ k \notin DOMAIN heats
    BY <1>1, <1>2, <1>3, <2>3
  <2>. QED  BY <2>1, <2>2, <2>3
<1>. QED
  BY <1>4, <1>5 DEF HeatsApart, OneHeatEach, IsGroupHeat

\* A step schedules no group and no division a second time.
LEMMA StepApart ==
    ASSUME TypeInv, HeatsApart, [Next]_vars
    PROVE  HeatsApart'
<1>1. ASSUME DOMAIN heats' = DOMAIN heats, SameHeatKeys
      PROVE  HeatsApart'
  BY <1>1 DEF SameHeatKeys, HeatsApart, OneHeatEach, IsGroupHeat
<1>. QED
  BY <1>1, HeatsStep, RoundHeatsApart, DivisionHeatsApart

\* Groups and heats, and divisions and heats, are 1:1 although no table says so.
THEOREM OneHeatEachCorrect == Spec => []OneHeatEach
<1>1. Init => HeatsApart
  BY DEF Init, HeatsApart, OneHeatEach
<1>2. TypeInv /\ HeatsApart /\ [Next]_vars => HeatsApart'
  BY StepApart
<1>3. HeatsApart => OneHeatEach
  BY DEF HeatsApart
<1>. QED
  BY <1>1, <1>2, <1>3, TypeCorrect, PTL DEF Spec

-----------------------------------------------------------------------------
\* What makes a ranking complete: /next and /divisions work on closed rounds only, a
\* closed round is finished, and what they have read covers the round's teams.
ReadingClosed ==
    \A q \in Request :
        req[q].handler \in {"next", "divisions"} => rounds[req[q].id].status = "closed"

ReadAll ==
    \A q \in Request :
        req[q].call \in {"RoundExists", "CreateRound", "CreateDivisions"} =>
            /\ req[q].handler \in {"next", "divisions"}
            /\ TeamsOf(req[q].id) \subseteq DOMAIN req[q].results

RankingInv == ClosureInv /\ ReadingClosed /\ ReadAll

\* How a request gets to the call that inserts what the plugin made of its ranking.
RankingMoves ==
    \A q \in Request :
        \/ req'[q] = req[q]
        \/ /\ req'[q].handler \notin {"next", "divisions"}
           /\ req'[q].call \notin {"RoundExists", "CreateRound", "CreateDivisions"}
        \/ /\ req'[q].call = "ListResultsForRound"
           /\ req'[q].id \in DOMAIN rounds /\ rounds[req'[q].id].status = "closed"
        \/ /\ req[q].handler \in {"next", "divisions"}
           /\ req'[q].handler = req[q].handler /\ req'[q].id = req[q].id
           /\ \/ req'[q].results \in ResultMaps(req[q].id)
              \/ req[q].call = "RoundExists" /\ req'[q].results = req[q].results

\* A request that ends, goes on or starts changes its own locals only.
LEMMA LocalMoves ==
    ASSUME TypeInv, NEW q \in Request
    PROVE  /\ Respond(q) => /\ req'[q] = Idle
                            /\ \A p \in Request \ {q} : req'[p] = req[p]
           /\ \A call : Continue(q, call) =>
                 /\ req'[q].handler = req[q].handler /\ req'[q].id = req[q].id
                 /\ req'[q].call = call /\ req'[q].results = req[q].results
                 /\ \A p \in Request \ {q} : req'[p] = req[p]
           /\ \A handler, call, id : Begin(q, handler, call, id) =>
                 /\ req'[q].handler = handler /\ req'[q].id = id
                 /\ req'[q].call = call
                 /\ \A p \in Request \ {q} : req'[p] = req[p]
<1>1. req \in [Request -> Locals] /\ req[q] \in Locals
  BY Typed
<1>. QED
  BY <1>1 DEF Respond, Continue, Begin, Locals

\* Every step moves requests in one of these ways.
LEMMA StepMoves ==
    ASSUME TypeInv, [Next]_vars
    PROVE  RankingMoves
<1>. Idle.handler = "none" /\ Idle.call = "none"
  BY DEF Idle
<1>1. ASSUME NEW q \in Request,
             \/ CallFails(q) \/ SetStatus(q) \/ CreateNextRound(q) \/ CreateDivisions(q)
      PROVE  RankingMoves
  <2>1. Respond(q)
    BY <1>1 DEF CallFails, SetStatus, CreateNextRound, CreateDivisions
  <2>. QED  BY <2>1, LocalMoves DEF RankingMoves
<1>2. ASSUME NEW q \in Request,
             \/ ListHeatResults(q) \/ SetHeatStatus(q) \/ ListHeatsForRound(q)
             \/ \E h \in DOMAIN heats, batch \in Batch : SubmitHeatResults(q, h, batch)
      PROVE  RankingMoves
  <2>1. \/ Respond(q)
        \/ req[q].handler = "submit" /\ \E call \in {"SetHeatStatus", "ListHeatsForRound", "SetStatus"} :
              Continue(q, call)
        \/ \E h \in DOMAIN heats : Begin(q, "submit", "ListHeatResults", h)
    BY <1>2 DEF ListHeatResults, SetHeatStatus, ListHeatsForRound, SubmitHeatResults, At
  <2>. QED  BY <2>1, LocalMoves DEF RankingMoves
<1>3. ASSUME NEW q \in Request, NEW rd \in DOMAIN rounds, NextRound(q, rd) \/ ComputeDivisions(q, rd)
      PROVE  RankingMoves
  <2>1. \E handler : Begin(q, handler, "ListResultsForRound", rd) /\ rounds[rd].status = "closed"
    BY <1>3 DEF NextRound, ComputeDivisions, LoadClosedRound
  <2>. QED  BY <2>1, LocalMoves DEF RankingMoves
<1>4. ASSUME NEW q \in Request, ListResultsForRound(q)
      PROVE  RankingMoves
  <2>1. PICK results \in ResultMaps(req[q].id) :
          req' = [req EXCEPT ![q].results = results,
                             ![q].call = IF req[q].handler = "next" THEN "RoundExists"
                                                                    ELSE "CreateDivisions"]
    BY <1>4 DEF ListResultsForRound
  <2>2. req \in [Request -> Locals] /\ req[q] \in Locals
    BY Typed
  <2>3. /\ req'[q].handler = req[q].handler /\ req'[q].id = req[q].id
        /\ req'[q].results = results
        /\ \A p \in Request \ {q} : req'[p] = req[p]
    BY <2>1, <2>2 DEF Locals
  <2>4. req[q].handler \in {"next", "divisions"}
    BY <1>4 DEF ListResultsForRound, TypeInv, KeysOK, RequestKeysOK
  <2>. QED  BY <2>3, <2>4 DEF RankingMoves
<1>5. ASSUME NEW q \in Request, RoundExists(q)
      PROVE  RankingMoves
  <2>1. At(q, "next", "RoundExists") /\ (Respond(q) \/ Continue(q, "CreateRound"))
    BY <1>5 DEF RoundExists
  <2>. QED  BY <2>1, LocalMoves DEF RankingMoves, At
<1>6. ASSUME Restart
      PROVE  RankingMoves
  BY <1>6 DEF Restart, RankingMoves
<1>7. ASSUME \/ UNCHANGED vars
             \/ \E n \in 1..MaxRounds, lists \in RequestedGroups : CreateRound(n, lists)
             \/ \E rd \in DOMAIN rounds : \E gs \in Lists(GroupsOf(rd)) : ScheduleRound(rd, gs)
             \/ \E ds \in Lists(DOMAIN divisions) : ScheduleDivisions(ds)
      PROVE  RankingMoves
  BY <1>7 DEF vars, CreateRound, ScheduleRound, ScheduleDivisions, RankingMoves
<1>. QED
  BY <1>1, <1>2, <1>3, <1>4, <1>5, <1>6, <1>7 DEF Next, User, Handler, Fault

\* What is read about a closed round covers its teams: each has its result in the heat
\* of its group.
LEMMA ResultsCoverClosed ==
    ASSUME TypeInv, ClosedRoundFinished, NEW rd \in DOMAIN rounds, rounds[rd].status = "closed",
           NEW f \in ResultMaps(rd)
    PROVE  TeamsOf(rd) \subseteq DOMAIN f
<1>. DEFINE in == {h \in DOMAIN heats : heats[h].round = rd}
            known == UNION {DOMAIN heats[h].results : h \in in}
<1>1. DOMAIN f = known
  BY DEF ResultMaps
<1>. SUFFICES ASSUME NEW t \in TeamsOf(rd)
              PROVE  t \in known
  BY <1>1
<1>2. PICK g \in GroupsOf(rd) : t \in ToSet(groups[g].teams)
  BY DEF TeamsOf
<1>3. g \in DOMAIN groups /\ groups[g].round = rd /\ g # 0
  BY GroupKeys DEF GroupsOf
<1>4. PICK h \in DOMAIN heats : heats[h].group = g /\ HeatComplete(h)
  BY DEF ClosedRoundFinished
<1>5. heats[h].round = rd
  BY <1>3, <1>4 DEF TypeInv, KeysOK, TableKeysOK
<1>6. t \in DOMAIN heats[h].results
  BY <1>2, <1>3, <1>4 DEF HeatComplete, ValidTeams, IsGroupHeat
<1>. QED
  BY <1>5, <1>6

\* The teams of a round that exists never change.
LEMMA SameTeams ==
    ASSUME TypeInv, StepFacts, NEW rd \in DOMAIN rounds
    PROVE  TeamsOf(rd)' = TeamsOf(rd)
<1>1. GroupsOf(rd)' = GroupsOf(rd)
  BY StaysComplete
<1>2. \A g \in GroupsOf(rd) : groups'[g] = groups[g]
  BY DEF StepFacts, RowsGrow, GroupsOf
<1>. QED
  BY <1>1, <1>2 DEF TeamsOf

\* A step keeps what the ranking rests on.
LEMMA StepRanking == RankingInv /\ [Next]_vars => RankingInv'
<1>. SUFFICES ASSUME RankingInv, [Next]_vars
              PROVE  RankingInv'
  OBVIOUS
<1>1. TypeInv /\ StepFacts /\ RankingMoves /\ ClosureInv'
  BY StepClosure, EveryStep, StepMoves DEF RankingInv, ClosureInv
<1>2. \A q \in Request : req[q].handler \in {"next", "divisions"} =>
         req[q].id \in DOMAIN rounds /\ rounds[req[q].id].status = "closed"
  BY <1>1 DEF RankingInv, ReadingClosed, TypeInv, KeysOK, RequestKeysOK
<1>3. \A rd \in DOMAIN rounds : rounds[rd].status = "closed" => rounds'[rd].status = "closed"
  BY <1>1 DEF StepFacts, RowsGrow
<1>4. ReadingClosed'
  <2>. SUFFICES ASSUME NEW q \in Request, req'[q].handler \in {"next", "divisions"}
                PROVE  rounds'[req'[q].id].status = "closed"
    BY DEF ReadingClosed
  <2>1. req'[q].id \in DOMAIN rounds /\ rounds[req'[q].id].status = "closed"
    BY <1>1, <1>2 DEF RankingMoves
  <2>. QED  BY <1>3, <2>1
<1>5. ASSUME NEW q \in Request, NEW rd, rd = req'[q].id,
             req'[q].call \in {"RoundExists", "CreateRound", "CreateDivisions"}
      PROVE  /\ req'[q].handler \in {"next", "divisions"}
             /\ TeamsOf(rd)' \subseteq DOMAIN req'[q].results
  <2>1. /\ req'[q].handler \in {"next", "divisions"} /\ req[q].handler = req'[q].handler
        /\ req[q].id = rd
    BY <1>1, <1>5 DEF RankingMoves, RankingInv, ReadAll
  <2>2. rd \in DOMAIN rounds /\ rounds[rd].status = "closed"
    BY <1>2, <2>1
  <2>3. CASE req'[q].results \in ResultMaps(rd)
    BY <1>1, <2>1, <2>2, <2>3, ResultsCoverClosed, SameTeams DEF RankingInv, ClosureInv
  <2>4. CASE req'[q].results \notin ResultMaps(rd)
    <3>1. \/ req'[q] = req[q]
          \/ req[q].call = "RoundExists" /\ req'[q].results = req[q].results
      BY <1>1, <1>5, <2>1, <2>4 DEF RankingMoves
    <3>2. TeamsOf(rd) \subseteq DOMAIN req'[q].results
      BY <1>5, <2>1, <3>1 DEF RankingInv, ReadAll
    <3>. QED  BY <1>1, <2>1, <2>2, <3>2, SameTeams
  <2>. QED  BY <2>3, <2>4
<1>6. ReadAll'
  BY <1>5 DEF ReadAll, TeamsOf, GroupsOf
<1>. QED
  BY <1>1, <1>4, <1>6 DEF RankingInv

\* What /next and /divisions rank has a result for every team of the round.
THEOREM RankingSeesEveryTeamCorrect == Spec => []RankingSeesEveryTeam
<1>1. Init => RankingInv
  BY InitClosure DEF Init, RankingInv, ReadingClosed, ReadAll, Idle
<1>2. RankingInv /\ [Next]_vars => RankingInv'
  BY StepRanking
<1>3. RankingInv => RankingSeesEveryTeam
  BY DEF RankingInv, ReadAll, RankingSeesEveryTeam
<1>. QED
  BY <1>1, <1>2, <1>3, PTL DEF Spec

-----------------------------------------------------------------------------
\* The abstract state: the refinement mapping of RoundLifecycle's Promise.
Plan == [rd \in DOMAIN rounds |-> TeamsOf(rd)]
Have == [rd \in DOMAIN rounds |-> Recorded(rd)]
Done == {rd \in DOMAIN rounds : rounds[rd].status = "closed"}

\* A round has recorded what it had while its heats' results stay and no new heat
\* brings any.
LEMMA SameRecorded ==
    ASSUME TypeInv, StepFacts, NEW rd \in DOMAIN rounds,
           \A h \in GroupHeatsOf(rd) : heats'[h].results = heats[h].results,
           \A k \in DOMAIN heats' \ DOMAIN heats : DOMAIN heats'[k].results = {}
    PROVE  Recorded(rd)' = Recorded(rd)
<1>1. TeamsOf(rd)' = TeamsOf(rd)
  BY SameTeams
<1>2. \A h \in GroupHeatsOf(rd) : h \in GroupHeatsOf(rd)' /\ ValidTeams(h)' = ValidTeams(h)
  BY SameValidTeams DEF GroupHeatsOf, StepFacts, RowsGrow
<1>3. \A h \in GroupHeatsOf(rd)' : h \in GroupHeatsOf(rd) \/ DOMAIN heats'[h].results = {}
  BY DEF GroupHeatsOf, StepFacts, RowsGrow
<1>. QED
  BY <1>1, <1>2, <1>3 DEF Recorded

\* A step that leaves the rounds and everything recorded is a stuttering step.
LEMMA Stutters ==
    ASSUME TypeInv, StepFacts, DOMAIN rounds' = DOMAIN rounds,
           \A rd \in DOMAIN rounds : rounds'[rd].status = rounds[rd].status,
           \A h \in DOMAIN heats : heats'[h].results = heats[h].results,
           \A k \in DOMAIN heats' \ DOMAIN heats : DOMAIN heats'[k].results = {}
    PROVE  UNCHANGED <<Plan, Have, Done>>
<1>1. \A rd \in DOMAIN rounds : TeamsOf(rd)' = TeamsOf(rd)
  BY SameTeams
<1>2. \A rd \in DOMAIN rounds : Recorded(rd)' = Recorded(rd)
  BY SameRecorded DEF GroupHeatsOf
<1>3. UNCHANGED Plan
  BY <1>1 DEF Plan
<1>4. UNCHANGED Have
  BY <1>2 DEF Have
<1>. QED
  BY <1>3, <1>4 DEF Done

\* Appending a value to a table of n rows.
LEMMA AppendValue ==
    ASSUME NEW n \in Nat, NEW f, f = [i \in 1..n |-> f[i]], NEW e
    PROVE  Append(f, e) = [i \in 1..(n + 1) |-> IF i = n + 1 THEN e ELSE f[i]]
<1>. DEFINE S == {f[i] : i \in 1..n} \cup {e}
<1>1. e \in S /\ \A i \in 1..n : f[i] \in S
  OBVIOUS
<1>. HIDE DEF S
<1>2. f \in [1..n -> S]
  BY <1>1
<1>3. f \in Seq(S) /\ Len(f) = n
  BY <1>2
<1>. QED
  BY <1>1, <1>3

\* Every team of a round is a name.
LEMMA TeamsAreNames ==
    ASSUME TypeInv, NEW rd
    PROVE  TeamsOf(rd) \in SUBSET Name
<1>1. \A g \in DOMAIN groups : groups[g] \in ListRow
  BY Typed
<1>2. ASSUME NEW g \in DOMAIN groups
      PROVE  ToSet(groups[g].teams) \subseteq Name
  <2>1. groups[g].teams \in Seq(Name)
    BY <1>1 DEF ListRow
  <2>2. \A i \in DOMAIN groups[g].teams : groups[g].teams[i] \in Name
    BY <2>1
  <2>. QED  BY <2>2 DEF ToSet
<1>. QED
  BY <1>2 DEF TeamsOf, GroupsOf

\* Inserting a round announces it.
LEMMA InsertAnnounces ==
    ASSUME TypeInv, StepFacts, NEW n \in Nat, NEW lists \in Seq(Seq(Name)),
           InsertRound(n, lists), UNCHANGED heats
    PROVE  \E S \in SUBSET Name :
              Plan' = Append(Plan, S) /\ Have' = Append(Have, {}) /\ Done' = Done
<1>1. PICK m \in Nat : m = Len(rounds) + 1 /\ DOMAIN rounds = 1..Len(rounds) /\ Len(rounds) \in Nat
  BY Typed
<1>2. /\ DOMAIN rounds' = DOMAIN rounds \cup {m} /\ m \notin DOMAIN rounds
      /\ \A rd \in DOMAIN rounds : rounds'[rd] = rounds[rd]
      /\ rounds'[m].status = "open"
      /\ groups' \in Seq(ListRow)
  BY <1>1, InsertRoundRows
<1>3. PICK S : S = TeamsOf(m)'
  OBVIOUS
<1>4. S \in SUBSET Name
  <2>0. \A g \in DOMAIN groups' : groups'[g] \in ListRow
    BY <1>2
  <2>1. \A g \in DOMAIN groups' : groups'[g].teams \in Seq(Name)
    BY <2>0 DEF ListRow
  <2>2. ASSUME NEW s \in Seq(Name)
        PROVE  ToSet(s) \subseteq Name
    <3>1. \A i \in DOMAIN s : s[i] \in Name
      OBVIOUS
    <3>. QED  BY <3>1 DEF ToSet
  <2>. QED  BY <1>3, <2>1, <2>2 DEF TeamsOf, GroupsOf
<1>5. Recorded(m)' = {}
  <2>1. \A h \in DOMAIN heats : heats[h].round # m
    BY <1>2 DEF TypeInv, KeysOK, TableKeysOK
  <2>. QED  BY <2>1 DEF Recorded, GroupHeatsOf
<1>6. \A rd \in DOMAIN rounds : TeamsOf(rd)' = TeamsOf(rd) /\ Recorded(rd)' = Recorded(rd)
  BY SameTeams, SameRecorded
<1>7. DOMAIN rounds' = 1..m /\ \A rd \in 1..m : rd = m \/ rd \in DOMAIN rounds
  BY <1>1, <1>2
<1>8. Plan' = Append(Plan, S)
  <2>1. \A rd \in 1..m : TeamsOf(rd)' = IF rd = m THEN S ELSE Plan[rd]
    BY <1>3, <1>6, <1>7 DEF Plan
  <2>2. Plan' = [rd \in 1..m |-> IF rd = m THEN S ELSE Plan[rd]]
    BY <1>7, <2>1 DEF Plan
  <2>3. Plan = [rd \in 1..Len(rounds) |-> Plan[rd]]
    BY <1>1 DEF Plan
  <2>. QED  BY <1>1, <2>2, <2>3, AppendValue
<1>9. Have' = Append(Have, {})
  <2>1. \A rd \in 1..m : Recorded(rd)' = IF rd = m THEN {} ELSE Have[rd]
    BY <1>5, <1>6, <1>7 DEF Have
  <2>2. Have' = [rd \in 1..m |-> IF rd = m THEN {} ELSE Have[rd]]
    BY <1>7, <2>1 DEF Have
  <2>3. Have = [rd \in 1..Len(rounds) |-> Have[rd]]
    BY <1>1 DEF Have
  <2>. QED  BY <1>1, <2>2, <2>3, AppendValue
<1>10. Done' = Done
  BY <1>2 DEF Done
<1>. QED
  BY <1>4, <1>8, <1>9, <1>10

\* What a submission records belongs to one round.
LEMMA SubmitRecords ==
    ASSUME TypeInv, StepFacts, NEW q \in Request, NEW h \in DOMAIN heats, NEW batch \in Batch,
           SubmitHeatResults(q, h, batch)
    PROVE  \E rd \in DOMAIN Plan, S \in SUBSET Name :
              /\ S \subseteq Plan[rd] /\ Have' = [Have EXCEPT ![rd] = @ \cup S]
              /\ UNCHANGED <<Plan, Done>>
<1>1. PICK rd \in DOMAIN rounds : rd = heats[h].round
  BY DEF TypeInv, KeysOK, TableKeysOK
<1>2. UNCHANGED <<rounds, groups>> /\ DOMAIN heats' = DOMAIN heats
      /\ \A k \in DOMAIN heats : k # h => heats'[k] = heats[k]
  BY SubmitRows DEF SubmitHeatResults
<1>3. PICK S : S = Recorded(rd)'
  OBVIOUS
<1>4. TeamsOf(rd)' = TeamsOf(rd)
  BY SameTeams
<1>5. S \subseteq TeamsOf(rd)
  BY <1>3, <1>4 DEF Recorded
<1>6. TeamsOf(rd) \in SUBSET Name
  BY TeamsAreNames
<1>7. Recorded(rd) \subseteq S
  <2>1. \A k \in GroupHeatsOf(rd) : /\ k \in GroupHeatsOf(rd)' /\ ValidTeams(k)' = ValidTeams(k)
                                     /\ DOMAIN heats[k].results \subseteq DOMAIN heats'[k].results
    BY SameValidTeams DEF GroupHeatsOf, StepFacts, RowsGrow
  <2>. QED  BY <1>3, <1>4, <2>1 DEF Recorded
<1>8. \A r \in DOMAIN rounds : r # rd => Recorded(r)' = Recorded(r)
  <2>1. \A r \in DOMAIN rounds : r # rd => \A k \in GroupHeatsOf(r) : heats'[k] = heats[k]
    BY <1>1, <1>2 DEF GroupHeatsOf
  <2>. QED  BY <1>2, <2>1, SameRecorded
<1>9. Have' = [Have EXCEPT ![rd] = @ \cup S]
  <2>1. \A r \in DOMAIN rounds : Recorded(r)' = IF r = rd THEN Recorded(rd) \cup S ELSE Recorded(r)
    BY <1>3, <1>7, <1>8
  <2>2. Have' = [r \in DOMAIN rounds |-> IF r = rd THEN Recorded(rd) \cup S ELSE Recorded(r)]
    BY <1>2, <2>1 DEF Have
  <2>. QED  BY <1>1, <2>2 DEF Have
<1>10. UNCHANGED <<Plan, Done>>
  <2>1. \A r \in DOMAIN rounds : TeamsOf(r)' = TeamsOf(r)
    BY SameTeams
  <2>. QED  BY <1>2, <2>1 DEF Plan, Done
<1>11. rd \in DOMAIN Plan /\ S \subseteq Plan[rd]
  BY <1>5 DEF Plan
<1>. QED
  BY <1>5, <1>6, <1>9, <1>10, <1>11

\* A round that is closed for the first time has teams, and all of them have a result.
LEMMA CloseFinishes ==
    ASSUME ClosureInv, StepFacts, NEW q \in Request, SetStatus(q)
    PROVE  \/ UNCHANGED <<Plan, Have, Done>>
           \/ \E rd \in DOMAIN Plan \ Done :
                 /\ Plan[rd] # {} /\ Have[rd] = Plan[rd]
                 /\ Done' = Done \cup {rd} /\ UNCHANGED <<Plan, Have>>
<1>1. TypeInv
  BY DEF ClosureInv
<1>2. PICK h \in DOMAIN heats : /\ h = req[q].id /\ IsGroupHeat(h) /\ RoundComplete(heats[h].round)
  BY <1>1 DEF SetStatus, At, TypeInv, KeysOK, RequestKeysOK, ClosureInv, CascadeJustified
<1>3. PICK rd \in DOMAIN rounds : rd = heats[h].round
  BY <1>1 DEF TypeInv, KeysOK, TableKeysOK
<1>4. /\ DOMAIN rounds' = DOMAIN rounds /\ UNCHANGED heats
      /\ rounds'[rd].status = "closed"
      /\ \A r \in DOMAIN rounds : r # rd => rounds'[r].status = rounds[r].status
  <2>1. /\ DOMAIN rounds' = DOMAIN rounds
        /\ rounds' = [rounds EXCEPT ![rd] = [rounds[rd] EXCEPT !.status = "closed"]]
    BY <1>1, <1>2, <1>3, CloseRoundRows
  <2>2. rounds[rd] \in RoundRow
    BY <1>1, <1>3, Typed
  <2>3. UNCHANGED heats
    BY DEF SetStatus
  <2>. QED  BY <2>1, <2>2, <2>3 DEF RoundRow
<1>5. UNCHANGED <<Plan, Have>>
  <2>1. \A r \in DOMAIN rounds : TeamsOf(r)' = TeamsOf(r) /\ Recorded(r)' = Recorded(r)
    BY <1>1, <1>4, SameTeams, SameRecorded
  <2>. QED  BY <1>4, <2>1 DEF Plan, Have
<1>6. h \in GroupHeatsOf(rd)
  BY <1>2, <1>3 DEF GroupHeatsOf, IsGroupHeat
<1>7. \A k \in GroupHeatsOf(rd) : HeatComplete(k)
  BY <1>2, <1>3 DEF RoundComplete, GroupHeatsOf, ClosureInv, CascadeJustified
<1>8. TeamsOf(rd) # {}
  <2>1. heats[h].group \in GroupsOf(rd)
    BY <1>1, <1>6 DEF GroupHeatsOf, GroupsOf, TypeInv, KeysOK, TableKeysOK
  <2>2. ToSet(groups[heats[h].group].teams) # {}
    BY <1>2, <1>6, <1>7 DEF HeatComplete, ValidTeams
  <2>. QED  BY <2>1, <2>2 DEF TeamsOf
<1>9. Recorded(rd) = TeamsOf(rd)
  <2>1. ASSUME NEW t \in TeamsOf(rd)
        PROVE  t \in Recorded(rd)
    <3>1. PICK g \in GroupsOf(rd) : t \in ToSet(groups[g].teams)
      BY DEF TeamsOf
    <3>2. PICK k \in GroupHeatsOf(rd) : heats[k].group = g
      BY <1>2, <1>3, <3>1 DEF ClosureInv, ScheduledTogether
    <3>3. t \in ValidTeams(k)
      BY <3>1, <3>2 DEF ValidTeams, IsGroupHeat, GroupHeatsOf
    <3>. QED  BY <1>7, <3>2, <3>3 DEF Recorded, HeatComplete
  <2>. QED  BY <2>1 DEF Recorded
<1>10. rd \in DOMAIN Plan /\ Plan[rd] # {} /\ Have[rd] = Plan[rd]
  BY <1>8, <1>9 DEF Plan, Have
<1>11. Done' = Done \cup {rd}
  BY <1>4 DEF Done
<1>. QED
  BY <1>5, <1>10, <1>11

\* Any other step changes nothing of what RoundPromise sees.
LEMMA OthersStutter ==
    ASSUME TypeInv, [Next]_vars, StepFacts, UNCHANGED rounds,
           ~ \E q \in Request, h \in DOMAIN heats, batch \in Batch : SubmitHeatResults(q, h, batch)
    PROVE  UNCHANGED <<Plan, Have, Done>>
<1>1. ASSUME NEW rd \in DOMAIN rounds, NEW gs \in Lists(GroupsOf(rd)), ScheduleRound(rd, gs)
      PROVE  /\ \A h \in DOMAIN heats : heats'[h].results = heats[h].results
             /\ \A k \in DOMAIN heats' \ DOMAIN heats : DOMAIN heats'[k].results = {}
  <2>1. /\ \A h \in DOMAIN heats : heats'[h] = heats[h]
        /\ \A k \in DOMAIN heats' \ DOMAIN heats : \E i \in DOMAIN gs :
              heats'[k] = NewHeat(rd, gs[i], 0)
    BY <1>1, ScheduleRoundRows
  <2>2. \A k \in DOMAIN heats' \ DOMAIN heats : heats'[k].results = <<>>
    BY <2>1 DEF NewHeat
  <2>. QED  BY <2>1, <2>2
<1>2. ASSUME NEW ds \in Lists(DOMAIN divisions), ScheduleDivisions(ds)
      PROVE  /\ \A h \in DOMAIN heats : heats'[h].results = heats[h].results
             /\ \A k \in DOMAIN heats' \ DOMAIN heats : DOMAIN heats'[k].results = {}
  <2>1. /\ \A h \in DOMAIN heats : heats'[h] = heats[h]
        /\ \A k \in DOMAIN heats' \ DOMAIN heats : \E i \in DOMAIN ds :
              heats'[k] = NewHeat(divisions[ds[i]].round, 0, ds[i])
    BY <1>2, ScheduleDivisionsRows
  <2>2. \A k \in DOMAIN heats' \ DOMAIN heats : heats'[k].results = <<>>
    BY <2>1 DEF NewHeat
  <2>. QED  BY <2>1, <2>2
<1>3. ASSUME NEW q \in Request, SetHeatStatus(q)
      PROVE  /\ \A h \in DOMAIN heats : heats'[h].results = heats[h].results
             /\ \A k \in DOMAIN heats' \ DOMAIN heats : DOMAIN heats'[k].results = {}
  <2>. DEFINE h == req[q].id
              row == [heats[h] EXCEPT !.status = "closed"]
  <2>1. h \in DOMAIN heats /\ heats' = [heats EXCEPT ![h] = row] /\ DOMAIN heats' = DOMAIN heats
    BY <1>3, CloseHeatRows
  <2>2. row.results = heats[h].results
    BY <2>1, Typed DEF HeatRow
  <2>. HIDE DEF row, h
  <2>. QED  BY <2>1, <2>2
<1>4. ASSUME UNCHANGED heats
      PROVE  /\ \A h \in DOMAIN heats : heats'[h].results = heats[h].results
             /\ \A k \in DOMAIN heats' \ DOMAIN heats : DOMAIN heats'[k].results = {}
  BY <1>4
<1>5. \/ UNCHANGED heats
      \/ \E q \in Request : SetHeatStatus(q)
      \/ \E rd \in DOMAIN rounds : \E gs \in Lists(GroupsOf(rd)) : ScheduleRound(rd, gs)
      \/ \E ds \in Lists(DOMAIN divisions) : ScheduleDivisions(ds)
  BY DEF Next, User, Handler, Fault, vars, Restart, CallFails, CreateRound, ListHeatResults,
     ListHeatsForRound, SetStatus, ListResultsForRound, RoundExists, CreateNextRound,
     CreateDivisions, NextRound, ComputeDivisions, LoadClosedRound
<1>. QED
  BY <1>1, <1>2, <1>3, <1>4, <1>5, Stutters

\* A round that is inserted comes with no change of the heats.
LEMMA InsertAlone ==
    ASSUME TypeInv, [Next]_vars, rounds' # rounds
    PROVE  UNCHANGED heats
  BY DEF Next, User, Handler, Fault, vars, Restart, CallFails, CreateRound, ScheduleRound,
     ScheduleDivisions, SubmitHeatResults, SetHeatStatus, ListHeatResults,
     ListHeatsForRound, SetStatus, ListResultsForRound, RoundExists, CreateNextRound,
     CreateDivisions, NextRound, ComputeDivisions, LoadClosedRound

\* Every step is a step of RoundPromise or changes nothing there.
LEMMA StepPromise ==
    ASSUME ClosureInv, [Next]_vars
    PROVE  [Promise!Next]_(Promise!vars)
<1>1. TypeInv /\ StepFacts
  BY EveryStep DEF ClosureInv
<1>2. CASE UNCHANGED <<Plan, Have, Done>>
  BY <1>2 DEF Promise!vars, Plan, Have, Done
<1>3. ASSUME NEW S \in SUBSET Name, Plan' = Append(Plan, S), Have' = Append(Have, {}), Done' = Done
      PROVE  Promise!Next
  BY <1>3 DEF Promise!Next, Promise!Announce, Plan, Have, Done
<1>4. ASSUME NEW rd \in DOMAIN Plan, NEW S \in SUBSET Name, S \subseteq Plan[rd],
             Have' = [Have EXCEPT ![rd] = @ \cup S], UNCHANGED <<Plan, Done>>
      PROVE  Promise!Next
  BY <1>4 DEF Promise!Next, Promise!Record, Plan, Have, Done
<1>5. ASSUME NEW rd \in DOMAIN Plan \ Done, Plan[rd] # {}, Have[rd] = Plan[rd],
             Done' = Done \cup {rd}, UNCHANGED <<Plan, Have>>
      PROVE  Promise!Next
  BY <1>5 DEF Promise!Next, Promise!Finish, Plan, Have, Done
<1>6. ASSUME NEW q \in Request, NEW h \in DOMAIN heats, NEW batch \in Batch,
             SubmitHeatResults(q, h, batch)
      PROVE  Promise!Next
  BY <1>1, <1>4, <1>6, SubmitRecords
<1>7. ASSUME NEW q \in Request, SetStatus(q)
      PROVE  [Promise!Next]_(Promise!vars)
  BY <1>1, <1>2, <1>5, <1>7, CloseFinishes
<1>8. ASSUME NEW n \in Nat, NEW lists \in Seq(Seq(Name)), InsertRound(n, lists)
      PROVE  Promise!Next
  <2>1. rounds' # rounds
    BY <1>1, <1>8, InsertRoundRows
  <2>2. UNCHANGED heats
    BY <1>1, <2>1, InsertAlone
  <2>. QED  BY <1>1, <1>3, <1>8, <2>2, InsertAnnounces
<1>. QED
  BY <1>1, <1>2, <1>6, <1>7, <1>8, RoundsStep, OthersStutter

\* Seen from the rounds alone the tables and handlers do what RoundPromise says, with
\* failures and restarts: teams never lose a result, a round ends once and complete.
THEOREM KeepsPromiseCorrect == Spec => KeepsPromise
<1>1. Init => Promise!Init
  <2>. SUFFICES ASSUME Init PROVE Promise!Init
    OBVIOUS
  <2>1. rounds = <<>> /\ DOMAIN rounds = {}
    BY DEF Init
  <2>2. Plan = <<>> /\ Have = <<>> /\ Done = {}
    BY <2>1 DEF Plan, Have, Done
  <2>. QED  BY <2>2 DEF Promise!Init, Plan, Have, Done
<1>2. ClosureInv /\ [Next]_vars => [Promise!Next]_(Promise!vars)
  BY StepPromise
<1>. QED
  BY <1>1, <1>2, ClosureCorrect, PTL DEF Spec, KeepsPromise, Promise!Spec

-----------------------------------------------------------------------------
(* That /next keeps the teams.                                             *)

\* All teams of a list of groups.
Everyone(lists) == UNION {ToSet(lists[i]) : i \in DOMAIN lists}

LEMMA CensusOfEveryone ==
    ASSUME NEW lists
    PROVE  DOMAIN Census(lists) = Everyone(lists)
BY DEF Census, Everyone

\* The place of an ID among the IDs of a set.
LEMMA PlaceOfId ==
    ASSUME NEW S, S \subseteq Nat, IsFiniteSet(S)
    PROVE  LET before(g) == Cardinality({k \in S : k < g})
           IN  /\ Cardinality(S) \in Nat
               /\ \A g \in S : before(g) + 1 \in 1..Cardinality(S)
               /\ \A g, h \in S : before(g) = before(h) => g = h
               /\ \A i \in 1..Cardinality(S) : \E g \in S : before(g) = i - 1
<1>. DEFINE n == Cardinality(S)
            Below(g) == {k \in S : k < g}
            before(g) == Cardinality(Below(g))
            place == [g \in S |-> before(g) + 1]
<1>1. n \in Nat
  BY FS_CardinalityType
<1>2. ASSUME NEW g \in S
      PROVE  /\ IsFiniteSet(Below(g)) /\ before(g) \in Nat
             /\ Cardinality(Below(g) \cup {g}) = before(g) + 1
             /\ before(g) + 1 \in 1..n
  <2>1. Below(g) \subseteq S /\ Below(g) \cup {g} \subseteq S /\ g \notin Below(g)
    OBVIOUS
  <2>2. IsFiniteSet(Below(g))
    BY <2>1, FS_Subset
  <2>. HIDE DEF Below
  <2>3. before(g) \in Nat /\ Cardinality(Below(g) \cup {g}) = before(g) + 1
    BY <2>1, <2>2, FS_CardinalityType, FS_AddElement
  <2>4. Cardinality(Below(g) \cup {g}) <= n
    BY <2>1, FS_Subset
  <2>. HIDE DEF before, n
  <2>5. before(g) + 1 \in 1..n
    BY <1>1, <2>3, <2>4
  <2>. QED  BY <2>2, <2>3, <2>5
<1>3. ASSUME NEW g \in S, NEW h \in S, g < h
      PROVE  before(g) < before(h)
  <2>1. \A k \in S : k < g => k < h
    <3>1. \A k \in S : k \in Nat
      OBVIOUS
    <3>. QED  BY <1>3, <3>1
  <2>2. Below(g) \cup {g} \subseteq Below(h)
    BY <1>3, <2>1
  <2>3. before(g) \in Nat /\ before(h) \in Nat
    BY <1>2
  <2>4. IsFiniteSet(Below(h)) /\ Cardinality(Below(g) \cup {g}) = before(g) + 1
    BY <1>2
  <2>. HIDE DEF Below
  <2>5. before(g) + 1 <= before(h)
    BY <2>2, <2>4, FS_Subset
  <2>. HIDE DEF before
  <2>. QED  BY <2>3, <2>5
<1>. HIDE DEF before
<1>11. \A g \in S : before(g) \in Nat /\ g \in Nat
  BY <1>2
<1>4. ASSUME NEW g \in S, NEW h \in S, before(g) = before(h)
      PROVE  g = h
  <2>1. ~(g < h) /\ ~(h < g)
    BY <1>11, <1>3, <1>4
  <2>2. g \in Nat /\ h \in Nat
    BY <1>11
  <2>. QED  BY <2>1, <2>2
<1>5. place \in Injection(S, 1..n)
  <2>1. \A g \in S : place[g] = before(g) + 1 /\ before(g) \in Nat
    BY <1>2
  <2>2. place \in [S -> 1..n]
    <3>. HIDE DEF n
    <3>. QED  BY <1>2
  <2>3. \A g, h \in S : place[g] = place[h] => g = h
    <3>. HIDE DEF place
    <3>. QED  BY <1>4, <2>1
  <2>. HIDE DEF place
  <2>. QED  BY <2>2, <2>3 DEF Injection, IsInjective
<1>6. Cardinality(S) = Cardinality(1..n) /\ IsFiniteSet(1..n)
  BY <1>1, FS_Interval
<1>7. place \in Surjection(S, 1..n)
  <2>. HIDE DEF place, n
  <2>. QED  BY <1>5, <1>6, FS_Injection
<1>8. ASSUME NEW i \in 1..n
      PROVE  \E g \in S : before(g) = i - 1
  <2>1. PICK g \in S : place[g] = i
    <3>. HIDE DEF place, n
    <3>. QED  BY <1>7 DEF Surjection
  <2>2. before(g) + 1 = i /\ before(g) \in Nat
    BY <1>2, <2>1
  <2>. QED  BY <2>2
<1>. QED  BY <1>1, <1>2, <1>4, <1>8 DEF before

\* A round hands all of its groups to the plugin, and nothing else.
LEMMA ListGroupsTeams ==
    ASSUME TypeInv, NEW rd
    PROVE  Everyone(ListGroups(rd)) = TeamsOf(rd)
<1>. DEFINE S == GroupsOf(rd)
            n == Cardinality(S)
            before(g) == Cardinality({k \in S : k < g})
            nth(i) == CHOOSE g \in S : before(g) = i - 1
            lists == ListGroups(rd)
<1>1. IsFiniteSet(S) /\ S \subseteq Nat
  BY GroupsFinite, GroupKeys DEF GroupsOf
<1>2. lists = [i \in 1..n |-> groups[nth(i)].teams]
  BY DEF ListGroups
<1>. HIDE DEF S, lists
<1>3. /\ n \in Nat
      /\ \A g \in S : before(g) + 1 \in 1..n
      /\ \A g, h \in S : before(g) = before(h) => g = h
      /\ \A i \in 1..n : \E g \in S : before(g) = i - 1
  BY <1>1, PlaceOfId
<1>. HIDE DEF n
<1>4. \A g \in S : before(g) \in Nat
  <2>1. ASSUME NEW g \in S
        PROVE  before(g) \in Nat
    <3>1. {k \in S : k < g} \subseteq S
      OBVIOUS
    <3>. QED  BY <1>1, <3>1, FS_Subset, FS_CardinalityType
  <2>. QED  BY <2>1
<1>. HIDE DEF before
<1>5. \A i \in 1..n : nth(i) \in S /\ before(nth(i)) = i - 1
  BY <1>3
<1>. HIDE DEF nth
<1>6. ASSUME NEW g \in S
      PROVE  before(g) + 1 \in 1..n /\ nth(before(g) + 1) = g
  <2>1. before(g) + 1 \in 1..n /\ (before(g) + 1) - 1 = before(g)
    BY <1>3, <1>4
  <2>. QED  BY <1>3, <1>5, <2>1
<1>7. DOMAIN lists = 1..n /\ \A i \in 1..n : lists[i] = groups[nth(i)].teams
  BY <1>2
<1>8. \A t : t \in Everyone(lists) <=> \E i \in 1..n : t \in ToSet(groups[nth(i)].teams)
  BY <1>7 DEF Everyone
<1>9. \A t : t \in TeamsOf(rd) <=> \E g \in S : t \in ToSet(groups[g].teams)
  BY DEF TeamsOf, S
<1>10. \A t : t \in Everyone(lists) <=> t \in TeamsOf(rd)
  BY <1>5, <1>6, <1>8, <1>9
<1>. QED  BY <1>10 DEF lists

\* A new round has the teams of the lists it is made from.
LEMMA InsertedTeams ==
    ASSUME TypeInv, NEW n \in Nat, NEW lists \in Seq(Seq(Name)), InsertRound(n, lists)
    PROVE  TeamsOf(Len(rounds))' = Everyone(lists)
<1>. DEFINE last == Len(rounds) + 1
            new == Listed(last, lists)
<1>1. rounds \in Seq(RoundRow) /\ groups \in Seq(ListRow)
  BY Typed
<1>2. /\ rounds' = Append(rounds, [number |-> n, status |-> "open"])
      /\ groups' = groups \o new
  BY DEF InsertRound, Listed
<1>3. Len(rounds') = last /\ last \in Nat /\ last \notin DOMAIN rounds
  BY <1>1, <1>2
<1>. HIDE DEF last
<1>4. /\ Len(lists) \in Nat /\ DOMAIN lists = 1..Len(lists) /\ DOMAIN new = DOMAIN lists
      /\ \A i \in DOMAIN lists : new[i] = [round |-> last, teams |-> lists[i]]
  BY DEF Listed
<1>5. new \in Seq(ListRow)
  <2>1. ASSUME NEW i \in 1..Len(lists)
        PROVE  new[i] \in ListRow
    <3>1. lists[i] \in Seq(Name)
      OBVIOUS
    <3>2. i \in DOMAIN lists
      BY <1>4
    <3>3. new[i] = [round |-> last, teams |-> lists[i]]
      BY <1>4, <3>2
    <3>. HIDE DEF new
    <3>. QED  BY <1>3, <3>1, <3>3 DEF ListRow
  <2>2. new \in [1..Len(lists) -> ListRow]
    BY <1>4, <2>1 DEF Listed
  <2>. QED  BY <1>4, <2>2, FunctionIsSeq
<1>. HIDE DEF new
<1>6. /\ \A g \in DOMAIN groups : g \in DOMAIN groups' /\ groups'[g] = groups[g]
      /\ \A i \in DOMAIN new : /\ Len(groups) + i \in DOMAIN groups' \ DOMAIN groups
                               /\ groups'[Len(groups) + i] = new[i]
      /\ \A g \in DOMAIN groups' \ DOMAIN groups :
            \E i \in DOMAIN new : g = Len(groups) + i /\ groups'[g] = new[i]
  <2>. DEFINE both == groups \o new
  <2>. HIDE DEF last
  <2>1. groups' = both
    BY <1>2
  <2>2. /\ \A g \in DOMAIN groups : g \in DOMAIN both /\ both[g] = groups[g]
        /\ \A i \in DOMAIN new : /\ Len(groups) + i \in DOMAIN both \ DOMAIN groups
                                 /\ both[Len(groups) + i] = new[i]
        /\ \A g \in DOMAIN both \ DOMAIN groups :
              \E i \in DOMAIN new : g = Len(groups) + i /\ both[g] = new[i]
    BY <1>1, <1>5, InsertRows, Zenon
  <2>. HIDE DEF both
  <2>. QED  BY <2>1, <2>2
<1>7. \A g \in DOMAIN groups : groups[g].round # last
  BY <1>3 DEF TypeInv, KeysOK, TableKeysOK
<1>8. \A t : t \in TeamsOf(Len(rounds))' <=>
              \E g \in DOMAIN groups' : groups'[g].round = last /\ t \in ToSet(groups'[g].teams)
  BY <1>3 DEF TeamsOf, GroupsOf
<1>9. \A i \in DOMAIN new : new[i].round = last /\ new[i].teams = lists[i]
  BY <1>4
<1>10. \A t : t \in TeamsOf(Len(rounds))' <=> \E i \in DOMAIN lists : t \in ToSet(lists[i])
  BY <1>4, <1>6, <1>7, <1>8, <1>9
<1>. QED  BY <1>10 DEF Everyone

\* /next makes a round of the teams of the round before it, or none.
LEMMA NextRoundTeams ==
    ASSUME TypeInv, NEW q \in Request, CreateNextRound(q), rounds' # rounds
    PROVE  TeamsOf(Len(rounds))' = TeamsOf(req[q].id)
<1>. DEFINE rd == req[q].id
<1>1. rd \in DOMAIN rounds
  BY DEF CreateNextRound, At, TypeInv, KeysOK, RequestKeysOK
<1>2. rounds[rd].number + 1 \in Nat
  <2>1. rounds[rd] \in RoundRow
    BY <1>1, Typed
  <2>. QED  BY <2>1 DEF RoundRow
<1>3. PICK lists \in PluginGroups : /\ Census(lists) = Census(ListGroups(rd))
                                    /\ InsertRound(rounds[rd].number + 1, lists)
  BY DEF CreateNextRound
<1>4. lists \in Seq(Seq(Name))
  BY LifecycleAssumption
<1>5. TeamsOf(Len(rounds))' = Everyone(lists)
  BY <1>2, <1>3, <1>4, InsertedTeams
<1>6. Everyone(lists) = Everyone(ListGroups(rd))
  BY <1>3, CensusOfEveryone
<1>. QED  BY <1>5, <1>6, ListGroupsTeams

\* No other step ends a request at CreateRound and makes a round.
LEMMA OnlyNextMakesRounds ==
    ASSUME TypeInv, [Next]_vars, NEW q \in Request, req[q].call = "CreateRound",
           req'[q] # req[q], rounds' # rounds
    PROVE  CreateNextRound(q)
<1>1. ASSUME NEW p \in Request, SetStatus(p) \/ CreateNextRound(p)
      PROVE  CreateNextRound(q)
  <2>1. CASE p = q
    <3>1. ~SetStatus(q)
      BY DEF SetStatus, At
    <3>. QED  BY <1>1, <2>1, <3>1, Zenon
  <2>2. CASE p # q
    <3>1. DOMAIN req = Request
      BY DEF TypeInv, TypeOK
    <3>2. \E next : req' = [req EXCEPT ![p] = next]
      BY <1>1 DEF SetStatus, CreateNextRound, Respond
    <3>. QED  BY <2>2, <3>1, <3>2
  <2>. QED  BY <2>1, <2>2
<1>2. ~(\E n \in 1..MaxRounds, lists \in RequestedGroups : CreateRound(n, lists))
  BY DEF CreateRound
<1>3. ASSUME NEW p \in Request,
             \/ CallFails(p) \/ ListHeatResults(p) \/ SetHeatStatus(p) \/ ListHeatsForRound(p)
             \/ ListResultsForRound(p) \/ RoundExists(p) \/ CreateDivisions(p)
             \/ \E h \in DOMAIN heats, batch \in Batch : SubmitHeatResults(p, h, batch)
             \/ \E rd \in DOMAIN rounds : NextRound(p, rd) \/ ComputeDivisions(p, rd)
      PROVE  FALSE
  BY <1>3 DEF CallFails, ListHeatResults, SetHeatStatus, ListHeatsForRound, ListResultsForRound,
     RoundExists, CreateDivisions, SubmitHeatResults, NextRound, ComputeDivisions, LoadClosedRound
<1>4. ASSUME \/ UNCHANGED vars \/ Restart
             \/ \E rd \in DOMAIN rounds : \E gs \in Lists(GroupsOf(rd)) : ScheduleRound(rd, gs)
             \/ \E ds \in Lists(DOMAIN divisions) : ScheduleDivisions(ds)
      PROVE  FALSE
  BY <1>4 DEF vars, Restart, ScheduleRound, ScheduleDivisions
<1>. QED
  BY <1>1, <1>2, <1>3, <1>4 DEF Next, User, Handler, Fault

\* Whatever a plugin answers and however requests interleave, the round that /next makes has
\* the teams of the round it was made from.
THEOREM NextKeepsTeamsCorrect == Spec => NextKeepsTeams
<1>. DEFINE Keeps == \A q \in Request :
               req[q].call = "CreateRound" /\ req'[q] # req[q] /\ rounds' # rounds =>
                  TeamsOf(Len(rounds))' = TeamsOf(req[q].id)
<1>1. TypeInv /\ [Next]_vars => [Keeps]_vars
  BY OnlyNextMakesRounds, NextRoundTeams
<1>2. NextKeepsTeams <=> [][Keeps]_vars
  BY DEF NextKeepsTeams
<1>. HIDE DEF Keeps
<1>. QED  BY <1>1, <1>2, TypeCorrect, PTL DEF Spec
=============================================================================
