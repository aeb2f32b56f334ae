--------------------------- MODULE CourseSchedule ---------------------------
(***************************************************************************)
(* Courses and the planned starts of their heats: PATCH .../courses reads  *)
(* a row, changes the fields of the request and writes the whole row back, *)
(* in two statements; scheduling appends heats to a course one interval    *)
(* apart, in one transaction, behind the latest heat the course has; GET   *)
(* .../schedule lists the heats and then reads course after course.        *)
(* A statement may fail, and the process may end between any two calls.    *)
(* planned_start is a TEXT column in RFC 3339: SQLite compares wall clocks *)
(* and UTC offsets character by character, Go computes with instants.      *)
(* Which group or division a heat is for is RoundLifecycle's matter.       *)
(***************************************************************************)
EXTENDS Integers, Sequences, SequencesExt, FiniteSets, Functions, TLC

CONSTANTS
    Course,    \* the courses of the tournament
    Request,   \* the requests that may update courses together
    Interval,  \* the intervals that organizers set, at least 1
    Delay,     \* the delay offsets that organizers set
    Instant,   \* the instants that clients and the clock name
    Offset,    \* the UTC offsets that clients write, 0 is printed as Z
    MaxBatch,  \* bound on the heats of one scheduling request
    MaxHeats   \* bound on heats

ASSUME CourseAssumption ==
    /\ Interval \subseteq Nat \ {0} /\ Interval # {}
    /\ Delay \subseteq Int /\ 0 \in Delay
    /\ Instant \subseteq Int
    /\ Offset \subseteq -99..99
    /\ MaxBatch \in Nat /\ MaxHeats \in Nat

VARIABLES
    courses,    \* courses: interval and delay
    heats,      \* heats: course, planned start as an instant and the offset it is written with
    req,        \* per request: what its handler does next, for which course, with which
                \* row or delay
    announced,  \* per course the delay that was broadcast last
    view,       \* the schedule that is being read: the courses of its rows, and the delays
                \* that have been added to the first of them
    overlapped, \* history: the courses whose updates under way, or the last ones, overlapped
    doubtful    \* history: the courses whose stored delay may not be the announced one, for
                \* updates overlapped or the process ended before a broadcast

history == <<overlapped, doubtful>>
vars == <<courses, heats, req, announced, view, history>>

Row == [interval : Interval, delay : Delay]

\* A body has any of the fields.
Body == Row \cup [interval : Interval] \cup [delay : Delay]

Idle == [call |-> "none"]

NoView == [rows |-> <<>>, delays |-> <<>>]

Init ==
    /\ courses \in [Course -> [interval : Interval, delay : {0}]]
    /\ heats = <<>>
    /\ req = [q \in Request |-> Idle]
    /\ announced = [c \in Course |-> 0]
    /\ view = NoView
    /\ overlapped = {} /\ doubtful = {}

-----------------------------------------------------------------------------
(* PATCH .../courses/{course_id}.                                          *)

With(row, body) == [f \in DOMAIN row |-> IF f \in DOMAIN body THEN body[f] ELSE row[f]]

\* An update of the course is under way.
Updating(c) == \E q \in Request : req[q] # Idle /\ req[q].course = c

\* Overlapping updates of a course make its delay doubtful; the next one on its own is
\* the first that can settle it.
StartUpdate(c) ==
    /\ overlapped' = IF Updating(c) THEN overlapped \cup {c} ELSE overlapped \ {c}
    /\ doubtful' = IF Updating(c) THEN doubtful \cup {c} ELSE doubtful

\* Mistake: a delay of zero passes for an absent one.
GetCourseNonzero(q, c, body) ==
    /\ req[q] = Idle
    /\ req' = [req EXCEPT ![q] = [call |-> "UpdateCourse", course |-> c,
                                  row |-> With(courses[c], body),
                                  announces |-> "delay" \in DOMAIN body /\ body.delay # 0]]
    /\ StartUpdate(c)
    /\ UNCHANGED <<courses, heats, announced, view>>

\* The row is read and the fields of the request are set in it.
GetCourse(q, c, body) ==
    /\ req[q] = Idle
    /\ req' = [req EXCEPT ![q] = [call |-> "UpdateCourse", course |-> c,
                                  row |-> With(courses[c], body),
                                  announces |-> "delay" \in DOMAIN body]]
    /\ StartUpdate(c)
    /\ UNCHANGED <<courses, heats, announced, view>>

\* The whole row is written back, with what was read in the fields not asked for.
UpdateCourse(q) ==
    /\ req[q].call = "UpdateCourse"
    /\ courses' = [courses EXCEPT ![req[q].course] = req[q].row]
    /\ req' = [req EXCEPT ![q] = IF ~req[q].announces THEN Idle
                                 ELSE [call |-> "broadcast", course |-> req[q].course,
                                       delay |-> req[q].row.delay]]
    /\ UNCHANGED <<heats, announced, view, history>>

\* The UPDATE fails: the handler answers 500, and nothing is stored or announced.
UpdateFails(q) ==
    /\ req[q].call = "UpdateCourse"
    /\ req' = [req EXCEPT ![q] = Idle]
    /\ UNCHANGED <<courses, heats, announced, view, history>>

\* delay_offset_changed, only when the request had a delay.
Broadcast(q) ==
    /\ req[q].call = "broadcast"
    /\ announced' = [announced EXCEPT ![req[q].course] = req[q].delay]
    /\ req' = [req EXCEPT ![q] = Idle]
    /\ doubtful' = IF req[q].course \in overlapped THEN doubtful ELSE doubtful \ {req[q].course}
    /\ UNCHANGED <<courses, heats, view, overlapped>>

-----------------------------------------------------------------------------
(* Scheduling.                                                             *)

HeatsOn(c) == {h \in DOMAIN heats : heats[h].course = c}

\* Characters of the offset in the order of their codes: + before - before Z.
Suffix(offset) == IF offset = 0 THEN 1000 ELSE IF offset < 0 THEN 100 - offset ELSE offset

\* Comparison of two planned_start texts: the wall clock first, then the offset.
TextBefore(s, t) ==
    \/ s.at + s.offset < t.at + t.offset
    \/ s.at + s.offset = t.at + t.offset /\ Suffix(s.offset) < Suffix(t.offset)

\* Mistake: the latest row that was inserted instead of the latest start.
LatestInserted(c) == CHOOSE h \in HeatsOn(c) : \A k \in HeatsOn(c) : k <= h

\* SELECT MAX(planned_start).
Latest(c) == CHOOSE h \in HeatsOn(c) : \A k \in HeatsOn(c) : ~TextBefore(heats[h], heats[k])

\* courseAnchor when the request has no start_at: one interval behind the latest heat,
\* written with that heat's offset, or now, in UTC.
Anchor(c, now) ==
    IF HeatsOn(c) = {} THEN [at |-> now, offset |-> 0]
    ELSE [at |-> heats[Latest(c)].at + courses[c].interval, offset |-> heats[Latest(c)].offset]

\* The heats of one request in the order of its assignments: each course begins at its
\* first start and goes on one interval apart.
Starts(cs, first) ==
    [i \in DOMAIN cs |->
        LET before == Cardinality({j \in 1..(i - 1) : cs[j] = cs[i]})
        IN  [course |-> cs[i], offset |-> first[cs[i]].offset,
             at |-> first[cs[i]].at + before * courses[cs[i]].interval]]

ScheduleHeats(cs) ==
    /\ Len(heats) + Len(cs) <= MaxHeats
    /\ \E now \in Instant :
          heats' = heats \o Starts(cs, [c \in ToSet(cs) |-> Anchor(c, now)])
    /\ UNCHANGED <<courses, req, announced, view, history>>

\* With start_at all courses of the request begin there, whatever they have.
ScheduleHeatsAt(cs, at, offset) ==
    /\ Len(heats) + Len(cs) <= MaxHeats
    /\ heats' = heats \o Starts(cs, [c \in ToSet(cs) |-> [at |-> at, offset |-> offset]])
    /\ UNCHANGED <<courses, req, announced, view, history>>

\* PATCH .../heats/{heat_id}: the planned start is overridden.
UpdateHeat(h, at, offset) ==
    /\ heats' = [heats EXCEPT ![h].at = at, ![h].offset = offset]
    /\ UNCHANGED <<courses, req, announced, view, history>>

-----------------------------------------------------------------------------
(* GET .../schedule.                                                       *)

\* The rows in the order of their texts; only the course of a row matters for its delay.
InOrder(order) == \A i, j \in DOMAIN order : i < j => ~TextBefore(heats[order[j]], heats[order[i]])

\* One SELECT ... ORDER BY planned_start: what happens to heats later is not in this answer.
ListHeatsForTournament ==
    /\ view = NoView /\ heats # <<>>
    /\ \E order \in SetToSeqs(DOMAIN heats) :
          /\ InOrder(order)
          /\ view' = [view EXCEPT !.rows = [i \in DOMAIN order |-> heats[order[i]].course]]
    /\ UNCHANGED <<courses, heats, req, announced, history>>

\* Mistake: each row reads its course.
ShowHeatUncached ==
    /\ Len(view.delays) < Len(view.rows)
    /\ view' = [view EXCEPT !.delays = Append(@, courses[view.rows[Len(@) + 1]].delay)]
    /\ UNCHANGED <<courses, heats, req, announced, history>>

\* The next row is moved by the delay of its course, which is read for the first of its rows.
ShowHeat ==
    /\ Len(view.delays) < Len(view.rows)
    /\ LET c == view.rows[Len(view.delays) + 1]
           cached == {i \in DOMAIN view.delays : view.rows[i] = c}
       IN  view' = [view EXCEPT !.delays =
                       Append(@, IF cached = {} THEN courses[c].delay ELSE @[CHOOSE i \in cached : TRUE])]
    /\ UNCHANGED <<courses, heats, req, announced, history>>

\* The answer is written.
GetSchedule ==
    /\ view # NoView /\ Len(view.delays) = Len(view.rows)
    /\ view' = NoView
    /\ UNCHANGED <<courses, heats, req, announced, history>>

\* A course or the results of a heat cannot be read: the answer is an error.
GetScheduleFails ==
    /\ view # NoView
    /\ view' = NoView
    /\ UNCHANGED <<courses, heats, req, announced, history>>

-----------------------------------------------------------------------------
\* The process ends and is started again: the handlers are gone.  A delay that was stored
\* and not yet broadcast is announced by nobody.
ServerRestart ==
    /\ req' = [q \in Request |-> Idle]
    /\ view' = NoView
    /\ doubtful' = doubtful \cup {c \in Course : \E q \in Request :
                                      req[q].call = "broadcast" /\ req[q].course = c}
    /\ UNCHANGED <<courses, heats, announced, overlapped>>

Batches == UNION {[1..n -> Course] : n \in 1..MaxBatch}

Update(q) ==
    \/ \E c \in Course, body \in Body : GetCourse(q, c, body)
    \/ UpdateCourse(q) \/ UpdateFails(q)
    \/ Broadcast(q)

Next ==
    \/ \E q \in Request : Update(q)
    \/ \E cs \in Batches : ScheduleHeats(cs)
    \/ \E cs \in Batches, at \in Instant, offset \in Offset : ScheduleHeatsAt(cs, at, offset)
    \/ \E h \in DOMAIN heats, at \in Instant, offset \in Offset : UpdateHeat(h, at, offset)
    \/ ListHeatsForTournament \/ ShowHeat \/ GetSchedule \/ GetScheduleFails
    \/ ServerRestart

Spec == Init /\ [][Next]_vars

-----------------------------------------------------------------------------
(* Correctness.                                                            *)

OneOffset(c) == \A h, k \in HeatsOn(c) : heats[h].offset = heats[k].offset

\* Heats that are scheduled without start_at line up: each starts at least the course's
\* interval after every heat the course has at that time, those of the same request
\* included, whatever was moved by hand.  It holds for courses whose starts are written with
\* one UTC offset; otherwise the greatest text need not be the latest start.
AutoHeatsGoLast ==
    [][\A cs \in Batches : ScheduleHeats(cs) =>
          \A h \in DOMAIN heats' \ DOMAIN heats, k \in DOMAIN heats' :
             k < h /\ heats'[k].course = heats'[h].course /\ OneOffset(heats'[h].course) =>
                heats'[h].at >= heats'[k].at + courses[heats'[h].course].interval]_vars

\* The delay of a course that was broadcast last is the delay that is stored, while none of
\* its updates is in flight: who follows the broadcasts has no outdated delay, also when
\* statements fail or the process ends before the UPDATE.  Two updates that overlap may part
\* the two, for one takes back the delay of the other without a broadcast, and so may an end
\* of the process between UPDATE and broadcast; the next delay that is set on its own and
\* announced joins them again, whatever was stored and announced before.
DelayAnnounced ==
    \A c \in Course : Updating(c) \/ c \in doubtful \/ announced[c] = courses[c].delay

\* One answer moves all heats of a course by one and the same delay, also when the delay
\* is changed while it is made: the intervals that it shows are the planned ones.
ViewMovesTogether ==
    \A i, j \in DOMAIN view.delays :
       view.rows[i] = view.rows[j] => view.delays[i] = view.delays[j]
=============================================================================
