------------------------ MODULE PluginCalls_proofs ------------------------
(***************************************************************************)
(* Proofs about PluginCalls for any number of requests, types and reloads. *)
(***************************************************************************)
EXTENDS PluginCalls, TLAPS

\* One call at a time is in a Lua state: what the mutex is for.
Alone ==
    \A c, d \in Caller : Running(c) /\ Running(d) /\ call[c].state = call[d].state => c = d

\* Only calls that do not end come to their deadline.
LateLoops ==
    \A c \in Caller : call[c].step \in Steps /\ call[c].late => Running(c) /\ call[c].loops

CallsInv == TypeOK /\ Alone /\ OwnDeadline /\ LateLoops /\ QuickCallsEnd

-----------------------------------------------------------------------------
\* A call under way has all fields of one.
LEMMA UnderWayFields ==
    ASSUME TypeOK, NEW c \in Caller, call[c].step \in Steps
    PROVE  call[c] \in UnderWay
  BY DEF TypeOK, Idle, Answered, Steps

LEMMA InitInv == Init => CallsInv
  <1> SUFFICES ASSUME Init PROVE CallsInv
    OBVIOUS
  <1>1. TypeOK
    BY CallsAssumption DEF Init, TypeOK
  <1>2. Alone /\ OwnDeadline /\ LateLoops /\ QuickCallsEnd
    BY DEF Init, Idle, Alone, OwnDeadline, LateLoops, QuickCallsEnd, Running, Steps
  <1> QED
    BY <1>1, <1>2 DEF CallsInv

\* A step that gives one call another step before or after its run, and touches no deadline,
\* keeps the invariant.
LEMMA OutsideRun ==
    ASSUME CallsInv, NEW c \in Caller, ~Running(c),
           NEW r \in {Idle} \cup UnderWay \cup Answered,
           r.step # "run", r.step \in Steps => ~r.late,
           r.step = "answered" /\ r.answer = "aborted" => r.loops,
           call' = [call EXCEPT ![c] = r], UNCHANGED <<engine, context>>
    PROVE  CallsInv'
  <1>1. TypeOK'
    BY DEF CallsInv, TypeOK
  <1>2. \A d \in Caller : call'[d] = IF d = c THEN r ELSE call[d]
    BY DEF CallsInv, TypeOK
  <1>3. Alone'
    BY <1>2 DEF CallsInv, Alone, Running
  <1>4. OwnDeadline'
    BY <1>2 DEF CallsInv, OwnDeadline, Running
  <1>5. LateLoops'
    BY <1>2 DEF CallsInv, LateLoops, Running
  <1>6. QuickCallsEnd'
    BY <1>2 DEF CallsInv, QuickCallsEnd
  <1> QED
    BY <1>1, <1>3, <1>4, <1>5, <1>6 DEF CallsInv

LEMMA FindKeeps ==
    ASSUME CallsInv, NEW c \in Caller, NEW t \in Type, Find(c, t) PROVE CallsInv'
  <1>1. ~Running(c)
    BY DEF Find, Ready, Running
  <1>2. CASE t \in engine.types
    <2>1. PICK loops \in BOOLEAN :
             call' = [call EXCEPT ![c] = [step |-> "found", loops |-> loops, late |-> FALSE,
                                          state |-> [type |-> t, gen |-> engine.gen]]]
      BY <1>2 DEF Find
    <2> DEFINE r == [step |-> "found", loops |-> loops, late |-> FALSE,
                     state |-> [type |-> t, gen |-> engine.gen]]
    <2>2. engine.gen \in 0..MaxReloads
      BY DEF CallsInv, TypeOK, Loads
    <2>3. r \in UnderWay
      BY <2>2 DEF UnderWay, State, Steps
    <2> QED
      BY <1>1, <2>1, <2>3, OutsideRun DEF Find
  <1>3. CASE t \notin engine.types
    <2> DEFINE r == [step |-> "answered", answer |-> "missing", loops |-> FALSE]
    <2>1. r \in Answered
      BY DEF Answered
    <2> QED
      BY <1>1, <1>3, <2>1, OutsideRun DEF Find, Steps
  <1> QED
    BY <1>2, <1>3

LEMMA PrepareKeeps ==
    ASSUME CallsInv, NEW c \in Caller, Prepare(c) \/ GiveUp(c) PROVE CallsInv'
  <1>1. call[c] \in UnderWay /\ ~Running(c) /\ ~call[c].late
    BY UnderWayFields DEF CallsInv, Prepare, GiveUp, Steps, Running, LateLoops
  <1>2. CASE Prepare(c)
    <2> DEFINE r == [call[c] EXCEPT !.step = "wait"]
    <2>1. r \in UnderWay /\ r.step = "wait" /\ ~r.late
      BY <1>1 DEF UnderWay, Steps
    <2>2. call' = [call EXCEPT ![c] = r]
      BY <1>2 DEF Prepare
    <2> HIDE DEF r
    <2> QED
      BY <1>1, <1>2, <2>1, <2>2, OutsideRun DEF Prepare
  <1>3. CASE GiveUp(c)
    <2> DEFINE r == [step |-> "answered", answer |-> "failed", loops |-> FALSE]
    <2>1. r \in Answered
      BY DEF Answered
    <2> QED
      BY <1>1, <1>3, <2>1, OutsideRun DEF GiveUp, Steps
  <1> QED
    BY <1>2, <1>3

LEMMA LockKeeps ==
    ASSUME CallsInv, NEW c \in Caller, Lock(c) PROVE CallsInv'
  <1> DEFINE s == call[c].state
  <1>1. call[c] \in UnderWay /\ s \in State /\ ~call[c].late
    BY UnderWayFields DEF CallsInv, Lock, Steps, Running, LateLoops, UnderWay
  <1> DEFINE r == [call[c] EXCEPT !.step = "run"]
  <1>2. r \in UnderWay /\ r.step = "run" /\ r.state = s /\ ~r.late
    BY <1>1 DEF UnderWay, Steps
  <1>3. call' = [call EXCEPT ![c] = r] /\ context' = [context EXCEPT ![s] = {c}]
    BY DEF Lock
  <1>4. \A d \in Caller : Running(d) => call[d].state # s
    BY DEF Lock, Locked
  <1> HIDE DEF r, s
  <1>5. \A d \in Caller : call'[d] = IF d = c THEN r ELSE call[d]
    BY <1>3 DEF CallsInv, TypeOK
  <1>6. \A x \in State : context'[x] = IF x = s THEN {c} ELSE context[x]
    BY <1>3 DEF CallsInv, TypeOK
  <1>7. TypeOK'
    <2>1. engine' = engine
      BY DEF Lock
    <2>2. call' \in [Caller -> {Idle} \cup UnderWay \cup Answered]
      BY <1>2, <1>3 DEF CallsInv, TypeOK
    <2>3. context' \in [State -> SUBSET Caller]
      BY <1>1, <1>3 DEF CallsInv, TypeOK
    <2> QED
      BY <2>1, <2>2, <2>3 DEF CallsInv, TypeOK
  <1>8. Alone'
    BY <1>2, <1>4, <1>5 DEF CallsInv, Alone, Running
  <1>9. OwnDeadline'
    <2> SUFFICES ASSUME NEW d \in Caller, Running(d)' PROVE context'[call'[d].state] = {d}
      BY DEF OwnDeadline, Running
    <2>1. CASE d = c
      BY <1>1, <1>2, <1>5, <1>6, <2>1
    <2>2. CASE d # c
      <3>1. Running(d) /\ call'[d] = call[d]
        BY <1>5, <2>2 DEF Running
      <3>2. call[d].state \in State
        BY <3>1, UnderWayFields DEF CallsInv, Running, Steps, UnderWay
      <3> QED
        BY <1>4, <1>6, <3>1, <3>2 DEF CallsInv, OwnDeadline
    <2> QED
      BY <2>1, <2>2
  <1>10. LateLoops'
    BY <1>2, <1>5 DEF CallsInv, LateLoops, Running
  <1>11. QuickCallsEnd'
    BY <1>2, <1>5 DEF CallsInv, QuickCallsEnd
  <1> QED
    BY <1>7, <1>8, <1>9, <1>10, <1>11 DEF CallsInv

LEMMA ElapseKeeps ==
    ASSUME CallsInv, NEW c \in Caller, Elapse(c) PROVE CallsInv'
  <1>1. call[c] \in UnderWay /\ Running(c) /\ call[c].loops
    BY UnderWayFields DEF CallsInv, Elapse, Timed, Running, Steps
  <1> DEFINE r == [call[c] EXCEPT !.late = TRUE]
  <1>2. r \in UnderWay /\ r.step = "run" /\ r.state = call[c].state /\ r.loops
    BY <1>1 DEF UnderWay, Running
  <1>3. call' = [call EXCEPT ![c] = r] /\ UNCHANGED <<engine, context>>
    BY DEF Elapse
  <1> HIDE DEF r
  <1>4. \A d \in Caller : call'[d] = IF d = c THEN r ELSE call[d]
    BY <1>3 DEF CallsInv, TypeOK
  <1>5. TypeOK'
    BY <1>2, <1>3 DEF CallsInv, TypeOK
  <1>6. Alone'
    BY <1>1, <1>2, <1>4 DEF CallsInv, Alone, Running
  <1>7. OwnDeadline'
    BY <1>1, <1>2, <1>3, <1>4 DEF CallsInv, OwnDeadline, Running
  <1>8. LateLoops'
    BY <1>2, <1>4 DEF CallsInv, LateLoops, Running
  <1>9. QuickCallsEnd'
    BY <1>2, <1>4 DEF CallsInv, QuickCallsEnd
  <1> QED
    BY <1>5, <1>6, <1>7, <1>8, <1>9 DEF CallsInv

\* The deadline that goes is the call's own, so no other running call loses one.
LEMMA ReturnKeeps ==
    ASSUME CallsInv, NEW c \in Caller, Running(c), NEW answer \in {"ok", "aborted"},
           answer = "aborted" => call[c].loops, Return(c, answer)
    PROVE  CallsInv'
  <1> DEFINE s == call[c].state
             r == [step |-> "answered", answer |-> answer, loops |-> call[c].loops]
  <1>1. call[c] \in UnderWay /\ s \in State
    BY UnderWayFields DEF CallsInv, Running, Steps, UnderWay
  <1>2. r \in Answered /\ r.step = "answered" /\ r.answer = answer /\ r.loops = call[c].loops
    BY <1>1 DEF Answered, UnderWay
  <1>3. call' = [call EXCEPT ![c] = r] /\ context' = [context EXCEPT ![s] = {}]
    BY DEF Return
  <1> HIDE DEF r, s
  <1>4. \A d \in Caller : call'[d] = IF d = c THEN r ELSE call[d]
    BY <1>3 DEF CallsInv, TypeOK
  <1>5. \A x \in State : x # s => context'[x] = context[x]
    BY <1>3 DEF CallsInv, TypeOK
  <1>6. TypeOK'
    <2>1. call' \in [Caller -> {Idle} \cup UnderWay \cup Answered]
      <3>1. call \in [Caller -> {Idle} \cup UnderWay \cup Answered]
        BY DEF CallsInv, TypeOK
      <3> HIDE DEF UnderWay, Answered, Idle
      <3> QED  BY <1>2, <1>3, <3>1
    <2>2. context' \in [State -> SUBSET Caller]
      BY <1>1, <1>3 DEF CallsInv, TypeOK
    <2>3. \E n \in 0..MaxReloads : engine' \in Loads(n)
      BY DEF CallsInv, TypeOK, Return
    <2> QED  BY <2>1, <2>2, <2>3 DEF TypeOK
  <1>7. Alone'
    BY <1>2, <1>4 DEF CallsInv, Alone, Running
  <1>8. OwnDeadline'
    <2> SUFFICES ASSUME NEW d \in Caller, Running(d)' PROVE context'[call'[d].state] = {d}
      BY DEF OwnDeadline, Running
    <2>1. d # c /\ Running(d) /\ call'[d] = call[d]
      BY <1>2, <1>4 DEF Running
    <2>2. call[d].state \in State
      BY <2>1, UnderWayFields DEF CallsInv, Running, Steps, UnderWay
    <2>3. call[d].state # s
      BY <2>1 DEF CallsInv, Alone, s
    <2> QED
      BY <1>5, <2>1, <2>2, <2>3 DEF CallsInv, OwnDeadline
  <1>9. LateLoops'
    BY <1>2, <1>4 DEF CallsInv, LateLoops, Running, Steps
  <1>10. QuickCallsEnd'
    BY <1>2, <1>4 DEF CallsInv, QuickCallsEnd
  <1> QED
    BY <1>6, <1>7, <1>8, <1>9, <1>10 DEF CallsInv

LEMMA ReloadKeeps == CallsInv /\ Reload => CallsInv'
  <1> SUFFICES ASSUME CallsInv, Reload PROVE CallsInv'
    OBVIOUS
  <1>1. TypeOK'
    <2>1. PICK n \in 0..MaxReloads : engine \in Loads(n)
      BY DEF CallsInv, TypeOK
    <2>2. engine.gen = n
      BY <2>1 DEF Loads
    <2>3. n + 1 \in 0..MaxReloads
      BY <2>2, CallsAssumption DEF Reload
    <2> QED
      BY <2>2, <2>3 DEF CallsInv, TypeOK, Reload
  <1>2. (Alone /\ OwnDeadline /\ LateLoops /\ QuickCallsEnd)'
    BY DEF CallsInv, Reload, Alone, OwnDeadline, LateLoops, QuickCallsEnd, Running
  <1> QED
    BY <1>1, <1>2 DEF CallsInv

LEMMA NextInv == CallsInv /\ [Next]_vars => CallsInv'
  <1> SUFFICES ASSUME CallsInv, [Next]_vars PROVE CallsInv'
    OBVIOUS
  <1>1. ASSUME NEW c \in Caller, NEW t \in Type, Find(c, t) PROVE CallsInv'
    BY <1>1, FindKeeps
  <1>2. ASSUME NEW c \in Caller, Lock(c) PROVE CallsInv'
    BY <1>2, LockKeeps
  <1>3. ASSUME NEW c \in Caller, Prepare(c) \/ GiveUp(c) PROVE CallsInv'
    BY <1>3, PrepareKeeps
  <1>4. ASSUME NEW c \in Caller, Elapse(c) PROVE CallsInv'
    BY <1>4, ElapseKeeps
  <1>5. ASSUME NEW c \in Caller, Finish(c) PROVE CallsInv'
    BY <1>5, ReturnKeeps DEF Finish
  <1>6. ASSUME NEW c \in Caller, Abort(c) PROVE CallsInv'
    <2>1. Running(c) /\ context[call[c].state] = {c} /\ call[c].late
      BY <1>6 DEF Abort, CallsInv, OwnDeadline
    <2>2. call[c].loops
      BY <2>1 DEF CallsInv, LateLoops, Running, Steps
    <2> QED
      BY <1>6, <2>1, <2>2, ReturnKeeps DEF Abort
  <1>7. CASE Reload
    BY <1>7, ReloadKeeps
  <1>8. CASE UNCHANGED vars
    BY <1>8 DEF vars, CallsInv, TypeOK, Alone, OwnDeadline, LateLoops, QuickCallsEnd, Running
  <1> QED
    BY <1>1, <1>2, <1>3, <1>4, <1>5, <1>6, <1>7, <1>8 DEF Next, Step

\* The invariant holds of every behaviour.
THEOREM CallsInvCorrect == Spec => []CallsInv
  BY InitInv, NextInv, PTL DEF Spec

\* A running call of a plugin is bound by its own deadline, whatever other calls and
\* reloads do: the mutex of NextRoundGroups and DivisionCuts.
THEOREM OwnDeadlineCorrect == Spec => []OwnDeadline
  <1>1. CallsInv => OwnDeadline
    BY DEF CallsInv
  <1> QED
    BY <1>1, CallsInvCorrect, PTL

\* A call that would end is never aborted, however long it waited for its turn.
THEOREM QuickCallsEndCorrect == Spec => []QuickCallsEnd
  <1>1. CallsInv => QuickCallsEnd
    BY DEF CallsInv
  <1> QED
    BY <1>1, CallsInvCorrect, PTL

\* Calls, engine and deadlines stay well typed; every call under way has a Lua state.
THEOREM CallsTypeOKCorrect == Spec => []TypeOK
  <1>1. CallsInv => TypeOK
    BY DEF CallsInv
  <1> QED
    BY <1>1, CallsInvCorrect, PTL
=============================================================================
