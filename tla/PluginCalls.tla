---------------------------- MODULE PluginCalls ----------------------------
(***************************************************************************)
(* Calls of tournament-type plugins: /next and /divisions look their       *)
(* plugin up in the engine of the moment, read some tables, and then call  *)
(* a Lua function in the one Lua state that the plugin has.  A mutex per   *)
(* plugin lets one call in at a time, a deadline in the Lua state aborts a *)
(* call that does not end.  Reloading brings a new engine with new Lua     *)
(* states and leaves the old ones to the calls that still have them.       *)
(* What the engine holds after a reload is PluginRegistry's matter, what a *)
(* function returns is Qualification's.                                    *)
(***************************************************************************)
EXTENDS Naturals, FiniteSets

CONSTANTS
    Caller,     \* the requests that may call plugins together
    Type,       \* IDs of tournament types
    Bundled,    \* those built into the binary
    MaxReloads  \* bound on reloads

ASSUME CallsAssumption == Bundled \subseteq Type /\ MaxReloads \in Nat

VARIABLES
    engine,   \* the engine: its number and the types that it holds
    call,     \* per request its step, the Lua state of the plugin it found, whether the
              \* function goes on for ever, whether its deadline has passed, and its answer
    context   \* per Lua state the requests whose deadline is set in it, one or none

vars == <<engine, call, context>>

\* Each load makes a Lua state for each plugin.
State == [type : Type, gen : 0..MaxReloads]

\* plugin.Load: the bundled types are always there, though a file may override them.
Loads(n) == {[gen |-> n, types |-> T] : T \in {S \in SUBSET Type : Bundled \subseteq S}}

Idle == [step |-> "none"]
Steps == {"found", "wait", "run"}

UnderWay == [step : Steps, state : State, loops : BOOLEAN, late : BOOLEAN]
Answered == [step : {"answered"}, answer : {"missing", "failed", "ok", "aborted"}, loops : BOOLEAN]

TypeOK ==
    /\ \E n \in 0..MaxReloads : engine \in Loads(n)
    /\ call \in [Caller -> {Idle} \cup UnderWay \cup Answered]
    /\ context \in [State -> SUBSET Caller]

Init ==
    /\ engine \in Loads(0)
    /\ call = [c \in Caller |-> Idle]
    /\ context = [s \in State |-> {}]

Ready(c) == call[c].step \in {"none", "answered"}
Running(c) == call[c].step = "run"

-----------------------------------------------------------------------------
(* findTournamentType and what the handlers do before they call.           *)

\* A tournament may have a type that is not loaded: 500.  Whether the function will end
\* depends on the plugin and on the groups it is given.
Find(c, t) ==
    /\ Ready(c)
    /\ \/ /\ t \in engine.types
          /\ \E loops \in BOOLEAN :
                call' = [call EXCEPT ![c] = [step |-> "found", loops |-> loops, late |-> FALSE,
                                            state |-> [type |-> t, gen |-> engine.gen]]]
       \/ /\ t \notin engine.types
          /\ call' = [call EXCEPT ![c] = [step |-> "answered", answer |-> "missing", loops |-> FALSE]]
    /\ UNCHANGED <<engine, context>>

\* Groups and results are read, and the ranking is made.
Prepare(c) ==
    /\ call[c].step = "found"
    /\ call' = [call EXCEPT ![c].step = "wait"]
    /\ UNCHANGED <<engine, context>>

\* One of the reads fails, or the next round exists.
GiveUp(c) ==
    /\ call[c].step = "found"
    /\ call' = [call EXCEPT ![c] = [step |-> "answered", answer |-> "failed", loops |-> FALSE]]
    /\ UNCHANGED <<engine, context>>

-----------------------------------------------------------------------------
(* NextRoundGroups and DivisionCuts.                                       *)

Locked(s) == \E c \in Caller : Running(c) /\ call[c].state = s

\* Mistake: no mutex.
LockNothing(c) ==
    /\ call[c].step = "wait"
    /\ call' = [call EXCEPT ![c].step = "run"]
    /\ context' = [context EXCEPT ![call[c].state] = {c}]
    /\ UNCHANGED engine

\* Mistake: only a call of the engine that is loaded waits for the mutex.
LockOfEngine(c) ==
    /\ call[c].step = "wait"
    /\ call[c].state.gen = engine.gen => ~Locked(call[c].state)
    /\ call' = [call EXCEPT ![c].step = "run"]
    /\ context' = [context EXCEPT ![call[c].state] = {c}]
    /\ UNCHANGED engine

\* t.mu.Lock, and the deadline in the Lua state.
Lock(c) ==
    /\ call[c].step = "wait"
    /\ ~Locked(call[c].state)
    /\ call' = [call EXCEPT ![c].step = "run"]
    /\ context' = [context EXCEPT ![call[c].state] = {c}]
    /\ UNCHANGED engine

\* Mistake: the deadline is set before the mutex is there.
TimedWaiting(c) == call[c].step \in {"wait", "run"}

\* The five seconds of a call count from the moment it has the mutex.
Timed(c) == Running(c)

\* Five seconds pass: a function that ends does not take them, waiting and a loop may.
Elapse(c) ==
    /\ Timed(c) /\ ~call[c].late
    /\ call[c].step = "wait" \/ call[c].loops
    /\ call' = [call EXCEPT ![c].late = TRUE]
    /\ UNCHANGED <<engine, context>>

\* The deadline leaves the Lua state and the mutex is released, however the call ended.
Return(c, answer) ==
    /\ call' = [call EXCEPT ![c] = [step |-> "answered", answer |-> answer,
                                    loops |-> call[c].loops]]
    /\ context' = [context EXCEPT ![call[c].state] = {}]
    /\ UNCHANGED engine

Finish(c) ==
    /\ Running(c) /\ ~call[c].loops
    /\ Return(c, "ok")

\* The Lua state finds the deadline passed that is set in it.
Abort(c) ==
    /\ Running(c)
    /\ \E d \in context[call[c].state] : ~Ready(d) /\ call[d].late
    /\ Return(c, "aborted")

-----------------------------------------------------------------------------
(* reloadPlugins.                                                          *)

\* Mistake: the superseded engine is closed.
ReloadClosing ==
    /\ engine.gen < MaxReloads
    /\ engine' \in Loads(engine.gen + 1)
    /\ call' = [c \in Caller |-> IF call[c].step \notin {"wait", "run"} THEN call[c]
                                 ELSE [step |-> "answered", answer |-> "aborted",
                                       loops |-> call[c].loops]]
    /\ UNCHANGED context

\* Calls go on in the Lua states they have.
Reload ==
    /\ engine.gen < MaxReloads
    /\ engine' \in Loads(engine.gen + 1)
    /\ UNCHANGED <<call, context>>

-----------------------------------------------------------------------------
Step(c) == Prepare(c) \/ GiveUp(c) \/ Elapse(c) \/ Finish(c) \/ Abort(c)

Next ==
    \/ \E c \in Caller : \/ \E t \in Type : Find(c, t)
                         \/ Lock(c) \/ Step(c)
    \/ Reload

Spec == Init /\ [][Next]_vars

\* Handlers go on and time passes.  A goroutine that waits for a mutex gets it if it is
\* free again and again: sync.Mutex hands it over to one that has waited for a millisecond.
FairSpec == Spec /\ \A c \in Caller : WF_vars(Step(c)) /\ SF_vars(Lock(c))

-----------------------------------------------------------------------------
(* Correctness.                                                            *)

\* The deadline in the Lua state of a running call is its own: no other call of this
\* plugin, of the same engine or of an older one, takes it away or puts a later one there.
OwnDeadline == \A c \in Caller : Running(c) => context[call[c].state] = {c}

\* A call that would end is never aborted: not for the time it waited behind calls of the
\* same plugin that ran into their deadlines, not by their deadlines, and not by a reload
\* that took the engine away from under it.
QuickCallsEnd ==
    \A c \in Caller : call[c].step = "answered" /\ call[c].answer = "aborted" => call[c].loops

\* Every request that has found its plugin is answered, also behind calls of a plugin that
\* never ends, of which more and more arrive.
CallsAnswered == \A c \in Caller : call[c].step \in Steps ~> call[c].step = "answered"
=============================================================================
