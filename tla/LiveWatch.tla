------------------------------ MODULE LiveWatch ------------------------------
(***************************************************************************)
(* The way of a result to the screens that watch a tournament: the handler *)
(* that commits it and then broadcasts, the hub with a bounded channel per *)
(* connection, the goroutine that writes a channel to its WebSocket, the   *)
(* hook useTournamentSocket that reconnects and invalidates the standings, *)
(* and the query cache that fetches them again.  A message carries nothing *)
(* a screen uses, so a channel is a count.  When a connection is lost the  *)
(* server's side of it is dropped at once: what the handler of a dead      *)
(* connection still takes from its channel reaches nobody.                 *)
(***************************************************************************)
EXTENDS Integers, FiniteSets

CONSTANTS
    Watcher,       \* the open watch screens
    Request,       \* the requests that may submit results together
    Capacity,      \* the buffer of a channel (16 in the code)
    BannerAfter,   \* failed connections in a row before the banner (3)
    MaxVersion,    \* bound on submitted results
    MaxFaults      \* bound on lost connections and failed handlers

ASSUME WatchAssumption ==
    /\ Capacity \in Nat \ {0} /\ BannerAfter \in Nat \ {0}
    /\ MaxVersion \in Nat /\ MaxFaults \in Nat

None == -1

VARIABLES
    version,   \* results committed so far: what the standings show is a version
    req,       \* per request: idle, or committed and not broadcast yet
    serving,   \* per watcher, its handler on the server: none, accepted, registered
    channel,   \* per watcher: messages in its channel; None when not registered
    wire,      \* per watcher: messages written to the socket and not yet received
    socket,    \* per watcher: waiting for the timer, connecting, open
    failures,  \* per watcher: connections lost since the last one that opened
    banner,    \* per watcher: connectionLost
    query,     \* per watcher: the version shown (None before the first answer), what
               \* its fetch is at, and the version the server read for that fetch
    faults

vars == <<version, req, serving, channel, wire, socket, failures, banner, query, faults>>
connection == <<serving, channel, wire, socket, failures, banner>>

Version == 0..MaxVersion

TypeOK ==
    /\ version \in Version
    /\ req \in [Request -> {"idle", "committed"}]
    /\ serving \in [Watcher -> {"none", "accepted", "registered"}]
    /\ channel \in [Watcher -> 0..Capacity \cup {None}]
    /\ wire \in [Watcher -> {0, 1}]
    /\ socket \in [Watcher -> {"waiting", "connecting", "open"}]
    /\ failures \in [Watcher -> Nat]
    /\ banner \in [Watcher -> BOOLEAN]
    /\ query \in [Watcher -> [shown : Version \cup {None}, fetch : {"idle", "sent", "read"},
                              read : Version \cup {None}]]
    /\ faults \in 0..MaxFaults

\* The screen is mounted: the query starts its first fetch, the effect connects.
Init ==
    /\ version = 0
    /\ req = [q \in Request |-> "idle"]
    /\ serving = [w \in Watcher |-> "none"]
    /\ channel = [w \in Watcher |-> None]
    /\ wire = [w \in Watcher |-> 0]
    /\ socket = [w \in Watcher |-> "connecting"]
    /\ failures = [w \in Watcher |-> 0]
    /\ banner = [w \in Watcher |-> FALSE]
    /\ query = [w \in Watcher |-> [shown |-> None, fetch |-> "sent", read |-> None]]
    /\ faults = 0

-----------------------------------------------------------------------------
(* The handler of POST .../results.                                        *)

Commit(q) ==
    /\ req[q] = "idle"
    /\ version < MaxVersion
    /\ version' = version + 1
    /\ req' = [req EXCEPT ![q] = "committed"]
    /\ UNCHANGED <<connection, query, faults>>

\* Mistake: a full channel is emptied.
PutResetting(n) == IF n = Capacity THEN 0 ELSE n + 1

\* The select in broadcast: a full channel drops the message.
Put(n) == IF n = Capacity THEN n ELSE n + 1

\* The hub's lock makes a broadcast one step.
Broadcast(q) ==
    /\ req[q] = "committed"
    /\ req' = [req EXCEPT ![q] = "idle"]
    /\ channel' = [w \in Watcher |-> IF channel[w] = None THEN None ELSE Put(channel[w])]
    /\ UNCHANGED <<version, serving, wire, socket, failures, banner, query, faults>>

\* A call of the closing cascade fails: the handler returns without a broadcast.
HandlerFails(q) ==
    /\ req[q] = "committed"
    /\ faults < MaxFaults
    /\ faults' = faults + 1
    /\ req' = [req EXCEPT ![q] = "idle"]
    /\ UNCHANGED <<version, connection, query>>

-----------------------------------------------------------------------------
(* handleWebSocket.                                                        *)

\* The handshake is answered before the channel is registered.
Accept(w) ==
    /\ socket[w] = "connecting" /\ serving[w] = "none"
    /\ serving' = [serving EXCEPT ![w] = "accepted"]
    /\ UNCHANGED <<version, req, channel, wire, socket, failures, banner, query, faults>>

Register(w) ==
    /\ serving[w] = "accepted"
    /\ serving' = [serving EXCEPT ![w] = "registered"]
    /\ channel' = [channel EXCEPT ![w] = 0]
    /\ UNCHANGED <<version, req, wire, socket, failures, banner, query, faults>>

\* The goroutine blocks in Write until the socket takes the message.
Write(w) ==
    /\ serving[w] = "registered" /\ channel[w] > 0
    /\ wire[w] = 0
    /\ channel' = [channel EXCEPT ![w] = @ - 1]
    /\ wire' = [wire EXCEPT ![w] = 1]
    /\ UNCHANGED <<version, req, serving, socket, failures, banner, query, faults>>

-----------------------------------------------------------------------------
(* useTournamentSocket and the query cache.                                *)

\* invalidateQueries on a mounted query: a fetch under way is cancelled and started
\* anew, except the first one, which is kept as long as there is no data.
Invalidated(qy) ==
    IF qy.shown = None /\ qy.fetch # "idle" THEN qy
    ELSE [qy EXCEPT !.fetch = "sent", !.read = None]

\* Mistake: only a message makes the hook invalidate.
OnOpenQuietly(w) ==
    /\ socket[w] = "connecting" /\ serving[w] # "none"
    /\ socket' = [socket EXCEPT ![w] = "open"]
    /\ failures' = [failures EXCEPT ![w] = 0]
    /\ banner' = [banner EXCEPT ![w] = FALSE]
    /\ UNCHANGED <<version, req, serving, channel, wire, query, faults>>

OnOpen(w) ==
    /\ socket[w] = "connecting" /\ serving[w] # "none"
    /\ socket' = [socket EXCEPT ![w] = "open"]
    /\ failures' = [failures EXCEPT ![w] = 0]
    /\ banner' = [banner EXCEPT ![w] = FALSE]
    /\ query' = [query EXCEPT ![w] = Invalidated(@)]
    /\ UNCHANGED <<version, req, serving, channel, wire, faults>>

OnMessage(w) ==
    /\ socket[w] = "open" /\ wire[w] = 1
    /\ wire' = [wire EXCEPT ![w] = 0]
    /\ query' = [query EXCEPT ![w] = Invalidated(@)]
    /\ UNCHANGED <<version, req, serving, channel, socket, failures, banner, faults>>

\* Mistake: the banner is set by one failure only, the one that reaches the number.
OnCloseExactly(w) ==
    /\ socket' = [socket EXCEPT ![w] = "waiting"]
    /\ failures' = [failures EXCEPT ![w] = @ + 1]
    /\ banner' = [banner EXCEPT ![w] = failures'[w] = BannerAfter]
    /\ serving' = [serving EXCEPT ![w] = "none"]
    /\ channel' = [channel EXCEPT ![w] = None]
    /\ wire' = [wire EXCEPT ![w] = 0]

\* onclose, for a connection that opened and for one that never did.
OnClose(w) ==
    /\ socket' = [socket EXCEPT ![w] = "waiting"]
    /\ failures' = [failures EXCEPT ![w] = @ + 1]
    /\ banner' = [banner EXCEPT ![w] = @ \/ failures'[w] >= BannerAfter]
    /\ serving' = [serving EXCEPT ![w] = "none"]
    /\ channel' = [channel EXCEPT ![w] = None]
    /\ wire' = [wire EXCEPT ![w] = 0]

\* The network, the server or the session check ends a connection.
Lose(w) ==
    /\ socket[w] \in {"connecting", "open"}
    /\ faults < MaxFaults
    /\ faults' = faults + 1
    /\ OnClose(w)
    /\ UNCHANGED <<version, req, query>>

\* The reconnect timer fires.
Connect(w) ==
    /\ socket[w] = "waiting"
    /\ socket' = [socket EXCEPT ![w] = "connecting"]
    /\ UNCHANGED <<version, req, serving, channel, wire, failures, banner, query, faults>>

\* GET .../standings reads the tables ...
Read(w) ==
    /\ query[w].fetch = "sent"
    /\ query' = [query EXCEPT ![w].fetch = "read", ![w].read = version]
    /\ UNCHANGED <<version, req, connection, faults>>

\* ... and its answer is shown.
Show(w) ==
    /\ query[w].fetch = "read"
    /\ query' = [query EXCEPT ![w] = [shown |-> @.read, fetch |-> "idle", read |-> None]]
    /\ UNCHANGED <<version, req, connection, faults>>

-----------------------------------------------------------------------------
Screen(w) ==
    Accept(w) \/ Register(w) \/ Write(w) \/ OnOpen(w) \/ OnMessage(w) \/ Connect(w)
    \/ Read(w) \/ Show(w)

Next ==
    \/ \E q \in Request : Commit(q) \/ Broadcast(q) \/ HandlerFails(q)
    \/ \E w \in Watcher : Screen(w) \/ Lose(w)

Spec == Init /\ [][Next]_vars

\* Handlers and the writing goroutine run, the timer fires, answers and messages
\* arrive; nobody has to submit anything and nothing has to fail.
FairSpec ==
    /\ Spec
    /\ \A q \in Request : WF_vars(Broadcast(q))
    /\ \A w \in Watcher :
          /\ WF_vars(Accept(w) \/ Register(w)) /\ WF_vars(Write(w))
          /\ WF_vars(OnOpen(w)) /\ WF_vars(OnMessage(w)) /\ WF_vars(Connect(w))
          /\ WF_vars(Read(w) \/ Show(w))

-----------------------------------------------------------------------------
(* Correctness.                                                            *)

Shows(w, v) == query[w].shown >= v

\* While fewer connections than BannerAfter have failed in a row there is no banner,
\* from then on there is one until a connection opens, and an open one has none.
BannerTellsTruth ==
    \A w \in Watcher : /\ banner[w] <=> failures[w] >= BannerAfter
                       /\ socket[w] = "open" => ~banner[w]

\* A handler between its commit and its broadcast finds every screen that is registered,
\* so when nothing fails any more such a screen gets to see what was committed.
CommittedReachesScreen ==
    \A w \in Watcher, v \in Version :
        (/\ faults = MaxFaults
         /\ channel[w] # None /\ query[w].shown # None /\ version = v
         /\ \E q \in Request : req[q] = "committed") ~> Shows(w, v)

\* What a screen misses while it is cut off it catches up with: the next connection
\* that opens fetches the standings again.
ReconnectCatchesUp ==
    \A w \in Watcher, v \in Version :
        (socket[w] = "waiting" /\ query[w].shown # None /\ version = v) ~> Shows(w, v)
=============================================================================
