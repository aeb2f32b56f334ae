-------------------------- MODULE LiveWatch_proofs --------------------------
(***************************************************************************)
(* Proofs about LiveWatch for any number of screens and of requests, any   *)
(* capacity of the channels and any number of failures.                    *)
(***************************************************************************)
EXTENDS LiveWatch, TLAPS

Queries == [shown : Version \cup {None}, fetch : {"idle", "sent", "read"},
            read : Version \cup {None}]

WatchInv == TypeOK /\ BannerTellsTruth

LEMMA InitWatch == Init => WatchInv
  <1> SUFFICES ASSUME Init PROVE WatchInv
    OBVIOUS
  <1>1. TypeOK
    BY WatchAssumption DEF Init, TypeOK, Version, None
  <1>2. BannerTellsTruth
    BY WatchAssumption DEF Init, BannerTellsTruth
  <1> QED
    BY <1>1, <1>2 DEF WatchInv

\* The handler that records results.
LEMMA HandlerKeeps ==
    ASSUME TypeOK, NEW q \in Request, Commit(q) \/ Broadcast(q) \/ HandlerFails(q)
    PROVE  TypeOK' /\ UNCHANGED <<socket, failures, banner>>
  <1>1. CASE Commit(q)
    BY <1>1, WatchAssumption DEF Commit, TypeOK, Version, connection
  <1>2. CASE Broadcast(q)
    <2>1. channel' \in [Watcher -> 0..Capacity \cup {None}]
      <3>1. \A w \in Watcher : channel[w] \in 0..Capacity \cup {None}
        BY DEF TypeOK
      <3>2. \A n \in 0..Capacity : Put(n) \in 0..Capacity
        BY WatchAssumption DEF Put
      <3> QED
        BY <1>2, <3>1, <3>2 DEF Broadcast
    <2> QED
      BY <1>2, <2>1 DEF Broadcast, TypeOK
  <1>3. CASE HandlerFails(q)
    BY <1>3, WatchAssumption DEF HandlerFails, TypeOK, connection
  <1> QED
    BY <1>1, <1>2, <1>3

\* The handler of a connection, and the message on its way.
LEMMA ServingKeeps ==
    ASSUME TypeOK, NEW w \in Watcher, Accept(w) \/ Register(w) \/ Write(w)
    PROVE  TypeOK' /\ UNCHANGED <<socket, failures, banner>>
  <1>1. CASE Accept(w)
    BY <1>1 DEF Accept, TypeOK
  <1>2. CASE Register(w)
    BY <1>2, WatchAssumption DEF Register, TypeOK
  <1>3. CASE Write(w)
    <2>1. channel[w] \in 1..Capacity
      BY <1>3, WatchAssumption DEF Write, TypeOK, None
    <2>2. channel' \in [Watcher -> 0..Capacity \cup {None}]
      BY <1>3, <2>1, WatchAssumption DEF Write, TypeOK
    <2> QED
      BY <1>3, <2>2 DEF Write, TypeOK
  <1> QED
    BY <1>1, <1>2, <1>3

\* The query cache.
LEMMA QueryKeeps ==
    ASSUME TypeOK, NEW w \in Watcher, NEW qy \in Queries,
           query' = [query EXCEPT ![w] = qy],
           UNCHANGED <<version, req, serving, channel, failures, banner, socket, faults>>,
           wire' = wire \/ wire' = [wire EXCEPT ![w] = 0]
    PROVE  TypeOK'
  BY DEF TypeOK, Queries

LEMMA InvalidatedIs == ASSUME NEW qy \in Queries PROVE Invalidated(qy) \in Queries
  BY DEF Invalidated, Queries

LEMMA FetchKeeps ==
    ASSUME TypeOK, NEW w \in Watcher, OnMessage(w) \/ Read(w) \/ Show(w)
    PROVE  TypeOK' /\ UNCHANGED <<socket, failures, banner>>
  <1>1. query[w] \in Queries /\ version \in Version
    BY DEF TypeOK, Queries
  <1>2. CASE OnMessage(w)
    BY <1>1, <1>2, InvalidatedIs, QueryKeeps DEF OnMessage
  <1>3. CASE Read(w)
    <2> DEFINE qy == [query[w] EXCEPT !.fetch = "read", !.read = version]
    <2>1. qy \in Queries
      BY <1>1 DEF Queries
    <2>2. query' = [query EXCEPT ![w] = qy]
      BY <1>3 DEF Read
    <2> HIDE DEF qy
    <2> QED
      BY <1>3, <2>1, <2>2, QueryKeeps DEF Read, connection
  <1>4. CASE Show(w)
    <2> DEFINE qy == [shown |-> query[w].read, fetch |-> "idle", read |-> None]
    <2>1. qy \in Queries
      BY <1>1 DEF Queries
    <2>2. query' = [query EXCEPT ![w] = qy]
      BY <1>4 DEF Show
    <2> HIDE DEF qy
    <2> QED
      BY <1>4, <2>1, <2>2, QueryKeeps DEF Show, connection
  <1> QED
    BY <1>2, <1>3, <1>4

\* The connection as the hook sees it: open, lost, tried again.
LEMMA ConnectionKeeps ==
    ASSUME WatchInv, NEW w \in Watcher, OnOpen(w) \/ Lose(w) \/ Connect(w)
    PROVE  WatchInv'
  <1> USE DEF WatchInv
  <1>1. CASE OnOpen(w)
    <2>1. query[w] \in Queries
      BY DEF TypeOK, Queries
    <2>2. query' \in [Watcher -> Queries]
      BY <1>1, <2>1, InvalidatedIs DEF OnOpen, TypeOK, Queries
    <2>3. TypeOK'
      BY <1>1, <2>2 DEF OnOpen, TypeOK, Queries
    <2>4. BannerTellsTruth'
      BY <1>1, WatchAssumption DEF OnOpen, BannerTellsTruth, TypeOK
    <2> QED
      BY <2>3, <2>4
  <1>2. CASE Lose(w)
    <2>1. failures'[w] = failures[w] + 1 /\ failures[w] \in Nat
      BY <1>2 DEF Lose, OnClose, TypeOK
    <2>2. faults' \in 0..MaxFaults
      BY <1>2, WatchAssumption DEF Lose, TypeOK
    <2>3. banner' \in [Watcher -> BOOLEAN]
      BY <1>2 DEF Lose, OnClose, TypeOK
    <2>4. TypeOK'
      BY <1>2, <2>2, <2>3 DEF Lose, OnClose, TypeOK
    <2>5. BannerTellsTruth'
      <3> SUFFICES ASSUME NEW v \in Watcher
                   PROVE  /\ banner'[v] <=> failures'[v] >= BannerAfter
                          /\ socket'[v] = "open" => ~banner'[v]
        BY DEF BannerTellsTruth
      <3>1. CASE v # w
        BY <1>2, <3>1 DEF Lose, OnClose, TypeOK, BannerTellsTruth
      <3>2. CASE v = w
        <4>1. banner'[w] <=> banner[w] \/ failures'[w] >= BannerAfter
          BY <1>2 DEF Lose, OnClose, TypeOK
        <4>2. banner[w] => failures'[w] >= BannerAfter
          BY <2>1, WatchAssumption DEF BannerTellsTruth
        <4>3. socket'[w] = "waiting"
          BY <1>2 DEF Lose, OnClose, TypeOK
        <4> QED
          BY <3>2, <4>1, <4>2, <4>3
      <3> QED
        BY <3>1, <3>2
    <2> QED
      BY <2>4, <2>5
  <1>3. CASE Connect(w)
    BY <1>3 DEF Connect, TypeOK, BannerTellsTruth
  <1> QED
    BY <1>1, <1>2, <1>3

LEMMA WatchStep == WatchInv /\ [Next]_vars => WatchInv'
  <1> SUFFICES ASSUME WatchInv, [Next]_vars PROVE WatchInv'
    OBVIOUS
  <1>1. CASE \E q \in Request : Commit(q) \/ Broadcast(q) \/ HandlerFails(q)
    BY <1>1, HandlerKeeps DEF WatchInv, BannerTellsTruth
  <1>2. CASE \E w \in Watcher : Accept(w) \/ Register(w) \/ Write(w)
    BY <1>2, ServingKeeps DEF WatchInv, BannerTellsTruth
  <1>3. CASE \E w \in Watcher : OnMessage(w) \/ Read(w) \/ Show(w)
    BY <1>3, FetchKeeps DEF WatchInv, BannerTellsTruth
  <1>4. CASE \E w \in Watcher : OnOpen(w) \/ Lose(w) \/ Connect(w)
    BY <1>4, ConnectionKeeps
  <1>5. CASE UNCHANGED vars
    BY <1>5 DEF vars, WatchInv, TypeOK, BannerTellsTruth
  <1> QED
    BY <1>1, <1>2, <1>3, <1>4, <1>5 DEF Next, Screen

\* Channels stay within their capacity, and screens in the states of the hook.
THEOREM WatchTypeOKCorrect == Spec => []TypeOK
  <1>1. WatchInv => TypeOK
    BY DEF WatchInv
  <1> QED
    BY <1>1, InitWatch, WatchStep, PTL DEF Spec

\* The banner is shown from the BannerAfter-th failed connection in a row until one opens.
THEOREM BannerTellsTruthCorrect == Spec => []BannerTellsTruth
  <1>1. WatchInv => BannerTellsTruth
    BY DEF WatchInv
  <1> QED
    BY <1>1, InitWatch, WatchStep, PTL DEF Spec
=============================================================================
