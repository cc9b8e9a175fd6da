---------------------------- MODULE FlipFlopProofs ----------------------------
(***************************************************************************)
(* Proofs about FlipFlop: type correctness, reliable delivery and the      *)
(* absence of spurious recoveries, for every number of offsets, every      *)
(* history capacity and every bound.                                       *)
(***************************************************************************)
EXTENDS FlipFlop, EventServerProofs

------------------------------------------------------------------------------
(* Type correctness *)

LEMMA InitType == Init => TypeOK
<1> SUFFICES ASSUME Init PROVE TypeOK
  OBVIOUS
<1>1. ServerTypeOK
  BY StartOffsetType DEF Init, ServerInit, ServerTypeOK, OptOffset
<1>2. ClientTypeOK
  BY DEF Init, ClientInit, ClientTypeOK, OptOffset
<1> QED BY <1>1, <1>2 DEF Init, TypeOK

(* One step per action: each leaves every variable in its type. *)
LEMMA NextType == TypeOK /\ [Next]_vars => TypeOK'
<1> SUFFICES ASSUME TypeOK, [Next]_vars PROVE TypeOK'
  OBVIOUS
<1> USE DEF TypeOK
<1>1. CASE ClientSend
  BY <1>1 DEF ClientSend, Sent, Request, CommandRequest, Command, serverVars,
              ServerTypeOK, ClientTypeOK
<1>2. CASE ClientReceive
  <2>1. PICK reply \in replies : Process(reply)
    BY <1>2 DEF ClientReceive
  <2>2. UNCHANGED <<serverVars, netVars>>
    BY <1>2 DEF ClientReceive
  <2>3. ClientTypeOK'
    <3>1. CASE ProcessNone(reply)
      BY <2>1, <3>1 DEF Process, ProcessNone, ClientTypeOK
    <3>2. CASE ProcessRecovery(reply)
      BY <2>1, <3>2 DEF Process, ProcessRecovery, RecoveryEvent, ClientTypeOK, OptOffset
    <3>3. CASE ProcessLogged(reply)
      BY <2>1, <3>3 DEF Process, ProcessLogged, LoggedEvent, ClientTypeOK, OptOffset
    <3> QED BY <2>1, <3>1, <3>2, <3>3 DEF Process
  <2> QED BY <2>2, <2>3 DEF serverVars, netVars, ServerTypeOK
<1>3. CASE ClientTimeout
  BY <1>3 DEF ClientTimeout, Timeout, serverVars, netVars, ServerTypeOK, ClientTypeOK
<1>4. CASE ClientRestart
  BY <1>4 DEF ClientRestart, RestartClient, serverVars, ServerTypeOK, ClientTypeOK, OptOffset
<1>5. CASE ServerReceive
  <2>1. PICK request \in requests :
          replies' = replies \cup {Reply(request.last_event_offset)}
    BY <1>5 DEF ServerReceive
  <2>2. Reply(request.last_event_offset) \in EventReply
    BY <2>1, ReplyType DEF CommandRequest
  <2> QED BY <1>5, <2>1, <2>2
          DEF ServerReceive, serverVars, clientVars, ServerTypeOK, ClientTypeOK
<1>6. CASE ServerStore
  BY <1>6, ServerStepType DEF ServerStore, clientVars, netVars, ClientTypeOK
<1>7. CASE ServerReset
  BY <1>7, ServerStepType DEF ServerReset, clientVars, netVars, ClientTypeOK
<1>8. CASE ServerRestart
  BY <1>8, ServerStepType DEF ServerRestart, clientVars, netVars, ClientTypeOK
<1>9. CASE UNCHANGED vars
  BY <1>9 DEF vars, serverVars, clientVars, netVars, ServerTypeOK, ClientTypeOK
<1> QED BY <1>1, <1>2, <1>3, <1>4, <1>5, <1>6, <1>7, <1>8, <1>9 DEF Next

(* Whatever the network, the generator and the restarts do, offsets stay   *)
(* below N, start and end are set together, and only well formed requests  *)
(* and replies travel (app/src/lib.rs, server/main.rs, client/main.rs).    *)
THEOREM TypeCorrect == Spec => []TypeOK
BY InitType, NextType, PTL DEF Spec

------------------------------------------------------------------------------
(* Reliable delivery by a steady server *)

(* The oldest entry follows everything retained that the client lacks. *)
LEMMA OldestIsNext ==
  ASSUME ServerTypeOK, HistoryInOrder, start # None
  PROVE  /\ 1 \in DOMAIN events
         /\ events # <<>>
         /\ ReplyIsNext(Logged(events[1].event, events[1].offset))
<1>1. /\ Len(events) \in Nat /\ Len(events) > 0
      /\ DOMAIN events = 1 .. Len(events)
      /\ logged \in Nat /\ Len(events) <= logged
  BY DEF ServerTypeOK, HistoryInOrder
<1>2. events[1] \in Entry
  BY <1>1 DEF ServerTypeOK
<1>3. /\ events[1].event \in Nat
      /\ events[1].offset \in Offset
      /\ events[1].event = logged - Len(events) + 1
      /\ events[1].offset = start + events[1].event - 1
  BY <1>1, <1>2 DEF HistoryInOrder, Entry
<1>4. Logged(events[1].event, events[1].offset) \in LoggedEvent
  BY <1>3 DEF Logged, LoggedEvent
<1> QED BY <1>1, <1>3, <1>4 DEF ReplyIsNext, Retained, Logged

(* What the server answers to an offset the client learnt from it. *)
LEMMA SteadyReply ==
  ASSUME ServerTypeOK, SteadyServer, HistoryInOrder, SeenIsClosed,
         NEW last \in OptOffset, Known(last)
  PROVE  ReplyIsNext(Reply(last))
<1>1. CASE start = None
  BY <1>1 DEF Reply, ReplyIsNext
<1>2. CASE start # None
  <2>1. /\ start \in Nat /\ end \in Nat /\ logged \in Nat
        /\ start + logged <= N
        /\ logged > 0
        /\ end = start + logged - 1
    BY <1>2 DEF ServerTypeOK, OptOffset, Offset, SteadyServer, HistoryInOrder
  <2>2. last # None => /\ last \in Nat
                       /\ (last - start + 1) \in seen
                       /\ (last - start + 1) \in 1 .. logged
    <3> SUFFICES ASSUME last # None
                 PROVE  /\ last \in Nat
                        /\ (last - start + 1) \in seen
                        /\ (last - start + 1) \in 1 .. logged
      OBVIOUS
    <3>1. last \in Nat
      BY NAssumption DEF OptOffset, Offset
    <3>2. (last - start + 1) \in seen
      BY DEF Known
    <3>3. seen \subseteq 1 .. logged
      BY DEF SeenIsClosed
    <3> QED BY <3>1, <3>2, <3>3
  <2>3. Reply(last) = Lookup(last)
    BY <1>2, <2>1, <2>2 DEF Reply
  <2>4. CASE Adjacent(last) = {}
    BY <1>2, <2>3, <2>4, OldestIsNext DEF Lookup
  <2>5. CASE Adjacent(last) # {}
    <3> DEFINE m == Newest(Adjacent(last))
               e == events[m]
    <3>1. last # None
      BY <2>5 DEF Adjacent
    <3>2. m \in DOMAIN events /\ e.offset \in {last, Succ(last)}
      BY <2>5, SearchStops
    <3>3. Lookup(last) = IF e.offset = Succ(last) THEN Logged(e.event, e.offset) ELSE None
      BY <2>5 DEF Lookup
    <3>4. CASE e.offset # Succ(last)
      BY <2>3, <3>3, <3>4 DEF ReplyIsNext
    <3>5. CASE e.offset = Succ(last)
      <4>1. /\ Len(events) \in Nat
            /\ m \in 1 .. Len(events)
            /\ e \in Entry
        BY <3>2 DEF ServerTypeOK
      <4>2. /\ e.event \in Nat /\ e.offset \in Offset
            /\ e.event = logged - Len(events) + m
            /\ e.offset = start + e.event - 1
            /\ Len(events) <= logged
        BY <4>1 DEF HistoryInOrder, Entry
      <4>3. e.event \in 1 .. logged
        BY <4>1, <4>2, <2>1
      <4>4. Logged(e.event, e.offset) \in LoggedEvent
        BY <4>2 DEF Logged, LoggedEvent
      <4>5. e.event = last - start + 2 \/ e.event = 1
        <5>1. Succ(last) = last + 1 \/ Succ(last) = 0
          BY <3>1, NAssumption DEF OptOffset, Offset, Succ
        <5> HIDE DEF e
        <5> QED BY <2>1, <2>2, <3>1, <3>5, <4>2, <4>3, <5>1
      <4>6. \A k \in Retained : k < e.event => k \in seen
        <5> HIDE DEF e
        <5> SUFFICES ASSUME NEW k \in Retained, k < e.event PROVE k \in seen
          OBVIOUS
        <5>1. k \in Int /\ k >= 1
          BY <2>1, <4>1, <4>2 DEF Retained
        <5>2. k <= last - start + 1
          BY <2>1, <2>2, <3>1, <4>2, <4>5, <5>1
        <5> QED BY <2>2, <3>1, <5>2 DEF SeenIsClosed
      <4> HIDE DEF e
      <4> QED BY <1>2, <2>3, <3>3, <3>5, <4>2, <4>3, <4>4, <4>6 DEF ReplyIsNext, Logged
    <3> QED BY <3>4, <3>5
  <2> QED BY <2>4, <2>5
<1> QED BY <1>1, <1>2

(* One step per action, and under it one per conjunct it can disturb. *)
LEMMA NextSteady == IInv /\ [Next]_vars => SteadyInv'
<1> SUFFICES ASSUME IInv, [Next]_vars, SteadyServer'
             PROVE  (/\ HistoryInOrder
                     /\ SeenIsClosed
                     /\ Known(last_event_offset)
                     /\ \A request \in requests : Known(request.last_event_offset)
                     /\ \A reply \in replies : ReplyIsNext(reply))'
  BY DEF SteadyInv
<1>1. CASE UNCHANGED vars
  BY <1>1 DEF IInv, SteadyInv, vars, serverVars, clientVars, netVars, SteadyServer,
              HistoryInOrder, Retained, SeenIsClosed, Known, ReplyIsNext
<1>2. CASE Next
  <2>0. UNCHANGED serverVars \/ StoreEvent \/ ResetEvents \/ RestartServer
    BY <1>2
    DEF Next, ClientSend, ClientReceive, ClientTimeout, ClientRestart,
        ServerReceive, ServerStore, ServerReset, ServerRestart
  <2>1. /\ TypeOK /\ ServerTypeOK /\ ClientTypeOK
        /\ SteadyServer
    BY <2>0, SteadyBefore DEF IInv, TypeOK
  <2>2. /\ HistoryInOrder
        /\ SeenIsClosed
        /\ Known(last_event_offset)
        /\ \A request \in requests : Known(request.last_event_offset)
        /\ \A reply \in replies : ReplyIsNext(reply)
    BY <2>1 DEF IInv, SteadyInv
  <2>3. CASE ClientSend
    <3>1. UNCHANGED <<serverVars, last_event_offset, seen, replies>>
      BY <2>3 DEF ClientSend, Sent
    <3>2. requests' = requests \cup {Request}
      BY <2>3 DEF ClientSend
    <3>3. Request.last_event_offset = last_event_offset
      BY DEF Request
    <3> QED BY <2>2, <3>1, <3>2, <3>3
            DEF serverVars, HistoryInOrder, Retained, SeenIsClosed, Known, ReplyIsNext
  <2>4. CASE ClientReceive
    <3>1. PICK reply \in replies : Process(reply)
      BY <2>4 DEF ClientReceive
    <3>2. UNCHANGED <<serverVars, netVars>>
      BY <2>4 DEF ClientReceive
    <3>3. HistoryInOrder'
      BY <2>2, <3>2 DEF serverVars, HistoryInOrder
    <3>4. CASE UNCHANGED <<last_event_offset, seen>>
      BY <2>2, <3>2, <3>3, <3>4
      DEF serverVars, netVars, Retained, SeenIsClosed, Known, ReplyIsNext
    <3>5. CASE ProcessLogged(reply)
      <4>1. /\ last_event_offset' = reply.offset
            /\ seen' = seen \cup {reply.event}
            /\ reply # None
        BY <3>5, NoneIsNoEvent DEF ProcessLogged, EventOf
      <4>2. ReplyIsNext(reply)
        BY <2>2, <3>1
      <4>3. SeenIsClosed'
        <5>1. /\ Retained' = Retained /\ logged' = logged
              /\ logged \in Nat /\ Len(events) \in Nat
              /\ Retained \subseteq Int
          BY <2>1, <3>2 DEF serverVars, Retained, ServerTypeOK
        <5>2. /\ reply.event \in 1 .. logged
              /\ \A k \in Retained : k < reply.event => k \in seen
          BY <4>1, <4>2 DEF ReplyIsNext
        <5>3. seen' \subseteq 1 .. logged'
          BY <2>2, <4>1, <5>1, <5>2 DEF SeenIsClosed
        <5>4. ASSUME NEW k \in Retained, NEW later \in seen', k <= later
              PROVE  k \in seen'
          <6>1. CASE later \in seen
            BY <2>2, <4>1, <5>4, <6>1 DEF SeenIsClosed
          <6>2. CASE later = reply.event
            BY <4>1, <5>1, <5>2, <5>4, <6>2
          <6> QED BY <4>1, <6>1, <6>2
        <5> QED BY <5>1, <5>3, <5>4 DEF SeenIsClosed
      <4>4. Known(last_event_offset)'
        <5>1. start \in Nat /\ reply.event \in Nat
          BY <2>1, <4>1, <4>2 DEF ReplyIsNext, ServerTypeOK, OptOffset, Offset
        <5>2. reply.offset - start + 1 = reply.event
          BY <4>1, <4>2, <5>1 DEF ReplyIsNext
        <5> QED BY <3>2, <4>1, <4>2, <5>2 DEF serverVars, Known, ReplyIsNext
      <4>5. (\A r \in requests : Known(r.last_event_offset))'
        BY <2>2, <3>2, <4>1 DEF serverVars, netVars, Known
      <4>6. (\A r \in replies : ReplyIsNext(r))'
        BY <2>2, <3>2, <4>1 DEF serverVars, netVars, ReplyIsNext, Retained
      <4> QED BY <3>3, <4>3, <4>4, <4>5, <4>6
    <3>6. CASE ProcessRecovery(reply)
      <4>1. reply \in RecoveryEvent /\ reply # None
        BY <3>6, NoneIsNoEvent DEF ProcessRecovery, EventOf
      <4>2. reply \in LoggedEvent
        BY <2>2, <3>1, <4>1 DEF ReplyIsNext
      <4> QED BY <4>1, <4>2 DEF RecoveryEvent, LoggedEvent
    <3> QED BY <3>1, <3>4, <3>5, <3>6 DEF Process, ProcessNone
  <2>5. CASE ClientTimeout
    BY <2>2, <2>5
    DEF ClientTimeout, Timeout, serverVars, netVars,
        HistoryInOrder, Retained, SeenIsClosed, Known, ReplyIsNext
  <2>6. CASE ClientRestart
    BY <2>2, <2>6
    DEF ClientRestart, RestartClient, serverVars,
        HistoryInOrder, Retained, SeenIsClosed, Known
  <2>7. CASE ServerReceive
    <3>1. PICK request \in requests :
            replies' = replies \cup {Reply(request.last_event_offset)}
      BY <2>7 DEF ServerReceive
    <3>2. UNCHANGED <<serverVars, clientVars, requests>>
      BY <2>7 DEF ServerReceive
    <3>3. request.last_event_offset \in OptOffset
      BY <2>1, <3>1 DEF TypeOK, CommandRequest
    <3>4. ReplyIsNext(Reply(request.last_event_offset))
      BY <2>1, <2>2, <3>1, <3>3, SteadyReply
    <3>5. \A reply \in replies' : ReplyIsNext(reply)
      BY <2>2, <3>1, <3>4
    <3> QED BY <2>2, <3>2, <3>5
            DEF serverVars, clientVars, HistoryInOrder, Retained, SeenIsClosed, Known, ReplyIsNext
  <2>8. CASE ServerStore
    <3>1. StoreEvent /\ UNCHANGED <<clientVars, netVars>>
      BY <2>8 DEF ServerStore
    <3>2. HistoryInOrder'
      BY <2>1, <2>2, <3>1, StoreKeepsOrder
    <3>3. /\ logged \in Nat /\ Len(events) \in Nat
          /\ logged' = logged + 1
          /\ start # None => start' = start
          /\ Len(events') <= Len(events) + 1
      BY <2>1, <3>1, CapacityAssumption DEF ServerTypeOK, StoreEvent, Push
    <3>4. \A k \in Retained' : k \in Retained \/ k = logged + 1
      <4>1. Len(events') \in Nat
        BY <2>1, <3>1, PushType DEF ServerTypeOK, StoreEvent, Entry
      <4> QED BY <3>3, <4>1 DEF Retained
    <3>5. SeenIsClosed'
      BY <2>2, <3>1, <3>3, <3>4 DEF clientVars, SeenIsClosed
    <3>6. ASSUME NEW last, Known(last)
          PROVE  Known(last)'
      BY <3>1, <3>3, <3>6 DEF clientVars, Known, StoreEvent
    <3>7. ASSUME NEW reply, ReplyIsNext(reply)
          PROVE  ReplyIsNext(reply)'
      BY <3>1, <3>3, <3>4, <3>7 DEF clientVars, ReplyIsNext
    <3> QED BY <2>2, <3>1, <3>2, <3>5, <3>6, <3>7 DEF clientVars, netVars
  <2>9. CASE ServerReset \/ ServerRestart
    BY <2>1, <2>9
    DEF ServerReset, ServerRestart, ResetEvents, RestartServer, SteadyServer, ServerTypeOK
  <2> QED BY <1>2, <2>3, <2>4, <2>5, <2>6, <2>7, <2>8, <2>9 DEF Next
<1> QED BY <1>1, <1>2

LEMMA InitSteady == Init => SteadyInv
BY DEF Init, ServerInit, ClientInit, SteadyInv, HistoryInOrder, Retained, SeenIsClosed,
       Known, ReplyIsNext

(* The inductive invariant. *)
THEOREM SteadyInvariance == Spec => []IInv
<1>1. Init => IInv
  BY InitType, InitSteady DEF IInv
<1>2. IInv /\ [Next]_vars => IInv'
  BY NextType, NextSteady DEF IInv
<1> QED BY <1>1, <1>2, PTL DEF Spec

(* Reliable delivery for every history size, number of events and network  *)
(* behaviour: server/main.rs finds the event after the client's offset or  *)
(* the oldest one, and client/main.rs only advances to what it was sent.   *)
THEOREM ReliableDelivery == Spec => []NoEventSkipped
<1>1. IInv => NoEventSkipped
  <2> SUFFICES ASSUME IInv, SteadyServer,
                      NEW i \in DOMAIN events, NEW later \in seen,
                      events[i].event <= later
               PROVE  events[i].event \in seen
    BY DEF NoEventSkipped
  <2>1. /\ HistoryInOrder /\ SeenIsClosed
        /\ logged \in Nat /\ Len(events) \in Nat
        /\ i \in 1 .. Len(events)
    BY DEF IInv, SteadyInv, TypeOK, ServerTypeOK
  <2>2. events[i].event = logged - Len(events) + i
    BY <2>1 DEF HistoryInOrder
  <2>3. events[i].event \in Retained
    BY <2>1, <2>2 DEF Retained
  <2> QED BY <2>1, <2>3 DEF SeenIsClosed
<1> QED BY <1>1, SteadyInvariance, PTL

(* The range check of server/main.rs lets every request pass whose offset  *)
(* the history of a steady server reaches, whenever it is read.            *)
THEOREM RecoveryNeedsLoss == Spec => []NoSpuriousRecovery
<1>1. IInv => NoSpuriousRecovery
  <2> SUFFICES ASSUME IInv, SteadyServer, NEW request \in requests
               PROVE  Reply(request.last_event_offset) \notin RecoveryEvent
    BY DEF NoSpuriousRecovery
  <2> DEFINE n == request.last_event_offset
  <2>1. n \in OptOffset
    BY DEF IInv, TypeOK, CommandRequest
  <2>2. /\ ServerTypeOK /\ HistoryInOrder /\ SeenIsClosed
        /\ Known(n)
    BY DEF IInv, TypeOK, SteadyInv
  <2>3. ReplyIsNext(Reply(n))
    BY <2>1, <2>2, SteadyReply
  <2>4. Reply(n) = None \/ Reply(n) \in LoggedEvent
    BY <2>3 DEF ReplyIsNext
  <2>5. None \notin RecoveryEvent
    BY NoneIsNoEvent DEF EventOf
  <2>6. LoggedEvent \cap RecoveryEvent = {}
    BY DEF LoggedEvent, RecoveryEvent
  <2> QED BY <2>4, <2>5, <2>6
<1> QED BY <1>1, SteadyInvariance, PTL

==============================================================================
