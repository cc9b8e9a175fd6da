-------------------------- MODULE FlipFlopLinkProofs --------------------------
(***************************************************************************)
(* Proofs about FlipFlopLink: type correctness for all constants, and that *)
(* the exchange over a link that keeps the order implements the safety     *)
(* part of OrderedDelivery, for all constants.                             *)
(***************************************************************************)
EXTENDS FlipFlopLink, EventServerProofs

(* Taking the first datagram of a queue. *)
LEMMA TailFacts ==
  ASSUME NEW S, NEW queue \in Seq(S), queue # <<>>
  PROVE  /\ Tail(queue) \in Seq(S)
         /\ 1 \in DOMAIN queue /\ Head(queue) = queue[1]
         /\ \A i \in DOMAIN Tail(queue) :
              i \in Nat /\ i + 1 \in DOMAIN queue /\ Tail(queue)[i] = queue[i + 1]
OBVIOUS

(* Adding one, unless the socket is full. *)
LEMMA DeliveredFacts ==
  ASSUME NEW S, NEW queue \in Seq(S), NEW datagram \in S
  PROVE  /\ Delivered(queue, datagram) \in Seq(S)
         /\ \A i \in DOMAIN Delivered(queue, datagram) :
              \/ i \in DOMAIN queue /\ Delivered(queue, datagram)[i] = queue[i]
              \/ /\ i = Len(queue) + 1
                 /\ Delivered(queue, datagram)[i] = datagram
<1>1. CASE Len(queue) < MaxInFlight
  BY <1>1 DEF Delivered
<1>2. CASE ~(Len(queue) < MaxInFlight)
  BY <1>2 DEF Delivered
<1> QED BY <1>1, <1>2

------------------------------------------------------------------------------
(* Type correctness *)

LEMMA InitType == Init => TypeOK
<1> SUFFICES ASSUME Init PROVE TypeOK
  OBVIOUS
<1>1. ServerTypeOK
  BY StartOffsetType DEF Init, ServerInit, ServerTypeOK, OptOffset
<1>2. ClientTypeOK
  BY DEF Init, ClientInit, ClientTypeOK, OptOffset
<1> QED BY <1>1, <1>2 DEF Init, TypeOK

(* One step per action: each leaves every variable in its type. *)
LEMMA NextType == TypeOK /\ [Next]_vars => TypeOK'
<1> SUFFICES ASSUME TypeOK, [Next]_vars PROVE TypeOK'
  OBVIOUS
<1> USE DEF TypeOK
<1>1. ASSUME NEW lost \in BOOLEAN, ClientSend(lost) PROVE TypeOK'
  <2>1. Request \in CommandRequest
    BY DEF Request, CommandRequest, Command, ClientTypeOK
  <2>2. requests' \in Seq(CommandRequest)
    BY <1>1, <2>1, DeliveredFacts DEF ClientSend
  <2> QED BY <1>1, <2>2 DEF ClientSend, Sent, serverVars, ServerTypeOK, ClientTypeOK
<1>2. CASE ClientReceive
  <2>1. /\ UNCHANGED <<serverVars, requests>>
        /\ Process(Head(replies))
        /\ replies' \in Seq(EventReply)
    BY <1>2, TailFacts DEF ClientReceive
  <2>2. ClientTypeOK'
    <3>1. CASE ProcessNone(Head(replies))
      BY <2>1, <3>1 DEF Process, ProcessNone, ClientTypeOK
    <3>2. CASE ProcessRecovery(Head(replies))
      BY <2>1, <3>2 DEF Process, ProcessRecovery, RecoveryEvent, ClientTypeOK, OptOffset
    <3>3. CASE ProcessLogged(Head(replies))
      BY <2>1, <3>3 DEF Process, ProcessLogged, LoggedEvent, ClientTypeOK, OptOffset
    <3> QED BY <2>1, <3>1, <3>2, <3>3 DEF Process
  <2> QED BY <2>1, <2>2 DEF serverVars, ServerTypeOK
<1>3. CASE ClientTimeout
  BY <1>3 DEF ClientTimeout, Timeout, serverVars, linkVars, ServerTypeOK, ClientTypeOK
<1>4. ASSUME NEW lost \in BOOLEAN, ServerReceive(lost) PROVE TypeOK'
  <2>1. Head(requests) \in CommandRequest
    BY <1>4, TailFacts DEF ServerReceive
  <2>2. Reply(Head(requests).last_event_offset) \in EventReply
    BY <2>1, ReplyType DEF CommandRequest
  <2>3. replies' \in Seq(EventReply) /\ requests' \in Seq(CommandRequest)
    BY <1>4, <2>2, DeliveredFacts, TailFacts DEF ServerReceive
  <2> QED BY <1>4, <2>3 DEF ServerReceive, serverVars, clientVars, ServerTypeOK, ClientTypeOK
<1>5. CASE ServerStore
  BY <1>5, ServerStepType DEF ServerStore, clientVars, linkVars, ClientTypeOK
<1>6. CASE ServerReset
  BY <1>6, ServerStepType DEF ServerReset, clientVars, linkVars, ClientTypeOK
<1>7. CASE ServerRestart
  BY <1>7, ServerStepType DEF ServerRestart, clientVars, ClientTypeOK
<1>8. CASE UNCHANGED vars
  BY <1>8 DEF vars, serverVars, clientVars, linkVars, ServerTypeOK, ClientTypeOK
<1> QED BY <1>1, <1>2, <1>3, <1>4, <1>5, <1>6, <1>7, <1>8 DEF Next

(* Whatever is lost, reset or restarted, only well formed requests and     *)
(* replies are queued, and offsets stay below N (app/src/lib.rs,           *)
(* server/main.rs, client/main.rs).                                        *)
THEOREM LinkTypeCorrect == Spec => []TypeOK
BY InitType, NextType, PTL DEF Spec

------------------------------------------------------------------------------
(* A steady server: neither restarted nor wrapped round *)

(* The offsets in use run from start to end, without wrapping. *)
LEMMA HistoryFacts ==
  ASSUME SteadyServer, ServerTypeOK, HistoryInv
  PROVE  /\ logged \in Nat /\ Len(events) \in Nat
         /\ Evicted \in Nat
         /\ start # None =>
              /\ start \in Nat /\ end \in Nat
              /\ logged > 0 /\ Len(events) > 0
              /\ end = start + logged - 1
              /\ end + 1 <= N
<1>1. logged \in Nat /\ Len(events) \in Nat /\ Len(events) <= logged
  BY DEF ServerTypeOK, HistoryInv, HistoryInOrder
<1>2. Evicted \in Nat
  BY <1>1 DEF Evicted
<1>3. ASSUME start # None
      PROVE  /\ start \in Nat /\ end \in Nat
             /\ logged > 0 /\ Len(events) > 0
             /\ end = start + logged - 1
             /\ end + 1 <= N
  <2>1. start \in Nat /\ end \in Nat /\ start + logged <= N
    BY <1>3 DEF ServerTypeOK, OptOffset, Offset, SteadyServer
  <2>2. logged > 0 /\ Len(events) > 0 /\ end = start + logged - 1
    BY <1>1, <1>3 DEF HistoryInv, HistoryInOrder
  <2> QED BY <1>1, <2>1, <2>2, NAssumption
<1> QED BY <1>1, <1>2, <1>3

LEMMA PositionType ==
  ASSUME SteadyServer, ServerTypeOK, HistoryInv, NEW last \in OptOffset, Reached(last)
  PROVE  /\ Position(last) \in 0 .. logged
         /\ last # None => Position(last) = last - start + 1 /\ Position(last) > 0
<1>1. last # None => last \in Nat
  BY NAssumption DEF OptOffset, Offset
<1> QED BY <1>1, HistoryFacts DEF Position, Reached

(* The client is sent the event after the one it asks about, or the oldest *)
(* one if that has left the history.                                       *)
LEMMA ReplyIsNextAfter ==
  ASSUME SteadyServer, ServerTypeOK, HistoryInv, NEW last \in OptOffset, Reached(last),
         Reply(last) # None
  PROVE  /\ start # None
         /\ Reply(last) \in LoggedEvent
         /\ Reply(last).event = NextAfter(Position(last))
         /\ Reply(last).event \in 1 .. logged
         /\ Reply(last).offset = start + Reply(last).event - 1
<1>1. start # None
  BY DEF Reply
<1>2. /\ logged \in Nat /\ Len(events) \in Nat /\ Evicted \in Nat
      /\ start \in Nat /\ end \in Nat
      /\ logged > 0 /\ Len(events) > 0
      /\ end = start + logged - 1
      /\ end + 1 <= N
      /\ Evicted = logged - Len(events)
      /\ DOMAIN events = 1 .. Len(events)
  BY <1>1, HistoryFacts DEF Evicted, ServerTypeOK
<1>3. /\ Position(last) \in 0 .. logged
      /\ last = None => Position(last) = 0
      /\ last # None => /\ last \in Nat /\ last \in start .. end
                        /\ Position(last) = last - start + 1
                        /\ Succ(last) = last + 1 \/ (Succ(last) = 0 /\ last + 1 = N)
  <2>1. /\ Position(last) \in 0 .. logged
        /\ last = None => Position(last) = 0
        /\ last # None => Position(last) = last - start + 1
    BY PositionType DEF Position
  <2>2. last # None => last \in Nat /\ last \in start .. end
    BY <1>2 DEF Reached
  <2>3. last # None => Succ(last) = last + 1 \/ (Succ(last) = 0 /\ last + 1 = N)
    BY <1>2, <2>2, NAssumption DEF Succ
  <2> QED BY <2>1, <2>2, <2>3
<1>4. Reply(last) = Lookup(last)
  BY <1>1, <1>2, <1>3 DEF Reply
<1>5. \A i \in 1 .. Len(events) :
        /\ events[i].event \in Nat /\ events[i].offset \in Offset
        /\ events[i].event = Evicted + i
        /\ events[i].offset = start + events[i].event - 1
  <2> TAKE i \in 1 .. Len(events)
  <2>1. events[i] \in Entry
    BY <1>2 DEF ServerTypeOK
  <2>2. /\ events[i].event = logged - Len(events) + i
        /\ events[i].offset = start + events[i].event - 1
    BY DEF HistoryInv, HistoryInOrder
  <2> QED BY <1>2, <2>1, <2>2 DEF Entry
<1>6. ASSUME NEW i \in 1 .. Len(events),
             Reply(last) = Logged(events[i].event, events[i].offset),
             events[i].event = NextAfter(Position(last))
      PROVE  /\ Reply(last) \in LoggedEvent
             /\ Reply(last).event = NextAfter(Position(last))
             /\ Reply(last).event \in 1 .. logged
             /\ Reply(last).offset = start + Reply(last).event - 1
  <2>1. Reply(last).event = events[i].event /\ Reply(last).offset = events[i].offset
    BY <1>6 DEF Logged
  <2>2. Reply(last) \in LoggedEvent
    BY <1>5, <1>6 DEF Logged, LoggedEvent
  <2>3. events[i].event \in 1 .. logged
    <3>1. events[i].event = Evicted + i /\ i \in 1 .. Len(events)
      BY <1>5
    <3> QED BY <1>2, <3>1
  <2> QED BY <1>5, <1>6, <2>1, <2>2, <2>3
<1>7. CASE Adjacent(last) = {}
  <2>1. Position(last) <= Evicted
    <3> SUFFICES ASSUME Position(last) > Evicted PROVE FALSE
      BY <1>2, <1>3
    <3> DEFINE i == Position(last) - Evicted
    <3>1. last # None /\ i \in 1 .. Len(events)
      BY <1>2, <1>3
    <3>2. events[i].event = Evicted + i /\ events[i].offset = start + events[i].event - 1
      BY <1>5, <3>1
    <3>3. i \in Int /\ Evicted + i = Position(last)
      BY <1>2, <1>3
    <3> HIDE DEF i
    <3>4. events[i].offset = last
      BY <1>2, <1>3, <3>1, <3>2, <3>3
    <3> QED BY <1>2, <1>7, <3>1, <3>4 DEF Adjacent
  <2>2. events # <<>> /\ 1 \in 1 .. Len(events)
    BY <1>2
  <2>3. Reply(last) = Logged(events[1].event, events[1].offset)
    BY <1>4, <1>7, <2>2 DEF Lookup
  <2>4. events[1].event = NextAfter(Position(last))
    BY <1>2, <1>5, <2>1, <2>2 DEF NextAfter
  <2> QED BY <1>1, <1>6, <2>2, <2>3, <2>4
<1>8. CASE Adjacent(last) # {}
  <2> DEFINE m == Newest(Adjacent(last))
  <2>1. last # None
    BY <1>8 DEF Adjacent
  <2>2. m \in 1 .. Len(events)
    BY <1>2, <1>8, SearchStops
  <2>3. /\ events[m].offset = Succ(last)
        /\ Reply(last) = Logged(events[m].event, events[m].offset)
    BY <1>4, <1>8 DEF Lookup
  <2> HIDE DEF m
  <2>4. events[m].event = Position(last) + 1 /\ events[m].event >= Evicted + 1
    <3>1. /\ events[m].event = Evicted + m
          /\ events[m].offset = start + events[m].event - 1
      BY <1>5, <2>2
    <3>2. Succ(last) = last + 1
      <4> SUFFICES ASSUME Succ(last) = 0, last + 1 = N PROVE FALSE
        BY <1>3, <2>1
      <4>1. start = 0 /\ Evicted = 0
        <5>1. 0 = start + (Evicted + m) - 1
          BY <2>3, <3>1
        <5>2. m \in Nat \ {0} /\ start \in Nat /\ Evicted \in Nat
          BY <1>2, <2>2
        <5>3. \A a, b, c \in Nat : 0 = a + (b + c) - 1 /\ c # 0 => a = 0 /\ b = 0
          OBVIOUS
        <5> QED BY <5>1, <5>2, <5>3
      <4>2. logged = N
        BY <1>2, <1>3, <2>1, <4>1, NAssumption
      <4>3. logged <= MAX_EVENTS
        BY <1>2, <4>1 DEF HistoryInv
      <4> QED BY <4>2, <4>3, CapacityAssumption, NAssumption
    <3>3. last + 1 = start + (Evicted + m) - 1 /\ Position(last) = last - start + 1
      BY <1>3, <2>1, <2>3, <3>1, <3>2
    <3>4. m \in Nat \ {0} /\ start \in Nat /\ Evicted \in Nat /\ last \in Nat
      BY <1>2, <1>3, <2>1, <2>2
    <3>5. \A a, b, c, l \in Nat :
            l + 1 = a + (b + c) - 1 /\ c # 0 => b + c = l - a + 2 /\ b + c >= b + 1
      OBVIOUS
    <3>6. Evicted + m = Position(last) + 1 /\ Evicted + m >= Evicted + 1
      BY <3>3, <3>4, <3>5
    <3> QED BY <3>1, <3>6
  <2>5. events[m].event = NextAfter(Position(last))
    BY <1>2, <1>3, <2>4 DEF NextAfter
  <2> QED BY <1>1, <1>6, <2>2, <2>3, <2>5
<1> QED BY <1>7, <1>8

(* Storing an event keeps the history in order, makes room for it if need  *)
(* be, and leaves the positions in the log alone.                          *)
LEMMA StoreFacts ==
  ASSUME SteadyServer, SteadyServer', ServerTypeOK, HistoryInv, StoreEvent
  PROVE  /\ HistoryInv'
         /\ Evicted' \in {Evicted, Evicted + 1}
         /\ logged' = logged + 1 /\ restarts' = restarts
         /\ start' # None /\ end' \in Nat
         /\ start # None => start' = start /\ end <= end'
<1>1. /\ logged' = logged + 1 /\ restarts' = restarts
      /\ start' = IF start = None THEN event_offset ELSE start
      /\ end' = event_offset
      /\ logged < MaxLogged
  BY DEF StoreEvent
<1>2. /\ event_offset \in Nat /\ event_offset # None
      /\ logged \in Nat /\ Len(events) \in Nat
  BY NoneAssumption DEF ServerTypeOK, Offset
<1>3. start' # None
  BY <1>1, <1>2
<1>4. HistoryInOrder'
  BY StoreKeepsOrder DEF HistoryInv
<1>5. Len(events') <= MAX_EVENTS
  <2>1. Len(events) <= MAX_EVENTS /\ MAX_EVENTS \in Nat \ {0}
    BY CapacityAssumption DEF HistoryInv
  <2>2. CASE Len(events) < MAX_EVENTS
    <3>1. events' = Append(events, [event |-> logged + 1, offset |-> event_offset])
      BY <2>2 DEF StoreEvent, Push
    <3>2. Len(events') = Len(events) + 1
      BY <3>1 DEF ServerTypeOK
    <3> QED BY <1>2, <2>1, <2>2, <3>2
  <2>3. CASE ~(Len(events) < MAX_EVENTS)
    <3>1. /\ events' = Append(Tail(events), [event |-> logged + 1, offset |-> event_offset])
          /\ events # <<>>
      BY <2>1, <2>3 DEF StoreEvent, Push
    <3>2. Len(events') = Len(events)
      BY <3>1 DEF ServerTypeOK
    <3> QED BY <2>1, <3>2
  <2> QED BY <2>2, <2>3
<1>6. HistoryInv'
  BY <1>4, <1>5 DEF HistoryInv
<1>7. Evicted' \in {Evicted, Evicted + 1}
  <2>1. CASE Len(events) < MAX_EVENTS
    <3>1. events' = Append(events, [event |-> logged + 1, offset |-> event_offset])
      BY <2>1 DEF StoreEvent, Push
    <3>2. Len(events') = Len(events) + 1
      BY <3>1 DEF ServerTypeOK
    <3> QED BY <1>1, <1>2, <3>2 DEF Evicted
  <2>2. CASE ~(Len(events) < MAX_EVENTS)
    <3>1. /\ events' = Append(Tail(events), [event |-> logged + 1, offset |-> event_offset])
          /\ events # <<>>
      BY <2>2, CapacityAssumption DEF StoreEvent, Push
    <3>2. Len(events') = Len(events)
      BY <3>1 DEF ServerTypeOK
    <3> QED BY <1>1, <1>2, <3>2 DEF Evicted
  <2> QED BY <2>1, <2>2
<1>8. start # None => end <= end'
  <2> SUFFICES ASSUME start # None PROVE end <= end'
    OBVIOUS
  <2>1. /\ end \in Nat /\ start \in Nat /\ event_offset = Succ(end)
        /\ end = start + logged - 1
    BY HistoryFacts DEF HistoryInv, HistoryInOrder
  <2>2. start + (logged + 1) <= N
    BY <1>1 DEF SteadyServer
  <2> QED BY <1>1, <1>2, <2>1, <2>2, NAssumption DEF Succ
<1> QED BY <1>1, <1>2, <1>3, <1>6, <1>7, <1>8

(* The positions that occur in the queues and at the client. *)
LEMMA QueueFacts ==
  ASSUME SteadyServer, IInv
  PROVE  /\ HistoryInv /\ Reached(last_event_offset) /\ RequestsInv /\ RepliesInv
         /\ logged \in Nat /\ Evicted \in Nat
         /\ Current \in 0 .. logged
         /\ \A i \in DOMAIN requests : /\ i \in Nat
                                       /\ requests[i].last_event_offset \in OptOffset
                                       /\ Asked(i) \in 0 .. logged
         /\ \A i \in DOMAIN replies : i \in Nat
<1>1. HistoryInv /\ Reached(last_event_offset) /\ RequestsInv /\ RepliesInv
  BY DEF IInv, SteadyInv
<1>2. ServerTypeOK /\ last_event_offset \in OptOffset
  BY DEF IInv, TypeOK, ClientTypeOK
<1>3. \A i \in DOMAIN requests :
        i \in Nat /\ requests[i].last_event_offset \in OptOffset
  <2> TAKE i \in DOMAIN requests
  <2>1. requests[i] \in CommandRequest /\ i \in Nat
    BY DEF IInv, TypeOK
  <2> QED BY <2>1 DEF CommandRequest
<1>4. \A i \in DOMAIN requests : Asked(i) \in 0 .. logged
  BY <1>1, <1>2, <1>3, PositionType DEF RequestsInv, Asked
<1>5. Current \in 0 .. logged
  BY <1>1, <1>2, PositionType DEF Current
<1>6. logged \in Nat /\ Evicted \in Nat
  BY <1>1, <1>2, HistoryFacts
<1>7. \A i \in DOMAIN replies : i \in Nat
  BY DEF IInv, TypeOK
<1> QED BY <1>1, <1>3, <1>4, <1>5, <1>6, <1>7

(* A new request carries the client's position, which is not before that   *)
(* of any other.                                                           *)
LEMMA SendKeepsOrder ==
  ASSUME SteadyServer, IInv, NEW lost \in BOOLEAN, ClientSend(lost)
  PROVE  (HistoryInv /\ Reached(last_event_offset) /\ RequestsInv /\ RepliesInv)'
<1>1. /\ events' = events /\ start' = start /\ end' = end
      /\ event_offset' = event_offset /\ logged' = logged
      /\ last_event_offset' = last_event_offset /\ replies' = replies
  BY DEF ClientSend, Sent, serverVars
<1>2. HistoryInv' /\ Reached(last_event_offset)'
  BY <1>1, QueueFacts DEF HistoryInv, HistoryInOrder, Reached
<1>3. Current' = Current /\ Evicted' = Evicted
  BY <1>1 DEF Current, Position, Evicted
<1>4. \A i \in DOMAIN requests' :
        \/ /\ i \in DOMAIN requests
           /\ requests'[i].last_event_offset = requests[i].last_event_offset
        \/ /\ i = Len(requests) + 1
           /\ requests'[i].last_event_offset = last_event_offset
  <2>1. Request \in CommandRequest /\ Request.last_event_offset = last_event_offset
    BY DEF Request, CommandRequest, Command, IInv, TypeOK, ClientTypeOK
  <2> QED BY <2>1, DeliveredFacts DEF ClientSend, IInv, TypeOK
<1>5. \A i \in DOMAIN requests' :
        \/ /\ i \in DOMAIN requests /\ Asked(i)' = Asked(i)
           /\ Reached(requests[i].last_event_offset)'
        \/ /\ i = Len(requests) + 1 /\ Asked(i)' = Current
           /\ Reached(requests[i].last_event_offset)'
  BY <1>1, <1>4, QueueFacts DEF Asked, Current, Position, Reached, RequestsInv
<1>6. Len(requests) \in Nat /\ DOMAIN requests = 1 .. Len(requests)
  BY DEF IInv, TypeOK
<1>7. RequestsInv'
  <2> SUFFICES ASSUME NEW i \in DOMAIN requests'
               PROVE  (/\ Reached(requests[i].last_event_offset)
                       /\ Asked(i) <= Current
                       /\ Current <= NextAfter(Asked(i))
                       /\ \A j \in DOMAIN requests : i <= j => Asked(i) <= Asked(j))'
    BY DEF RequestsInv
  <2>1. Reached(requests[i].last_event_offset)'
    BY <1>5
  <2>2. Asked(i)' <= Current'
    BY <1>3, <1>5, QueueFacts DEF RequestsInv
  <2>3. (Current <= NextAfter(Asked(i)))'
    BY <1>3, <1>5, QueueFacts DEF RequestsInv, NextAfter
  <2>4. ASSUME NEW j \in DOMAIN requests', i <= j PROVE Asked(i)' <= Asked(j)'
    <3>1. CASE j \in DOMAIN requests /\ Asked(j)' = Asked(j)
      <4>1. i \in DOMAIN requests /\ Asked(i)' = Asked(i)
        BY <1>5, <1>6, <2>4, <3>1
      <4> QED BY <2>4, <3>1, <4>1, QueueFacts DEF RequestsInv
    <3>2. CASE Asked(j)' = Current
      BY <1>3, <2>2, <3>2
    <3> QED BY <1>5, <3>1, <3>2
  <2> QED BY <2>1, <2>2, <2>3, <2>4
<1>8. RepliesInv'
  <2>1. \A i \in DOMAIN replies : replies[i] # None =>
          \A j \in DOMAIN requests' : (replies[i].event <= NextAfter(Asked(j)))'
    BY <1>1, <1>3, <1>5, QueueFacts DEF RepliesInv, NextAfter
  <2> QED BY <1>1, <1>3, <2>1, QueueFacts DEF RepliesInv, NextAfter
<1> QED BY <1>2, <1>7, <1>8

(* The client stays where it is or moves to the event of the first reply,  *)
(* which is not before its position and which no other reply precedes.     *)
LEMMA ReceiveMoves ==
  ASSUME SteadyServer, IInv, ClientReceive
  PROVE  /\ UNCHANGED <<serverVars, requests>>
         /\ \A i \in DOMAIN replies' : /\ i \in Nat /\ i + 1 \in DOMAIN replies
                                       /\ replies'[i] = replies[i + 1]
         /\ \/ Current' = Current /\ last_event_offset' = last_event_offset
            \/ /\ 1 \in DOMAIN replies /\ replies[1] # None
               /\ Current' = replies[1].event
               /\ Reached(last_event_offset)'
<1>1. /\ UNCHANGED <<serverVars, requests>>
      /\ replies' = Tail(replies) /\ replies # <<>>
      /\ Process(Head(replies))
  BY DEF ClientReceive
<1>2. /\ 1 \in DOMAIN replies /\ Head(replies) = replies[1]
      /\ \A i \in DOMAIN replies' : /\ i \in Nat /\ i + 1 \in DOMAIN replies
                                    /\ replies'[i] = replies[i + 1]
  BY <1>1, TailFacts DEF IInv, TypeOK
<1>3. CASE ProcessNone(replies[1])
  BY <1>1, <1>2, <1>3 DEF ProcessNone, Current, Position, serverVars
<1>4. CASE replies[1] # None
  <2>1. /\ replies[1] \in LoggedEvent
        /\ start # None /\ replies[1].offset = start + replies[1].event - 1
        /\ replies[1].event \in 1 .. logged
    BY <1>2, <1>4, QueueFacts DEF RepliesInv
  <2>2. replies[1] \notin RecoveryEvent
    BY <2>1 DEF LoggedEvent, RecoveryEvent
  <2>3. last_event_offset' = replies[1].offset
    BY <1>1, <1>2, <1>4, <2>2 DEF Process, ProcessNone, ProcessRecovery, ProcessLogged
  <2>4. /\ start \in Nat /\ logged \in Nat /\ end = start + logged - 1
    BY <2>1, QueueFacts, HistoryFacts DEF IInv, TypeOK
  <2>5. replies[1].offset # None /\ replies[1].offset \in start .. end
    <3>1. replies[1].offset \in Int
      BY <2>1, <2>4
    <3> QED BY <2>1, <2>4, <3>1, NoneAssumption
  <2>6. Current' = replies[1].event
    BY <1>1, <2>1, <2>3, <2>4, <2>5 DEF Current, Position, serverVars
  <2>7. Reached(last_event_offset)'
    BY <1>1, <2>1, <2>3, <2>5 DEF Reached, serverVars
  <2> QED BY <1>1, <1>2, <1>4, <2>6, <2>7
<1> QED BY <1>1, <1>2, <1>3, <1>4, NoneIsNoEvent
        DEF Process, ProcessNone, ProcessRecovery, ProcessLogged, EventOf

LEMMA ReceiveKeepsOrder ==
  ASSUME SteadyServer, IInv, ClientReceive
  PROVE  (HistoryInv /\ Reached(last_event_offset) /\ RequestsInv /\ RepliesInv)'
<1>1. /\ events' = events /\ start' = start /\ end' = end
      /\ event_offset' = event_offset /\ logged' = logged
      /\ requests' = requests
  BY ReceiveMoves DEF serverVars
<1>2. HistoryInv'
  BY <1>1, QueueFacts DEF HistoryInv, HistoryInOrder
<1>3. Reached(last_event_offset)'
  BY <1>1, ReceiveMoves, QueueFacts DEF Reached
<1>4. Evicted' = Evicted /\ \A i \in DOMAIN requests : Asked(i)' = Asked(i)
  BY <1>1 DEF Evicted, Asked, Position
<1>5. /\ Current' \in 0 .. logged
      /\ Current <= Current'
      /\ \A i \in DOMAIN requests : Current' <= NextAfter(Asked(i))
      /\ \A i \in DOMAIN replies' : replies'[i] # None => Current' <= replies'[i].event
  <2>1. CASE Current' = Current
    BY <2>1, ReceiveMoves, QueueFacts DEF RequestsInv, RepliesInv
  <2>2. CASE 1 \in DOMAIN replies /\ replies[1] # None /\ Current' = replies[1].event
    <3>1. /\ replies[1].event \in 1 .. logged
          /\ Current <= replies[1].event
          /\ \A j \in DOMAIN replies :
               1 <= j /\ replies[j] # None => replies[1].event <= replies[j].event
          /\ \A j \in DOMAIN requests : replies[1].event <= NextAfter(Asked(j))
      BY <2>2, QueueFacts DEF RepliesInv
    <3>2. \A i \in DOMAIN replies' : replies'[i] # None => replies[1].event <= replies'[i].event
      BY <3>1, ReceiveMoves
    <3> QED BY <2>2, <3>1, <3>2, QueueFacts
  <2> QED BY <2>1, <2>2, ReceiveMoves
<1>6. RequestsInv'
  <2> SUFFICES ASSUME NEW i \in DOMAIN requests
               PROVE  (/\ Reached(requests[i].last_event_offset)
                       /\ Asked(i) <= Current
                       /\ Current <= NextAfter(Asked(i))
                       /\ \A j \in DOMAIN requests : i <= j => Asked(i) <= Asked(j))'
    BY <1>1 DEF RequestsInv
  <2>1. Reached(requests[i].last_event_offset)'
    BY <1>1, QueueFacts DEF RequestsInv, Reached
  <2>2. Asked(i)' <= Current'
    BY <1>4, <1>5, QueueFacts DEF RequestsInv
  <2>3. (Current <= NextAfter(Asked(i)))'
    BY <1>4, <1>5 DEF NextAfter
  <2>4. (\A j \in DOMAIN requests : i <= j => Asked(i) <= Asked(j))'
    BY <1>1, <1>4, QueueFacts DEF RequestsInv
  <2> QED BY <2>1, <2>2, <2>3, <2>4
<1>7. RepliesInv'
  <2> SUFFICES ASSUME NEW i \in DOMAIN replies', replies'[i] # None
               PROVE  (/\ replies[i] \in LoggedEvent
                       /\ start # None /\ replies[i].offset = start + replies[i].event - 1
                       /\ replies[i].event \in 1 .. logged
                       /\ Current <= replies[i].event
                       /\ replies[i].event <= NextAfter(Current)
                       /\ \A j \in DOMAIN replies :
                            i <= j /\ replies[j] # None => replies[i].event <= replies[j].event
                       /\ \A j \in DOMAIN requests : replies[i].event <= NextAfter(Asked(j)))'
    BY DEF RepliesInv
  <2>1. i \in Nat /\ i + 1 \in DOMAIN replies /\ replies'[i] = replies[i + 1]
    BY ReceiveMoves
  <2>2. /\ replies[i + 1] \in LoggedEvent
        /\ start # None /\ replies[i + 1].offset = start + replies[i + 1].event - 1
        /\ replies[i + 1].event \in 1 .. logged
        /\ replies[i + 1].event <= NextAfter(Current)
        /\ \A j \in DOMAIN replies :
             i + 1 <= j /\ replies[j] # None => replies[i + 1].event <= replies[j].event
        /\ \A j \in DOMAIN requests : replies[i + 1].event <= NextAfter(Asked(j))
    BY <2>1, QueueFacts DEF RepliesInv
  <2>3. (replies[i].event <= NextAfter(Current))'
    <3>1. replies'[i].event \in Nat
      BY <2>1, <2>2, QueueFacts
    <3> QED BY <1>4, <1>5, <2>1, <2>2, <3>1, QueueFacts DEF NextAfter
  <2>4. (\A j \in DOMAIN replies :
           i <= j /\ replies[j] # None => replies[i].event <= replies[j].event)'
    <3> SUFFICES ASSUME NEW j \in DOMAIN replies', i <= j, replies'[j] # None
                 PROVE  replies'[i].event <= replies'[j].event
      OBVIOUS
    <3>1. j \in Nat /\ j + 1 \in DOMAIN replies /\ replies'[j] = replies[j + 1]
      BY ReceiveMoves
    <3> QED BY <2>1, <2>2, <3>1
  <2>5. (\A j \in DOMAIN requests : replies[i].event <= NextAfter(Asked(j)))'
    BY <1>1, <1>4, <2>1, <2>2 DEF NextAfter
  <2> QED BY <1>1, <1>5, <2>1, <2>2, <2>3, <2>4, <2>5
<1> QED BY <1>2, <1>3, <1>6, <1>7

(* The reply to the first request is not before any reply sent earlier,    *)
(* nor after what the later requests will be answered with.                *)
LEMMA ReplyKeepsOrder ==
  ASSUME SteadyServer, IInv, NEW lost \in BOOLEAN, ServerReceive(lost)
  PROVE  (HistoryInv /\ Reached(last_event_offset) /\ RequestsInv /\ RepliesInv)'
<1> DEFINE reply == Reply(requests[1].last_event_offset)
<1>1. /\ events' = events /\ start' = start /\ end' = end
      /\ event_offset' = event_offset /\ logged' = logged
      /\ last_event_offset' = last_event_offset
  BY DEF ServerReceive, serverVars, clientVars
<1>2. HistoryInv' /\ Reached(last_event_offset)'
  BY <1>1, QueueFacts DEF HistoryInv, HistoryInOrder, Reached
<1>3. Current' = Current /\ Evicted' = Evicted
  BY <1>1 DEF Current, Position, Evicted
<1>4. /\ 1 \in DOMAIN requests /\ Head(requests) = requests[1]
      /\ \A i \in DOMAIN requests' : /\ i \in Nat /\ i + 1 \in DOMAIN requests
                                     /\ requests'[i] = requests[i + 1]
  BY TailFacts DEF ServerReceive, IInv, TypeOK
<1>5. \A i \in DOMAIN requests' : Asked(i)' = Asked(i + 1)
  BY <1>1, <1>4 DEF Asked, Position
<1>6. reply # None =>
        /\ start # None
        /\ reply \in LoggedEvent
        /\ reply.event = NextAfter(Asked(1))
        /\ reply.event \in 1 .. logged
        /\ reply.offset = start + reply.event - 1
  <2>1. /\ ServerTypeOK /\ HistoryInv
        /\ requests[1].last_event_offset \in OptOffset
        /\ Reached(requests[1].last_event_offset)
    BY <1>4, QueueFacts DEF RequestsInv, IInv, TypeOK
  <2> QED BY <2>1, ReplyIsNextAfter DEF Asked
<1>7. \A i \in DOMAIN replies' :
        \/ i \in DOMAIN replies /\ replies'[i] = replies[i]
        \/ i = Len(replies) + 1 /\ replies'[i] = reply
  <2>1. reply \in EventReply
    BY <1>4, QueueFacts, ReplyType DEF IInv, TypeOK
  <2>2. replies' = IF lost THEN replies ELSE Delivered(replies, reply)
    BY <1>4 DEF ServerReceive
  <2> HIDE DEF reply
  <2> QED BY <2>1, <2>2, DeliveredFacts DEF IInv, TypeOK
<1> HIDE DEF reply
<1>8. RequestsInv'
  <2> SUFFICES ASSUME NEW i \in DOMAIN requests'
               PROVE  (/\ Reached(requests[i].last_event_offset)
                       /\ Asked(i) <= Current
                       /\ Current <= NextAfter(Asked(i))
                       /\ \A j \in DOMAIN requests : i <= j => Asked(i) <= Asked(j))'
    BY DEF RequestsInv
  <2>1. i \in Nat /\ i + 1 \in DOMAIN requests /\ Asked(i)' = Asked(i + 1)
    BY <1>4, <1>5
  <2>2. Reached(requests[i].last_event_offset)'
    BY <1>1, <1>4, <2>1, QueueFacts DEF RequestsInv, Reached
  <2>3. Asked(i)' <= Current' /\ (Current <= NextAfter(Asked(i)))'
    BY <1>3, <2>1, QueueFacts DEF RequestsInv, NextAfter
  <2>4. (\A j \in DOMAIN requests : i <= j => Asked(i) <= Asked(j))'
    BY <1>4, <1>5, <2>1, QueueFacts DEF RequestsInv
  <2> QED BY <2>2, <2>3, <2>4
<1>9. ASSUME reply # None
      PROVE  /\ Current <= reply.event /\ reply.event <= NextAfter(Current)
             /\ \A i \in DOMAIN replies : replies[i] # None => replies[i].event <= reply.event
             /\ \A j \in DOMAIN requests' : reply.event <= NextAfter(Asked(j + 1))
  <2>1. /\ Asked(1) \in Nat /\ Current \in Nat /\ Evicted \in Nat
        /\ Asked(1) <= Current /\ Current <= NextAfter(Asked(1))
    BY <1>4, QueueFacts DEF RequestsInv
  <2>2. Current <= reply.event /\ reply.event <= NextAfter(Current)
    BY <1>6, <1>9, <2>1 DEF NextAfter
  <2>3. \A i \in DOMAIN replies : replies[i] # None => replies[i].event <= reply.event
    BY <1>4, <1>6, <1>9, QueueFacts DEF RepliesInv
  <2>4. ASSUME NEW j \in DOMAIN requests' PROVE reply.event <= NextAfter(Asked(j + 1))
    <3>1. j \in Nat /\ j + 1 \in DOMAIN requests
      BY <1>4
    <3>2. 1 <= j + 1
      BY <3>1
    <3>3. Asked(1) <= Asked(j + 1) /\ Asked(j + 1) \in Nat
      BY <1>4, <3>1, <3>2, QueueFacts DEF RequestsInv
    <3> QED BY <1>6, <1>9, <2>1, <3>3 DEF NextAfter
  <2> QED BY <2>2, <2>3, <2>4
<1>10. RepliesInv'
  <2> SUFFICES ASSUME NEW i \in DOMAIN replies', replies'[i] # None
               PROVE  (/\ replies[i] \in LoggedEvent
                       /\ start # None /\ replies[i].offset = start + replies[i].event - 1
                       /\ replies[i].event \in 1 .. logged
                       /\ Current <= replies[i].event
                       /\ replies[i].event <= NextAfter(Current)
                       /\ \A j \in DOMAIN replies :
                            i <= j /\ replies[j] # None => replies[i].event <= replies[j].event
                       /\ \A j \in DOMAIN requests : replies[i].event <= NextAfter(Asked(j)))'
    BY DEF RepliesInv
  <2>1. CASE i \in DOMAIN replies /\ replies'[i] = replies[i]
    <3>1. /\ replies[i] \in LoggedEvent
          /\ start # None /\ replies[i].offset = start + replies[i].event - 1
          /\ replies[i].event \in 1 .. logged
          /\ Current <= replies[i].event
          /\ replies[i].event <= NextAfter(Current)
          /\ \A j \in DOMAIN replies :
               i <= j /\ replies[j] # None => replies[i].event <= replies[j].event
          /\ \A j \in DOMAIN requests : replies[i].event <= NextAfter(Asked(j))
      BY <2>1, QueueFacts DEF RepliesInv
    <3>2. (\A j \in DOMAIN replies :
             i <= j /\ replies[j] # None => replies[i].event <= replies[j].event)'
      BY <1>7, <1>9, <2>1, <3>1
    <3>3. (\A j \in DOMAIN requests : replies[i].event <= NextAfter(Asked(j)))'
      BY <1>3, <1>4, <1>5, <2>1, <3>1 DEF NextAfter
    <3>4. (Current <= replies[i].event /\ replies[i].event <= NextAfter(Current))'
      BY <1>3, <2>1, <3>1 DEF NextAfter
    <3> QED BY <1>1, <2>1, <3>1, <3>2, <3>3, <3>4
  <2>2. CASE i = Len(replies) + 1 /\ replies'[i] = reply
    <3>1. \A j \in DOMAIN replies' : i <= j => replies'[j] = reply
      BY <1>7, <2>2 DEF IInv, TypeOK
    <3>2. (\A j \in DOMAIN replies :
             i <= j /\ replies[j] # None => replies[i].event <= replies[j].event)'
      BY <1>6, <2>2, <3>1, QueueFacts
    <3>3. (\A j \in DOMAIN requests : replies[i].event <= NextAfter(Asked(j)))'
      BY <1>3, <1>5, <1>9, <2>2 DEF NextAfter
    <3>4. (Current <= replies[i].event /\ replies[i].event <= NextAfter(Current))'
      BY <1>3, <1>9, <2>2 DEF NextAfter
    <3> QED BY <1>1, <1>6, <2>2, <3>2, <3>3, <3>4
  <2> QED BY <1>7, <2>1, <2>2
<1> QED BY <1>2, <1>8, <1>10

(* A new event leaves every position alone, and what has left the history  *)
(* only grows.                                                             *)
LEMMA StoreKeepsQueues ==
  ASSUME SteadyServer, SteadyServer', IInv, ServerStore
  PROVE  /\ (HistoryInv /\ Reached(last_event_offset) /\ RequestsInv /\ RepliesInv)'
         /\ Current' = Current
<1>1. /\ StoreEvent
      /\ last_event_offset' = last_event_offset
      /\ requests' = requests /\ replies' = replies
  BY DEF ServerStore, clientVars, linkVars
<1>2. /\ HistoryInv'
      /\ Evicted' \in {Evicted, Evicted + 1}
      /\ logged' = logged + 1
      /\ start' # None /\ end' \in Nat
      /\ start # None => start' = start /\ end <= end'
  BY <1>1, StoreFacts, QueueFacts DEF IInv, TypeOK
<1>3. start # None => start \in Nat /\ end \in Nat
  BY QueueFacts, HistoryFacts DEF IInv, TypeOK
<1>4. Reached(last_event_offset)' /\ Current' = Current
  BY <1>1, <1>2, <1>3, QueueFacts DEF Reached, Current, Position
<1>5. ASSUME NEW i \in DOMAIN requests
      PROVE  Reached(requests[i].last_event_offset)' /\ Asked(i)' = Asked(i)
  <2>1. Reached(requests[i].last_event_offset)
    BY QueueFacts DEF RequestsInv
  <2> QED BY <1>1, <1>2, <1>3, <2>1 DEF Reached, Asked, Position
<1>6. ASSUME NEW e \in Int, NEW p \in Nat, e <= NextAfter(p)
      PROVE  e <= (IF p <= Evicted' THEN Evicted' ELSE p) + 1
  <2>1. Evicted \in Nat /\ Evicted' \in Nat /\ Evicted <= Evicted'
    BY <1>2, QueueFacts
  <2>2. \A a, b \in Nat : a <= b /\ e <= (IF p <= a THEN a ELSE p) + 1 =>
          e <= (IF p <= b THEN b ELSE p) + 1
    OBVIOUS
  <2>3. e <= (IF p <= Evicted THEN Evicted ELSE p) + 1
    BY <1>6 DEF NextAfter
  <2> QED BY <2>1, <2>2, <2>3
<1>7. RequestsInv'
  <2> SUFFICES ASSUME NEW i \in DOMAIN requests
               PROVE  (/\ Reached(requests[i].last_event_offset)
                       /\ Asked(i) <= Current
                       /\ Current <= NextAfter(Asked(i))
                       /\ \A j \in DOMAIN requests : i <= j => Asked(i) <= Asked(j))'
    BY <1>1 DEF RequestsInv
  <2>1. (Current <= NextAfter(Asked(i)))'
    <3>1. Current \in Int /\ Asked(i) \in Nat /\ Current <= NextAfter(Asked(i))
      BY QueueFacts DEF RequestsInv
    <3> QED BY <1>4, <1>5, <1>6, <3>1 DEF NextAfter
  <2> QED BY <1>1, <1>4, <1>5, <2>1, QueueFacts DEF RequestsInv
<1>8. RepliesInv'
  <2> SUFFICES ASSUME NEW i \in DOMAIN replies, replies[i] # None
               PROVE  (/\ replies[i] \in LoggedEvent
                       /\ start # None /\ replies[i].offset = start + replies[i].event - 1
                       /\ replies[i].event \in 1 .. logged
                       /\ Current <= replies[i].event
                       /\ replies[i].event <= NextAfter(Current)
                       /\ \A j \in DOMAIN replies :
                            i <= j /\ replies[j] # None => replies[i].event <= replies[j].event
                       /\ \A j \in DOMAIN requests : replies[i].event <= NextAfter(Asked(j)))'
    BY <1>1 DEF RepliesInv
  <2>1. /\ replies[i] \in LoggedEvent
        /\ start # None /\ replies[i].offset = start + replies[i].event - 1
        /\ replies[i].event \in 1 .. logged
        /\ Current <= replies[i].event
        /\ replies[i].event <= NextAfter(Current)
        /\ \A j \in DOMAIN replies :
             i <= j /\ replies[j] # None => replies[i].event <= replies[j].event
        /\ \A j \in DOMAIN requests : replies[i].event <= NextAfter(Asked(j))
    BY QueueFacts DEF RepliesInv
  <2>2. replies[i].event \in Int /\ Current \in Nat /\ logged \in Nat
    BY <2>1, QueueFacts
  <2>3. (replies[i].event <= NextAfter(Current))'
    BY <1>1, <1>4, <1>6, <2>1, <2>2 DEF NextAfter
  <2>4. (\A j \in DOMAIN requests : replies[i].event <= NextAfter(Asked(j)))'
    <3> SUFFICES ASSUME NEW j \in DOMAIN requests
                 PROVE  (replies[i].event <= NextAfter(Asked(j)))'
      BY <1>1
    <3>1. Asked(j) \in Nat
      BY QueueFacts
    <3> QED BY <1>1, <1>5, <1>6, <2>1, <2>2, <3>1 DEF NextAfter
  <2>5. replies[i].event \in 1 .. logged'
    BY <1>2, <2>1, <2>2
  <2> QED BY <1>1, <1>2, <1>4, <2>1, <2>3, <2>4, <2>5
<1> QED BY <1>2, <1>4, <1>7, <1>8

(* A server that is steady after a step was so before, and did not restart. *)
LEMMA LinkSteadyBefore ==
  ASSUME IInv, [Next]_vars, SteadyServer'
  PROVE  SteadyServer /\ ~ServerReset /\ ~ServerRestart
<1>1. ServerTypeOK
  BY DEF IInv, TypeOK
<1>2. UNCHANGED serverVars \/ StoreEvent \/ ResetEvents \/ RestartServer
  BY DEF Next, ClientSend, ClientReceive, ClientTimeout, ServerReceive, ServerStore,
         ServerReset, ServerRestart, vars
<1>3. ~ResetEvents /\ ~RestartServer
  BY <1>1 DEF ResetEvents, RestartServer, SteadyServer, ServerTypeOK
<1> QED BY <1>1, <1>2, <1>3, SteadyBefore DEF ServerReset, ServerRestart

(* One step per action; a step that restarts the server or wraps its       *)
(* offsets leaves nothing to show.                                         *)
LEMMA NextSteady ==
  ASSUME IInv, [Next]_vars
  PROVE  SteadyInv'
<1> SUFFICES ASSUME SteadyServer'
             PROVE  (HistoryInv /\ Reached(last_event_offset) /\ RequestsInv /\ RepliesInv)'
  BY DEF SteadyInv
<1>0. SteadyServer /\ ~ServerReset /\ ~ServerRestart
  BY LinkSteadyBefore
<1>1. CASE UNCHANGED <<serverVars, last_event_offset, linkVars>>
  <2>2. HistoryInv /\ Reached(last_event_offset) /\ RequestsInv /\ RepliesInv
    BY <1>0, QueueFacts
  <2>3. HistoryInv'
    BY <1>1, <2>2 DEF serverVars, HistoryInv, HistoryInOrder
  <2>4. Reached(last_event_offset)'
    BY <1>1, <2>2 DEF serverVars, Reached
  <2>5. /\ requests' = requests /\ replies' = replies
        /\ start' = start /\ end' = end /\ logged' = logged
        /\ Current' = Current
        /\ \A i : Asked(i)' = Asked(i)
        /\ \A p : NextAfter(p)' = NextAfter(p)
    BY <1>1 DEF serverVars, linkVars, Asked, Current, Position, NextAfter, Evicted
  <2>6. RequestsInv'
    BY <2>2, <2>5 DEF RequestsInv, Reached
  <2>7. RepliesInv'
    BY <2>2, <2>5 DEF RepliesInv
  <2> QED BY <2>3, <2>4, <2>6, <2>7
<1>2. ASSUME NEW lost \in BOOLEAN, ClientSend(lost) \/ ServerReceive(lost)
      PROVE  (HistoryInv /\ Reached(last_event_offset) /\ RequestsInv /\ RepliesInv)'
  BY <1>0, <1>2, SendKeepsOrder, ReplyKeepsOrder
<1>3. CASE ClientReceive
  BY <1>0, <1>3, ReceiveKeepsOrder
<1>4. CASE ServerStore
  BY <1>0, <1>4, StoreKeepsQueues
<1>5. CASE ClientTimeout \/ UNCHANGED vars
  BY <1>1, <1>5 DEF ClientTimeout, Timeout, vars, clientVars
<1> QED BY <1>0, <1>2, <1>3, <1>4, <1>5 DEF Next

LEMMA InitSteady == Init => SteadyInv
<1> SUFFICES ASSUME Init
             PROVE  HistoryInv /\ Reached(last_event_offset) /\ RequestsInv /\ RepliesInv
  BY DEF SteadyInv
<1>1. HistoryInv
  BY CapacityAssumption DEF Init, ServerInit, HistoryInv, HistoryInOrder
<1>2. Reached(last_event_offset) /\ RequestsInv /\ RepliesInv
  BY DEF Init, ClientInit, Reached, RequestsInv, RepliesInv
<1> QED BY <1>1, <1>2

(* The inductive invariant. *)
THEOREM LinkInvariance == Spec => []IInv
<1>1. Init => IInv
  BY InitType, InitSteady DEF IInv
<1>2. IInv /\ [Next]_vars => IInv'
  BY NextType, NextSteady DEF IInv
<1> QED BY <1>1, <1>2, PTL DEF Spec

(* Every step of the exchange is one of ordered delivery, or changes       *)
(* nothing that concerns it.                                               *)
LEMMA StepDelivers ==
  ASSUME IInv, [Next]_vars
  PROVE  [Delivery!Next]_(Delivery!vars)
<1>1. CASE ~SteadyServer'
  BY <1>1 DEF Delivery!Next, Delivery!Restart
<1>2. CASE SteadyServer'
  <2>0. SteadyServer /\ ~ServerReset /\ ~ServerRestart
    BY <1>2, LinkSteadyBefore
  <2>1. CASE UNCHANGED <<serverVars, last_event_offset>>
    <3>1. UNCHANGED <<logged, Evicted, Current>> /\ SteadyServer' = SteadyServer
      BY <2>1 DEF serverVars, Current, Position, Evicted, SteadyServer
    <3> QED BY <3>1 DEF Delivery!vars
  <2>2. CASE ClientReceive
    <3>1. UNCHANGED <<serverVars, requests>>
      BY <2>2 DEF ClientReceive
    <3>2. UNCHANGED <<logged, Evicted>> /\ SteadyServer' = SteadyServer
      BY <3>1 DEF serverVars, Evicted, SteadyServer
    <3>3. CASE Current' = Current
      BY <3>2, <3>3 DEF Delivery!vars
    <3>4. CASE 1 \in DOMAIN replies /\ replies[1] # None /\ Current' = replies[1].event
      <4>1. /\ Current' \in 1 .. logged
            /\ Current <= Current'
            /\ Current' <= NextAfter(Current)
            /\ Current \in Nat /\ Evicted \in Nat /\ logged \in Nat
        BY <2>0, <3>4, QueueFacts DEF RepliesInv
      <4>2. CASE Current' # Current
        <5>1. Current' \in Current + 1 .. logged
          BY <4>1, <4>2
        <5>2. \A skipped \in Current + 1 .. Current' - 1 : skipped <= Evicted
          <6>1. Current' <= (IF Current <= Evicted THEN Evicted ELSE Current) + 1
            BY <4>1 DEF NextAfter
          <6>2. \A c, d, v \in Nat : d <= (IF c <= v THEN v ELSE c) + 1 =>
                  \A skipped \in c + 1 .. d - 1 : skipped <= v
            OBVIOUS
          <6>3. Current' \in Nat
            BY <4>1
          <6> QED BY <4>1, <6>1, <6>2, <6>3
        <5> QED BY <2>0, <3>2, <5>1, <5>2 DEF Delivery!Next, Delivery!Deliver
      <4> QED BY <3>3, <4>2
    <3> QED BY <2>0, <2>2, <3>3, <3>4, ReceiveMoves
  <2>3. CASE ServerStore
    <3>1. StoreEvent
      BY <2>3 DEF ServerStore
    <3>2. Current' = Current
      BY <1>2, <2>0, <2>3, StoreKeepsQueues
    <3>3. Evicted' \in {Evicted, Evicted + 1} /\ logged' = logged + 1
      BY <1>2, <2>0, <3>1, StoreFacts, QueueFacts DEF IInv, TypeOK
    <3>4. SteadyServer' = SteadyServer
      BY <1>2, <2>0 DEF SteadyServer
    <3> QED BY <2>0, <3>2, <3>3, <3>4 DEF Delivery!Next, Delivery!Log
  <2>5. CASE ClientTimeout \/ UNCHANGED vars
    BY <2>1, <2>5 DEF ClientTimeout, Timeout, vars, clientVars
  <2>6. ASSUME NEW lost \in BOOLEAN, ClientSend(lost) \/ ServerReceive(lost)
        PROVE  UNCHANGED <<serverVars, last_event_offset>>
    BY <2>6 DEF ClientSend, Sent, ServerReceive, clientVars
  <2> QED BY <2>0, <2>1, <2>2, <2>3, <2>5, <2>6 DEF Next
<1> QED BY <1>1, <1>2

(* Until the server restarts or its offsets wrap, late and repeated        *)
(* replies never move the client backwards and it passes over nothing that *)
(* the server still holds: for every capacity of the history, every width  *)
(* of the offsets, every length of the queues and every pattern of losses, *)
(* the loops of server/main.rs and client/main.rs implement the safety     *)
(* part of ordered delivery.                                               *)
THEOREM LinkDeliversInOrder == Spec => Delivery!Safety
<1>1. Init => Delivery!Init
  <2> SUFFICES ASSUME Init PROVE Delivery!Init
    OBVIOUS
  <2>1. logged = 0 /\ Evicted = 0 /\ restarts = 0
    <3>1. logged = 0 /\ events = <<>> /\ restarts = 0
      BY DEF Init, ServerInit
    <3>2. Len(events) = 0
      BY <3>1
    <3>3. Evicted = logged - Len(events)
      BY DEF Evicted
    <3>4. logged = 0
      BY <3>1
    <3>5. Evicted = 0
      BY <3>2, <3>3, <3>4
    <3> QED BY <3>1, <3>5
  <2>2. Current = 0
    BY DEF Init, ClientInit, Current, Position
  <2>3. SteadyServer = TRUE
    BY <2>1 DEF Init, ServerInit, SteadyServer
  <2> QED BY <2>1, <2>2, <2>3 DEF Delivery!Init
<1>2. IInv /\ [Next]_vars => [Delivery!Next]_(Delivery!vars)
  BY StepDelivers
<1> QED BY <1>1, <1>2, LinkInvariance, PTL DEF Spec, Delivery!Safety

==============================================================================
