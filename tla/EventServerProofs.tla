-------------------------- MODULE EventServerProofs --------------------------
(***************************************************************************)
(* Facts about the server of logged events (app/examples/server/main.rs)   *)
(* that do not depend on how it is connected: what its search stops at,    *)
(* that its replies and its variables keep their types, and that its       *)
(* history stays in order.                                                 *)
(***************************************************************************)
EXTENDS EventServer, TLAPS, WellFoundedInduction

(* Every offset has a successor among the offsets. *)
LEMMA SuccType == \A n \in Offset : Succ(n) \in Offset
BY NAssumption DEF Succ, Offset

(* A starting offset is an offset: the capacity is below N. *)
LEMMA StartOffsetType == StartOffset \subseteq Offset
BY NAssumption, CapacityAssumption DEF StartOffset, Offset

(* Pushing keeps the history a sequence of entries. *)
LEMMA PushType ==
  ASSUME NEW q \in Seq(Entry), NEW e \in Entry
  PROVE  Push(q, e) \in Seq(Entry)
<1>1. CASE Len(q) < MAX_EVENTS
  BY <1>1 DEF Push
<1>2. CASE ~(Len(q) < MAX_EVENTS)
  <2>1. q # <<>>
    BY <1>2, CapacityAssumption
  <2>2. Tail(q) \in Seq(Entry)
    BY <2>1
  <2> QED BY <1>2, <2>2 DEF Push
<1> QED BY <1>1, <1>2

(* A non-empty set of naturals has a least element. *)
LEMMA LeastExists ==
  ASSUME NEW T, T \subseteq Nat, T # {}
  PROVE  \E x \in T : \A y \in T : x <= y
<1> DEFINE R == {ss \in Nat \X Nat : ss[1] < ss[2]}
<1>1. IsWellFoundedOn(R, Nat)
  BY NatLessThanWellFounded, Zenon DEF OpToRel
<1>2. \A a, b \in Nat : a < b => <<a, b>> \in R
  OBVIOUS
<1> HIDE DEF R
<1>3. PICK x \in T : \A y \in T : ~(<<y, x>> \in R)
  BY <1>1, WFMin, Zenon
<1>4. \A y \in T : x <= y
  <2> TAKE y \in T
  <2>1. x \in Nat /\ y \in Nat
    BY Zenon
  <2>2. ~(y < x)
    BY <1>2, <1>3, <2>1, Zenon
  <2> QED BY <2>1, <2>2
<1> QED BY <1>4

(* A non-empty set of positions has a greatest one, so the backward search *)
(* of the history stops at one of the entries it looks for.                *)
LEMMA NewestExists ==
  ASSUME NEW n \in Nat, NEW S, S \subseteq 1 .. n, S # {}
  PROVE  /\ Newest(S) \in S
         /\ \A j \in S : j <= Newest(S)
<1> DEFINE T == {n - i : i \in S}
<1>1. T \subseteq Nat /\ T # {}
  <2>1. \A i \in S : i \in 1 .. n /\ n - i \in Nat
    OBVIOUS
  <2>2. PICK i \in S : TRUE
    OBVIOUS
  <2> QED BY <2>1, <2>2, Zenon
<1>2. PICK x \in T : \A y \in T : x <= y
  BY <1>1, LeastExists
<1>3. PICK i \in S : x = n - i
  OBVIOUS
<1>4. \A j \in S : n - i <= n - j
  BY <1>2, <1>3
<1>5. \A j \in S : j <= i
  BY <1>4
<1> QED BY <1>5 DEF Newest

(* The search stops at an entry adjacent to the offset it was given. *)
LEMMA SearchStops ==
  ASSUME ServerTypeOK, NEW last, Adjacent(last) # {}
  PROVE  /\ Newest(Adjacent(last)) \in DOMAIN events
         /\ events[Newest(Adjacent(last))].offset \in {last, Succ(last)}
<1>1. Len(events) \in Nat /\ DOMAIN events = 1 .. Len(events)
  BY DEF ServerTypeOK
<1>2. Adjacent(last) \subseteq 1 .. Len(events)
  BY <1>1 DEF Adjacent
<1>3. Newest(Adjacent(last)) \in Adjacent(last)
  BY <1>1, <1>2, NewestExists
<1> QED BY <1>3 DEF Adjacent

(* A reply is one of the three forms a client can decode. *)
LEMMA ReplyType ==
  ASSUME ServerTypeOK, NEW last \in OptOffset
  PROVE  Reply(last) \in EventReply
<1>1. \A i \in DOMAIN events :
        Logged(events[i].event, events[i].offset) \in EventReply
  <2> TAKE i \in DOMAIN events
  <2>1. events[i] \in Entry
    BY DEF ServerTypeOK
  <2>2. events[i].event \in Nat /\ events[i].offset \in Offset
    BY <2>1 DEF Entry
  <2> QED BY <2>2 DEF Logged, LoggedEvent, EventOf, EventReply
<1>2. Lookup(last) \in EventReply
  <2>1. None \in EventReply
    BY DEF EventReply
  <2>2. CASE Adjacent(last) # {}
    BY <1>1, <2>1, <2>2, SearchStops DEF Lookup
  <2>3. CASE Adjacent(last) = {}
    <3>1. events # <<>> => 1 \in DOMAIN events
      BY DEF ServerTypeOK
    <3> QED BY <1>1, <2>1, <2>3, <3>1 DEF Lookup
  <2> QED BY <2>2, <2>3
<1>3. start # None => Recovery(start, end) \in EventReply
  BY DEF ServerTypeOK, OptOffset, Recovery, RecoveryEvent, EventOf, EventReply
<1> QED BY <1>2, <1>3 DEF Reply, EventReply

(* The three steps that change the server keep its variables in their types. *)
LEMMA ServerStepType ==
  ASSUME ServerTypeOK, StoreEvent \/ ResetEvents \/ RestartServer
  PROVE  ServerTypeOK'
<1>1. CASE StoreEvent
  <2>1. [event |-> logged + 1, offset |-> event_offset] \in Entry
    BY DEF ServerTypeOK, Entry
  <2>2. events' \in Seq(Entry)
    BY <1>1, <2>1, PushType DEF StoreEvent, ServerTypeOK
  <2>3. Succ(event_offset) \in Offset /\ event_offset # None
    BY SuccType, NoneAssumption DEF ServerTypeOK, Offset
  <2> QED BY <1>1, <2>2, <2>3 DEF StoreEvent, ServerTypeOK, OptOffset
<1>2. CASE ResetEvents
  <2>1. PICK offset \in StartOffset :
          event_offset' = offset /\ start' = offset /\ end' = offset
    BY <1>2 DEF ResetEvents
  <2>2. offset \in Offset /\ offset # None
    BY <2>1, StartOffsetType, NoneAssumption DEF Offset
  <2> QED BY <1>2, <2>1, <2>2 DEF ResetEvents, ServerTypeOK, OptOffset
<1>3. CASE RestartServer
  BY <1>3, StartOffsetType DEF RestartServer, ServerTypeOK, OptOffset
<1> QED BY <1>1, <1>2, <1>3

(* A steady server was steady before, and the step was not a restart. *)
LEMMA SteadyBefore ==
  ASSUME ServerTypeOK, SteadyServer',
         UNCHANGED serverVars \/ StoreEvent \/ ResetEvents \/ RestartServer
  PROVE  SteadyServer /\ (UNCHANGED serverVars \/ StoreEvent)
<1> USE DEF ServerTypeOK
<1>1. CASE UNCHANGED serverVars
  BY <1>1 DEF SteadyServer, serverVars
<1>2. CASE StoreEvent
  BY <1>2, NAssumption DEF StoreEvent, SteadyServer, OptOffset, Offset
<1>3. CASE ResetEvents \/ RestartServer
  BY <1>3 DEF ResetEvents, RestartServer, SteadyServer
<1> QED BY <1>1, <1>2, <1>3

(* Pushing an event keeps the latest events in order. *)
LEMMA StoreKeepsOrder ==
  ASSUME ServerTypeOK, SteadyServer', HistoryInOrder, StoreEvent
  PROVE  HistoryInOrder'
<1> DEFINE e == [event |-> logged + 1, offset |-> event_offset]
<1>1. /\ events' = Push(events, e)
      /\ start' = IF start = None THEN event_offset ELSE start
      /\ end' = event_offset
      /\ event_offset' = Succ(event_offset)
      /\ logged' = logged + 1
  BY DEF StoreEvent
<1>2. /\ logged \in Nat /\ event_offset \in Nat /\ event_offset \in Offset
      /\ event_offset # None
      /\ e \in Entry
      /\ events \in Seq(Entry)
      /\ Len(events) \in Nat
      /\ Len(events) <= logged
  BY NoneAssumption DEF ServerTypeOK, Offset, Entry, HistoryInOrder
<1>3. start' \in Nat /\ start' # None /\ event_offset = start' + logged
  <2>1. CASE start = None
    BY <1>1, <1>2, <2>1 DEF HistoryInOrder
  <2>2. CASE start # None
    <3>1. /\ start \in Nat /\ end \in Nat
          /\ logged > 0
          /\ start + logged + 1 <= N
      BY <1>1, <1>2, <2>2 DEF ServerTypeOK, OptOffset, Offset, HistoryInOrder, SteadyServer
    <3>2. end = start + logged - 1 /\ event_offset = (end + 1) % N
      BY <3>1 DEF HistoryInOrder, Succ
    <3>3. event_offset = start + logged
      BY <1>2, <3>1, <3>2, NAssumption
    <3> QED BY <1>1, <2>2, <3>1, <3>3
  <2> QED BY <2>1, <2>2
<1>4. /\ Len(events') \in Nat \ {0}
      /\ Len(events') <= logged'
  BY <1>1, <1>2, CapacityAssumption DEF Push
<1>5. \A i \in 1 .. Len(events') :
        /\ events'[i].event = logged' - Len(events') + i
        /\ events'[i].offset = start' + events'[i].event - 1
  <2>1. \A i \in 1 .. Len(events) :
          /\ events[i].event = logged - Len(events) + i
          /\ events[i].offset = start' + events[i].event - 1
    BY <1>1 DEF HistoryInOrder
  <2>2. CASE Len(events) < MAX_EVENTS
    <3>1. events' = Append(events, e)
      BY <1>1, <2>2 DEF Push
    <3>2. Len(events') = Len(events) + 1
      BY <1>2, <3>1
    <3>3. \A i \in 1 .. Len(events) : events'[i] = events[i]
      BY <1>2, <3>1
    <3>4. events'[Len(events) + 1] = e
      BY <1>2, <3>1
    <3>5. ASSUME NEW i \in 1 .. Len(events')
          PROVE  /\ events'[i].event = logged' - Len(events') + i
                 /\ events'[i].offset = start' + events'[i].event - 1
      <4>1. CASE i = Len(events) + 1
        BY <1>1, <1>2, <1>3, <3>2, <3>4, <4>1
      <4>2. CASE i # Len(events) + 1
        <5>1. i \in 1 .. Len(events)
          BY <1>2, <3>2, <4>2
        <5>2. /\ events'[i].event = logged - Len(events) + i
              /\ events'[i].offset = start' + events'[i].event - 1
          BY <2>1, <3>3, <5>1
        <5> QED BY <1>1, <1>2, <3>2, <5>1, <5>2
      <4> QED BY <4>1, <4>2
    <3> QED BY <3>5
  <2>3. CASE ~(Len(events) < MAX_EVENTS)
    <3>1. events' = Append(Tail(events), e) /\ Len(events) > 0
      BY <1>1, <1>2, <2>3, CapacityAssumption DEF Push
    <3>2. Len(events') = Len(events)
      BY <1>2, <3>1
    <3>3. \A i \in 1 .. Len(events) - 1 : events'[i] = events[i + 1]
      BY <1>2, <3>1
    <3>4. events'[Len(events)] = e
      BY <1>2, <3>1
    <3>5. ASSUME NEW i \in 1 .. Len(events')
          PROVE  /\ events'[i].event = logged' - Len(events') + i
                 /\ events'[i].offset = start' + events'[i].event - 1
      <4>1. CASE i = Len(events)
        BY <1>1, <1>2, <1>3, <3>2, <3>4, <4>1
      <4>2. CASE i # Len(events)
        <5>1. i \in 1 .. Len(events) - 1 /\ i + 1 \in 1 .. Len(events)
          BY <1>2, <3>2, <4>2
        <5>2. /\ events'[i].event = logged - Len(events) + (i + 1)
              /\ events'[i].offset = start' + events'[i].event - 1
          BY <2>1, <3>3, <5>1
        <5> QED BY <1>1, <1>2, <3>2, <5>1, <5>2
      <4> QED BY <4>1, <4>2
    <3> QED BY <3>5
  <2> QED BY <2>2, <2>3
<1>6. event_offset' = Succ(end)' /\ end' = start' + logged' - 1
  BY <1>1, <1>2, <1>3 DEF Succ
<1>7. logged' # 0 /\ logged' > 0
  BY <1>1, <1>2
<1> QED BY <1>3, <1>4, <1>5, <1>6, <1>7 DEF HistoryInOrder

==============================================================================
