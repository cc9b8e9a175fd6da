--------------------------- MODULE DiscoveryProofs ---------------------------
(***************************************************************************)
(* Server discovery, for every number of servers and addresses and any     *)
(* number of garbled and late replies (data/examples/discovery/main.rs).   *)
(***************************************************************************)
EXTENDS Discovery, TLAPS

(* What a broadcast on the bus leaves with the servers. *)
LEMMA HeardFacts ==
  ASSUME TypeOK, NEW message \in Message
  PROVE  /\ Heard(message) \in [Servers -> Message \cup {None}]
         /\ \A s \in Servers :
              Heard(message)[s] = IF Waiting(s) THEN message ELSE received[s]
BY DEF TypeOK, Heard

LEMMA RequestFacts ==
  ASSUME TypeOK
  PROVE  /\ Request(identify) \in Message /\ Reply \in Message
         /\ Request(identify) # None /\ Reply # None
         /\ Request(identify).source = "Client" /\ Request(identify).addresses = identify
         /\ Reply.source = "Server"
<1>1. Request(identify) \in Message /\ Reply \in Message
  BY DEF TypeOK, Request, Reply, Message
<1>2. None \notin Message
  BY DiscoveryAssumption
<1> QED BY <1>1, <1>2 DEF Request, Reply

(* No server is busy when all of them wait. *)
LEMMA QuietFacts ==
  ASSUME TypeOK, ZeroInv, Quiet
  PROVE  \A s \in Servers : ~Busy(s)
BY DEF Quiet, Busy, Asked, Waiting

LEMMA InitInv ==
  Init => IInv
<1> SUFFICES ASSUME Init
             PROVE  IInv
  OBVIOUS
<1>1. 0 \in Address
  BY DiscoveryAssumption DEF Address
<1>2. None # 0
  BY <1>1, DiscoveryAssumption
<1>3. \A s \in Servers : /\ task[s] = "new" /\ received[s] = None /\ server_address[s] = None
                         /\ ~Busy(s) /\ ~Asked(s)
  BY DEF Init, Busy, Asked
<1>4. TypeOK
  BY <1>1 DEF Init, TypeOK
<1>5. ZeroInv
  BY <1>2, <1>3 DEF Init, ZeroInv
<1>6. HolderInv
  BY DEF Init, HolderInv
<1>7. RoundInv /\ OutcomeInv
  BY <1>3 DEF Init, RoundInv, OutcomeInv, Quiet
<1>8. CountInv
  BY <1>2, <1>3, DiscoveryAssumption DEF Init, CountInv
<1> QED BY <1>4, <1>5, <1>6, <1>7, <1>8 DEF IInv

LEMMA SendKeepsInv ==
  ASSUME IInv, ClientSend
  PROVE  IInv'
<1>1. /\ pc = "send" /\ pc' = "subscribe"
      /\ received' = Heard(Request(identify))
      /\ asked' = {s \in Servers : Waiting(s)}
      /\ identify' = identify /\ addresses' = addresses /\ finished' = finished
      /\ task' = task /\ server_address' = server_address
      /\ garbled' = garbled /\ late' = late
  BY DEF ClientSend, faultVars
<1>2. TypeOK /\ ZeroInv /\ HolderInv
  BY DEF IInv
<1>3. /\ received' \in [Servers -> Message \cup {None}]
      /\ \A s \in Servers :
           received'[s] = IF Waiting(s) THEN Request(identify) ELSE received[s]
  BY <1>1, <1>2, HeardFacts, RequestFacts
<1>4. \A s \in Servers :
        /\ Waiting(s) => Asked(s)' /\ received'[s].addresses = identify
        /\ ~Waiting(s) => (Asked(s)' <=> Asked(s)) /\ received'[s] = received[s]
  BY <1>1, <1>2, <1>3, RequestFacts DEF Asked, Waiting
<1>5. TypeOK'
  BY <1>1, <1>2, <1>3 DEF TypeOK
<1>6. ZeroInv'
  BY <1>1, <1>2, <1>4 DEF ZeroInv
<1>7. HolderInv'
  BY <1>1, <1>2, <1>4 DEF HolderInv, Holds
<1>8. ASSUME late = 0
      PROVE  RoundInv' /\ OutcomeInv' /\ (garbled = 0 => CountInv')
  <2>1. Quiet
    BY <1>1, <1>8 DEF IInv, RoundInv
  <2>2. \A s \in Servers :
          \/ task[s] = "new" /\ server_address[s] = None /\ ~Waiting(s)
          \/ task[s] = "listening" /\ Waiting(s)
    BY <1>2, <2>1 DEF Quiet, ZeroInv, Waiting
  <2>3. \A s \in Servers : /\ s \in asked' <=> Waiting(s)
                           /\ s \in asked' <=> Busy(s)'
                           /\ s \in asked' => received'[s] = Request(identify)
                           /\ s \notin asked' => server_address[s] = None
    BY <1>1, <1>3, <1>4, <2>2 DEF Busy, Asked
  <2>4. RoundInv'
    BY <1>1, <2>3 DEF RoundInv, Request
  <2>5. OutcomeInv'
    BY <1>1, <2>3 DEF OutcomeInv
  <2>6. ASSUME garbled = 0
        PROVE  CountInv'
    <3>1. CountInv
      BY <1>8, <2>6 DEF IInv
    <3>2. \A a \in Spare(identify) : Takers(a)' = {}
      BY <1>1, <2>3, DiscoveryAssumption DEF Spare, Takers
    <3> QED BY <1>1, <3>1, <3>2 DEF CountInv, Spare
  <2> QED BY <2>4, <2>5, <2>6
<1> QED BY <1>1, <1>5, <1>6, <1>7, <1>8 DEF IInv

LEMMA SubscribeKeepsInv ==
  ASSUME IInv, ClientSubscribe
  PROVE  IInv'
<1>1. /\ pc = "subscribe" /\ pc' = "window" /\ finished' = TRUE
      /\ addresses' = [a \in Address |-> 0]
      /\ identify' = identify /\ asked' = asked /\ garbled' = garbled /\ late' = late
      /\ task' = task /\ received' = received /\ server_address' = server_address
  BY DEF ClientSubscribe, serverVars, faultVars
<1>2. TypeOK /\ ZeroInv /\ HolderInv
  BY DEF IInv
<1>3. TypeOK'
  BY <1>1, <1>2 DEF TypeOK
<1>4. ZeroInv'
  BY <1>1, <1>2 DEF ZeroInv, Asked
<1>5. HolderInv'
  BY <1>1, <1>2 DEF HolderInv, Holds, Asked
<1>6. ASSUME late = 0
      PROVE  RoundInv' /\ OutcomeInv' /\ (garbled = 0 => CountInv')
  <2>1. RoundInv'
    BY <1>1, <1>6 DEF IInv, RoundInv, Busy, Asked
  <2>2. OutcomeInv'
    BY <1>1, <1>6 DEF IInv, OutcomeInv, Busy, Asked
  <2>3. garbled = 0 => CountInv'
    BY <1>1, <1>6 DEF IInv, CountInv, Takers, Busy, Asked, Spare
  <2> QED BY <2>1, <2>2, <2>3
<1> QED BY <1>1, <1>3, <1>4, <1>5, <1>6 DEF IInv

LEMMA WindowEndsKeepsInv ==
  ASSUME IInv, WindowEnds
  PROVE  IInv'
<1>1. /\ pc = "window" /\ InTime
      /\ identify' = identify \cup Confirmed
      /\ finished' = (finished /\ Conflicts = {})
      /\ pc' = IF finished' THEN "done" ELSE "send"
      /\ addresses' = addresses /\ asked' = asked /\ garbled' = garbled
      /\ task' = task /\ received' = received /\ server_address' = server_address
  BY DEF WindowEnds, serverVars
<1>2. TypeOK /\ ZeroInv /\ HolderInv
  BY DEF IInv
<1>3. late' \in Nat /\ (late' = 0 => late = 0 /\ Quiet)
  BY <1>1, <1>2 DEF InTime, TypeOK
<1>4. Confirmed \subseteq Address /\ \A a \in Confirmed : addresses[a] = 1
  BY DEF Confirmed
<1>5. TypeOK'
  BY <1>1, <1>2, <1>3, <1>4 DEF TypeOK
<1>6. ZeroInv'
  BY <1>1, <1>2 DEF ZeroInv, Asked
<1>7. HolderInv'
  BY <1>1, <1>2, <1>4 DEF HolderInv, Holds, Asked
<1>8. ASSUME late' = 0
      PROVE  RoundInv' /\ OutcomeInv' /\ (garbled = 0 => CountInv')
  <2>1. RoundInv /\ OutcomeInv /\ Quiet
    BY <1>3, <1>8 DEF IInv
  <2>2. \A s \in Servers : ~Busy(s) /\ ~Busy(s)'
    BY <1>1, <1>2, <2>1, QuietFacts DEF Busy, Asked
  <2>3. RoundInv'
    BY <1>1, <2>1, <2>2 DEF RoundInv, Quiet, Waiting
  <2>4. OutcomeInv'
    <3> SUFFICES ASSUME NEW s \in asked, pc' = "done",
                        server_address[s] \notin identify, Spare(identify) # {}
                 PROVE  server_address[s] \in Confirmed
      BY <1>1 DEF OutcomeInv, Spare
    <3>1. finished /\ Conflicts = {}
      BY <1>1
    <3>2. s \in Servers
      BY <1>2 DEF TypeOK
    <3>3. server_address[s] \in Address /\ addresses[server_address[s]] > 0
      BY <1>1, <2>1, <2>2, <3>1, <3>2 DEF OutcomeInv
    <3>4. addresses[server_address[s]] \in Nat /\ ~(addresses[server_address[s]] > 1)
      BY <1>2, <3>1, <3>3 DEF Conflicts, TypeOK
    <3> QED BY <3>3, <3>4 DEF Confirmed
  <2>5. ASSUME garbled = 0
        PROVE  CountInv'
    <3>1. CountInv
      BY <1>3, <1>8, <2>5 DEF IInv
    <3>2. ASSUME NEW s \in Servers, NEW t \in Servers,
                 server_address[s] = server_address[t],
                 server_address[s] \in identify \cup Confirmed
          PROVE  s = t
      <4>1. CASE server_address[s] \in identify
        BY <3>1, <3>2, <4>1 DEF CountInv
      <4>2. CASE server_address[s] \notin identify
        <5>1. /\ server_address[s] \in Spare(identify)
              /\ addresses[server_address[s]] = 1
          BY <1>4, <3>2, <4>2 DEF Spare
        <5>2. s \in Takers(server_address[s]) /\ t \in Takers(server_address[s])
          BY <2>2, <3>2 DEF Takers
        <5> QED BY <1>1, <3>1, <5>1, <5>2 DEF CountInv
      <4> QED BY <4>1, <4>2
    <3>3. pc' \in {"send", "done"}
      BY <1>1
    <3> QED BY <1>1, <3>2, <3>3 DEF CountInv
  <2> QED BY <2>3, <2>4, <2>5
<1> QED BY <1>1, <1>5, <1>6, <1>7, <1>8 DEF IInv

(* A server that starts to listen, for the first time or again, has        *)
(* nothing to answer.                                                      *)
LEMMA ServerSubscribeKeepsInv ==
  ASSUME IInv, NEW s \in Servers, ServerSubscribe(s)
  PROVE  IInv'
<1>1. /\ task[s] \in {"new", "ended"}
      /\ task' = [task EXCEPT ![s] = "listening"]
      /\ received' = [received EXCEPT ![s] = None]
      /\ UNCHANGED <<pc, identify, addresses, finished, server_address, asked, garbled, late>>
  BY DEF ServerSubscribe, clientVars, faultVars
<1>2. TypeOK /\ ZeroInv /\ HolderInv
  BY DEF IInv
<1>3. /\ ~Asked(s) /\ ~Busy(s) /\ ~Asked(s)' /\ ~Busy(s)' /\ Waiting(s)'
      /\ \A t \in Servers \ {s} :
           /\ task'[t] = task[t] /\ received'[t] = received[t]
           /\ Asked(t)' <=> Asked(t)
           /\ Busy(t)' <=> Busy(t)
           /\ Waiting(t)' <=> Waiting(t)
  BY <1>1, <1>2 DEF TypeOK, Asked, Busy, Waiting
<1>4. TypeOK'
  BY <1>1, <1>2 DEF TypeOK
<1>5. ZeroInv'
  BY <1>1, <1>2, <1>3 DEF ZeroInv, TypeOK
<1>6. HolderInv'
  BY <1>1, <1>2, <1>3 DEF HolderInv, Holds
<1>7. ASSUME late = 0
      PROVE  RoundInv' /\ OutcomeInv' /\ (garbled = 0 => CountInv')
  <2>1. RoundInv'
    BY <1>1, <1>3, <1>7 DEF IInv, RoundInv, Quiet
  <2>2. OutcomeInv'
    BY <1>1, <1>2, <1>3, <1>7 DEF IInv, OutcomeInv, TypeOK
  <2>3. ASSUME garbled = 0
        PROVE  CountInv'
    <3>1. \A a \in Address : Takers(a)' = Takers(a)
      BY <1>1, <1>3 DEF Takers
    <3> QED BY <1>1, <1>7, <2>3, <3>1 DEF IInv, CountInv, Spare
  <2> QED BY <2>1, <2>2, <2>3
<1> QED BY <1>1, <1>4, <1>5, <1>6, <1>7 DEF IInv

(* A server only picks an address that its request does not name. *)
LEMMA PickKeepsInv ==
  ASSUME IInv, NEW s \in Servers, ServerPicks(s)
  PROVE  IInv'
<1>1. PICK a \in Spare(received[s].addresses) :
        server_address' = [server_address EXCEPT ![s] = a]
  BY DEF ServerPicks
<1>2. /\ Asked(s) /\ MustReply(s)
      /\ task' = [task EXCEPT ![s] = "replying"]
      /\ UNCHANGED <<pc, identify, addresses, finished, received, asked, garbled, late>>
  BY DEF ServerPicks, clientVars, faultVars
<1>3. TypeOK /\ ZeroInv /\ HolderInv
  BY DEF IInv
<1>4. a \in Address /\ a \notin received[s].addresses /\ a # 0
  BY <1>2, <1>3 DEF Spare, ZeroInv
<1>5. /\ Busy(s) /\ ~Asked(s)' /\ Busy(s)' /\ task'[s] = "replying" /\ server_address'[s] = a
      /\ \A t \in Servers \ {s} :
           /\ task'[t] = task[t] /\ server_address'[t] = server_address[t]
           /\ Asked(t)' <=> Asked(t)
           /\ Busy(t)' <=> Busy(t)
  BY <1>1, <1>2, <1>3 DEF TypeOK, Asked, Busy
<1>6. TypeOK'
  BY <1>1, <1>2, <1>3, <1>4 DEF TypeOK
<1>7. ZeroInv'
  BY <1>2, <1>3, <1>4, <1>5 DEF ZeroInv
<1>8. HolderInv'
  <2> SUFFICES ASSUME NEW b \in Address \ {0},
                      b \in identify \/ (pc = "window" /\ addresses[b] > 0)
               PROVE  \E t \in Servers : Holds(t, b)'
    BY <1>2 DEF HolderInv
  <2>1. PICK t \in Servers : Holds(t, b)
    BY <1>3 DEF HolderInv
  <2>2. t # s
    BY <1>2, <2>1, DiscoveryAssumption DEF Holds, MustReply
  <2>3. Holds(t, b)'
    BY <1>2, <1>5, <2>1, <2>2 DEF Holds
  <2> QED BY <2>3
<1>9. ASSUME late = 0
      PROVE  RoundInv' /\ OutcomeInv' /\ (garbled = 0 => CountInv')
  <2>1. RoundInv /\ OutcomeInv
    BY <1>9 DEF IInv
  <2>2. pc \in {"subscribe", "window"} /\ s \in asked /\ received[s].addresses = identify
    BY <1>5, <2>1 DEF RoundInv, Request
  <2>3. RoundInv'
    BY <1>2, <1>5, <2>1, <2>2 DEF RoundInv
  <2>4. OutcomeInv'
    BY <1>2, <1>3, <1>5, <2>1, <2>2 DEF OutcomeInv, TypeOK
  <2>5. ASSUME garbled = 0
        PROVE  CountInv'
    <3>1. CountInv
      BY <1>9, <2>5 DEF IInv
    <3>2. \A b \in Address : Takers(b)' = Takers(b)
      BY <1>2, <1>5 DEF Takers
    <3>3. a \notin identify
      BY <1>4, <2>2
    <3> QED BY <1>2, <1>5, <3>1, <3>2, <3>3 DEF CountInv, Spare
  <2> QED BY <2>3, <2>4, <2>5
<1> QED BY <1>2, <1>6, <1>7, <1>8, <1>9 DEF IInv

LEMMA IgnoreKeepsInv ==
  ASSUME IInv, NEW s \in Servers, ServerIgnores(s)
  PROVE  IInv'
<1>1. /\ \/ task[s] = "listening" /\ received[s] = Reply
         \/ Asked(s) /\ ~MustReply(s)
         \/ Asked(s) /\ MustReply(s) /\ Spare(received[s].addresses) = {}
      /\ task' = [task EXCEPT ![s] = "ended"]
      /\ UNCHANGED <<pc, identify, addresses, finished, received, server_address, asked,
                     garbled, late>>
  BY DEF ServerIgnores, clientVars, faultVars
<1>2. TypeOK /\ ZeroInv /\ HolderInv
  BY DEF IInv
<1>3. /\ task[s] = "listening" /\ ~Waiting(s) /\ task'[s] = "ended" /\ ~Asked(s)' /\ ~Busy(s)'
      /\ \A t \in Servers \ {s} :
           /\ task'[t] = task[t]
           /\ Asked(t)' <=> Asked(t)
           /\ Busy(t)' <=> Busy(t)
  BY <1>1, <1>2, RequestFacts DEF TypeOK, Asked, Busy, Waiting
<1>4. TypeOK'
  BY <1>1, <1>2 DEF TypeOK
<1>5. ZeroInv'
  BY <1>1, <1>2, <1>3 DEF ZeroInv
<1>6. HolderInv'
  BY <1>1, <1>2, <1>3 DEF HolderInv, Holds
<1>7. ASSUME late = 0
      PROVE  RoundInv' /\ OutcomeInv' /\ (garbled = 0 => CountInv')
  <2>1. RoundInv /\ OutcomeInv
    BY <1>7 DEF IInv
  <2>2. pc # "send"
    BY <1>3, <2>1 DEF RoundInv, Quiet
  <2>3. Busy(s) => server_address[s] \in identify \/ Spare(identify) = {}
    <3>1. SUFFICES ASSUME Busy(s)
                   PROVE  server_address[s] \in identify \/ Spare(identify) = {}
      OBVIOUS
    <3>2. received[s].addresses = identify /\ received[s] # Reply
      BY <1>2, <2>1, <3>1, RequestFacts DEF RoundInv
    <3> QED BY <1>1, <3>2 DEF MustReply
  <2>4. RoundInv'
    BY <1>1, <1>3, <2>1, <2>2 DEF RoundInv
  <2>5. OutcomeInv'
    BY <1>1, <1>2, <1>3, <2>1, <2>3 DEF OutcomeInv, TypeOK
  <2>6. ASSUME garbled = 0
        PROVE  CountInv'
    <3>1. CountInv
      BY <1>7, <2>6 DEF IInv
    <3>2. \A a \in Spare(identify) : Takers(a)' = Takers(a)
      <4>1. ASSUME NEW a \in Spare(identify), server_address[s] = a
            PROVE  ~Busy(s)
        BY <2>3, <4>1 DEF Spare
      <4> QED BY <1>1, <1>3, <4>1 DEF Takers
    <3> QED BY <1>1, <3>1, <3>2 DEF CountInv, Spare
  <2> QED BY <2>4, <2>5, <2>6
<1> QED BY <1>1, <1>4, <1>5, <1>6, <1>7 DEF IInv

(* The bus carries a server's reply to the client and to the servers that  *)
(* listen.                                                                 *)
LEMMA ReplyFacts ==
  ASSUME IInv, NEW s \in Servers, ServerReplies(s)
  PROVE  /\ received' \in [Servers -> Message \cup {None}]
         /\ Busy(s) /\ ~Asked(s) /\ ~Asked(s)' /\ ~Busy(s)' /\ task'[s] = "ended"
         /\ \A t \in Servers \ {s} :
              /\ task'[t] = task[t]
              /\ Asked(t)' <=> Asked(t)
              /\ Busy(t)' <=> Busy(t)
         /\ \A t \in Servers : ~Waiting(t) => received'[t] = received[t]
<1>1. /\ task[s] = "replying" /\ received' = Heard(Reply)
      /\ task' = [task EXCEPT ![s] = "ended"]
  BY DEF ServerReplies
<1>2. TypeOK
  BY DEF IInv
<1>3. /\ received' \in [Servers -> Message \cup {None}]
      /\ \A t \in Servers : received'[t] = IF Waiting(t) THEN Reply ELSE received[t]
  BY <1>1, <1>2, HeardFacts, RequestFacts
<1>4. /\ task'[s] = "ended"
      /\ \A t \in Servers \ {s} : task'[t] = task[t]
  BY <1>1, <1>2 DEF TypeOK
<1>5. ASSUME NEW t \in Servers \ {s}
      PROVE  Asked(t)' <=> Asked(t)
  <2>1. CASE Waiting(t)
    BY <1>2, <1>3, <1>4, <2>1, RequestFacts DEF Asked, Waiting
  <2>2. CASE ~Waiting(t)
    BY <1>3, <1>4, <2>2 DEF Asked
  <2> QED BY <2>1, <2>2
<1> QED BY <1>1, <1>3, <1>4, <1>5 DEF Busy, Asked

LEMMA ReplyKeepsInv ==
  ASSUME IInv, NEW s \in Servers, ServerReplies(s)
  PROVE  IInv'
<1>1. /\ task[s] = "replying" /\ task' = [task EXCEPT ![s] = "ended"]
      /\ ReplyCounted(s) \/ ReplyGarbled \/ ReplyMissed(s)
      /\ UNCHANGED <<pc, identify, server_address, asked, late>>
  BY DEF ServerReplies
<1>2. TypeOK /\ ZeroInv /\ HolderInv
  BY DEF IInv
<1>3. /\ Busy(s) /\ ~Asked(s) /\ ~Asked(s)' /\ ~Busy(s)' /\ task'[s] = "ended"
      /\ \A t \in Servers \ {s} :
           /\ task'[t] = task[t]
           /\ Asked(t)' <=> Asked(t)
           /\ Busy(t)' <=> Busy(t)
      /\ \A t \in Servers : ~Waiting(t) => received'[t] = received[t]
      /\ \A t \in Servers : Busy(t) => received'[t] = received[t]
      /\ \A t \in Servers : Asked(t) => received'[t] = received[t]
  BY ReplyFacts DEF Busy, Asked, Waiting
<1>4. server_address[s] \in Address /\ server_address[s] # 0
  BY <1>1, <1>2 DEF ZeroInv
<1>5. /\ addresses' \in [Address -> Nat] /\ finished' \in BOOLEAN /\ garbled' \in Nat
      /\ \A a \in Address \ {server_address[s]} : addresses'[a] = addresses[a]
      /\ garbled' = 0 => garbled = 0
      /\ finished' => finished
  <2>1. addresses \in [Address -> Nat] /\ finished \in BOOLEAN /\ garbled \in Nat
    BY <1>2 DEF TypeOK
  <2>2. CASE ReplyCounted(s)
    <3>1. /\ addresses' = [addresses EXCEPT ![server_address[s]] = @ + 1]
          /\ finished' = finished /\ garbled' = garbled
      BY <2>2 DEF ReplyCounted
    <3>2. addresses' \in [Address -> Nat]
      BY <1>4, <2>1, <3>1
    <3>3. \A a \in Address \ {server_address[s]} : addresses'[a] = addresses[a]
      BY <2>1, <3>1
    <3> QED BY <2>1, <3>1, <3>2, <3>3
  <2>3. CASE ReplyGarbled
    <3>1. garbled' = garbled + 1 /\ finished' = FALSE /\ addresses' = addresses
      BY <2>3 DEF ReplyGarbled
    <3>2. garbled' \in Nat /\ garbled' # 0
      BY <2>1, <3>1
    <3> QED BY <2>1, <3>1, <3>2
  <2>4. CASE ReplyMissed(s)
    BY <2>1, <2>4 DEF ReplyMissed
  <2> QED BY <1>1, <2>2, <2>3, <2>4
<1>6. TypeOK'
  BY <1>1, <1>2, <1>5, ReplyFacts DEF TypeOK
<1>7. ZeroInv'
  BY <1>1, <1>2, <1>3 DEF ZeroInv
<1>8. HolderInv'
  <2> SUFFICES ASSUME NEW b \in Address \ {0},
                      b \in identify \/ (pc = "window" /\ addresses'[b] > 0)
               PROVE  \E t \in Servers : Holds(t, b)'
    BY <1>1 DEF HolderInv
  <2>1. \A t \in Servers : Holds(t, b) => Holds(t, b)'
    BY <1>1, <1>3 DEF Holds
  <2>2. CASE b = server_address[s]
    BY <1>1, <1>3, <2>2 DEF Holds
  <2>3. CASE b # server_address[s]
    BY <1>2, <1>5, <2>1, <2>3 DEF HolderInv
  <2> QED BY <2>2, <2>3
<1>9. ASSUME late = 0
      PROVE  RoundInv' /\ OutcomeInv' /\ (garbled' = 0 => CountInv')
  <2>1. RoundInv /\ OutcomeInv
    BY <1>9 DEF IInv
  <2>2. pc = "window" /\ s \in asked
    BY <1>1, <1>3, <2>1 DEF RoundInv, ReplyCounted, ReplyGarbled, ReplyMissed
  <2>3. RoundInv'
    BY <1>1, <1>3, <2>1, <2>2 DEF RoundInv
  <2>4. \/ addresses' = [addresses EXCEPT ![server_address[s]] = @ + 1] /\ garbled' = garbled
        \/ ~finished' /\ garbled' # 0 /\ addresses' = addresses
    BY <1>1, <1>2, <2>2 DEF ReplyCounted, ReplyGarbled, ReplyMissed, TypeOK
  <2>5. finished' => addresses'[server_address[s]] > 0
    BY <1>2, <1>4, <2>4 DEF TypeOK
  <2>6. OutcomeInv'
    <3> SUFFICES ASSUME NEW t \in asked,
                        server_address[t] \notin identify, Spare(identify) # {}, ~Busy(t)'
                 PROVE  /\ server_address[t] \in Address
                        /\ finished' => addresses'[server_address[t]] > 0
      BY <1>1, <2>2 DEF OutcomeInv, Spare
    <3>1. t \in Servers
      BY <1>2 DEF TypeOK
    <3>2. CASE server_address[t] = server_address[s]
      BY <1>4, <2>5, <3>2
    <3>3. CASE server_address[t] # server_address[s]
      <4>1. /\ server_address[t] \in Address
            /\ finished => addresses[server_address[t]] > 0
        BY <1>3, <2>1, <2>2, <3>1, <3>3 DEF OutcomeInv
      <4> QED BY <1>5, <3>3, <4>1
    <3> QED BY <3>2, <3>3
  <2>7. ASSUME garbled' = 0
        PROVE  CountInv'
    <3>1. CountInv
      BY <1>5, <1>9, <2>7 DEF IInv
    <3>2. addresses' = [addresses EXCEPT ![server_address[s]] = @ + 1]
      BY <2>4, <2>7
    <3>3. \A a \in Address : Takers(a)' = Takers(a) \cup {t \in {s} : server_address[t] = a}
      BY <1>1, <1>3 DEF Takers
    <3>4. ASSUME NEW a \in Spare(identify)
          PROVE  /\ addresses'[a] = 0 => Takers(a)' = {}
                 /\ addresses'[a] = 1 => \A t, u \in Takers(a)' : t = u
      <4>1. a \in Address /\ addresses[a] \in Nat
        BY <1>2 DEF Spare, TypeOK
      <4>2. CASE a = server_address[s]
        <5>1. addresses'[a] = addresses[a] + 1
          BY <1>2, <3>2, <4>1, <4>2 DEF TypeOK
        <5>2. Takers(a)' = Takers(a) \cup {s}
          BY <3>3, <4>1, <4>2
        <5>3. addresses[a] = 0 => Takers(a) = {}
          BY <2>2, <3>1 DEF CountInv
        <5> QED BY <4>1, <5>1, <5>2, <5>3
      <4>3. CASE a # server_address[s]
        <5>1. addresses'[a] = addresses[a] /\ Takers(a)' = Takers(a)
          BY <1>5, <3>3, <4>1, <4>3
        <5> QED BY <2>2, <3>1, <5>1 DEF CountInv
      <4> QED BY <4>2, <4>3
    <3>5. \A a \in Spare(identify) : /\ addresses'[a] = 0 => Takers(a)' = {}
                                     /\ addresses'[a] = 1 => \A t, u \in Takers(a)' : t = u
      BY <3>4
    <3> QED BY <1>1, <2>2, <3>1, <3>5 DEF CountInv, Spare
  <2> QED BY <2>3, <2>6, <2>7
<1> QED BY <1>1, <1>6, <1>7, <1>8, <1>9, <1>5 DEF IInv

LEMMA NextInv ==
  IInv /\ [Next]_vars => IInv'
<1> SUFFICES ASSUME IInv, [Next]_vars
             PROVE  IInv'
  OBVIOUS
<1>1. CASE ClientSend
  BY <1>1, SendKeepsInv
<1>2. CASE ClientSubscribe
  BY <1>2, SubscribeKeepsInv
<1>3. CASE WindowEnds
  BY <1>3, WindowEndsKeepsInv
<1>4. ASSUME NEW s \in Servers, ServerSubscribe(s)
      PROVE  IInv'
  BY <1>4, ServerSubscribeKeepsInv
<1>5. ASSUME NEW s \in Servers, ServerPicks(s)
      PROVE  IInv'
  BY <1>5, PickKeepsInv
<1>6. ASSUME NEW s \in Servers, ServerIgnores(s)
      PROVE  IInv'
  BY <1>6, IgnoreKeepsInv
<1>7. ASSUME NEW s \in Servers, ServerReplies(s)
      PROVE  IInv'
  BY <1>7, ReplyKeepsInv
<1>8. CASE UNCHANGED vars
  <2>1. UNCHANGED <<pc, identify, addresses, finished, task, received, server_address, asked,
                    garbled, late>>
    BY <1>8 DEF vars, clientVars, serverVars, faultVars
  <2>2. TypeOK' /\ ZeroInv' /\ HolderInv'
    BY <2>1 DEF IInv, TypeOK, ZeroInv, HolderInv, Holds, Asked
  <2>3. late = 0 => RoundInv' /\ OutcomeInv'
    BY <2>1 DEF IInv, RoundInv, OutcomeInv, Quiet, Waiting, Busy, Asked
  <2>4. late = 0 /\ garbled = 0 => CountInv'
    BY <2>1 DEF IInv, CountInv, Takers, Busy, Asked
  <2> QED BY <2>1, <2>2, <2>3, <2>4 DEF IInv
<1> QED BY <1>1, <1>2, <1>3, <1>4, <1>5, <1>6, <1>7, <1>8 DEF Next

(* Every known address is held by a server, and in a round without delay   *)
(* the client's counts account for every server that it asked.             *)
THEOREM DiscoveryInvariance ==
  Spec => []IInv
BY InitInv, NextInv, PTL DEF Spec

(* The types of client and servers: a server only ever takes an address    *)
(* that the bitmap has a bit for.                                          *)
THEOREM DiscoveryTypeCorrect ==
  Spec => []TypeOK
<1>1. IInv => TypeOK
  BY DEF IInv
<1> QED BY <1>1, DiscoveryInvariance, PTL

(* client::task never learns an address of two servers, as long as no      *)
(* reply is garbled or late.                                               *)
THEOREM UniqueAddresses ==
  Spec => []KnownIsUnique
<1>1. IInv => KnownIsUnique
  BY DEF IInv, CountInv, KnownIsUnique, SharedAddresses
<1> QED BY <1>1, DiscoveryInvariance, PTL

(* client::task only learns addresses that a server has taken and keeps,   *)
(* and no server::task takes the client's, however many replies are        *)
(* garbled, late or missed.                                                *)
THEOREM TakenAddresses ==
  Spec => []KnownIsTaken
<1>1. IInv => KnownIsTaken
  <2> SUFFICES ASSUME IInv PROVE KnownIsTaken
    OBVIOUS
  <2>1. ASSUME NEW a \in identify \ {0}
        PROVE  \E s \in Servers : server_address[s] = a
    <3>1. a \in Address \ {0}
      BY DEF IInv, TypeOK
    <3> QED BY <3>1 DEF IInv, HolderInv, Holds
  <2>2. \A s \in Servers : server_address[s] # 0
    BY DEF IInv, ZeroInv
  <2> QED BY <2>1, <2>2 DEF KnownIsTaken
<1> QED BY <1>1, DiscoveryInvariance, PTL

(* When the loop around client::task ends it has found every server that   *)
(* heard its last request, however many replies were garbled before.       *)
THEOREM CompleteWhenDone ==
  Spec => []DoneIsComplete
<1>1. IInv => DoneIsComplete
  BY DEF IInv, OutcomeInv, DoneIsComplete
<1> QED BY <1>1, DiscoveryInvariance, PTL

(* A known address is not forgotten by client::task, nor left by the       *)
(* server::task that holds it.                                             *)
THEOREM FinalAddresses ==
  Spec => KnownIsFinal
<1> DEFINE Final ==
      \A s \in Servers :
        server_address[s] \in identify =>
          /\ server_address[s] \in identify'
          /\ late = 0 => server_address[s]' = server_address[s]
<1>1. IInv /\ [Next]_vars => Final \/ UNCHANGED vars
  <2> SUFFICES ASSUME IInv, Next, NEW s \in Servers, server_address[s] \in identify
               PROVE  /\ server_address[s] \in identify'
                      /\ late = 0 => server_address'[s] = server_address[s]
    OBVIOUS
  <2>1. CASE ClientSend \/ ClientSubscribe \/ WindowEnds
    BY <2>1 DEF ClientSend, ClientSubscribe, WindowEnds, serverVars
  <2>2. ASSUME NEW t \in Servers, ServerSubscribe(t) \/ ServerIgnores(t) \/ ServerReplies(t)
        PROVE  UNCHANGED <<identify, server_address>>
    BY <2>2 DEF ServerSubscribe, ServerIgnores, ServerReplies, clientVars
  <2>3. ASSUME NEW t \in Servers, ServerPicks(t)
        PROVE  identify' = identify /\ (late = 0 => server_address'[s] = server_address[s])
    <3>1. PICK a \in Spare(received[t].addresses) :
            server_address' = [server_address EXCEPT ![t] = a]
      BY <2>3 DEF ServerPicks
    <3>2. identify' = identify /\ Asked(t) /\ MustReply(t)
      BY <2>3 DEF ServerPicks, clientVars
    <3>3. late = 0 => received[t].addresses = identify
      BY <3>2 DEF IInv, RoundInv, Busy, Request
    <3>4. server_address[s] # None
      BY DiscoveryAssumption DEF IInv, TypeOK
    <3>5. late = 0 => t # s
      BY <3>2, <3>3, <3>4 DEF MustReply
    <3> QED BY <3>1, <3>2, <3>5 DEF IInv, TypeOK
  <2> QED BY <2>1, <2>2, <2>3 DEF Next
<1>2. IInv /\ [Next]_vars => [Final]_vars
  BY <1>1
<1>3. KnownIsFinal <=> [][Final]_vars
  BY DEF KnownIsFinal
<1> QED BY <1>2, <1>3, DiscoveryInvariance, PTL DEF Spec

==============================================================================
