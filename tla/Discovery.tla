------------------------------ MODULE Discovery ------------------------------
(***************************************************************************)
(* A client discovers the servers on a bus and gives them addresses        *)
(* (data/examples/discovery/main.rs, data/src/discovery.rs).               *)
(*                                                                         *)
(* In each round the client broadcasts the addresses it knows, then counts *)
(* the addresses that servers ask for during a window.  An address asked   *)
(* for once becomes known.  The client stops after a round without         *)
(* unreadable replies and without an address asked for twice.              *)
(*                                                                         *)
(* Identify is the set of the addresses whose bit is set, as module        *)
(* AddressSet has it; module Identify is the bitmap.                       *)
(*                                                                         *)
(* Time is kept by two facts of the code: a server answers 900ms after the *)
(* request and subscribes again at once, and the client listens for        *)
(* 1000ms.  So a reply finds the client listening, and when the window     *)
(* ends no server that was asked is still busy.  The margin of 100ms can   *)
(* be missed: up to MaxLate windows end while a server is still busy.      *)
(* Nothing of the kind holds for a server whose task has not started yet.  *)
(***************************************************************************)
EXTENDS Integers, FiniteSets

CONSTANTS
  Servers,
  MAX_ADDRESSES,
  MaxGarbled,      \* bound: replies that collide and fail their MIC
  MaxLate,         \* bound: windows that end before all servers have replied
  None             \* Option::None

Address == 0 .. MAX_ADDRESSES - 1

(* What a server may find in its channel.  It does not look into the reply *)
(* of another server.                                                      *)
Request(taken) == [source |-> "Client", addresses |-> taken]

Reply == [source |-> "Server", addresses |-> {}]

Message == [source : {"Client", "Server"}, addresses : SUBSET Address]

ASSUME DiscoveryAssumption ==
  /\ MAX_ADDRESSES \in Nat \ {0}
  /\ MaxGarbled \in Nat
  /\ MaxLate \in Nat
  /\ None \notin Address \cup Message

VARIABLES
  pc,               \* "send", "subscribe", "window", "done"
  identify,         \* addresses known to the client
  addresses,        \* per address: replies in this window that ask for it
  finished,
  task,             \* per server: "new", "listening", "replying", "ended"
  received,         \* per server: first message since it subscribed, or None
  server_address,   \* per server: Option<u8>
  asked,            \* the servers that heard the last request
  garbled,          \* history: replies garbled so far
  late              \* history: windows that ended too early so far

clientVars == <<pc, identify, addresses, finished>>
serverVars == <<task, received, server_address>>
faultVars == <<garbled, late>>
vars == <<clientVars, serverVars, asked, faultVars>>

Init ==
  /\ pc = "send"
  /\ identify = {0}
  /\ addresses = [a \in Address |-> 0]
  /\ finished = FALSE
  /\ task = [s \in Servers |-> "new"]
  /\ received = [s \in Servers |-> None]
  /\ server_address = [s \in Servers |-> None]
  /\ asked = {}
  /\ garbled = 0
  /\ late = 0

------------------------------------------------------------------------------

Waiting(s) == task[s] = "listening" /\ received[s] = None

(* A server reads one message per subscription, the first. *)
Heard(message) == [s \in Servers |-> IF Waiting(s) THEN message ELSE received[s]]

(* Every server that was asked has answered and listens again. *)
Quiet == \A s \in Servers : task[s] = "new" \/ Waiting(s)

------------------------------------------------------------------------------
(* Client *)

ClientSend ==
  /\ pc = "send"
  /\ received' = Heard(Request(identify))
  /\ asked' = {s \in Servers : Waiting(s)}
  /\ pc' = "subscribe"
  /\ UNCHANGED <<identify, addresses, finished, task, server_address, faultVars>>

(* The client subscribes after it has sent, with no count for any address. *)
ClientSubscribeUnfinished ==
  /\ pc = "subscribe"
  /\ pc' = "window"
  /\ finished' = (garbled = 0)
  /\ addresses' = [a \in Address |-> 0]
  /\ UNCHANGED <<identify, serverVars, asked, faultVars>>

ClientSubscribe ==
  /\ pc = "subscribe"
  /\ pc' = "window"
  /\ finished' = TRUE
  /\ addresses' = [a \in Address |-> 0]
  /\ UNCHANGED <<identify, serverVars, asked, faultVars>>

(* What the window has shown. *)
ConfirmedAtLeastOnce == {a \in Address : addresses[a] > 0}

Confirmed == {a \in Address : addresses[a] = 1}

ConflictsOfThree == {a \in Address : addresses[a] > 2}

Conflicts == {a \in Address : addresses[a] > 1}

(* The window ends in time, or too early. *)
InTime ==
  \/ Quiet /\ UNCHANGED late
  \/ ~Quiet /\ late < MaxLate /\ late' = late + 1

WindowEndsForgetting ==
  /\ pc = "window"
  /\ InTime
  /\ identify' = {0} \cup Confirmed
  /\ finished' = (finished /\ Conflicts = {})
  /\ pc' = IF finished' THEN "done" ELSE "send"
  /\ UNCHANGED <<addresses, serverVars, asked, garbled>>

WindowEnds ==
  /\ pc = "window"
  /\ InTime
  /\ identify' = identify \cup Confirmed
  /\ finished' = (finished /\ Conflicts = {})
  /\ pc' = IF finished' THEN "done" ELSE "send"
  /\ UNCHANGED <<addresses, serverVars, asked, garbled>>

------------------------------------------------------------------------------
(* Server *)

(* server::task is called, for the first time or again. *)
ServerSubscribe(s) ==
  /\ task[s] \in {"new", "ended"}
  /\ task' = [task EXCEPT ![s] = "listening"]
  /\ received' = [received EXCEPT ![s] = None]
  /\ UNCHANGED <<clientVars, server_address, asked, faultVars>>

SpareOneTooMany(taken) == (0 .. MAX_ADDRESSES) \ taken

Spare(taken) == Address \ taken

Asked(s) == task[s] = "listening" /\ received[s] # None /\ received[s].source = "Client"

MustReplyAlways(s) == TRUE

MustReply(s) ==
  server_address[s] = None \/ server_address[s] \notin received[s].addresses

(* The request is answered with an address picked at random from those the *)
(* client does not know.                                                   *)
ServerPicks(s) ==
  /\ Asked(s)
  /\ MustReply(s)
  /\ \E a \in Spare(received[s].addresses) :
       server_address' = [server_address EXCEPT ![s] = a]
  /\ task' = [task EXCEPT ![s] = "replying"]
  /\ UNCHANGED <<clientVars, received, asked, faultVars>>

(* The message is not a request, or the client knows this server, or no    *)
(* address is left.                                                        *)
ServerIgnores(s) ==
  /\ \/ task[s] = "listening" /\ received[s] = Reply
     \/ Asked(s) /\ ~MustReply(s)
     \/ Asked(s) /\ MustReply(s) /\ Spare(received[s].addresses) = {}
  /\ task' = [task EXCEPT ![s] = "ended"]
  /\ UNCHANGED <<clientVars, received, server_address, asked, faultVars>>

(* The reply as the client reads it: counted, unreadable, or, from a       *)
(* server that is late, not at all because the client is not subscribed.   *)
ReplyCounted(s) ==
  /\ pc = "window"
  /\ addresses' = [addresses EXCEPT ![server_address[s]] = @ + 1]
  /\ UNCHANGED <<finished, garbled>>

ReplyGarbled ==
  /\ pc = "window"
  /\ garbled < MaxGarbled
  /\ garbled' = garbled + 1
  /\ finished' = FALSE
  /\ UNCHANGED addresses

ReplyMissed(s) ==
  /\ pc # "window"
  /\ pc = "subscribe" => s \notin asked
  /\ UNCHANGED <<addresses, finished, garbled>>

ServerReplies(s) ==
  /\ task[s] = "replying"
  /\ ReplyCounted(s) \/ ReplyGarbled \/ ReplyMissed(s)
  /\ received' = Heard(Reply)
  /\ task' = [task EXCEPT ![s] = "ended"]
  /\ UNCHANGED <<pc, identify, server_address, asked, late>>

------------------------------------------------------------------------------

Next ==
  \/ ClientSend
  \/ ClientSubscribe
  \/ WindowEnds
  \/ \E s \in Servers :
       ServerSubscribe(s) \/ ServerPicks(s) \/ ServerIgnores(s) \/ ServerReplies(s)

(* The last server to pick in a round gets an address of its own. *)
PicksOwnAddress(s) ==
  /\ ServerPicks(s)
  /\ \A t \in Servers \ {s} :
       ~(Asked(t) /\ MustReply(t)) /\ server_address[t] # server_address'[s]

(* The tasks are scheduled; a task that has not been spawned yet need not  *)
(* be.  The picks are random and independent, so if time and again there   *)
(* is a last server to pick and an address for it alone, then time and     *)
(* again, with probability one, it picks such an address.                  *)
Fairness ==
  /\ WF_vars(ClientSend \/ ClientSubscribe \/ WindowEnds)
  /\ \A s \in Servers :
       /\ WF_vars(task[s] = "ended" /\ ServerSubscribe(s))
       /\ WF_vars(ServerPicks(s) \/ ServerIgnores(s) \/ ServerReplies(s))
  /\ SF_vars(\E s \in Servers : PicksOwnAddress(s))

Spec == Init /\ [][Next]_vars /\ Fairness

------------------------------------------------------------------------------
(* Properties *)

(* Every variable holds a value the code can hold. *)
TypeOK ==
  /\ pc \in {"send", "subscribe", "window", "done"}
  /\ identify \subseteq Address
  /\ addresses \in [Address -> Nat]
  /\ finished \in BOOLEAN
  /\ task \in [Servers -> {"new", "listening", "replying", "ended"}]
  /\ received \in [Servers -> Message \cup {None}]
  /\ server_address \in [Servers -> Address \cup {None}]
  /\ asked \subseteq Servers
  /\ garbled \in Nat
  /\ late \in Nat

SharedAddresses ==
  {server_address[s] : s \in {r \in Servers :
     \E t \in Servers \ {r} : server_address[t] = server_address[r]}} \ {None}

(* As long as no reply is garbled or late, an address the client knows     *)
(* belongs to one server: client::task only sets the address of a single   *)
(* reply, and server::task only keeps an address that the client knows.    *)
KnownIsUnique == garbled = 0 /\ late = 0 => SharedAddresses \cap identify = {}

(* Every address the client knows, except its own, has a server that took  *)
(* it, and no server ever takes the client's address 0, which main         *)
(* reserves in the bitmap that every request of client::task carries.      *)
KnownIsTaken ==
  /\ identify \ {0} \subseteq {server_address[s] : s \in Servers}
  /\ \A s \in Servers : server_address[s] # 0

(* When the client stops, every server that heard its last request has an  *)
(* address the client knows, garbled replies or not, unless no address was *)
(* left or a reply came too late.                                          *)
DoneIsComplete ==
  pc = "done" /\ late = 0 =>
    \A s \in asked : server_address[s] \in identify \/ Spare(identify) = {}

(* Once the client knows a server's address it neither forgets it nor,     *)
(* unless a reply came too late, does the server ever take another.        *)
KnownIsFinal ==
  [][\A s \in Servers :
       server_address[s] \in identify =>
         /\ server_address[s] \in identify'
         /\ late = 0 => server_address[s]' = server_address[s]]_vars

------------------------------------------------------------------------------
(* The inductive invariant behind the safety properties *)

(* A server that has yet to answer a request. *)
Busy(s) == Asked(s) \/ task[s] = "replying"

(* Address 0 is never given away, and only a server that has been asked    *)
(* has an address.                                                         *)
ZeroInv ==
  /\ 0 \in identify
  /\ \A s \in Servers :
       /\ server_address[s] # 0
       /\ task[s] = "new" => server_address[s] = None
       /\ task[s] = "replying" => server_address[s] \in Address
       /\ Asked(s) => 0 \in received[s].addresses

(* The server keeps this address: no request that it may still answer      *)
(* lacks it.                                                               *)
Holds(s, a) == server_address[s] = a /\ (Asked(s) => a \in received[s].addresses)

(* An address that is known, or has been asked for, is held by a server.   *)
HolderInv ==
  \A a \in Address \ {0} :
    a \in identify \/ (pc = "window" /\ addresses[a] > 0) => \E s \in Servers : Holds(s, a)

(* A round without delay: every request that is not answered yet is that   *)
(* of this round, and at its end there is none.                            *)
RoundInv ==
  /\ \A s \in Servers :
       Busy(s) => /\ pc \in {"subscribe", "window"}
                  /\ s \in asked
                  /\ received[s] = Request(identify)
  /\ pc = "send" => Quiet
  /\ pc # "send" => \A s \in Servers \ asked : server_address[s] = None

(* What becomes of the servers that were asked. *)
OutcomeInv ==
  \A s \in asked :
    \/ server_address[s] \in identify
    \/ Spare(identify) = {}
    \/ pc = "send"
    \/ pc \in {"subscribe", "window"} /\ Busy(s)
    \/ /\ pc = "window" /\ server_address[s] \in Address
       /\ finished => addresses[server_address[s]] > 0

(* The servers that ask for an address and have replied are counted, as    *)
(* far as it matters.                                                      *)
Takers(a) == {s \in Servers : server_address[s] = a /\ ~Busy(s)}

CountInv ==
  /\ \A a \in Spare(identify) :
       /\ pc = "subscribe" \/ (pc = "window" /\ addresses[a] = 0) => Takers(a) = {}
       /\ pc = "window" /\ addresses[a] = 1 => \A s, t \in Takers(a) : s = t
  /\ \A s, t \in Servers :
       server_address[s] = server_address[t] /\ server_address[s] \in identify => s = t

IInv ==
  /\ TypeOK
  /\ ZeroInv
  /\ HolderInv
  /\ late = 0 => RoundInv /\ OutcomeInv
  /\ late = 0 /\ garbled = 0 => CountInv

------------------------------------------------------------------------------

(* More servers have been started than the client can still tell apart. *)
Crowded ==
  Cardinality({s \in Servers : task[s] # "new" /\ server_address[s] \notin identify})
    > Cardinality(Spare(identify))

(* The loop around client::task ends, whatever collides, is garbled or     *)
(* comes late, unless there are too many servers for the addresses.        *)
DiscoveryEnds == <>(pc = "done") \/ <>[]Crowded

(* README.md, Server discovery: the process continues until there are no   *)
(* more invalid MICs and no more address conflicts.  A garbled reply and a *)
(* readable one may ask for the same address; client::task counts one.     *)
NoConflictsWhenDone == pc = "done" => SharedAddresses = {}

==============================================================================
