------------------------------- MODULE FlipFlop -------------------------------
(***************************************************************************)
(* One client and one server of the examples over UDP.                     *)
(*                                                                         *)
(* The network is the set of datagrams sent so far.  Receiving does not    *)
(* remove one, so a datagram may arrive late, twice, out of order or       *)
(* never: a reply may be read in a later round than the one that asked for *)
(* it, because the client gives up after 100ms and the datagram stays in   *)
(* its socket.                                                             *)
(***************************************************************************)
EXTENDS EventServer, EventClient

VARIABLES
  requests,   \* datagrams from this client to the server
  replies     \* datagrams from the server to this client

netVars == <<requests, replies>>

vars == <<serverVars, clientVars, netVars>>

Init ==
  /\ ServerInit
  /\ ClientInit
  /\ requests = {}
  /\ replies = {}

------------------------------------------------------------------------------
(* Client *)

ClientSend ==
  /\ Sent
  /\ requests' = requests \cup {Request}
  /\ UNCHANGED <<serverVars, replies>>

ClientReceive ==
  /\ \E reply \in replies : Process(reply)
  /\ UNCHANGED <<serverVars, netVars>>

ClientTimeout ==
  /\ Timeout
  /\ UNCHANGED <<serverVars, netVars>>

(* The new client binds a port of its own, so nothing sent by or to the    *)
(* old one reaches it.                                                     *)
ClientRestart ==
  /\ RestartClient
  /\ requests' = {}
  /\ replies' = {}
  /\ UNCHANGED serverVars

------------------------------------------------------------------------------
(* Server *)

ServerReceive ==
  /\ \E request \in requests :
       replies' = replies \cup {Reply(request.last_event_offset)}
  /\ UNCHANGED <<serverVars, clientVars, requests>>

ServerStore ==
  /\ StoreEvent
  /\ UNCHANGED <<clientVars, netVars>>

ServerReset ==
  /\ ResetEvents
  /\ UNCHANGED <<clientVars, netVars>>

ServerRestart ==
  /\ RestartServer
  /\ UNCHANGED <<clientVars, netVars>>

------------------------------------------------------------------------------

Next ==
  \/ ClientSend
  \/ ClientReceive
  \/ ClientTimeout
  \/ ClientRestart
  \/ ServerReceive
  \/ ServerStore
  \/ ServerReset
  \/ ServerRestart

Spec == Init /\ [][Next]_vars

------------------------------------------------------------------------------
(* Properties *)

(* Every variable holds a value the code can hold. *)
TypeOK ==
  /\ ServerTypeOK
  /\ ClientTypeOK
  /\ requests \subseteq CommandRequest
  /\ replies \subseteq EventReply

(* Reliable delivery (README.md, Logged Event Delivery): when the client   *)
(* has processed an event, it has processed every older event that the     *)
(* server still holds.  Losing, repeating, delaying and reordering         *)
(* datagrams never makes the client pass over an event; only an overrun of *)
(* the history does.                                                       *)
NoEventSkipped ==
  SteadyServer =>
    \A i \in DOMAIN events : \A later \in seen :
      events[i].event <= later => events[i].event \in seen

Held == {events[i].offset : i \in DOMAIN events}

(* A recovery event is for a client that lost something (offset-rules.md,  *)
(* Event Delivery, cases 1 and 2).  A server that has neither restarted    *)
(* nor wrapped never answers with one a request, late or repeated as it    *)
(* may be, whose offset or the successor of it is in the history, nor one  *)
(* without an offset: such an offset passes the range check of             *)
(* server/main.rs whenever the request is read.                            *)
NoSpuriousRecovery ==
  SteadyServer =>
    \A request \in requests :
      LET n == request.last_event_offset
      IN  n = None \/ {n, Succ(n)} \cap Held # {} => Reply(n) \notin RecoveryEvent

------------------------------------------------------------------------------
(* The inductive invariant behind the two properties *)

(* An offset the client sends is that of an event it has processed. *)
Known(last) == last # None => start # None /\ (last - start + 1) \in seen

(* The client has processed every retained event up to one it processed. *)
SeenIsClosed ==
  /\ seen \subseteq 1 .. logged
  /\ \A k \in Retained : \A later \in seen : k <= later => k \in seen

(* A reply on its way carries a logged event, and by now the client has    *)
(* processed every retained event before that one.                         *)
ReplyIsNext(reply) ==
  reply # None =>
    /\ reply \in LoggedEvent
    /\ start # None
    /\ reply.event \in 1 .. logged
    /\ reply.offset = start + reply.event - 1
    /\ \A k \in Retained : k < reply.event => k \in seen

SteadyInv ==
  SteadyServer =>
    /\ HistoryInOrder
    /\ SeenIsClosed
    /\ Known(last_event_offset)
    /\ \A request \in requests : Known(request.last_event_offset)
    /\ \A reply \in replies : ReplyIsNext(reply)

IInv == TypeOK /\ SteadyInv

==============================================================================
