----------------------------- MODULE FlipFlopLink -----------------------------
(***************************************************************************)
(* The client and the server of the examples over a link that loses        *)
(* datagrams but keeps the order of those it delivers: a serial line, or   *)
(* UDP on one host.  Each direction is the queue of datagrams in the       *)
(* receiving socket.                                                       *)
(*                                                                         *)
(* Where FlipFlop lets the network do anything and asks what can never go  *)
(* wrong, this module asks what must come right in the end.                *)
(***************************************************************************)
EXTENDS EventServer, EventClient

CONSTANT MaxInFlight   \* bound: datagrams a socket buffers before it drops

ASSUME InFlightAssumption == MaxInFlight \in Nat \ {0}

VARIABLES
  requests,   \* queue of datagrams in the server's socket
  replies     \* queue of datagrams in the client's socket

linkVars == <<requests, replies>>

vars == <<serverVars, clientVars, linkVars>>

Init ==
  /\ ServerInit
  /\ ClientInit
  /\ requests = <<>>
  /\ replies = <<>>

------------------------------------------------------------------------------
(* The two outcomes of send_to, which the sender does not learn. *)

Delivered(queue, datagram) ==
  IF Len(queue) < MaxInFlight THEN Append(queue, datagram) ELSE queue

ClientSend(lost) ==
  /\ Sent
  /\ requests' = IF lost THEN requests ELSE Delivered(requests, Request)
  /\ UNCHANGED <<serverVars, replies>>

(* recv_from is polled before the timer, so the client only times out when *)
(* its socket is empty.                                                    *)
ClientReceive ==
  /\ replies # <<>>
  /\ Process(Head(replies))
  /\ replies' = Tail(replies)
  /\ UNCHANGED <<serverVars, requests>>

ClientTimeout ==
  /\ replies = <<>>
  /\ Timeout
  /\ UNCHANGED <<serverVars, linkVars>>

ServerReceive(lost) ==
  /\ requests # <<>>
  /\ requests' = Tail(requests)
  /\ LET reply == Reply(Head(requests).last_event_offset)
     IN  replies' = IF lost THEN replies ELSE Delivered(replies, reply)
  /\ UNCHANGED <<serverVars, clientVars>>

ServerStore ==
  /\ StoreEvent
  /\ UNCHANGED <<clientVars, linkVars>>

ServerReset ==
  /\ ResetEvents
  /\ UNCHANGED <<clientVars, linkVars>>

(* What the old process had not read is gone with its socket. *)
ServerRestart ==
  /\ RestartServer
  /\ requests' = <<>>
  /\ UNCHANGED <<clientVars, replies>>

Next ==
  \/ \E lost \in BOOLEAN : ClientSend(lost) \/ ServerReceive(lost)
  \/ ClientReceive
  \/ ClientTimeout
  \/ ServerStore
  \/ ServerReset
  \/ ServerRestart

(* Both loops run for ever: a sleep ends, a ready select branch is taken,  *)
(* a wait ends with a datagram or after 100ms.  A link that keeps being    *)
(* used does not lose everything.  Events, resets and restarts need not    *)
(* happen.                                                                 *)
Fairness ==
  /\ WF_vars(\E lost \in BOOLEAN : ClientSend(lost))
  /\ WF_vars(ClientReceive \/ ClientTimeout)
  /\ WF_vars(\E lost \in BOOLEAN : ServerReceive(lost))
  /\ SF_vars(ClientSend(FALSE))
  /\ SF_vars(ServerReceive(FALSE))

Spec == Init /\ [][Next]_vars /\ Fairness

------------------------------------------------------------------------------
(* Properties *)

(* Every variable holds a value the code can hold. *)
TypeOK ==
  /\ ServerTypeOK
  /\ ClientTypeOK
  /\ requests \in Seq(CommandRequest)
  /\ replies \in Seq(EventReply)

(* A client keeps up with its server whatever was lost or overrun and      *)
(* however often the server was reset or restarted (README.md: delivery is *)
(* "reliable in the face of transport errors"): once the server generates  *)
(* no more events, the client's offset settles at that of the latest one.  *)
(* A restarted server must log one event to be noticed.                    *)
CatchesUp == <>[](events # <<>> => last_event_offset = end)

(* The number of the event with this offset, in a log that has not wrapped *)
(* or restarted, 0 for none, and the number of events that have left it.   *)
Position(last) == IF last = None \/ start = None THEN 0 ELSE last - start + 1

Current == Position(last_event_offset)

Evicted == logged - Len(events)

Delivery ==
  INSTANCE OrderedDelivery WITH
    evicted <- Evicted,
    pos <- Current,
    steady <- SteadyServer

(* Until a restart or a wrap, the exchange of the examples                 *)
(* (app/examples/server/main.rs, app/examples/client/main.rs) implements   *)
(* ordered delivery: late and repeated replies never move the client       *)
(* backwards, nothing but an overrun makes it skip, and it does reach the  *)
(* newest event.                                                           *)
ImplementsDelivery == Delivery!Spec

------------------------------------------------------------------------------
(* The inductive invariant behind the safety part of ImplementsDelivery *)

HistoryInv == HistoryInOrder /\ Len(events) <= MAX_EVENTS

(* What the server sends to a client that has reached p, if there is more. *)
NextAfter(p) == (IF p <= Evicted THEN Evicted ELSE p) + 1

Reached(last) == last # None => start # None /\ last \in start .. end

Asked(i) == Position(requests[i].last_event_offset)

(* Requests carry positions the client has passed, in order; the answer to *)
(* one of them will not set the client back.                               *)
RequestsInv ==
  \A i \in DOMAIN requests :
    /\ Reached(requests[i].last_event_offset)
    /\ Asked(i) <= Current
    /\ Current <= NextAfter(Asked(i))
    /\ \A j \in DOMAIN requests : i <= j => Asked(i) <= Asked(j)

(* Replies carry events in order, from the client's position on, and none  *)
(* that would make it pass over an event the server still holds.           *)
RepliesInv ==
  \A i \in DOMAIN replies :
    replies[i] # None =>
      /\ replies[i] \in LoggedEvent
      /\ start # None /\ replies[i].offset = start + replies[i].event - 1
      /\ replies[i].event \in 1 .. logged
      /\ Current <= replies[i].event
      /\ replies[i].event <= NextAfter(Current)
      /\ \A j \in DOMAIN replies :
           i <= j /\ replies[j] # None => replies[i].event <= replies[j].event
      /\ \A j \in DOMAIN requests : replies[i].event <= NextAfter(Asked(j))

SteadyInv ==
  SteadyServer =>
    HistoryInv /\ Reached(last_event_offset) /\ RequestsInv /\ RepliesInv

IInv == TypeOK /\ SteadyInv

==============================================================================
