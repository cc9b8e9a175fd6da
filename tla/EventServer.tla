----------------------------- MODULE EventServer -----------------------------
(***************************************************************************)
(* A server of logged events (app/examples/server/main.rs).                *)
(*                                                                         *)
(* The server is one task that selects between two inputs: a request from  *)
(* its socket, answered at once from the history, and an event from the    *)
(* generator task, which either goes into the history or, now and then,    *)
(* makes the server forget its history.  Each branch runs to completion,   *)
(* so each is one action; a request changes nothing and is the operator    *)
(* Reply.                                                                  *)
(***************************************************************************)
EXTENDS FlipFlopApp, Sequences

CONSTANTS
  MAX_EVENTS,   \* capacity of the history
  MaxLogged,    \* bound: events generated in a behaviour
  MaxRestarts   \* bound: restarts and resets of the server in a behaviour

ASSUME CapacityAssumption == MAX_EVENTS \in Nat \ {0} /\ MAX_EVENTS < N
ASSUME BoundsAssumption == MaxLogged \in Nat /\ MaxRestarts \in Nat

VARIABLES
  events,        \* the CircularQueue, oldest first
  start,         \* offset of the first event since the last (re)start
  end,           \* offset of the latest event
  event_offset,  \* offset of the next event
  logged,        \* history variable: events stored so far, names the next one
  restarts       \* history variable: restarts and resets so far

serverVars == <<events, start, end, event_offset, logged, restarts>>

Entry == [event : Nat, offset : Offset]

(* rand::thread_rng().gen_range(0..MAX_EVENTS) *)
StartOffset == 0 .. MAX_EVENTS - 1

------------------------------------------------------------------------------

(* CircularQueue::push: when the queue is full the oldest entry makes room. *)
Push(q, e) ==
  IF Len(q) < MAX_EVENTS THEN Append(q, e) ELSE Append(Tail(q), e)

(* The search goes from the newest entry backwards and stops at the first  *)
(* one whose offset is the client's or its successor.                      *)
Adjacent(last) ==
  {i \in DOMAIN events : last # None /\ events[i].offset \in {last, Succ(last)}}

Newest(S) == CHOOSE i \in S : \A j \in S : j <= i

(* The match of the code on what the search stopped at.  Its second and    *)
(* third arm both say that the client has seen the newest event.  Nothing  *)
(* adjacent: the oldest event, if there is one.                            *)
LookupServesNewest(last) ==
  LET found == Adjacent(last)
  IN  IF found # {}
        THEN LET e == events[Newest(found)]
             IN  IF e.offset = Succ(last) THEN Logged(e.event, e.offset) ELSE None
        ELSE IF events = <<>> THEN None
             ELSE Logged(events[Len(events)].event, events[Len(events)].offset)

Lookup(last) ==
  LET found == Adjacent(last)
  IN  IF found # {}
        THEN LET e == events[Newest(found)]
             IN  IF e.offset = Succ(last) THEN Logged(e.event, e.offset) ELSE None
        ELSE IF events = <<>> THEN None
             ELSE Logged(events[1].event, events[1].offset)

(* The reply to a request that carries last. *)
ReplyHalfOpen(last) ==
  CASE start = None -> None
    [] start # None /\ (last = None \/ (start <= last /\ last < end)) -> Lookup(last)
    [] OTHER -> Recovery(start, end)

Reply(last) ==
  CASE start = None -> None
    [] start # None /\ (last = None \/ (start <= last /\ last <= end)) -> Lookup(last)
    [] OTHER -> Recovery(start, end)

------------------------------------------------------------------------------

ServerInit ==
  /\ events = <<>>
  /\ start = None
  /\ end = None
  /\ event_offset \in StartOffset
  /\ logged = 0
  /\ restarts = 0

(* An event arrives from the generator and is stored. *)
StoreEvent ==
  /\ logged < MaxLogged
  /\ events' = Push(events, [event |-> logged + 1, offset |-> event_offset])
  /\ start' = IF start = None THEN event_offset ELSE start
  /\ end' = event_offset
  /\ event_offset' = Succ(event_offset)
  /\ logged' = logged + 1
  /\ UNCHANGED restarts

(* An event arrives and the server resets instead: the history is cleared, *)
(* the arriving event is dropped, and start and end already name the next  *)
(* event.                                                                  *)
ResetEvents ==
  /\ restarts < MaxRestarts
  /\ \E offset \in StartOffset :
       /\ event_offset' = offset
       /\ start' = offset
       /\ end' = offset
  /\ events' = <<>>
  /\ restarts' = restarts + 1
  /\ UNCHANGED logged

(* The process ends and main runs again. *)
RestartServer ==
  /\ restarts < MaxRestarts
  /\ events' = <<>>
  /\ start' = None
  /\ end' = None
  /\ event_offset' \in StartOffset
  /\ restarts' = restarts + 1
  /\ UNCHANGED logged

ServerTypeOK ==
  /\ events \in Seq(Entry)
  /\ start \in OptOffset
  /\ end \in OptOffset
  /\ (start = None) <=> (end = None)
  /\ event_offset \in Offset
  /\ logged \in Nat
  /\ restarts \in Nat

(* The server has neither restarted nor reset, and its offsets have not    *)
(* wrapped round.                                                          *)
SteadyServer ==
  /\ restarts = 0
  /\ start # None => start + logged <= N

(* The numbers of the events the history holds. *)
Retained == logged - Len(events) + 1 .. logged

(* The history holds the latest events in order, and as long as no offset  *)
(* has wrapped the k-th event has offset start + k - 1.                    *)
HistoryInOrder ==
  /\ start = None <=> logged = 0
  /\ Len(events) <= logged
  /\ logged > 0 =>
       /\ Len(events) > 0
       /\ end = start + logged - 1
       /\ event_offset = Succ(end)
  /\ \A i \in 1 .. Len(events) :
       /\ events[i].event = logged - Len(events) + i
       /\ events[i].offset = start + events[i].event - 1

==============================================================================
