----------------------------- MODULE EventClient -----------------------------
(***************************************************************************)
(* A client that polls one server (app/examples/client/main.rs).           *)
(*                                                                         *)
(* The client loops for ever: it sends a request that carries the offset   *)
(* of the last event it processed, then waits 100ms for one datagram.      *)
(* phase is the place in that loop.  What happens on the way in and out    *)
(* belongs to the module that composes the client with a transport.        *)
(***************************************************************************)
EXTENDS FlipFlopApp

VARIABLES
  phase,                  \* "send" or "recv"
  last_event_offset,
  init_mode,
  recovery_event_offset,
  seen                    \* history variable: events processed by this client

clientVars ==
  <<phase, last_event_offset, init_mode, recovery_event_offset, seen>>

(* The values main starts with. *)
ClientInit ==
  /\ phase = "send"
  /\ last_event_offset = None
  /\ init_mode = TRUE
  /\ recovery_event_offset = None
  /\ seen = {}

Request ==
  [last_event_offset |-> last_event_offset,
   command |-> IF init_mode THEN None ELSE "SomeCommand"]

(* The state after the request has been handed to the socket. *)
Sent ==
  /\ phase = "send"
  /\ phase' = "recv"
  /\ UNCHANGED <<last_event_offset, init_mode, recovery_event_offset, seen>>

(* The match on reply.event. *)
ProcessNone(reply) ==
  /\ reply = None
  /\ UNCHANGED <<last_event_offset, init_mode, recovery_event_offset, seen>>

ProcessRecoveryKeepsOffset(reply) ==
  /\ reply \in RecoveryEvent
  /\ init_mode' = TRUE
  /\ recovery_event_offset' = IF reply.from # reply.to THEN reply.to ELSE None
  /\ UNCHANGED <<last_event_offset, seen>>

ProcessRecovery(reply) ==
  /\ reply \in RecoveryEvent
  /\ init_mode' = TRUE
  /\ last_event_offset' = reply.from
  /\ recovery_event_offset' = IF reply.from # reply.to THEN reply.to ELSE None
  /\ UNCHANGED seen

ProcessLogged(reply) ==
  /\ reply \in LoggedEvent
  /\ last_event_offset' = reply.offset
  /\ init_mode' = (init_mode \/ reply.offset = recovery_event_offset)
  /\ seen' = seen \cup {reply.event}
  /\ UNCHANGED recovery_event_offset

Process(reply) ==
  /\ phase = "recv"
  /\ phase' = "send"
  /\ \/ ProcessNone(reply)
     \/ ProcessRecovery(reply)
     \/ ProcessLogged(reply)

(* 100ms pass without a datagram, or the datagram cannot be decoded. *)
Timeout ==
  /\ phase = "recv"
  /\ phase' = "send"
  /\ UNCHANGED <<last_event_offset, init_mode, recovery_event_offset, seen>>

(* The process ends and main runs again. *)
RestartClient ==
  /\ phase' = "send"
  /\ last_event_offset' = None
  /\ init_mode' = TRUE
  /\ recovery_event_offset' = None
  /\ seen' = {}

ClientTypeOK ==
  /\ phase \in {"send", "recv"}
  /\ last_event_offset \in OptOffset
  /\ init_mode \in BOOLEAN
  /\ recovery_event_offset \in OptOffset
  /\ seen \subseteq Nat

==============================================================================
