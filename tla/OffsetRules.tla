----------------------------- MODULE OffsetRules -----------------------------
(***************************************************************************)
(* What offset-rules.md says of the exchange, as predicates on the states  *)
(* of FlipFlop.                                                            *)
(***************************************************************************)
EXTENDS FlipFlop

(* offset-rules.md, Event Delivery, case 3: a request whose offset n is    *)
(* not in the history, nor is its successor, is answered with a recovery   *)
(* event.  The server's range check compares n with start, the first       *)
(* offset since it started, not with the oldest offset it still holds.     *)
OverrunSignalled ==
  \A request \in requests :
    LET n == request.last_event_offset
    IN  n # None /\ events # <<>> /\ {n, Succ(n)} \cap Held = {}
          => Reply(n) \in RecoveryEvent

(* offset-rules.md, Event Delivery: the recovery phase consumes the events *)
(* from the start offset up to and including the end offset.  At its end,  *)
(* when the client prints "Recovery complete.", it has processed every     *)
(* event the server holds up to the end offset.                            *)
RecoveryConsumesAll ==
  recovery_event_offset # None /\ last_event_offset = recovery_event_offset =>
    \A i, j \in DOMAIN events :
      i <= j /\ events[j].offset = last_event_offset => events[i].event \in seen

==============================================================================
