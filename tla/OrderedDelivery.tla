--------------------------- MODULE OrderedDelivery ---------------------------
(***************************************************************************)
(* What the exchange of commands and events promises to the client of a    *)
(* server until that restarts or runs out of offsets: the logged events    *)
(* come in order, each reached event is the next one or follows only       *)
(* events that the server's history has overrun, and the client keeps      *)
(* catching up.                                                            *)
(***************************************************************************)
EXTENDS Naturals

VARIABLES
  logged,    \* events the server has logged, 1 .. logged
  evicted,   \* of these, the events 1 .. evicted have left the history
  pos,       \* the last event the client has reached, 0 before the first
  steady     \* the server has not restarted, nor used an offset twice

vars == <<logged, evicted, pos, steady>>

Init ==
  /\ logged = 0
  /\ evicted = 0
  /\ pos = 0
  /\ steady = TRUE

Log ==
  /\ steady
  /\ logged' = logged + 1
  /\ evicted' \in {evicted, evicted + 1}
  /\ UNCHANGED <<pos, steady>>

Deliver ==
  /\ steady
  /\ pos' \in pos + 1 .. logged
  /\ \A skipped \in pos + 1 .. pos' - 1 : skipped <= evicted
  /\ UNCHANGED <<logged, evicted, steady>>

(* A restart ends the promise, and so does an offset used again. *)
Restart == ~steady'

Next == Log \/ Deliver \/ Restart

Safety == Init /\ [][Next]_vars

Spec == Safety /\ WF_vars(Deliver)

==============================================================================
