----------------------------- MODULE FlipFlopApp -----------------------------
(***************************************************************************)
(* The vocabulary of the application layer (app/src/lib.rs): the requests  *)
(* a client sends, the replies a server returns, and the offsets both      *)
(* carry.                                                                  *)
(*                                                                         *)
(* Offsets are u32 in the code; here they are the naturals below N, so     *)
(* that wrapping_add can be exercised on a small instance.  An Option is   *)
(* its value or None.  The payload of a logged event is its identity, so   *)
(* that properties can tell two events with the same offset apart.  Only   *)
(* the server of the example creates events and it has no ephemeral ones   *)
(* (NoEE), so EventOf has its two other forms.  delta_ticks is left out:   *)
(* nothing in the protocol branches on it.                                 *)
(***************************************************************************)
EXTENDS Integers

CONSTANTS
  N,          \* the number of offsets: 2^32 in the code
  None        \* Option::None

ASSUME NAssumption == N \in Nat /\ N > 1
ASSUME NoneAssumption == None \notin Int

Offset == 0 .. N - 1

OptOffset == Offset \cup {None}

(* u32::wrapping_add(1) *)
SuccNoWrap(n) == n + 1

Succ(n) == (n + 1) % N

Command == {"SomeCommand"}

CommandRequest ==
  [last_event_offset : OptOffset, command : Command \cup {None}]

Logged(event, offset) ==
  [kind |-> "Logged", event |-> event, offset |-> offset]

Recovery(from, to) ==
  [kind |-> "Recovery", from |-> from, to |-> to]

LoggedEvent == [kind : {"Logged"}, event : Nat, offset : Offset]

RecoveryEvent == [kind : {"Recovery"}, from : Offset, to : Offset]

EventOf == LoggedEvent \cup RecoveryEvent

ASSUME NoneIsNoEvent == None \notin EventOf

(* The event field of an EventReply; None is "no more events". *)
EventReply == EventOf \cup {None}

==============================================================================
