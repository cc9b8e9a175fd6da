------------------------------ MODULE AddressSet ------------------------------
(***************************************************************************)
(* What Identify and Identified::with_random_address promise to the two    *)
(* tasks of discovery: a set of addresses that only grows, and on request  *)
(* an answer, which is one of the addresses outside of the set, or None    *)
(* when there is none left.  Discovery uses them in this form.             *)
(***************************************************************************)
EXTENDS Integers

CONSTANTS MAX_ADDRESSES, None

Address == 0 .. MAX_ADDRESSES - 1

VARIABLES
  known,      \* the addresses known to the client
  asked,      \* an address has been asked for and not been answered
  answer      \* the last answer

vars == <<known, asked, answer>>

Init ==
  /\ known = {}
  /\ asked = FALSE
  /\ answer = None

Learn ==
  /\ \E a \in Address : known' = known \cup {a}
  /\ UNCHANGED <<asked, answer>>

Ask ==
  /\ ~asked
  /\ asked' = TRUE
  /\ UNCHANGED <<known, answer>>

Answer ==
  /\ asked
  /\ asked' = FALSE
  /\ answer' \in IF known = Address THEN {None} ELSE Address \ known
  /\ UNCHANGED known

Next == Learn \/ Ask \/ Answer

Safety == Init /\ [][Next]_vars

Spec == Safety /\ WF_vars(Answer)

==============================================================================
