------------------------------- MODULE Identify -------------------------------
(***************************************************************************)
(* The bitmap of the addresses known to a client, its iterator, and the    *)
(* choice of a spare address (data/src/discovery.rs).                      *)
(*                                                                         *)
(* A byte, and the mask j of the iterator, is the set of the positions of  *)
(* its one bits, as in module Header.  A call of with_random_address is a  *)
(* step per element of its loop.  The iterator borrows the bitmap, so the  *)
(* bitmap does not change during a call.                                   *)
(***************************************************************************)
EXTENDS Integers

CONSTANTS
  ADDRESSES_PER_BYTE,   \* 8: the width of u8
  MIN_PAYLOAD_SIZE,     \* 32: the bytes of the bitmap
  Random,               \* inputs: what next_u32 may return
  None                  \* Option::None

ASSUME IdentifyAssumption ==
  /\ ADDRESSES_PER_BYTE \in Nat \ {0}
  /\ MIN_PAYLOAD_SIZE \in Nat
  /\ MIN_PAYLOAD_SIZE * ADDRESSES_PER_BYTE <= 256
  /\ Random \subseteq Nat
  /\ None \notin Int

MAX_ADDRESSES == MIN_PAYLOAD_SIZE * ADDRESSES_PER_BYTE

Address == 0 .. MAX_ADDRESSES - 1

Bit == 0 .. ADDRESSES_PER_BYTE - 1

VARIABLES
  addresses,         \* the bitmap, [u8; MIN_PAYLOAD_SIZE]
  picking,           \* with_random_address is being executed
  i, j,              \* AddressesIter
  index,             \* enumerate
  spare_addresses,   \* [usize; MAX_ADDRESSES]
  spares,            \* how many of them are filled: j in with_random_address
  picked             \* the last address returned, an Option<u8>

loopVars == <<i, j, index, spare_addresses, spares>>
vars == <<addresses, picking, loopVars, picked>>

NoSpares == [k \in Address |-> 0]

Init ==
  /\ addresses = [byte \in 0 .. MIN_PAYLOAD_SIZE - 1 |-> {}]
  /\ picking = FALSE
  /\ i = 0 /\ j = {0} /\ index = 0
  /\ spare_addresses = NoSpares /\ spares = 0
  /\ picked = None

------------------------------------------------------------------------------

(* Identify::is_address_set *)
IsAddressSet(address) ==
  addresses[address \div ADDRESSES_PER_BYTE] \cap {address % ADDRESSES_PER_BYTE} # {}

(* Identify::set_address *)
SetAddress(address) ==
  /\ ~picking
  /\ addresses' = [addresses EXCEPT ![address \div ADDRESSES_PER_BYTE] =
                     @ \cup {address % ADDRESSES_PER_BYTE}]
  /\ UNCHANGED <<picking, loopVars, picked>>

(* Identify::iter, and the locals of with_random_address *)
Iter ==
  /\ ~picking
  /\ picking' = TRUE
  /\ i' = 0 /\ j' = {0} /\ index' = 0
  /\ spare_addresses' = NoSpares /\ spares' = 0
  /\ UNCHANGED <<addresses, picked>>

(* u8 << 1 *)
Shl1Wide(mask) == {b + 1 : b \in mask}

Shl1(mask) == {b + 1 : b \in mask} \cap Bit

(* AddressesIter::next moves on to the next bit, or to the next byte. *)
AdvanceTooEarly ==
  IF j = {ADDRESSES_PER_BYTE - 2}
    THEN i' = i + 1 /\ j' = {0}
    ELSE i' = i /\ j' = Shl1(j)

Advance ==
  IF Shl1(j) = {}
    THEN i' = i + 1 /\ j' = {0}
    ELSE i' = i /\ j' = Shl1(j)

(* The body of the loop in with_random_address *)
NextItem ==
  /\ picking
  /\ i < MIN_PAYLOAD_SIZE
  /\ Advance
  /\ index' = index + 1
  /\ IF addresses[i] \cap j # {}
       THEN UNCHANGED <<spare_addresses, spares>>
       ELSE /\ spare_addresses' = [spare_addresses EXCEPT ![spares] = index]
            /\ spares' = spares + 1
  /\ UNCHANGED <<addresses, picking, picked>>

(* An index of usize as u8 *)
AsU8(n) == n % 256

WithRandomAddressInclusive ==
  /\ picking
  /\ i >= MIN_PAYLOAD_SIZE
  /\ picking' = FALSE
  /\ IF spares > 0
       THEN \E random \in Random : picked' = AsU8(spare_addresses[random % (spares + 1)])
       ELSE picked' = None
  /\ UNCHANGED <<addresses, loopVars>>

WithRandomAddress ==
  /\ picking
  /\ i >= MIN_PAYLOAD_SIZE
  /\ picking' = FALSE
  /\ IF spares > 0
       THEN \E random \in Random : picked' = AsU8(spare_addresses[random % spares])
       ELSE picked' = None
  /\ UNCHANGED <<addresses, loopVars>>

Next ==
  \/ \E address \in Address : SetAddress(address)
  \/ Iter
  \/ NextItem
  \/ WithRandomAddress

(* A call that has been made runs to its end. *)
Spec == Init /\ [][Next]_vars /\ WF_vars(NextItem \/ WithRandomAddress)

------------------------------------------------------------------------------
(* Properties *)

Known == {a \in Address : IsAddressSet(a)}

Set == INSTANCE AddressSet WITH known <- Known, asked <- picking, answer <- picked

(* The bitmap is a set that only grows, with_random_address returns, and   *)
(* "guarantees that no existing address is returned" (discovery.rs:96); it *)
(* returns None only when all addresses are known.                         *)
ImplementsAddressSet == Set!Spec

(* At the end of its loop with_random_address has to choose from exactly   *)
(* the addresses that are not known, each of them once: the choice is even *)
(* and any spare address can come of it.                                   *)
ChoiceIsEven ==
  picking /\ i = MIN_PAYLOAD_SIZE =>
    /\ {spare_addresses[k] : k \in 0 .. spares - 1} = Address \ Known
    /\ \A k, l \in 0 .. spares - 1 : k # l => spare_addresses[k] # spare_addresses[l]

(* Every variable holds a value of its type; in particular the loop never  *)
(* indexes past the end of the bitmap or of spare_addresses.               *)
TypeOK ==
  /\ addresses \in [0 .. MIN_PAYLOAD_SIZE - 1 -> SUBSET Bit]
  /\ picking \in BOOLEAN
  /\ i \in 0 .. MIN_PAYLOAD_SIZE
  /\ j \in {{b} : b \in Bit}
  /\ index \in 0 .. MAX_ADDRESSES
  /\ spare_addresses \in [Address -> Address \cup {0}]
  /\ spares \in 0 .. MAX_ADDRESSES
  /\ picked \in Address \cup {None}

==============================================================================
