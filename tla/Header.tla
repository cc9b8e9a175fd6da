-------------------------------- MODULE Header --------------------------------
(***************************************************************************)
(* The header of a data frame and its 32 bit form (data/src/lib.rs).       *)
(*                                                                         *)
(* An unsigned integer is the set of the positions of its one bits: a mask *)
(* is an intersection, a shift moves every position, and | is a union.     *)
(* The four bytes of the packed form only split the word, so they stay     *)
(* together.                                                               *)
(***************************************************************************)
EXTENDS Integers

U(width) == SUBSET (0 .. width - 1)

Word == U(32)

DataSource == {"Client", "Server"}

(* version is not a field here: to_packed never writes it and parse only   *)
(* returns 0.                                                              *)
Header ==
  [source : DataSource, server_address : U(8), server_port : U(3), frame_counter : U(16)]

HeaderParseError == [error |-> "HeaderParseError"]

ShiftLeft(bits, n) == {b + n : b \in bits}

(* (word >> lo) & mask, the mask having width one bits. *)
Field(word, lo, width) == {b \in 0 .. width - 1 : b + lo \in word}

ToPackedPortTooLow(h) ==
  (IF h.source = "Server" THEN {2} ELSE {})
    \cup ShiftLeft(h.server_address, 3)
    \cup ShiftLeft(h.server_port \cap 0 .. 2, 10)
    \cup ShiftLeft(h.frame_counter, 16)

(* Header::to_packed *)
ToPacked(h) ==
  (IF h.source = "Server" THEN {2} ELSE {})
    \cup ShiftLeft(h.server_address \cap 0 .. 7, 3)
    \cup ShiftLeft(h.server_port \cap 0 .. 2, 11)
    \cup ShiftLeft(h.frame_counter \cap 0 .. 15, 16)

(* Header::parse: the version is header & 0x02. *)
Parse(word) ==
  IF word \cap {1} = {}
    THEN [source |-> IF 2 \in word THEN "Server" ELSE "Client",
          server_address |-> Field(word, 3, 8),
          server_port |-> Field(word, 11, 3),
          frame_counter |-> Field(word, 16, 16)]
    ELSE HeaderParseError

==============================================================================
