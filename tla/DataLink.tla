------------------------------- MODULE DataLink -------------------------------
(***************************************************************************)
(* Frames on a wire that may flip bits (data/src/lib.rs).                  *)
(*                                                                         *)
(* The cipher is external.  A sealed payload remembers the key, the nonce  *)
(* and the associated data it was sealed with, and opens only with the     *)
(* same three.  A bit error in it, or in its length, makes it open with    *)
(* none.                                                                   *)
(***************************************************************************)
EXTENDS Header

CONSTANTS
  Headers,    \* inputs: headers that are sent
  Payloads,   \* inputs: their payloads
  Keys,       \* the keys of this and of other receivers
  Capacity,   \* bytes of a datagram behind the header and the length
  MaxFlips    \* bound: bit errors in a frame

ASSUME HeadersAssumption == Headers \subseteq Header
VARIABLES
  sent,    \* history: header, payload and key of the frame
  frame,   \* the frame on the wire
  flips,   \* history: bit errors so far
  got      \* history: the last call of from_datagram and its result

frameVars == <<sent, frame, flips, got>>

------------------------------------------------------------------------------

MIC_SIZE == 4

(* A payload that does not fit makes to_datagram panic. *)
ASSUME PayloadsAssumption ==
  /\ Capacity \in Nat
  /\ \A payload \in Payloads : payload.len \in Nat /\ payload.len + MIC_SIZE <= Capacity

(* new_nonce: a constant, the packed header, payload_len as u8. *)
NewNonce(header, payload_len) == <<header, payload_len % 256>>

(* AeadInPlace::encrypt_in_place, which appends the MIC. *)
Encrypt(key, nonce, aad, payload) ==
  [key |-> key, nonce |-> nonce, aad |-> aad, payload |-> payload,
   len |-> payload.len + MIC_SIZE, intact |-> TRUE]

(* AeadInPlace::decrypt_in_place succeeds. *)
Decrypts(key, nonce, aad, encrypted) ==
  /\ encrypted.intact
  /\ <<key, nonce, aad>> = <<encrypted.key, encrypted.nonce, encrypted.aad>>

ToDatagram(key, header, payload) ==
  LET packed == ToPacked(header)
  IN  [header |-> packed,
       encrypted_payload |->
         Encrypt(key, NewNonce(packed, payload.len), packed, payload)]

Greatest(m, n) == IF m >= n THEN m ELSE n

(* filter is the set of headers that the caller's closure accepts. *)
FromDatagramUnauthenticated(datagram, filter, key) ==
  LET header == Parse(datagram.header)
      encrypted == datagram.encrypted_payload
      nonce == encrypted.nonce
  IN  IF encrypted.len > Capacity THEN [error |-> "CannotParseDataFrame"]
      ELSE IF header = HeaderParseError THEN [error |-> "CannotParseHeader"]
      ELSE IF header \notin filter THEN [error |-> "FilterDoesNotMatch"]
      ELSE IF ~Decrypts(key, nonce, encrypted.aad, encrypted) THEN [error |-> "CannotDecrypt"]
      ELSE [header |-> header, payload |-> encrypted.payload]

FromDatagram(datagram, filter, key) ==
  LET header == Parse(datagram.header)
      encrypted == datagram.encrypted_payload
      nonce == NewNonce(datagram.header, Greatest(encrypted.len, MIC_SIZE) - MIC_SIZE)
  IN  IF encrypted.len > Capacity THEN [error |-> "CannotParseDataFrame"]
      ELSE IF header = HeaderParseError THEN [error |-> "CannotParseHeader"]
      ELSE IF header \notin filter THEN [error |-> "FilterDoesNotMatch"]
      ELSE IF ~Decrypts(key, nonce, datagram.header, encrypted) THEN [error |-> "CannotDecrypt"]
      ELSE [header |-> header, payload |-> encrypted.payload]

------------------------------------------------------------------------------

Filters == {{h \in Headers : h.source = source} : source \in DataSource}

Nothing == [error |-> "nothing received"]

FrameInit ==
  \E header \in Headers, payload \in Payloads, key \in Keys :
    /\ sent = [header |-> header, payload |-> payload, key |-> key]
    /\ frame = ToDatagram(key, header, payload)
    /\ flips = 0
    /\ got = [result |-> Nothing, filter |-> {}, key |-> key]

Flip(bits, b) == (bits \ {b}) \cup ({b} \ bits)

FlipHeader ==
  /\ flips < MaxFlips
  /\ \E b \in 0 .. 31 : frame' = [frame EXCEPT !.header = Flip(@, b)]
  /\ flips' = flips + 1
  /\ UNCHANGED <<sent, got>>

FlipPayload ==
  /\ flips < MaxFlips
  /\ frame' = [frame EXCEPT !.encrypted_payload.intact = FALSE]
  /\ flips' = flips + 1
  /\ UNCHANGED <<sent, got>>

(* The length reads as one that takes in less, or more than there is. *)
FlipLength ==
  /\ flips < MaxFlips
  /\ \E len \in {0, Capacity, Capacity + 1} :
       frame' = [frame EXCEPT !.encrypted_payload.len = len, !.encrypted_payload.intact = FALSE]
  /\ flips' = flips + 1
  /\ UNCHANGED <<sent, got>>

ReceiveFrame ==
  /\ \E filter \in Filters, key \in Keys :
       got' = [result |-> FromDatagram(frame, filter, key), filter |-> filter, key |-> key]
  /\ UNCHANGED <<sent, frame, flips>>

FrameNext == FlipHeader \/ FlipPayload \/ FlipLength \/ ReceiveFrame

FrameSpec == FrameInit /\ [][FrameNext]_frameVars

------------------------------------------------------------------------------
(* Properties *)

Accepted == "error" \notin DOMAIN got.result

(* from_datagram only returns what to_datagram was given, to a holder of   *)
(* the same key, whatever bits the wire flipped: the packed header is both *)
(* in the nonce and in the associated data.                                *)
AcceptsOnlyTheSent ==
  Accepted => got.result = [header |-> sent.header, payload |-> sent.payload] /\ got.key = sent.key

(* An untouched frame that a receiver listens for is returned: packing and *)
(* parsing lose nothing, and both sides derive the same nonce.             *)
UntouchedIsAccepted ==
  got.result # Nothing /\ flips = 0 /\ got.key = sent.key /\ sent.header \in got.filter
    => Accepted

(* The inductive invariant behind the two: what a bit error cannot forge   *)
(* is as to_datagram made it.                                              *)
FrameInv ==
  LET packed == ToPacked(sent.header)
  IN  /\ sent \in [header : Headers, payload : Payloads, key : Keys]
      /\ flips \in Nat
      /\ frame = [header |-> frame.header,
                  encrypted_payload |->
                    [key |-> sent.key, nonce |-> NewNonce(packed, sent.payload.len),
                     aad |-> packed, payload |-> sent.payload,
                     len |-> frame.encrypted_payload.len,
                     intact |-> frame.encrypted_payload.intact]]
      /\ flips = 0 => frame = ToDatagram(sent.key, sent.header, sent.payload)

AcceptInv == FrameInv /\ AcceptsOnlyTheSent /\ UntouchedIsAccepted

==============================================================================
