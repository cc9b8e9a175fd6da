------------------------------ MODULE BitProofs ------------------------------
(***************************************************************************)
(* What the data link layer packs into bits: headers, and the frames that  *)
(* begin with them (data/src/lib.rs), and the bitmap of known addresses    *)
(* (data/src/discovery.rs).                                                *)
(***************************************************************************)
EXTENDS DataLink, Identify, TLAPS

------------------------------------------------------------------------------
(* Frames, for every header, payload and number of bit errors *)

(* Which fields the bits of a packed header come from. *)
LEMMA PackedBits ==
  ASSUME NEW h \in Header, NEW b \in Int
  PROVE  b \in ToPacked(h) <=>
           \/ b = 2 /\ h.source = "Server"
           \/ b - 3 \in h.server_address
           \/ b - 11 \in h.server_port
           \/ b - 16 \in h.frame_counter
<1>1. /\ h.server_address \subseteq 0 .. 7
      /\ h.server_port \subseteq 0 .. 2
      /\ h.frame_counter \subseteq 0 .. 15
  BY DEF Header, U
<1>2. \A bits, n : bits \subseteq Int /\ n \in Int =>
        (b \in ShiftLeft(bits, n) <=> b - n \in bits)
  BY DEF ShiftLeft
<1> QED BY <1>1, <1>2 DEF ToPacked

(* Packing and parsing a header lose nothing: Header::parse undoes         *)
(* Header::to_packed, and no field runs into another.                      *)
THEOREM HeaderRoundTrip ==
  ASSUME NEW h \in Header
  PROVE  Parse(ToPacked(h)) = h
<1>1. /\ h.source \in DataSource
      /\ h.server_address \subseteq 0 .. 7
      /\ h.server_port \subseteq 0 .. 2
      /\ h.frame_counter \subseteq 0 .. 15
  BY DEF Header, U
<1>2. ToPacked(h) \cap {1} = {}
  BY <1>1, PackedBits
<1>3. 2 \in ToPacked(h) <=> h.source = "Server"
  BY <1>1, PackedBits
<1>4. Field(ToPacked(h), 3, 8) = h.server_address
  BY <1>1, PackedBits DEF Field
<1>5. Field(ToPacked(h), 11, 3) = h.server_port
  BY <1>1, PackedBits DEF Field
<1>6. Field(ToPacked(h), 16, 16) = h.frame_counter
  BY <1>1, PackedBits DEF Field
<1> QED BY <1>1, <1>2, <1>3, <1>4, <1>5, <1>6 DEF Parse, Header, DataSource

------------------------------------------------------------------------------

(* Only the frame that was sent decrypts. *)
LEMMA FrameFacts ==
  ASSUME FrameInv, NEW filter \in Filters, NEW key \in Keys
  PROVE  LET result == FromDatagram(frame, filter, key)
         IN  /\ "error" \notin DOMAIN result =>
                  /\ result = [header |-> sent.header, payload |-> sent.payload]
                  /\ key = sent.key
             /\ flips = 0 /\ key = sent.key /\ sent.header \in filter
                  => "error" \notin DOMAIN result
<1> DEFINE header == Parse(frame.header)
           packed == ToPacked(sent.header)
           encrypted == frame.encrypted_payload
           nonce == NewNonce(frame.header, Greatest(encrypted.len, MIC_SIZE) - MIC_SIZE)
           result == FromDatagram(frame, filter, key)
<1>1. /\ sent.header \in Header /\ sent.payload \in Payloads
      /\ sent.payload.len \in Nat /\ sent.payload.len + MIC_SIZE <= Capacity
  BY HeadersAssumption, PayloadsAssumption DEF FrameInv
<1>2. /\ encrypted.key = sent.key
      /\ encrypted.aad = packed
      /\ encrypted.payload = sent.payload
      /\ encrypted.nonce = NewNonce(packed, sent.payload.len)
  BY DEF FrameInv, ToDatagram, Encrypt
<1>3. encrypted.len = sent.payload.len + MIC_SIZE =>
        /\ Greatest(encrypted.len, MIC_SIZE) - MIC_SIZE = sent.payload.len
        /\ ~(encrypted.len > Capacity)
  BY <1>1, PayloadsAssumption DEF Greatest, MIC_SIZE
<1>4. encrypted.len > Capacity \/ header = HeaderParseError \/ header \notin filter =>
        "error" \in DOMAIN result
  BY DEF FromDatagram
<1>5. ~(encrypted.len > Capacity) /\ header # HeaderParseError /\ header \in filter =>
        result = IF Decrypts(key, nonce, frame.header, encrypted)
                   THEN [header |-> header, payload |-> encrypted.payload]
                   ELSE [error |-> "CannotDecrypt"]
  BY DEF FromDatagram
<1>6. ASSUME "error" \notin DOMAIN result
      PROVE  /\ result = [header |-> sent.header, payload |-> sent.payload]
             /\ key = sent.key
  <2>1. /\ ~(encrypted.len > Capacity)
        /\ header # HeaderParseError /\ header \in filter
        /\ Decrypts(key, nonce, frame.header, encrypted)
    BY <1>4, <1>5, <1>6
  <2>2. frame.header = packed /\ key = sent.key
    BY <1>2, <2>1 DEF Decrypts
  <2>3. header = sent.header
    BY <1>1, <2>2, HeaderRoundTrip
  <2> QED BY <1>2, <1>5, <2>1, <2>2, <2>3
<1>7. ASSUME flips = 0, key = sent.key, sent.header \in filter
      PROVE  "error" \notin DOMAIN result
  <2>1. /\ frame.header = packed /\ encrypted.intact
        /\ encrypted.len = sent.payload.len + MIC_SIZE
    BY <1>7 DEF FrameInv, ToDatagram, Encrypt
  <2>2. header = sent.header
    BY <1>1, <2>1, HeaderRoundTrip
  <2>3. header # HeaderParseError
    BY <1>1, <2>2 DEF Header, HeaderParseError
  <2>4. Decrypts(key, nonce, frame.header, encrypted)
    BY <1>2, <1>3, <1>7, <2>1 DEF Decrypts
  <2>5. result = [header |-> header, payload |-> encrypted.payload]
    BY <1>3, <1>5, <1>7, <2>1, <2>2, <2>3, <2>4
  <2> QED BY <2>5
<1> QED BY <1>6, <1>7

LEMMA FrameInvariance == FrameSpec => []AcceptInv
<1>1. FrameInit => AcceptInv
  <2> SUFFICES ASSUME FrameInit PROVE AcceptInv
    OBVIOUS
  <2>1. PICK header \in Headers, payload \in Payloads, key \in Keys :
          /\ sent = [header |-> header, payload |-> payload, key |-> key]
          /\ frame = ToDatagram(key, header, payload)
          /\ flips = 0
          /\ got = [result |-> Nothing, filter |-> {}, key |-> key]
    BY DEF FrameInit
  <2>2. FrameInv
    BY <2>1 DEF FrameInv, ToDatagram, Encrypt
  <2>3. got.result = Nothing /\ "error" \in DOMAIN got.result
    BY <2>1 DEF Nothing
  <2> QED BY <2>2, <2>3 DEF AcceptInv, AcceptsOnlyTheSent, UntouchedIsAccepted, Accepted
<1>2. AcceptInv /\ [FrameNext]_frameVars => AcceptInv'
  <2> SUFFICES ASSUME AcceptInv, [FrameNext]_frameVars PROVE AcceptInv'
    OBVIOUS
  <2>1. CASE FlipHeader
    <3>1. FrameInv'
      <4>1. PICK b \in 0 .. 31 : frame' = [frame EXCEPT !.header = Flip(@, b)]
        BY <2>1 DEF FlipHeader
      <4>2. /\ frame'.header = Flip(frame.header, b)
            /\ frame'.encrypted_payload = frame.encrypted_payload
            /\ frame' = [header |-> frame'.header, encrypted_payload |-> frame'.encrypted_payload]
        BY <4>1 DEF AcceptInv, FrameInv
      <4>3. sent' = sent /\ flips' = flips + 1 /\ flips' # 0
        BY <2>1 DEF FlipHeader, AcceptInv, FrameInv
      <4> QED BY <4>2, <4>3 DEF AcceptInv, FrameInv, ToDatagram, Encrypt
    <3> QED BY <2>1, <3>1 DEF AcceptInv, FlipHeader, FrameInv, AcceptsOnlyTheSent,
                              UntouchedIsAccepted, Accepted
  <2>2. CASE FlipPayload
    <3>1. FrameInv'
      <4>1. frame' = [frame EXCEPT !.encrypted_payload =
                        [frame.encrypted_payload EXCEPT !.intact = FALSE]]
        BY <2>2 DEF FlipPayload
      <4>2. /\ frame'.header = frame.header
            /\ frame'.encrypted_payload = [frame.encrypted_payload EXCEPT !.intact = FALSE]
            /\ frame' = [header |-> frame'.header, encrypted_payload |-> frame'.encrypted_payload]
        BY <4>1 DEF AcceptInv, FrameInv
      <4>3. sent' = sent /\ flips' = flips + 1 /\ flips' # 0
        BY <2>2 DEF FlipPayload, AcceptInv, FrameInv
      <4> QED BY <4>2, <4>3 DEF AcceptInv, FrameInv, ToDatagram, Encrypt
    <3> QED BY <2>2, <3>1 DEF AcceptInv, FlipPayload, FrameInv, AcceptsOnlyTheSent,
                              UntouchedIsAccepted, Accepted
  <2>3. CASE FlipLength
    <3>1. FrameInv'
      <4>1. PICK len \in {0, Capacity, Capacity + 1} :
              frame' = [frame EXCEPT !.encrypted_payload =
                          [frame.encrypted_payload EXCEPT !.len = len, !.intact = FALSE]]
        BY <2>3 DEF FlipLength, AcceptInv, FrameInv
      <4>2. /\ frame'.header = frame.header
            /\ frame'.encrypted_payload =
                 [frame.encrypted_payload EXCEPT !.len = len, !.intact = FALSE]
            /\ frame' = [header |-> frame'.header, encrypted_payload |-> frame'.encrypted_payload]
        BY <4>1 DEF AcceptInv, FrameInv
      <4>3. sent' = sent /\ flips' = flips + 1 /\ flips' # 0
        BY <2>3 DEF FlipLength, AcceptInv, FrameInv
      <4>4. frame'.encrypted_payload =
              [key |-> sent.key, nonce |-> NewNonce(ToPacked(sent.header), sent.payload.len),
               aad |-> ToPacked(sent.header), payload |-> sent.payload,
               len |-> len, intact |-> FALSE]
        <5> DEFINE packed == ToPacked(sent.header)
                   nonce == NewNonce(packed, sent.payload.len)
                   old == frame.encrypted_payload
                   new == [old EXCEPT !.len = len, !.intact = FALSE]
        <5>1. old = [key |-> sent.key, nonce |-> nonce, aad |-> packed,
                     payload |-> sent.payload, len |-> old.len, intact |-> old.intact]
          BY DEF AcceptInv, FrameInv
        <5> HIDE DEF packed, nonce, old
        <5>2. /\ new = [f \in {"key", "nonce", "aad", "payload", "len", "intact"} |-> new[f]]
              /\ new.len = len /\ new.intact = FALSE
              /\ new.key = old.key /\ new.nonce = old.nonce /\ new.aad = old.aad
              /\ new.payload = old.payload
          BY <5>1
        <5> /\ old.key = sent.key /\ old.nonce = nonce /\ old.aad = packed
            /\ old.payload = sent.payload
          BY <5>1
        <5>3. new = [key |-> sent.key, nonce |-> nonce, aad |-> packed,
                     payload |-> sent.payload, len |-> len, intact |-> FALSE]
          <6> HIDE DEF new
          <6> DEFINE no == FALSE
          <6>1. new.intact = no
            BY <5>2
          <6> HIDE DEF no
          <6>2. new = [key |-> sent.key, nonce |-> nonce, aad |-> packed,
                     payload |-> sent.payload, len |-> len, intact |-> no]
            BY <5>2, <6>1
          <6> QED BY <6>2 DEF no
        <5> QED BY <4>2, <5>3 DEF packed, nonce, old
      <4>5. len = frame'.encrypted_payload.len /\ FALSE = frame'.encrypted_payload.intact
        BY <4>4
      <4> QED BY <4>2, <4>3, <4>4, <4>5 DEF AcceptInv, FrameInv
    <3> QED BY <2>3, <3>1 DEF AcceptInv, FlipLength, FrameInv, AcceptsOnlyTheSent,
                              UntouchedIsAccepted, Accepted
  <2>4. CASE ReceiveFrame
    <3>1. PICK filter \in Filters, key \in Keys :
            got' = [result |-> FromDatagram(frame, filter, key), filter |-> filter, key |-> key]
      BY <2>4 DEF ReceiveFrame
    <3>2. UNCHANGED <<sent, frame, flips>> /\ FrameInv
      BY <2>4 DEF ReceiveFrame, AcceptInv
    <3>3. FrameInv'
      BY <3>2 DEF FrameInv, ToDatagram, Encrypt
    <3>4. /\ got'.result = FromDatagram(frame, filter, key)
          /\ got'.filter = filter
          /\ got'.key = key
      BY <3>1
    <3> QED BY <3>2, <3>3, <3>4, FrameFacts
            DEF AcceptInv, AcceptsOnlyTheSent, UntouchedIsAccepted, Accepted
  <2>5. CASE UNCHANGED frameVars
    BY <2>5 DEF AcceptInv, frameVars, FrameInv, ToDatagram, Encrypt, AcceptsOnlyTheSent,
                UntouchedIsAccepted, Accepted
  <2> QED BY <2>1, <2>2, <2>3, <2>4, <2>5 DEF FrameNext
<1> QED BY <1>1, <1>2, PTL DEF FrameSpec

(* from_datagram returns nothing but what to_datagram was given, whatever  *)
(* bits the wire flips, for every set of headers, payloads and keys.       *)
THEOREM OnlyTheSentIsAccepted == FrameSpec => []AcceptsOnlyTheSent
BY FrameInvariance, PTL DEF AcceptInv

(* An untouched frame passes the filter it is meant for and decrypts:      *)
(* to_datagram and from_datagram agree on header, nonce and lengths.       *)
THEOREM UntouchedFramesArrive == FrameSpec => []UntouchedIsAccepted
BY FrameInvariance, PTL DEF AcceptInv

------------------------------------------------------------------------------
(* The bitmap, for all widths of bytes and lengths of bitmaps *)

(* The iterator's byte and bit are the quotient and the remainder of the   *)
(* index, and the spare addresses below the index have been gathered in    *)
(* order.                                                                  *)
LoopInv ==
  picking =>
    /\ \A b \in j : index = i * ADDRESSES_PER_BYTE + b
    /\ i = MIN_PAYLOAD_SIZE => j = {0}
    /\ spares <= index
    /\ \A k \in 0 .. spares - 1 :
         /\ spare_addresses[k] \in 0 .. index - 1
         /\ ~IsAddressSet(spare_addresses[k])
    /\ \A a \in 0 .. index - 1 :
         ~IsAddressSet(a) => \E k \in 0 .. spares - 1 : spare_addresses[k] = a
    /\ \A k, l \in 0 .. spares - 1 : k < l => spare_addresses[k] < spare_addresses[l]

IInv == TypeOK /\ LoopInv

------------------------------------------------------------------------------
(* The byte and the bit of an address *)

(* An address is made up of its byte and its bit in one way only, which is *)
(* what lets is_address_set find what set_address has written.             *)
LEMMA DivMod ==
  ASSUME NEW q \in Nat, NEW b \in Bit
  PROVE  /\ (q * ADDRESSES_PER_BYTE + b) \div ADDRESSES_PER_BYTE = q
         /\ (q * ADDRESSES_PER_BYTE + b) % ADDRESSES_PER_BYTE = b
BY IdentifyAssumption DEF Bit

(* Every address has its byte in the bitmap. *)
LEMMA ByteAndBit ==
  ASSUME NEW a \in Address
  PROVE  /\ a \div ADDRESSES_PER_BYTE \in 0 .. MIN_PAYLOAD_SIZE - 1
         /\ a % ADDRESSES_PER_BYTE \in Bit
         /\ a = (a \div ADDRESSES_PER_BYTE) * ADDRESSES_PER_BYTE + (a % ADDRESSES_PER_BYTE)
<1> DEFINE q == a \div ADDRESSES_PER_BYTE
<1>1. /\ a = q * ADDRESSES_PER_BYTE + (a % ADDRESSES_PER_BYTE)
      /\ a % ADDRESSES_PER_BYTE \in 0 .. ADDRESSES_PER_BYTE - 1
      /\ q \in Nat
  BY IdentifyAssumption DEF Address, MAX_ADDRESSES
<1>2. q * ADDRESSES_PER_BYTE < MIN_PAYLOAD_SIZE * ADDRESSES_PER_BYTE
  BY <1>1, IdentifyAssumption DEF Address, MAX_ADDRESSES
<1> HIDE DEF q
<1>3. q < MIN_PAYLOAD_SIZE
  BY <1>1, <1>2, IdentifyAssumption
<1> QED
  BY <1>1, <1>3, IdentifyAssumption DEF q, Bit

(* set_address makes known the address it is given, and no other. *)
LEMMA SetAddressLearns ==
  ASSUME TypeOK, NEW address \in Address, SetAddress(address)
  PROVE  Known' = Known \cup {address}
<1> DEFINE byte == address \div ADDRESSES_PER_BYTE
           bit == address % ADDRESSES_PER_BYTE
<1>1. /\ byte \in 0 .. MIN_PAYLOAD_SIZE - 1
      /\ bit \in Bit
      /\ address = byte * ADDRESSES_PER_BYTE + bit
  BY ByteAndBit
<1>2. addresses' = [addresses EXCEPT ![byte] = @ \cup {bit}]
  BY DEF SetAddress
<1>3. ASSUME NEW a \in Address
      PROVE  IsAddressSet(a)' <=> IsAddressSet(a) \/ a = address
  <2> DEFINE q == a \div ADDRESSES_PER_BYTE
             b == a % ADDRESSES_PER_BYTE
  <2>1. /\ q \in 0 .. MIN_PAYLOAD_SIZE - 1
        /\ b \in Bit
        /\ a = q * ADDRESSES_PER_BYTE + b
    BY ByteAndBit
  <2>2. a = address <=> q = byte /\ b = bit
    BY <1>1, <2>1
  <2>3. IsAddressSet(a) <=> b \in addresses[q]
    BY DEF IsAddressSet
  <2>4. IsAddressSet(a)' <=> b \in addresses'[q]
    BY DEF IsAddressSet
  <2> HIDE DEF q, b, byte, bit
  <2> QED
    BY <1>2, <2>1, <2>2, <2>3, <2>4 DEF TypeOK
<1> QED
  BY <1>3 DEF Known

------------------------------------------------------------------------------
(* Every step preserves the invariant *)

LEMMA InitInv == Init => IInv
<1> SUFFICES ASSUME Init PROVE IInv
  OBVIOUS
<1>1. MAX_ADDRESSES \in Nat /\ ADDRESSES_PER_BYTE - 1 \in Nat /\ MIN_PAYLOAD_SIZE \in Nat
  BY IdentifyAssumption DEF MAX_ADDRESSES
<1>2. spare_addresses \in [Address -> Address \cup {0}]
  BY DEF Init, NoSpares
<1>3. addresses \in [0 .. MIN_PAYLOAD_SIZE - 1 -> SUBSET Bit]
  BY DEF Init
<1>4. 0 \in Bit
  BY <1>1 DEF Bit
<1>5. j \in {{b} : b \in Bit}
  BY <1>4 DEF Init
<1>6. /\ i \in 0 .. MIN_PAYLOAD_SIZE
      /\ index \in 0 .. MAX_ADDRESSES
      /\ spares \in 0 .. MAX_ADDRESSES
  BY <1>1 DEF Init
<1>7. picking \in BOOLEAN /\ picked \in Address \cup {None}
  BY DEF Init
<1>8. TypeOK
  BY <1>2, <1>3, <1>5, <1>6, <1>7 DEF TypeOK
<1> QED
  BY <1>8 DEF Init, IInv, LoopInv

LEMMA SetAddressInv ==
  ASSUME IInv, NEW address \in Address, SetAddress(address)
  PROVE  IInv'
<1>1. /\ address \div ADDRESSES_PER_BYTE \in 0 .. MIN_PAYLOAD_SIZE - 1
      /\ address % ADDRESSES_PER_BYTE \in Bit
  BY ByteAndBit
<1>2. addresses' \in [0 .. MIN_PAYLOAD_SIZE - 1 -> SUBSET Bit]
  BY <1>1 DEF IInv, TypeOK, SetAddress
<1> QED
  BY <1>2 DEF IInv, TypeOK, LoopInv, SetAddress, loopVars

LEMMA IterInv ==
  ASSUME IInv, Iter
  PROVE  IInv'
<1>1. TypeOK'
  BY IdentifyAssumption DEF IInv, TypeOK, Iter, NoSpares, Address, MAX_ADDRESSES, Bit
<1>2. MIN_PAYLOAD_SIZE * ADDRESSES_PER_BYTE \in Nat
  BY IdentifyAssumption
<1>3. LoopInv'
  BY <1>2, IdentifyAssumption DEF Iter, LoopInv, NoSpares
<1> QED
  BY <1>1, <1>3 DEF IInv

(* The index of the item at hand is an address, whose byte is i and whose  *)
(* bit is the one of j.                                                    *)
LEMMA ItemIsAddress ==
  ASSUME IInv, picking, i < MIN_PAYLOAD_SIZE
  PROVE  /\ index \in Address
         /\ addresses[i] \cap j # {} <=> IsAddressSet(index)
<1>1. PICK b \in Bit : j = {b}
  BY DEF IInv, TypeOK
<1>2. index = i * ADDRESSES_PER_BYTE + b /\ i \in Nat
  BY <1>1 DEF IInv, TypeOK, LoopInv
<1>3. index \div ADDRESSES_PER_BYTE = i /\ index % ADDRESSES_PER_BYTE = b
  BY <1>2, DivMod
<1>4. index \in Address
  <2>1. i + 1 <= MIN_PAYLOAD_SIZE
    BY <1>2, IdentifyAssumption
  <2>2. (i + 1) * ADDRESSES_PER_BYTE <= MIN_PAYLOAD_SIZE * ADDRESSES_PER_BYTE
    BY <1>2, <2>1, IdentifyAssumption
  <2>3. i * ADDRESSES_PER_BYTE + b < (i + 1) * ADDRESSES_PER_BYTE
    BY <1>2, IdentifyAssumption DEF Bit
  <2>4. i * ADDRESSES_PER_BYTE \in Nat /\ (i + 1) * ADDRESSES_PER_BYTE \in Nat
    BY <1>2, IdentifyAssumption
  <2> QED
    BY <1>2, <2>2, <2>3, <2>4, IdentifyAssumption DEF Address, MAX_ADDRESSES, Bit
<1> QED
  BY <1>1, <1>3, <1>4 DEF IsAddressSet

(* The iterator's position goes up by one. *)
LEMMA AdvancePosition ==
  ASSUME IInv, NextItem
  PROVE  /\ i' \in 0 .. MIN_PAYLOAD_SIZE
         /\ j' \in {{b} : b \in Bit}
         /\ \A b \in j' : index + 1 = i' * ADDRESSES_PER_BYTE + b
         /\ i' = MIN_PAYLOAD_SIZE => j' = {0}
<1>1. PICK b \in Bit : j = {b}
  BY DEF IInv, TypeOK
<1>2. index = i * ADDRESSES_PER_BYTE + b /\ i \in Nat /\ i < MIN_PAYLOAD_SIZE
  BY <1>1 DEF IInv, TypeOK, LoopInv, NextItem
<1>3. CASE b + 1 \in Bit
  <2>1. Shl1(j) = {b + 1}
    BY <1>1, <1>3 DEF Shl1
  <2>2. i' = i /\ j' = {b + 1}
    BY <2>1 DEF NextItem, Advance
  <2> QED
    BY <1>2, <1>3, <2>2, IdentifyAssumption DEF Bit
<1>4. CASE b + 1 \notin Bit
  <2>1. Shl1(j) = {}
    BY <1>1, <1>4 DEF Shl1
  <2>2. i' = i + 1 /\ j' = {0}
    BY <2>1 DEF NextItem, Advance
  <2>3. b + 1 = ADDRESSES_PER_BYTE
    BY <1>4, IdentifyAssumption DEF Bit
  <2>4. index + 1 = (i + 1) * ADDRESSES_PER_BYTE
    BY <1>2, <2>3, IdentifyAssumption DEF Bit
  <2> QED
    BY <1>2, <2>2, <2>4, IdentifyAssumption DEF Bit
<1> QED
  BY <1>3, <1>4

LEMMA NextItemInv ==
  ASSUME IInv, NextItem
  PROVE  IInv'
<1>1. index \in Address /\ (addresses[i] \cap j # {} <=> IsAddressSet(index))
  BY ItemIsAddress DEF NextItem
<1>2. /\ addresses' = addresses /\ picking /\ picking' = picking /\ picked' = picked
      /\ index' = index + 1
  BY DEF NextItem
<1>3. index \in Nat /\ index < MAX_ADDRESSES /\ MAX_ADDRESSES \in Nat
  BY <1>1, IdentifyAssumption DEF Address, MAX_ADDRESSES
<1>4. /\ spares \in 0 .. index
      /\ spare_addresses \in [Address -> Address \cup {0}]
      /\ \A k \in 0 .. spares - 1 :
           spare_addresses[k] \in 0 .. index - 1 /\ ~IsAddressSet(spare_addresses[k])
      /\ \A a \in 0 .. index - 1 :
           ~IsAddressSet(a) => \E k \in 0 .. spares - 1 : spare_addresses[k] = a
      /\ \A k, l \in 0 .. spares - 1 : k < l => spare_addresses[k] < spare_addresses[l]
  BY <1>2, <1>3 DEF IInv, TypeOK, LoopInv
<1> DEFINE Gathered ==
      /\ spares' \in 0 .. index + 1
      /\ spare_addresses' \in [Address -> Address \cup {0}]
      /\ \A k \in 0 .. spares' - 1 :
           spare_addresses'[k] \in 0 .. index /\ ~IsAddressSet(spare_addresses'[k])
      /\ \A a \in 0 .. index :
           ~IsAddressSet(a) => \E k \in 0 .. spares' - 1 : spare_addresses'[k] = a
      /\ \A k, l \in 0 .. spares' - 1 : k < l => spare_addresses'[k] < spare_addresses'[l]
<1>5. Gathered
  <2>1. CASE addresses[i] \cap j # {}
    <3>1. IsAddressSet(index) /\ UNCHANGED <<spare_addresses, spares>>
      BY <1>1, <2>1 DEF NextItem
    <3> QED
      BY <1>3, <1>4, <3>1
  <2>2. CASE addresses[i] \cap j = {}
    <3>1. /\ ~IsAddressSet(index)
          /\ spare_addresses' = [spare_addresses EXCEPT ![spares] = index]
          /\ spares' = spares + 1
      BY <1>1, <2>2 DEF NextItem
    <3>2. spares \in Address
      BY <1>3, <1>4 DEF Address
    <3>3. /\ spare_addresses'[spares] = index
          /\ \A k \in 0 .. spares - 1 : spare_addresses'[k] = spare_addresses[k]
      BY <1>3, <1>4, <3>1, <3>2 DEF Address
    <3>4. spare_addresses' \in [Address -> Address \cup {0}]
      BY <1>1, <1>4, <3>1
    <3>5. \A a \in 0 .. index :
            ~IsAddressSet(a) => \E k \in 0 .. spares : spare_addresses'[k] = a
      BY <1>3, <1>4, <3>3
    <3> QED
      BY <1>3, <1>4, <3>1, <3>3, <3>4, <3>5
  <2> QED
    BY <2>1, <2>2
<1>6. TypeOK'
  BY <1>2, <1>3, <1>5, AdvancePosition DEF IInv, TypeOK
<1>7. LoopInv'
  <2>1. /\ \A b \in j' : index' = i' * ADDRESSES_PER_BYTE + b
        /\ i' = MIN_PAYLOAD_SIZE => j' = {0}
        /\ spares' <= index'
    BY <1>2, <1>3, <1>5, AdvancePosition
  <2>2. /\ \A k \in 0 .. spares' - 1 :
             spare_addresses'[k] \in 0 .. index' - 1 /\ ~IsAddressSet(spare_addresses'[k])
        /\ \A a \in 0 .. index' - 1 :
             ~IsAddressSet(a) => \E k \in 0 .. spares' - 1 : spare_addresses'[k] = a
    <3>1. index' - 1 = index
      BY <1>2, <1>3
    <3> QED
      BY <1>5, <3>1, Zenon
  <2> QED
    BY <1>2, <1>5, <2>1, <2>2 DEF LoopInv, IsAddressSet
<1> QED
  BY <1>6, <1>7 DEF IInv

(* At the end of the loop all addresses have been looked at. *)
LEMMA SparesAreTheRest ==
  ASSUME IInv, picking, i = MIN_PAYLOAD_SIZE
  PROVE  ChoiceIsEven
<1>1. index = MAX_ADDRESSES
  BY IdentifyAssumption DEF IInv, TypeOK, LoopInv, MAX_ADDRESSES
<1>2. {spare_addresses[k] : k \in 0 .. spares - 1} = Address \ Known
  BY <1>1 DEF IInv, LoopInv, Address, Known
<1>3. ASSUME NEW k \in 0 .. spares - 1, NEW l \in 0 .. spares - 1, k # l
      PROVE  spare_addresses[k] # spare_addresses[l]
  <2>1. spares \in Nat /\ index \in Nat
    BY DEF IInv, TypeOK
  <2>2. k < l \/ l < k
    BY <1>3, <2>1
  <2>3. spare_addresses[k] \in Int /\ spare_addresses[l] \in Int
    BY <2>1 DEF IInv, LoopInv
  <2> QED
    BY <2>2, <2>3 DEF IInv, LoopInv
<1> QED
  BY <1>2, <1>3 DEF ChoiceIsEven

(* What with_random_address returns. *)
LEMMA PickedIsSpare ==
  ASSUME IInv, WithRandomAddress
  PROVE  picked' \in IF Known = Address THEN {None} ELSE Address \ Known
<1>1. picking /\ i = MIN_PAYLOAD_SIZE /\ spares \in Nat
  BY IdentifyAssumption DEF WithRandomAddress, IInv, TypeOK, MAX_ADDRESSES
<1>2. {spare_addresses[k] : k \in 0 .. spares - 1} = Address \ Known
  BY <1>1, SparesAreTheRest DEF ChoiceIsEven
<1>3. CASE spares > 0
  <2>1. PICK random \in Random : picked' = AsU8(spare_addresses[random % spares])
    BY <1>3 DEF WithRandomAddress
  <2>2. random % spares \in 0 .. spares - 1
    BY <1>1, <1>3, IdentifyAssumption
  <2>3. spare_addresses[random % spares] \in Address \ Known
    BY <1>2, <2>2
  <2>4. \A a \in Address : AsU8(a) = a
    BY IdentifyAssumption DEF Address, MAX_ADDRESSES, AsU8
  <2> QED
    BY <2>1, <2>3, <2>4
<1>4. CASE spares = 0
  <2>1. picked' = None
    BY <1>4 DEF WithRandomAddress
  <2>2. Address \ Known = {}
    BY <1>2, <1>4
  <2> QED
    BY <2>1, <2>2 DEF Known
<1> QED
  BY <1>1, <1>3, <1>4

LEMMA WithRandomAddressInv ==
  ASSUME IInv, WithRandomAddress
  PROVE  IInv'
<1>1. picked' \in Address \cup {None}
  BY PickedIsSpare
<1> QED
  BY <1>1 DEF IInv, TypeOK, LoopInv, WithRandomAddress, loopVars

LEMMA NextInv ==
  ASSUME IInv, [Next]_vars
  PROVE  IInv'
<1>1. CASE \E address \in Address : SetAddress(address)
  BY <1>1, SetAddressInv
<1>2. CASE Iter
  BY <1>2, IterInv
<1>3. CASE NextItem
  BY <1>3, NextItemInv
<1>4. CASE WithRandomAddress
  BY <1>4, WithRandomAddressInv
<1>5. CASE UNCHANGED vars
  BY <1>5 DEF vars, loopVars, IInv, TypeOK, LoopInv, IsAddressSet
<1> QED
  BY <1>1, <1>2, <1>3, <1>4, <1>5 DEF Next

------------------------------------------------------------------------------
(* Theorems *)

(* The invariant holds of a bitmap of any size: set_address, iter and      *)
(* with_random_address keep the iterator's position and the spares true.   *)
THEOREM IdentifyInvariance == Spec => []IInv
<1>1. Init => IInv
  BY InitInv
<1>2. IInv /\ [Next]_vars => IInv'
  BY NextInv
<1> QED
  BY <1>1, <1>2, PTL DEF Spec

(* The loop of with_random_address never indexes past the bitmap or past   *)
(* spare_addresses, and no variable leaves its type.                       *)
THEOREM IdentifyTypeCorrect == Spec => []TypeOK
<1>1. IInv => TypeOK
  BY DEF IInv
<1> QED
  BY <1>1, IdentifyInvariance, PTL

(* with_random_address chooses from exactly the addresses that are not     *)
(* known, each once.                                                       *)
THEOREM EvenChoice == Spec => []ChoiceIsEven
<1>1. IInv => ChoiceIsEven
  BY SparesAreTheRest DEF ChoiceIsEven
<1> QED
  BY <1>1, IdentifyInvariance, PTL

(* The bitmap, its iterator and with_random_address implement the set of   *)
(* addresses that discovery relies on: no known address is ever returned,  *)
(* and None only when all are known (discovery.rs:95-99).                  *)
THEOREM BitmapIsAddressSet == Spec => Set!Safety
<1>1. Init => Set!Init
  BY ByteAndBit DEF Init, Set!Init, Known, IsAddressSet
<1>2. ASSUME IInv, [Next]_vars
      PROVE  [Set!Next]_(Set!vars)
  <2>1. CASE \E address \in Address : SetAddress(address)
    <3>1. PICK address \in Address : SetAddress(address)
      BY <2>1
    <3>2. Known' = Known \cup {address}
      BY <1>2, <3>1, SetAddressLearns DEF IInv
    <3> QED
      BY <3>1, <3>2 DEF Set!Next, Set!Learn, Set!Address, Address, SetAddress
  <2>2. CASE Iter
    BY <2>2 DEF Iter, Set!Next, Set!Ask, Known, IsAddressSet
  <2>3. CASE NextItem
    BY <2>3 DEF NextItem, Set!vars, Known, IsAddressSet
  <2>4. CASE WithRandomAddress
    <3>1. Known' = Known
      BY <2>4 DEF WithRandomAddress, Known, IsAddressSet
    <3> QED
      BY <1>2, <2>4, <3>1, PickedIsSpare
      DEF WithRandomAddress, Set!Next, Set!Answer, Set!Address, Address
  <2>5. CASE UNCHANGED vars
    BY <2>5 DEF vars, Set!vars, Known, IsAddressSet
  <2> QED
    BY <1>2, <2>1, <2>2, <2>3, <2>4, <2>5 DEF Next
<1> QED
  BY <1>1, <1>2, IdentifyInvariance, PTL DEF Spec, Set!Safety

==============================================================================
