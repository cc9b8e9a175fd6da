------------------------------ MODULE Datagrams ------------------------------
(***************************************************************************)
(* The messages of the two layers as bytes: CommandRequest and EventReply  *)
(* (app/src/lib.rs), whose last field has no tag and ends with the         *)
(* datagram, and Update (data/src/update.rs), which has to fit a frame.    *)
(*                                                                         *)
(* A sender serialises a message into a buffer; one that does not fit is   *)
(* not sent, or ends an update with a panic (unwrap).  The datagram may be *)
(* received into a smaller buffer, which cuts it off: then the bytes that  *)
(* remain look like a message that was meant to be short.                  *)
(*                                                                         *)
(* Commands and events are the fieldless variants of an enum, the bytes of *)
(* an update have no content.                                              *)
(***************************************************************************)
EXTENDS Postcard

CONSTANTS
  Commands, Events, Ephemerals,   \* how many variants each enum has
  Offsets,                        \* inputs: values of type u32
  Ticks,                          \* inputs: values of delta_ticks
  ByteOffsets, ByteLens,          \* inputs: fields of an Update
  BufferSizes,                    \* inputs: the sizes of the receiver's buffer
  MAX_DATAGRAM_SIZE,
  MIN_PAYLOAD_SIZE

ASSUME DatagramsAssumption ==
  /\ Commands \in 1 .. 128 /\ Events \in 1 .. 128 /\ Ephemerals \in 1 .. 128
  /\ \A n \in Offsets \cup ByteOffsets \cup ByteLens : IsU32(n)
  /\ \A n \in Ticks : IsU64(n)
  /\ BufferSizes \subseteq Nat
  /\ MAX_DATAGRAM_SIZE \in Nat /\ MAX_DATAGRAM_SIZE >= 21
  /\ MIN_PAYLOAD_SIZE \in 5 .. 132
  /\ None \notin Int

Variants(n) == 0 .. n - 1

EventOf ==
  [kind : {"Logged"}, event : Variants(Events), offset : Offsets]
    \cup [kind : {"Ephemeral"}, event : Variants(Ephemerals)]
    \cup [kind : {"Recovery"}, from : Offsets, to : Offsets]

ASSUME NoneIsNoEvent == None \notin EventOf

(* The head of a message is the part before its last field. *)
Message ==
  [type : {"CommandRequest"}, head : Offsets \cup {None}, last : Variants(Commands) \cup {None}]
    \cup [type : {"EventReply"}, head : Ticks, last : EventOf]
    \cup [type : {"EventReply"}, head : {0}, last : {None}]
    \cup [type : {"Update"}, head : ByteOffsets, last : ByteLens]

------------------------------------------------------------------------------
(* Serialisation *)

SerialiseEvent(e) ==
  CASE e.kind = "Logged" -> <<0>> \o Varint(e.event) \o Varint(e.offset)
    [] e.kind = "Ephemeral" -> <<1>> \o Varint(e.event)
    [] e.kind = "Recovery" -> <<2>> \o Varint(e.from) \o Varint(e.to)

(* serialise_last_field: None leaves no trace. *)
SerialiseLastFieldTagged(o, bytes) == IF o = None THEN <<0>> ELSE bytes

SerialiseLastField(o, bytes) == IF o = None THEN <<>> ELSE bytes

Serialise(m) ==
  CASE m.type = "CommandRequest" -> OptVarint(m.head) \o SerialiseLastField(m.last, Varint(m.last))
    [] m.type = "EventReply" -> Varint(m.head) \o SerialiseLastField(m.last, SerialiseEvent(m.last))
    [] m.type = "Update" -> Varint(m.head) \o Varint(m.last) \o [k \in 1 .. m.last |-> 0]

------------------------------------------------------------------------------
(* Deserialisation *)

TakeVariant(n, bytes) ==
  LET variant == TakeU32(bytes)
  IN  IF IsOk(variant) /\ variant.value < n THEN variant ELSE Err

TakeLogged(bytes) ==
  LET event == TakeVariant(Events, bytes)
      offset == TakeU32(event.rest)
  IN  IF IsOk(event) /\ IsOk(offset)
        THEN Ok([kind |-> "Logged", event |-> event.value, offset |-> offset.value], offset.rest)
        ELSE Err

TakeEphemeral(bytes) ==
  LET event == TakeVariant(Ephemerals, bytes)
  IN  IF IsOk(event)
        THEN Ok([kind |-> "Ephemeral", event |-> event.value], event.rest)
        ELSE Err

TakeRecovery(bytes) ==
  LET from == TakeU32(bytes)
      to == TakeU32(from.rest)
  IN  IF IsOk(from) /\ IsOk(to)
        THEN Ok([kind |-> "Recovery", from |-> from.value, to |-> to.value], to.rest)
        ELSE Err

TakeEvent(bytes) ==
  LET kind == TakeVariant(3, bytes)
  IN  CASE ~IsOk(kind) -> Err
        [] IsOk(kind) /\ kind.value = 0 -> TakeLogged(kind.rest)
        [] IsOk(kind) /\ kind.value = 1 -> TakeEphemeral(kind.rest)
        [] IsOk(kind) /\ kind.value = 2 -> TakeRecovery(kind.rest)

TakeCommand(bytes) == TakeVariant(Commands, bytes)

(* deserialise_last_field: whatever cannot be read is None. *)
DeserialiseLastField(result) == IF IsOk(result) THEN result ELSE Ok(None, <<>>)

TakeBytes(bytes) ==
  LET len == TakeU32(bytes)
  IN  IF IsOk(len) /\ len.value <= Len(len.rest)
        THEN Ok(len.value, SubSeq(len.rest, len.value + 1, Len(len.rest)))
        ELSE Err

TakeHead(type, bytes) ==
  CASE type = "CommandRequest" -> TakeOptU32(bytes)
    [] type = "EventReply" -> TakeU64(bytes)
    [] type = "Update" -> TakeU32(bytes)

TakeLast(type, bytes) ==
  CASE type = "CommandRequest" -> DeserialiseLastField(TakeCommand(bytes))
    [] type = "EventReply" -> DeserialiseLastField(TakeEvent(bytes))
    [] type = "Update" -> TakeBytes(bytes)

(* postcard::from_bytes; bytes that are left over do not matter. *)
Deserialise(type, bytes) ==
  LET head == TakeHead(type, bytes)
      last == TakeLast(type, head.rest)
  IN  IF IsOk(head) /\ IsOk(last)
        THEN [type |-> type, head |-> head.value, last |-> last.value]
        ELSE Err

------------------------------------------------------------------------------
(* A message on its way *)

(* The bytes of an Update that are not part of its bytes, and how many     *)
(* bytes are therefore put in one.                                         *)
UPDATE_BYTES_OVERHEAD_TooShort == 3 + 1

UPDATE_BYTES_OVERHEAD == 4 + 1

UPDATE_BYTES_SIZE == MIN_PAYLOAD_SIZE - UPDATE_BYTES_OVERHEAD

VARIABLES message, datagram, received, pc

vars == <<message, datagram, received, pc>>

Init ==
  /\ message \in Message
  /\ message.type = "Update" => message.last <= UPDATE_BYTES_SIZE
  /\ datagram = <<>>
  /\ received = None
  /\ pc = "send"

(* postcard::to_slice in the examples of the application layer *)
SendMessage ==
  /\ pc = "send" /\ message.type # "Update"
  /\ IF Len(Serialise(message)) <= MAX_DATAGRAM_SIZE
       THEN datagram' = Serialise(message) /\ pc' = "sent"
       ELSE UNCHANGED datagram /\ pc' = "dropped"
  /\ UNCHANGED <<message, received>>

(* postcard::to_vec and its unwrap in create_update_request *)
SendUpdate ==
  /\ pc = "send" /\ message.type = "Update"
  /\ IF Len(Serialise(message)) <= MIN_PAYLOAD_SIZE
       THEN datagram' = Serialise(message) /\ pc' = "sent"
       ELSE UNCHANGED datagram /\ pc' = "panicked"
  /\ UNCHANGED <<message, received>>

(* recv_from a buffer of the given size.  An update is in a frame that     *)
(* does not authenticate unless it is whole.                               *)
Receive(size) ==
  /\ pc = "sent"
  /\ message.type = "Update" => size >= Len(datagram)
  /\ received' = Deserialise(message.type, SubSeq(datagram, 1, Min({size, Len(datagram)})))
  /\ datagram' = SubSeq(datagram, 1, Min({size, Len(datagram)}))
  /\ pc' = "received"
  /\ UNCHANGED message

Next == SendMessage \/ SendUpdate \/ \E size \in BufferSizes : Receive(size)

Spec == Init /\ [][Next]_vars

------------------------------------------------------------------------------
(* Properties *)

WithoutLast(m) == [m EXCEPT !.last = None]

(* A message is received as it was sent, or, when its datagram was cut off *)
(* (recv_buf[..len] is short), it is refused or has lost its last field.   *)
(* It is never received with another offset, command or event, however the *)
(* cut falls: deserialise_last_field reads None and the client polls again.*)
ReceivedIsSent ==
  pc = "received" =>
    \/ received = message
    \/ Len(datagram) < Len(Serialise(message)) /\ received \in {Err, WithoutLast(message)}

(* Requests and replies always fit MAX_DATAGRAM_SIZE, and an Update of up  *)
(* to UPDATE_BYTES_SIZE bytes fits a frame, as UPDATE_BYTES_OVERHEAD means *)
(* it to, up to the first byte offset that takes five bytes.               *)
MessagesFit ==
  /\ pc # "dropped"
  /\ pc = "panicked" => message.head >= 268435456

==============================================================================
