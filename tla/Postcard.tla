------------------------------- MODULE Postcard -------------------------------
(***************************************************************************)
(* The wire format of the postcard crate, as the messages of the           *)
(* application and data link layers use it.  A datagram is a sequence of   *)
(* bytes 0 .. 255.  Integers wider than a byte are varints: seven bits to  *)
(* a byte, the low ones first, and 128 added to all bytes but the last.    *)
(* An enum is the varint of its variant followed by the fields.            *)
(*                                                                         *)
(* Reading takes a value off the front of the bytes and yields the value   *)
(* and the rest, or Err.                                                   *)
(***************************************************************************)
EXTENDS Integers, Sequences, FiniteSetsExt

CONSTANT None    \* Option::None

Err == [error |-> "postcard::Error"]

Ok(value, rest) == [value |-> value, rest |-> rest]

IsOk(result) == "value" \in DOMAIN result

------------------------------------------------------------------------------

(* n without its low groups of seven bits: none of them, one, two, ... *)
Shifted(n) ==
  LET s2 == n \div 128
      s3 == s2 \div 128
      s4 == s3 \div 128
      s5 == s4 \div 128
      s6 == s5 \div 128
      s7 == s6 \div 128
      s8 == s7 \div 128
      s9 == s8 \div 128
      s10 == s9 \div 128
  IN  <<n, s2, s3, s4, s5, s6, s7, s8, s9, s10>>

(* Up to 32 bits are five groups, the last one of four bits; up to 64 bits *)
(* are ten, the last one of a single bit.                                  *)
IsU32(n) == n \in Nat /\ Shifted(n)[5] < 16
IsU64(n) == n \in Nat /\ Shifted(n)[10] < 2

MaxLenU32 == 5
MaxLenU64 == 10

VarintLen(n) == Min({k \in 1 .. MaxLenU64 : Shifted(n)[k] < 128})

Varint(n) ==
  [k \in 1 .. VarintLen(n) |->
    (Shifted(n)[k] % 128) + (IF k < VarintLen(n) THEN 128 ELSE 0)]

Join(low, high) == low + 128 * high

(* A varint of at most max bytes *)
TakeVarint(max, bytes) ==
  LET ends == {k \in 1 .. max : k <= Len(bytes) /\ bytes[k] < 128}
      len == Min(ends)
      Bits(k) == IF k <= len THEN bytes[k] % 128 ELSE 0
      high == Join(Bits(6), Join(Bits(7), Join(Bits(8), Join(Bits(9), Bits(10)))))
      value == Join(Bits(1), Join(Bits(2), Join(Bits(3), Join(Bits(4), Join(Bits(5), high)))))
  IN  IF ends = {} THEN Err ELSE Ok(value, SubSeq(bytes, len + 1, Len(bytes)))

TakeU32(bytes) == TakeVarint(MaxLenU32, bytes)
TakeU64(bytes) == TakeVarint(MaxLenU64, bytes)

(* Option<u32> *)
OptVarint(o) == IF o = None THEN <<0>> ELSE <<1>> \o Varint(o)

TakeOptU32(bytes) ==
  CASE bytes = <<>> -> Err
    [] bytes # <<>> /\ bytes[1] = 0 -> Ok(None, Tail(bytes))
    [] bytes # <<>> /\ bytes[1] = 1 -> TakeU32(Tail(bytes))
    [] bytes # <<>> /\ bytes[1] > 1 -> Err

==============================================================================
