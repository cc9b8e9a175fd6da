---------------------------- MODULE EncodingProofs ----------------------------
(***************************************************************************)
(* What is written is what is read: the messages of both layers as bytes   *)
(* (app/src/lib.rs, data/src/update.rs) and versions as text, and the      *)
(* order of versions (data/src/update.rs).                                 *)
(***************************************************************************)
EXTENDS Datagrams, VersionOrder, TLAPS

------------------------------------------------------------------------------
(* Sequences *)

(* The least element of a set of numbers *)
LEMMA MinIs ==
  ASSUME NEW S, S \subseteq Int, NEW m \in S, \A k \in S : m <= k
  PROVE  Min(S) = m
<1>1. Min(S) \in S /\ \A k \in S : Min(S) <= k
  BY DEF Min
<1>2. m \in Int /\ Min(S) \in Int /\ m <= Min(S) /\ Min(S) <= m
  BY <1>1
<1> QED BY <1>2

(* Two sequences, one after the other *)
LEMMA ConcatSecond ==
  ASSUME NEW S, NEW s \in Seq(S), NEW t \in Seq(S)
  PROVE  \A k \in 1 .. Len(t) : (s \o t)[Len(s) + k] = t[k]
OBVIOUS

(* The length, the first and the second part of a concatenation *)
LEMMA ConcatFacts ==
  ASSUME NEW S, NEW s \in Seq(S), NEW t \in Seq(S)
  PROVE  /\ s \o t \in Seq(S) /\ Len(s \o t) = Len(s) + Len(t)
         /\ Len(s) \in Nat /\ Len(t) \in Nat
         /\ \A k \in 1 .. Len(s) : (s \o t)[k] = s[k]
         /\ SubSeq(s \o t, Len(s) + 1, Len(s \o t)) = t
<1>1. /\ s \o t \in Seq(S) /\ Len(s \o t) = Len(s) + Len(t)
      /\ Len(s) \in Nat /\ Len(t) \in Nat
      /\ \A k \in 1 .. Len(s) : (s \o t)[k] = s[k]
  OBVIOUS
<1>2. \A k \in 1 .. Len(t) : (s \o t)[Len(s) + k] = t[k]
  BY ConcatSecond
<1>3. SubSeq(s \o t, Len(s) + 1, Len(s \o t)) = t
  <2>1. SubSeq(s \o t, Len(s) + 1, Len(s) + Len(t)) = [k \in 1 .. Len(t) |-> (s \o t)[Len(s) + k]]
    OBVIOUS
  <2> QED BY <1>1, <1>2, <2>1
<1> QED BY <1>1, <1>2, <1>3

(* A part of a sequence *)
LEMMA PartFacts ==
  ASSUME NEW S, NEW s \in Seq(S), NEW i \in 1 .. Len(s), NEW j \in i .. Len(s)
  PROVE  /\ SubSeq(s, i, j) \in Seq(S) /\ Len(SubSeq(s, i, j)) = j - i + 1
         /\ \A k \in 1 .. (j - i + 1) : SubSeq(s, i, j)[k] = s[i + k - 1]
OBVIOUS

(* Where the cut falls in two sequences *)
LEMMA CutFacts ==
  ASSUME NEW S, NEW s \in Seq(S), NEW t \in Seq(S), NEW size \in 0 .. Len(s) + Len(t)
  PROVE  /\ size < Len(s) => SubSeq(s \o t, 1, size) = SubSeq(s, 1, size)
         /\ size >= Len(s) => SubSeq(s \o t, 1, size) = s \o SubSeq(t, 1, size - Len(s))
OBVIOUS

------------------------------------------------------------------------------
(* Datagrams *)

(* Ok and Err are told apart, and Ok holds the value and the rest. *)
LEMMA OkFacts ==
  ASSUME NEW v, NEW r
  PROVE  IsOk(Ok(v, r)) /\ Ok(v, r).value = v /\ Ok(v, r).rest = r
BY DEF IsOk, Ok

LEMMA ErrFacts == ~IsOk(Err)
BY DEF IsOk, Err

(* One group after the other *)
LEMMA ShiftedFacts ==
  ASSUME NEW n \in Nat
  PROVE  /\ Shifted(n)[1] = n
         /\ \A k \in 1 .. 10 : Shifted(n)[k] \in Nat
         /\ \A k \in 1 .. 9 : Shifted(n)[k] = 128 * Shifted(n)[k + 1] + (Shifted(n)[k] % 128)
         /\ \A k \in 1 .. 9 : Shifted(n)[k] < 128 => Shifted(n)[k + 1] = 0
<1>1. \A m \in Nat : /\ m \div 128 \in Nat
                     /\ m = 128 * (m \div 128) + (m % 128)
                     /\ m < 128 => m \div 128 = 0
  OBVIOUS
<1> DEFINE s == Shifted(n)
           Div(m) == m \div 128
<1>2. /\ s[1] = n
      /\ s[2] = Div(s[1]) /\ s[3] = Div(s[2]) /\ s[4] = Div(s[3])
      /\ s[5] = Div(s[4]) /\ s[6] = Div(s[5]) /\ s[7] = Div(s[6])
      /\ s[8] = Div(s[7]) /\ s[9] = Div(s[8]) /\ s[10] = Div(s[9])
  BY DEF Shifted
<1>3. \A m \in Nat : Div(m) \in Nat
  BY <1>1
<1> HIDE DEF s, Div
<1>4. \A k \in 1 .. 9 : s[k + 1] = Div(s[k])
  <2>1. \A k \in 1 .. 9 :
          k = 1 \/ k = 2 \/ k = 3 \/ k = 4 \/ k = 5 \/ k = 6 \/ k = 7 \/ k = 8 \/ k = 9
    OBVIOUS
  <2>2. /\ s[1 + 1] = Div(s[1]) /\ s[2 + 1] = Div(s[2]) /\ s[3 + 1] = Div(s[3])
        /\ s[4 + 1] = Div(s[4]) /\ s[5 + 1] = Div(s[5]) /\ s[6 + 1] = Div(s[6])
        /\ s[7 + 1] = Div(s[7]) /\ s[8 + 1] = Div(s[8]) /\ s[9 + 1] = Div(s[9])
    BY <1>2
  <2> QED BY <2>1, <2>2
<1>5. /\ s[1] \in Nat /\ s[2] \in Nat /\ s[3] \in Nat /\ s[4] \in Nat /\ s[5] \in Nat
      /\ s[6] \in Nat /\ s[7] \in Nat /\ s[8] \in Nat /\ s[9] \in Nat /\ s[10] \in Nat
  BY <1>2, <1>3
<1>6. \A k \in 1 .. 10 : s[k] \in Nat
  BY <1>5
<1>7. \A k \in 1 .. 9 : /\ s[k] = 128 * s[k + 1] + (s[k] % 128)
                        /\ s[k] < 128 => s[k + 1] = 0
  <2> TAKE k \in 1 .. 9
  <2>1. s[k] \in Nat /\ s[k + 1] = s[k] \div 128
    BY <1>4, <1>6 DEF Div
  <2> QED BY <1>1, <2>1
<1> QED BY <1>2, <1>6, <1>7 DEF s

(* The first group that is the last one *)
LEMMA VarintLenFacts ==
  ASSUME NEW n \in Nat, NEW max \in 1 .. 10, Shifted(n)[max] < 128
  PROVE  /\ VarintLen(n) \in 1 .. max
         /\ Shifted(n)[VarintLen(n)] < 128
         /\ \A k \in 1 .. 10 : k < VarintLen(n) => Shifted(n)[k] >= 128
         /\ \A k \in 1 .. 10 : k > VarintLen(n) => Shifted(n)[k] = 0
<1> DEFINE s == Shifted(n)
           Last(k) == k \in 1 .. 10 /\ s[k] < 128
<1>1. \A k \in 1 .. 10 : s[k] \in Nat
  BY ShiftedFacts
<1>2. \A k \in 1 .. 9 : s[k] < 128 => s[k + 1] = 0
  BY ShiftedFacts
<1> HIDE DEF s
<1>3. PICK m \in 1 .. 10 : Last(m) /\ \A k \in 1 .. 10 : Last(k) => m <= k
  <2> HIDE DEF Last
  <2>1. \A k \in 1 .. 10 : \/ k = 1 \/ k = 2 \/ k = 3 \/ k = 4 \/ k = 5
                           \/ k = 6 \/ k = 7 \/ k = 8 \/ k = 9 \/ k = 10
    OBVIOUS
  <2>2. \/ Last(1) \/ Last(2) \/ Last(3) \/ Last(4) \/ Last(5)
        \/ Last(6) \/ Last(7) \/ Last(8) \/ Last(9) \/ Last(10)
    BY <2>1 DEF Last, s
  <2> QED BY <2>1, <2>2
<1>4. VarintLen(n) = m
  <2>1. m \in {k \in 1 .. 10 : s[k] < 128} /\ \A k \in {j \in 1 .. 10 : s[j] < 128} : m <= k
    BY <1>3
  <2>2. {k \in 1 .. 10 : s[k] < 128} \subseteq Int
    OBVIOUS
  <2> QED BY <2>1, <2>2, MinIs DEF VarintLen, MaxLenU64, s
<1>5. m <= max
  BY <1>3 DEF s
<1>6. \A k \in 1 .. 10 : k < m => s[k] >= 128
  BY <1>1, <1>3
<1>7. \A k \in 1 .. 10 : k > m => s[k] = 0
  <2>1. /\ s[1] < 128 => s[2] = 0
        /\ s[2] < 128 => s[3] = 0
        /\ s[3] < 128 => s[4] = 0
        /\ s[4] < 128 => s[5] = 0
        /\ s[5] < 128 => s[6] = 0
        /\ s[6] < 128 => s[7] = 0
        /\ s[7] < 128 => s[8] = 0
        /\ s[8] < 128 => s[9] = 0
        /\ s[9] < 128 => s[10] = 0
    BY <1>2
  <2>2. s[m] < 128
    BY <1>3
  <2> QED BY <2>1, <2>2
<1> QED BY <1>3, <1>4, <1>5, <1>6, <1>7 DEF s

(* A varint ends with its first byte below 128. *)
LEMMA VarintFacts ==
  ASSUME NEW n \in Nat, NEW max \in 1 .. 10, Shifted(n)[max] < 128
  PROVE  /\ Varint(n) \in Seq(Nat)
         /\ Len(Varint(n)) = VarintLen(n)
         /\ VarintLen(n) \in 1 .. max
         /\ \A k \in 1 .. VarintLen(n) : /\ Varint(n)[k] % 128 = Shifted(n)[k] % 128
                                         /\ Varint(n)[k] < 128 <=> k = VarintLen(n)
<1> DEFINE len == VarintLen(n)
<1>1. len \in 1 .. 10 /\ len \in 1 .. max
  BY VarintLenFacts
<1> HIDE DEF len
<1>2. \A k \in 1 .. len : Shifted(n)[k] \in Nat
  <2>1. \A k \in 1 .. 10 : Shifted(n)[k] \in Nat
    BY ShiftedFacts
  <2> QED BY <1>1, <2>1
<1>3. Varint(n) = [k \in 1 .. len |-> (Shifted(n)[k] % 128) + (IF k < len THEN 128 ELSE 0)]
  BY DEF Varint, len
<1>4. \A k \in 1 .. len : /\ Varint(n)[k] \in Nat
                          /\ Varint(n)[k] % 128 = Shifted(n)[k] % 128
                          /\ Varint(n)[k] < 128 <=> k = len
  <2> TAKE k \in 1 .. len
  <2>1. Varint(n)[k] = (Shifted(n)[k] % 128) + (IF k < len THEN 128 ELSE 0)
    BY <1>3
  <2>2. \A m \in Nat : /\ m % 128 \in Nat /\ m % 128 < 128
                       /\ (m % 128) % 128 = m % 128
                       /\ ((m % 128) + 128) % 128 = m % 128
    OBVIOUS
  <2> QED BY <1>1, <1>2, <2>1, <2>2
<1>5. Varint(n) \in Seq(Nat) /\ Len(Varint(n)) = len
  BY <1>1, <1>3, <1>4
<1> QED BY <1>1, <1>4, <1>5 DEF len

(* The groups of a number make up the number. *)
LEMMA GroupsFacts ==
  ASSUME NEW n \in Nat, Shifted(n)[10] < 128, NEW b,
         \A k \in 1 .. 10 : b[k] = Shifted(n)[k] % 128
  PROVE  n = Join(b[1], Join(b[2], Join(b[3], Join(b[4], Join(b[5],
             Join(b[6], Join(b[7], Join(b[8], Join(b[9], b[10])))))))))
<1> DEFINE s == Shifted(n)
<1>1. s[1] = n /\ \A k \in 1 .. 10 : s[k] \in Nat
  BY ShiftedFacts
<1>2. \A k \in 1 .. 9 : s[k] = b[k] + 128 * s[k + 1]
  <2> TAKE k \in 1 .. 9
  <2>1. s[k] = 128 * s[k + 1] + b[k]
    BY ShiftedFacts
  <2>2. s[k + 1] \in Nat /\ s[k] \in Nat /\ b[k] = s[k] % 128
    BY <1>1
  <2> QED BY <2>1, <2>2
<1>3. s[10] = b[10]
  BY <1>1
<1> HIDE DEF s
<1>4. \A k \in 1 .. 9 : s[k] = Join(b[k], s[k + 1])
  BY <1>2 DEF Join
<1>5. /\ s[1] = Join(b[1], s[2]) /\ s[2] = Join(b[2], s[3]) /\ s[3] = Join(b[3], s[4])
      /\ s[4] = Join(b[4], s[5]) /\ s[5] = Join(b[5], s[6]) /\ s[6] = Join(b[6], s[7])
      /\ s[7] = Join(b[7], s[8]) /\ s[8] = Join(b[8], s[9]) /\ s[9] = Join(b[9], s[10])
  BY <1>4
<1>6. s[6] = Join(b[6], Join(b[7], Join(b[8], Join(b[9], b[10]))))
  BY <1>3, <1>5, Zenon
<1>7. s[1] = Join(b[1], Join(b[2], Join(b[3], Join(b[4], Join(b[5], s[6])))))
  BY <1>5, Zenon
<1> QED BY <1>1, <1>6, <1>7, Zenon

(* A varint is read back, and what follows it is left. *)
LEMMA TakeVarintWhole ==
  ASSUME NEW n \in Nat, NEW max \in 1 .. 10, Shifted(n)[max] < 128, NEW rest \in Seq(Nat)
  PROVE  TakeVarint(max, Varint(n) \o rest) = Ok(n, rest)
<1> DEFINE bytes == Varint(n) \o rest
           ends == {k \in 1 .. max : k <= Len(bytes) /\ bytes[k] < 128}
           len == VarintLen(n)
           Bits(k) == IF k <= Min(ends) THEN bytes[k] % 128 ELSE 0
           b == [k \in 1 .. 10 |-> Bits(k)]
<1>1. /\ Varint(n) \in Seq(Nat) /\ Len(Varint(n)) = len /\ len \in 1 .. max
      /\ \A k \in 1 .. len : Varint(n)[k] % 128 = Shifted(n)[k] % 128
      /\ \A k \in 1 .. len : Varint(n)[k] < 128 <=> k = len
  BY VarintFacts
<1>2. /\ \A k \in 1 .. 10 : Shifted(n)[k] \in Nat
      /\ \A k \in 1 .. 10 : k > len => Shifted(n)[k] = 0
      /\ Shifted(n)[10] < 128
  <2>1. \A k \in 1 .. 10 : Shifted(n)[k] \in Nat
    BY ShiftedFacts
  <2>2. \A k \in 1 .. 10 : k > len => Shifted(n)[k] = 0
    BY VarintLenFacts
  <2>3. Shifted(n)[10] < 128
    <3>1. CASE max = 10
      BY <3>1
    <3>2. CASE max < 10
      BY <1>1, <2>2, <3>2
    <3> QED BY <3>1, <3>2
  <2> QED BY <2>1, <2>2, <2>3
<1> HIDE DEF len
<1>3. /\ Len(bytes) = len + Len(rest)
      /\ \A k \in 1 .. len : bytes[k] = Varint(n)[k]
      /\ SubSeq(bytes, len + 1, Len(bytes)) = rest
  <2>1. Varint(n) \in Seq(Nat) /\ Len(Varint(n)) = len
    BY <1>1
  <2>2. /\ Len(bytes) = Len(Varint(n)) + Len(rest)
        /\ \A k \in 1 .. Len(Varint(n)) : bytes[k] = Varint(n)[k]
        /\ SubSeq(bytes, Len(Varint(n)) + 1, Len(bytes)) = rest
    BY <2>1, ConcatFacts
  <2> QED BY <2>1, <2>2
<1> HIDE DEF bytes
<1>4. Min(ends) = len /\ ends # {}
  <2>1. len \in ends /\ ends \subseteq Int
    BY <1>1, <1>3
  <2>2. \A k \in ends : len <= k
    BY <1>1, <1>3
  <2> QED BY <2>1, <2>2, MinIs
<1>5. \A k \in 1 .. 10 : Bits(k) = Shifted(n)[k] % 128
  <2> TAKE k \in 1 .. 10
  <2>1. CASE k <= len
    BY <1>1, <1>3, <1>4, <2>1
  <2>2. CASE ~(k <= len)
    <3>1. k > len
      BY <1>1, <2>2
    <3>2. Shifted(n)[k] = 0
      BY <1>2, <3>1
    <3>3. 0 % 128 = 0
      OBVIOUS
    <3> QED BY <1>4, <2>2, <3>2, <3>3
  <2> QED BY <2>1, <2>2
<1>6. TakeVarint(max, bytes) =
        Ok(Join(Bits(1), Join(Bits(2), Join(Bits(3), Join(Bits(4), Join(Bits(5),
             Join(Bits(6), Join(Bits(7), Join(Bits(8), Join(Bits(9), Bits(10)))))))))),
           SubSeq(bytes, Min(ends) + 1, Len(bytes)))
  BY <1>4 DEF TakeVarint
<1> HIDE DEF ends, Bits
<1>7. \A k \in 1 .. 10 : b[k] = Bits(k) /\ b[k] = Shifted(n)[k] % 128
  BY <1>5
<1> HIDE DEF b
<1>8. n = Join(b[1], Join(b[2], Join(b[3], Join(b[4], Join(b[5],
            Join(b[6], Join(b[7], Join(b[8], Join(b[9], b[10])))))))))
  BY <1>2, <1>7, GroupsFacts
<1>9. /\ b[1] = Bits(1) /\ b[2] = Bits(2) /\ b[3] = Bits(3) /\ b[4] = Bits(4) /\ b[5] = Bits(5)
      /\ b[6] = Bits(6) /\ b[7] = Bits(7) /\ b[8] = Bits(8) /\ b[9] = Bits(9) /\ b[10] = Bits(10)
  BY <1>7
<1>10. n = Join(Bits(1), Join(Bits(2), Join(Bits(3), Join(Bits(4), Join(Bits(5),
             Join(Bits(6), Join(Bits(7), Join(Bits(8), Join(Bits(9), Bits(10))))))))))
  BY <1>8, <1>9
<1>11. TakeVarint(max, bytes) = Ok(n, rest)
  BY <1>3, <1>4, <1>6, <1>10
<1> QED BY <1>11 DEF bytes

(* A varint that is cut off is not read. *)
LEMMA TakeVarintCut ==
  ASSUME NEW n \in Nat, NEW max \in 1 .. 10, Shifted(n)[max] < 128,
         NEW size \in Nat, size < Len(Varint(n))
  PROVE  TakeVarint(max, SubSeq(Varint(n), 1, size)) = Err
<1> DEFINE bytes == SubSeq(Varint(n), 1, size)
<1>1. /\ Varint(n) \in Seq(Nat) /\ Len(Varint(n)) = VarintLen(n)
      /\ VarintLen(n) \in 1 .. max
      /\ \A k \in 1 .. VarintLen(n) : Varint(n)[k] < 128 <=> k = VarintLen(n)
  BY VarintFacts
<1>2. Len(bytes) = size /\ \A k \in 1 .. size : bytes[k] = Varint(n)[k]
  BY <1>1
<1> HIDE DEF bytes
<1>3. {k \in 1 .. max : k <= Len(bytes) /\ bytes[k] < 128} = {}
  BY <1>1, <1>2
<1> QED BY <1>3 DEF TakeVarint, bytes

------------------------------------------------------------------------------
(* Integers *)

(* A u32 is read back from its varint, and from no part of it. *)
LEMMA U32Facts ==
  ASSUME NEW n, IsU32(n)
  PROVE  /\ n \in Nat
         /\ Varint(n) \in Seq(Nat) /\ Len(Varint(n)) \in 1 .. 5
         /\ \A rest \in Seq(Nat) : TakeU32(Varint(n) \o rest) = Ok(n, rest)
         /\ \A size \in Nat : size < Len(Varint(n)) => TakeU32(SubSeq(Varint(n), 1, size)) = Err
<1>1. n \in Nat /\ Shifted(n)[5] < 128
  <2>1. n \in Nat /\ Shifted(n)[5] < 16 /\ Shifted(n)[5] \in Nat
    BY ShiftedFacts DEF IsU32
  <2> QED BY <2>1
<1>2. Varint(n) \in Seq(Nat) /\ Len(Varint(n)) \in 1 .. 5
  <2>1. /\ Varint(n) \in Seq(Nat) /\ Len(Varint(n)) = VarintLen(n)
        /\ VarintLen(n) \in 1 .. 5
    BY <1>1, VarintFacts
  <2> QED BY <2>1
<1>3. \A rest \in Seq(Nat) : TakeU32(Varint(n) \o rest) = Ok(n, rest)
  BY <1>1, TakeVarintWhole DEF TakeU32, MaxLenU32
<1>4. \A size \in Nat : size < Len(Varint(n)) => TakeU32(SubSeq(Varint(n), 1, size)) = Err
  BY <1>1, TakeVarintCut DEF TakeU32, MaxLenU32
<1> QED BY <1>1, <1>2, <1>3, <1>4

(* The same of a u64 *)
LEMMA U64Facts ==
  ASSUME NEW n, IsU64(n)
  PROVE  /\ n \in Nat
         /\ Varint(n) \in Seq(Nat) /\ Len(Varint(n)) \in 1 .. 10
         /\ \A rest \in Seq(Nat) : TakeU64(Varint(n) \o rest) = Ok(n, rest)
         /\ \A size \in Nat : size < Len(Varint(n)) => TakeU64(SubSeq(Varint(n), 1, size)) = Err
<1>1. n \in Nat /\ Shifted(n)[10] < 128
  <2>1. n \in Nat /\ Shifted(n)[10] < 2 /\ Shifted(n)[10] \in Nat
    BY ShiftedFacts DEF IsU64
  <2> QED BY <2>1
<1>2. Varint(n) \in Seq(Nat) /\ Len(Varint(n)) \in 1 .. 10
  <2>1. /\ Varint(n) \in Seq(Nat) /\ Len(Varint(n)) = VarintLen(n)
        /\ VarintLen(n) \in 1 .. 10
    BY <1>1, VarintFacts
  <2> QED BY <2>1
<1>3. \A rest \in Seq(Nat) : TakeU64(Varint(n) \o rest) = Ok(n, rest)
  BY <1>1, TakeVarintWhole DEF TakeU64, MaxLenU64
<1>4. \A size \in Nat : size < Len(Varint(n)) => TakeU64(SubSeq(Varint(n), 1, size)) = Err
  BY <1>1, TakeVarintCut DEF TakeU64, MaxLenU64
<1> QED BY <1>1, <1>2, <1>3, <1>4

(* Below 128 a varint is a byte. *)
LEMMA ByteFacts ==
  ASSUME NEW n \in 0 .. 127
  PROVE  IsU32(n) /\ IsU64(n) /\ Varint(n) = <<n>>
<1> DEFINE s == Shifted(n)
<1>1. s[1] = n /\ s[1] < 128
  BY ShiftedFacts
<1>2. VarintLen(n) = 1 /\ \A k \in 1 .. 10 : k > 1 => s[k] = 0
  <2>1. VarintLen(n) \in 1 .. 1
    BY <1>1, VarintLenFacts
  <2>2. VarintLen(n) = 1
    BY <2>1
  <2> QED BY <1>1, <2>2, VarintLenFacts
<1>3. IsU32(n) /\ IsU64(n)
  BY <1>2 DEF IsU32, IsU64
<1>4. Varint(n) = [k \in 1 .. 1 |-> (s[k] % 128) + (IF k < 1 THEN 128 ELSE 0)]
  BY <1>2 DEF Varint
<1> HIDE DEF s
<1>5. Varint(n) = [k \in 1 .. 1 |-> n]
  <2>1. n % 128 = n
    OBVIOUS
  <2>2. \A k \in 1 .. 1 : (s[k] % 128) + (IF k < 1 THEN 128 ELSE 0) = n
    BY <1>1, <2>1
  <2> QED BY <1>4, <2>2
<1> QED BY <1>3, <1>5

(* The same of the variant of an enum *)
LEMMA VariantFacts ==
  ASSUME NEW n \in 1 .. 128, NEW v \in Variants(n)
  PROVE  /\ Varint(v) = <<v>> /\ v \in Nat
         /\ \A rest \in Seq(Nat) : TakeVariant(n, <<v>> \o rest) = Ok(v, rest)
<1>1. v \in 0 .. 127 /\ v < n
  BY DEF Variants
<1>2. IsU32(v) /\ Varint(v) = <<v>>
  BY <1>1, ByteFacts
<1>3. ASSUME NEW rest \in Seq(Nat)
      PROVE  TakeVariant(n, <<v>> \o rest) = Ok(v, rest)
  <2>1. TakeU32(<<v>> \o rest) = Ok(v, rest)
    BY <1>2, U32Facts
  <2> QED BY <1>1, <2>1, OkFacts DEF TakeVariant
<1> QED BY <1>1, <1>2, <1>3

(* There is nothing to read in no bytes. *)
LEMMA NothingIsTaken ==
  /\ TakeU32(<<>>) = Err
  /\ \A n : TakeVariant(n, <<>>) = Err
<1>1. TakeU32(<<>>) = Err
  <2>1. {k \in 1 .. 5 : k <= Len(<<>>) /\ <<>>[k] < 128} = {}
    OBVIOUS
  <2> QED BY <2>1 DEF TakeU32, TakeVarint, MaxLenU32
<1> QED BY <1>1, ErrFacts DEF TakeVariant

(* The arms of reading an Option<u32> *)
LEMMA OptArms ==
  ASSUME NEW bytes
  PROVE  /\ bytes = <<>> => TakeOptU32(bytes) = Err
         /\ bytes # <<>> /\ bytes[1] = 0 => TakeOptU32(bytes) = Ok(None, Tail(bytes))
         /\ bytes # <<>> /\ bytes[1] = 1 => TakeOptU32(bytes) = TakeU32(Tail(bytes))
<1>1. bytes = <<>> => TakeOptU32(bytes) = Err
  BY DEF TakeOptU32
<1>2. bytes # <<>> /\ bytes[1] = 0 => TakeOptU32(bytes) = Ok(None, Tail(bytes))
  BY DEF TakeOptU32
<1>3. bytes # <<>> /\ bytes[1] = 1 => TakeOptU32(bytes) = TakeU32(Tail(bytes))
  BY DEF TakeOptU32
<1> QED BY <1>1, <1>2, <1>3

(* An Option<u32> is read back from its bytes, and from no part of them. *)
LEMMA OptFacts ==
  ASSUME NEW o, o = None \/ IsU32(o), None \notin Int
  PROVE  /\ OptVarint(o) \in Seq(Nat) /\ Len(OptVarint(o)) \in 1 .. 6
         /\ \A rest \in Seq(Nat) : TakeOptU32(OptVarint(o) \o rest) = Ok(o, rest)
         /\ \A size \in Nat :
              size < Len(OptVarint(o)) => TakeOptU32(SubSeq(OptVarint(o), 1, size)) = Err
<1>1. CASE o = None
  <2>1. OptVarint(o) = << 0 >>
    BY <1>1 DEF OptVarint
  <2>2. ASSUME NEW rest \in Seq(Nat)
        PROVE  TakeOptU32(<< 0 >> \o rest) = Ok(None, rest)
    <3>1. << 0 >> \o rest # <<>> /\ (<< 0 >> \o rest)[1] = 0 /\ Tail(<< 0 >> \o rest) = rest
      OBVIOUS
    <3> QED BY <3>1, OptArms
  <2>3. ASSUME NEW size \in Nat, size < Len(<< 0 >>)
        PROVE  TakeOptU32(SubSeq(<< 0 >>, 1, size)) = Err
    <3>1. SubSeq(<< 0 >>, 1, size) = <<>>
      BY <2>3
    <3> QED BY <3>1, OptArms
  <2> QED BY <1>1, <2>1, <2>2, <2>3
<1>2. CASE IsU32(o)
  <2> DEFINE enc == Varint(o)
  <2>1. o \in Nat /\ enc \in Seq(Nat) /\ Len(enc) \in 1 .. 5
    BY <1>2, U32Facts
  <2>2. OptVarint(o) = << 1 >> \o enc
    BY <2>1 DEF OptVarint
  <2>3. /\ \A rest \in Seq(Nat) : TakeU32(enc \o rest) = Ok(o, rest)
        /\ \A size \in Nat : size < Len(enc) => TakeU32(SubSeq(enc, 1, size)) = Err
    BY <1>2, U32Facts
  <2> HIDE DEF enc
  <2>4. ASSUME NEW rest \in Seq(Nat)
        PROVE  TakeOptU32((<< 1 >> \o enc) \o rest) = Ok(o, rest)
    <3> DEFINE bytes == (<< 1 >> \o enc) \o rest
    <3>1. bytes # <<>> /\ bytes[1] = 1 /\ Tail(bytes) = enc \o rest
      <4>1. \A s, t \in Seq(Nat) : (<< 1 >> \o s) \o t = << 1 >> \o (s \o t) /\ s \o t \in Seq(Nat)
        OBVIOUS
      <4>2. \A s \in Seq(Nat) : /\ << 1 >> \o s # <<>> /\ (<< 1 >> \o s)[1] = 1
                                 /\ Tail(<< 1 >> \o s) = s
        OBVIOUS
      <4>3. bytes = << 1 >> \o (enc \o rest) /\ enc \o rest \in Seq(Nat)
        BY <2>1, <4>1
      <4> HIDE DEF bytes
      <4> QED BY <4>2, <4>3
    <3> HIDE DEF bytes
    <3>2. TakeOptU32(bytes) = TakeU32(enc \o rest)
      BY <3>1, OptArms
    <3> QED BY <2>3, <3>2 DEF bytes
  <2>5. ASSUME NEW size \in Nat, size < Len(<< 1 >> \o enc)
        PROVE  TakeOptU32(SubSeq(<< 1 >> \o enc, 1, size)) = Err
    <3> DEFINE bytes == SubSeq(<< 1 >> \o enc, 1, size)
    <3>1. CASE size = 0
      <4>1. bytes = <<>>
        BY <2>1, <3>1
      <4> QED BY <4>1, OptArms
    <3>2. CASE size > 0
      <4>1. bytes # <<>> /\ bytes[1] = 1 /\ Tail(bytes) = SubSeq(enc, 1, size - 1)
        BY <2>1, <2>5, <3>2
      <4>2. size - 1 \in Nat /\ size - 1 < Len(enc)
        BY <2>1, <2>5, <3>2
      <4> HIDE DEF bytes
      <4>3. TakeOptU32(bytes) = TakeU32(SubSeq(enc, 1, size - 1))
        BY <4>1, OptArms
      <4> QED BY <2>3, <4>2, <4>3 DEF bytes
    <3> QED BY <3>1, <3>2
  <2>6. << 1 >> \o enc \in Seq(Nat) /\ Len(<< 1 >> \o enc) \in 1 .. 6
    <3>1. << 1 >> \o enc \in Seq(Nat) /\ Len(<< 1 >> \o enc) = 1 + Len(enc)
      BY <2>1
    <3>2. \A k \in 1 .. 5 : 1 + k \in 1 .. 6
      OBVIOUS
    <3>3. 1 + Len(enc) \in 1 .. 6
      BY <2>1, <3>2
    <3> QED BY <3>1, <3>3
  <2> QED BY <2>2, <2>4, <2>5, <2>6
<1> QED BY <1>1, <1>2

------------------------------------------------------------------------------
(* Events *)

(* Two numbers, one after the other: read whole, cut in the first, or cut  *)
(* in the second.                                                          *)
LEMMA PairFacts ==
  ASSUME NEW m, IsU32(m), NEW n, IsU32(n)
  PROVE  /\ Varint(m) \o Varint(n) \in Seq(Nat)
         /\ Len(Varint(m) \o Varint(n)) \in 2 .. 10
         /\ TakeU32(Varint(m) \o Varint(n)) = Ok(m, Varint(n))
         /\ TakeU32(Varint(n)) = Ok(n, <<>>)
         /\ \A size \in Nat : size < Len(Varint(m) \o Varint(n)) =>
              \/ TakeU32(SubSeq(Varint(m) \o Varint(n), 1, size)) = Err
              \/ \E rest \in Seq(Nat) :
                   /\ TakeU32(SubSeq(Varint(m) \o Varint(n), 1, size)) = Ok(m, rest)
                   /\ TakeU32(rest) = Err
<1> DEFINE a == Varint(m)
           b == Varint(n)
<1>1. /\ a \in Seq(Nat) /\ Len(a) \in 1 .. 5
      /\ \A rest \in Seq(Nat) : TakeU32(a \o rest) = Ok(m, rest)
      /\ \A size \in Nat : size < Len(a) => TakeU32(SubSeq(a, 1, size)) = Err
  BY U32Facts
<1>2. /\ b \in Seq(Nat) /\ Len(b) \in 1 .. 5
      /\ \A rest \in Seq(Nat) : TakeU32(b \o rest) = Ok(n, rest)
      /\ \A size \in Nat : size < Len(b) => TakeU32(SubSeq(b, 1, size)) = Err
  BY U32Facts
<1> HIDE DEF a, b
<1>3. a \o b \in Seq(Nat) /\ Len(a \o b) = Len(a) + Len(b)
  BY <1>1, <1>2, ConcatFacts
<1>4. Len(a \o b) \in 2 .. 10
  <2>1. \A k, l \in 1 .. 5 : k + l \in 2 .. 10
    OBVIOUS
  <2>2. Len(a) + Len(b) \in 2 .. 10
    BY <1>1, <1>2, <2>1
  <2> QED BY <1>3, <2>2
<1>5. TakeU32(b) = Ok(n, <<>>)
  <2>1. b \o <<>> = b /\ <<>> \in Seq(Nat)
    BY <1>2
  <2>2. TakeU32(b \o <<>>) = Ok(n, <<>>)
    BY <1>2, <2>1
  <2> QED BY <2>1, <2>2
<1>6. ASSUME NEW size \in Nat, size < Len(a \o b)
      PROVE  \/ TakeU32(SubSeq(a \o b, 1, size)) = Err
             \/ \E rest \in Seq(Nat) : /\ TakeU32(SubSeq(a \o b, 1, size)) = Ok(m, rest)
                                       /\ TakeU32(rest) = Err
  <2>1. size \in 0 .. Len(a) + Len(b) /\ size < Len(a) + Len(b)
    BY <1>1, <1>2, <1>3, <1>6
  <2>2. CASE size < Len(a)
    <3>1. SubSeq(a \o b, 1, size) = SubSeq(a, 1, size)
      BY <1>1, <1>2, <2>1, <2>2, CutFacts
    <3> QED BY <1>1, <2>2, <3>1
  <2>3. CASE size >= Len(a)
    <3> DEFINE rest == SubSeq(b, 1, size - Len(a))
    <3>1. SubSeq(a \o b, 1, size) = a \o rest
      BY <1>1, <1>2, <2>1, <2>3, CutFacts
    <3>2. size - Len(a) \in Nat /\ size - Len(a) < Len(b)
      BY <1>1, <1>2, <2>1, <2>3
    <3>3. TakeU32(rest) = Err /\ rest \in Seq(Nat)
      BY <1>2, <3>2
    <3> HIDE DEF rest
    <3>4. TakeU32(a \o rest) = Ok(m, rest)
      BY <1>1, <3>3
    <3> QED BY <3>1, <3>3, <3>4
  <2>4. size < Len(a) \/ size >= Len(a)
    BY <1>1
  <2> QED BY <2>2, <2>3, <2>4
<1> QED BY <1>1, <1>2, <1>3, <1>4, <1>5, <1>6 DEF a, b

(* The fields of a logged event *)
LEMMA LoggedFacts ==
  ASSUME NEW e \in Variants(Events), NEW o, IsU32(o)
  PROVE  /\ TakeLogged(Varint(e) \o Varint(o)) =
              Ok([kind |-> "Logged", event |-> e, offset |-> o], <<>>)
         /\ \A size \in Nat : size < Len(Varint(e) \o Varint(o)) =>
              TakeLogged(SubSeq(Varint(e) \o Varint(o), 1, size)) = Err
<1>1. e \in 0 .. 127 /\ e < Events
  BY DatagramsAssumption DEF Variants
<1>2. IsU32(e)
  BY <1>1, ByteFacts
<1>3. ASSUME NEW bytes, TakeU32(bytes) = Err
      PROVE  TakeLogged(bytes) = Err
  <2>1. TakeVariant(Events, bytes) = Err
    BY <1>3, ErrFacts DEF TakeVariant
  <2> QED BY <2>1, ErrFacts DEF TakeLogged
<1>4. ASSUME NEW bytes, NEW rest, TakeU32(bytes) = Ok(e, rest)
      PROVE  /\ TakeU32(rest) = Err => TakeLogged(bytes) = Err
             /\ \A n, rest1 : TakeU32(rest) = Ok(n, rest1) =>
                  TakeLogged(bytes) = Ok([kind |-> "Logged", event |-> e, offset |-> n], rest1)
  <2>1. TakeVariant(Events, bytes) = Ok(e, rest)
    BY <1>1, <1>4, OkFacts DEF TakeVariant
  <2> QED BY <2>1, ErrFacts, OkFacts DEF TakeLogged
<1> QED BY <1>2, <1>3, <1>4, PairFacts

(* The fields of a recovery event *)
LEMMA RecoveryFacts ==
  ASSUME NEW from, IsU32(from), NEW to, IsU32(to)
  PROVE  /\ TakeRecovery(Varint(from) \o Varint(to)) =
              Ok([kind |-> "Recovery", from |-> from, to |-> to], <<>>)
         /\ \A size \in Nat : size < Len(Varint(from) \o Varint(to)) =>
              TakeRecovery(SubSeq(Varint(from) \o Varint(to), 1, size)) = Err
<1>1. ASSUME NEW bytes, TakeU32(bytes) = Err
      PROVE  TakeRecovery(bytes) = Err
  BY <1>1, ErrFacts DEF TakeRecovery
<1>2. ASSUME NEW bytes, NEW rest, TakeU32(bytes) = Ok(from, rest)
      PROVE  /\ TakeU32(rest) = Err => TakeRecovery(bytes) = Err
             /\ \A n, rest1 : TakeU32(rest) = Ok(n, rest1) =>
                  TakeRecovery(bytes) = Ok([kind |-> "Recovery", from |-> from, to |-> n], rest1)
  BY <1>2, ErrFacts, OkFacts DEF TakeRecovery
<1> QED BY <1>1, <1>2, PairFacts

(* The field of an ephemeral event *)
LEMMA EphemeralFacts ==
  ASSUME NEW e \in Variants(Ephemerals)
  PROVE  /\ TakeEphemeral(Varint(e)) = Ok([kind |-> "Ephemeral", event |-> e], <<>>)
         /\ \A size \in Nat :
              size < Len(Varint(e)) => TakeEphemeral(SubSeq(Varint(e), 1, size)) = Err
<1>1. Varint(e) = <<e>> /\ e \in Nat /\ TakeVariant(Ephemerals, <<e>> \o <<>>) = Ok(e, <<>>)
  <2>1. <<>> \in Seq(Nat) /\ Ephemerals \in 1 .. 128
    BY DatagramsAssumption
  <2> QED BY <2>1, VariantFacts
<1>2. <<e>> \o <<>> = <<e>>
  BY <1>1
<1>3. TakeEphemeral(<<e>>) = Ok([kind |-> "Ephemeral", event |-> e], <<>>)
  BY <1>1, <1>2, OkFacts DEF TakeEphemeral
<1>4. TakeEphemeral(<<>>) = Err
  BY NothingIsTaken, ErrFacts DEF TakeEphemeral
<1>5. \A size \in Nat : size < Len(<<e>>) => SubSeq(<<e>>, 1, size) = <<>>
  BY <1>1
<1> QED BY <1>1, <1>3, <1>4, <1>5

(* The bytes of an event after the varint of its kind *)
Tagged(kind, bytes) == <<kind>> \o bytes

(* An event is its kind, a byte, and what the kind says. *)
LEMMA KindFacts ==
  ASSUME NEW kind \in 0 .. 2, NEW rest \in Seq(Nat)
  PROVE  /\ kind = 0 => TakeEvent(Tagged(kind, rest)) = TakeLogged(rest)
         /\ kind = 1 => TakeEvent(Tagged(kind, rest)) = TakeEphemeral(rest)
         /\ kind = 2 => TakeEvent(Tagged(kind, rest)) = TakeRecovery(rest)
<1>1. TakeVariant(3, Tagged(kind, rest)) = Ok(kind, rest)
  <2>1. 3 \in 1 .. 128 /\ kind \in Variants(3)
    BY DEF Variants
  <2> QED BY <2>1, VariantFacts DEF Tagged
<1>2. \A bytes : TakeVariant(3, bytes) = Ok(0, rest) => TakeEvent(bytes) = TakeLogged(rest)
  BY OkFacts DEF TakeEvent
<1>3. \A bytes : TakeVariant(3, bytes) = Ok(1, rest) => TakeEvent(bytes) = TakeEphemeral(rest)
  BY OkFacts DEF TakeEvent
<1>4. \A bytes : TakeVariant(3, bytes) = Ok(2, rest) => TakeEvent(bytes) = TakeRecovery(rest)
  BY OkFacts DEF TakeEvent
<1> QED BY <1>1, <1>2, <1>3, <1>4

(* The cut falls before the kind of an event or in what follows it. *)
LEMMA KindCut ==
  ASSUME NEW kind \in 0 .. 2, NEW tail \in Seq(Nat),
         NEW size \in Nat, size < Len(Tagged(kind, tail))
  PROVE  \/ TakeEvent(SubSeq(Tagged(kind, tail), 1, size)) = Err
         \/ \E size1 \in Nat :
              /\ size1 < Len(tail)
              /\ SubSeq(Tagged(kind, tail), 1, size) = Tagged(kind, SubSeq(tail, 1, size1))
<1>1. CASE size = 0
  <2>1. SubSeq(Tagged(kind, tail), 1, size) = <<>>
    BY <1>1 DEF Tagged
  <2>2. TakeEvent(<<>>) = Err
    BY NothingIsTaken, ErrFacts DEF TakeEvent
  <2> QED BY <2>1, <2>2
<1>2. CASE size > 0
  <2>1. <<kind>> \in Seq(Nat) /\ Len(<<kind>>) = 1
    OBVIOUS
  <2>2. size \in 0 .. Len(<<kind>>) + Len(tail) /\ size >= Len(<<kind>>)
    BY <1>2, <2>1, ConcatFacts DEF Tagged
  <2>3. SubSeq(Tagged(kind, tail), 1, size) = Tagged(kind, SubSeq(tail, 1, size - 1))
    BY <2>1, <2>2, CutFacts DEF Tagged
  <2>4. size - 1 \in Nat /\ size - 1 < Len(tail)
    BY <1>2, <2>1, ConcatFacts DEF Tagged
  <2> DEFINE size1 == size - 1
  <2>5. size1 \in Nat /\ size1 < Len(tail)
    BY <2>4
  <2>6. SubSeq(Tagged(kind, tail), 1, size) = Tagged(kind, SubSeq(tail, 1, size1))
    BY <2>3
  <2> HIDE DEF size1
  <2> QED BY <2>5, <2>6
<1> QED BY <1>1, <1>2

(* An event is read back from its bytes, and from no part of them. *)
LEMMA EventFacts ==
  ASSUME NEW e \in EventOf
  PROVE  /\ SerialiseEvent(e) \in Seq(Nat) /\ Len(SerialiseEvent(e)) \in 1 .. 11
         /\ TakeEvent(SerialiseEvent(e)) = Ok(e, <<>>)
         /\ \A size \in Nat : size < Len(SerialiseEvent(e)) =>
              TakeEvent(SubSeq(SerialiseEvent(e), 1, size)) = Err
<1>1. /\ \A n \in Offsets : IsU32(n)
      /\ Events \in 1 .. 128 /\ Ephemerals \in 1 .. 128
  BY DatagramsAssumption
<1>2. ASSUME NEW kind \in 0 .. 2, NEW tail \in Seq(Nat), Len(tail) \in 1 .. 10,
             TakeEvent(Tagged(kind, tail)) = Ok(e, <<>>),
             \A size \in Nat : size < Len(tail) =>
               TakeEvent(Tagged(kind, SubSeq(tail, 1, size))) = Err,
             SerialiseEvent(e) = Tagged(kind, tail)
      PROVE  /\ SerialiseEvent(e) \in Seq(Nat) /\ Len(SerialiseEvent(e)) \in 1 .. 11
             /\ TakeEvent(SerialiseEvent(e)) = Ok(e, <<>>)
             /\ \A size \in Nat : size < Len(SerialiseEvent(e)) =>
                  TakeEvent(SubSeq(SerialiseEvent(e), 1, size)) = Err
  <2>1. Tagged(kind, tail) \in Seq(Nat) /\ Len(Tagged(kind, tail)) = 1 + Len(tail)
    BY DEF Tagged
  <2>2. \A k \in 1 .. 10 : 1 + k \in 1 .. 11
    OBVIOUS
  <2>3. Len(SerialiseEvent(e)) \in 1 .. 11
    BY <1>2, <2>1, <2>2
  <2>4. ASSUME NEW size \in Nat, size < Len(Tagged(kind, tail))
        PROVE  TakeEvent(SubSeq(Tagged(kind, tail), 1, size)) = Err
    <3>1. CASE TakeEvent(SubSeq(Tagged(kind, tail), 1, size)) = Err
      BY <3>1
    <3>2. ASSUME NEW size1 \in Nat, size1 < Len(tail),
                 SubSeq(Tagged(kind, tail), 1, size) = Tagged(kind, SubSeq(tail, 1, size1))
          PROVE  TakeEvent(SubSeq(Tagged(kind, tail), 1, size)) = Err
      BY <1>2, <3>2
    <3> QED BY <2>4, <3>1, <3>2, KindCut
  <2> QED BY <1>2, <2>1, <2>3, <2>4
<1>3. CASE e \in [kind : {"Logged"}, event : Variants(Events), offset : Offsets]
  <2> DEFINE tail == Varint(e.event) \o Varint(e.offset)
  <2>1. /\ e = [kind |-> "Logged", event |-> e.event, offset |-> e.offset]
        /\ e.kind = "Logged" /\ e.event \in Variants(Events) /\ e.offset \in Offsets
    BY <1>3
  <2>2. IsU32(e.offset) /\ IsU32(e.event)
    <3>1. e.event \in 0 .. 127
      BY <1>1, <2>1 DEF Variants
    <3> QED BY <1>1, <2>1, <3>1, ByteFacts
  <2>3. /\ tail \in Seq(Nat) /\ Len(tail) \in 1 .. 10
        /\ TakeLogged(tail) = Ok(e, <<>>)
        /\ \A size \in Nat : size < Len(tail) => TakeLogged(SubSeq(tail, 1, size)) = Err
    <3>1. tail \in Seq(Nat) /\ Len(tail) \in 2 .. 10
      BY <2>2, PairFacts
    <3>2. \A k \in 2 .. 10 : k \in 1 .. 10
      OBVIOUS
    <3>3. TakeLogged(tail) = Ok([kind |-> "Logged", event |-> e.event, offset |-> e.offset], <<>>)
      BY <2>1, <2>2, LoggedFacts
    <3>4. \A size \in Nat : size < Len(tail) => TakeLogged(SubSeq(tail, 1, size)) = Err
      BY <2>1, <2>2, LoggedFacts
    <3> HIDE DEF tail
    <3> QED BY <2>1, <3>1, <3>2, <3>3, <3>4
  <2>4. SerialiseEvent(e) = Tagged(0, tail)
    <3>1. SerialiseEvent(e) = (<< 0 >> \o Varint(e.event)) \o Varint(e.offset)
      BY <2>1 DEF SerialiseEvent
    <3>2. Varint(e.event) \in Seq(Nat) /\ Varint(e.offset) \in Seq(Nat)
      BY <2>2, U32Facts
    <3>3. \A s, t \in Seq(Nat) : (<< 0 >> \o s) \o t = << 0 >> \o (s \o t)
      OBVIOUS
    <3> QED BY <3>1, <3>2, <3>3 DEF Tagged
  <2> HIDE DEF tail
  <2>5. \A rest \in Seq(Nat) : TakeEvent(Tagged(0, rest)) = TakeLogged(rest)
    BY KindFacts
  <2>6. TakeEvent(Tagged(0, tail)) = Ok(e, <<>>)
    BY <2>3, <2>5
  <2>7. ASSUME NEW size \in Nat, size < Len(tail)
        PROVE  TakeEvent(Tagged(0, SubSeq(tail, 1, size))) = Err
    <3>1. SubSeq(tail, 1, size) \in Seq(Nat)
      BY <2>3, <2>7
    <3>2. TakeLogged(SubSeq(tail, 1, size)) = Err
      BY <2>3, <2>7
    <3> QED BY <2>5, <3>1, <3>2
  <2> QED BY <1>2, <2>3, <2>4, <2>6, <2>7
<1>4. CASE e \in [kind : {"Ephemeral"}, event : Variants(Ephemerals)]
  <2> DEFINE tail == Varint(e.event)
  <2>1. /\ e = [kind |-> "Ephemeral", event |-> e.event]
        /\ e.kind = "Ephemeral" /\ e.event \in Variants(Ephemerals)
    BY <1>4
  <2>2. /\ tail \in Seq(Nat) /\ Len(tail) \in 1 .. 10
        /\ TakeEphemeral(tail) = Ok(e, <<>>)
        /\ \A size \in Nat : size < Len(tail) => TakeEphemeral(SubSeq(tail, 1, size)) = Err
    <3>1. tail = <<e.event>> /\ e.event \in Nat
      BY <1>1, <2>1, VariantFacts
    <3>2. tail \in Seq(Nat) /\ Len(tail) \in 1 .. 10
      BY <3>1
    <3>3. /\ TakeEphemeral(tail) = Ok([kind |-> "Ephemeral", event |-> e.event], <<>>)
          /\ \A size \in Nat : size < Len(tail) => TakeEphemeral(SubSeq(tail, 1, size)) = Err
      BY <2>1, EphemeralFacts
    <3> HIDE DEF tail
    <3> QED BY <2>1, <3>2, <3>3
  <2>3. SerialiseEvent(e) = Tagged(1, tail)
    BY <2>1 DEF SerialiseEvent, Tagged
  <2> HIDE DEF tail
  <2>4. \A rest \in Seq(Nat) : TakeEvent(Tagged(1, rest)) = TakeEphemeral(rest)
    BY KindFacts
  <2>5. TakeEvent(Tagged(1, tail)) = Ok(e, <<>>)
    BY <2>2, <2>4
  <2>6. ASSUME NEW size \in Nat, size < Len(tail)
        PROVE  TakeEvent(Tagged(1, SubSeq(tail, 1, size))) = Err
    <3>1. SubSeq(tail, 1, size) \in Seq(Nat)
      BY <2>2, <2>6
    <3>2. TakeEphemeral(SubSeq(tail, 1, size)) = Err
      BY <2>2, <2>6
    <3> QED BY <2>4, <3>1, <3>2
  <2> QED BY <1>2, <2>2, <2>3, <2>5, <2>6
<1>5. CASE e \in [kind : {"Recovery"}, from : Offsets, to : Offsets]
  <2> DEFINE tail == Varint(e.from) \o Varint(e.to)
  <2>1. /\ e = [kind |-> "Recovery", from |-> e.from, to |-> e.to]
        /\ e.kind = "Recovery" /\ IsU32(e.from) /\ IsU32(e.to)
    BY <1>1, <1>5
  <2>2. /\ tail \in Seq(Nat) /\ Len(tail) \in 1 .. 10
        /\ TakeRecovery(tail) = Ok(e, <<>>)
        /\ \A size \in Nat : size < Len(tail) => TakeRecovery(SubSeq(tail, 1, size)) = Err
    <3>1. tail \in Seq(Nat) /\ Len(tail) \in 2 .. 10
      BY <2>1, PairFacts
    <3>2. \A k \in 2 .. 10 : k \in 1 .. 10
      OBVIOUS
    <3>3. TakeRecovery(tail) = Ok([kind |-> "Recovery", from |-> e.from, to |-> e.to], <<>>)
      BY <2>1, RecoveryFacts
    <3>4. \A size \in Nat : size < Len(tail) => TakeRecovery(SubSeq(tail, 1, size)) = Err
      BY <2>1, RecoveryFacts
    <3> HIDE DEF tail
    <3> QED BY <2>1, <3>1, <3>2, <3>3, <3>4
  <2>3. SerialiseEvent(e) = Tagged(2, tail)
    <3>1. SerialiseEvent(e) = (<< 2 >> \o Varint(e.from)) \o Varint(e.to)
      BY <2>1 DEF SerialiseEvent
    <3>2. Varint(e.from) \in Seq(Nat) /\ Varint(e.to) \in Seq(Nat)
      BY <2>1, U32Facts
    <3>3. \A s, t \in Seq(Nat) : (<< 2 >> \o s) \o t = << 2 >> \o (s \o t)
      OBVIOUS
    <3> QED BY <3>1, <3>2, <3>3 DEF Tagged
  <2> HIDE DEF tail
  <2>4. \A rest \in Seq(Nat) : TakeEvent(Tagged(2, rest)) = TakeRecovery(rest)
    BY KindFacts
  <2>5. TakeEvent(Tagged(2, tail)) = Ok(e, <<>>)
    BY <2>2, <2>4
  <2>6. ASSUME NEW size \in Nat, size < Len(tail)
        PROVE  TakeEvent(Tagged(2, SubSeq(tail, 1, size))) = Err
    <3>1. SubSeq(tail, 1, size) \in Seq(Nat)
      BY <2>2, <2>6
    <3>2. TakeRecovery(SubSeq(tail, 1, size)) = Err
      BY <2>2, <2>6
    <3> QED BY <2>4, <3>1, <3>2
  <2> QED BY <1>2, <2>2, <2>3, <2>5, <2>6
<1> QED BY <1>3, <1>4, <1>5 DEF EventOf

------------------------------------------------------------------------------
(* Messages *)

(* The bytes of a message before its last field, and those of the field *)
HeadBytes(m) == IF m.type = "CommandRequest" THEN OptVarint(m.head) ELSE Varint(m.head)

LastBytes(m) ==
  CASE m.type = "CommandRequest" -> SerialiseLastField(m.last, Varint(m.last))
    [] m.type = "EventReply" -> SerialiseLastField(m.last, SerialiseEvent(m.last))
    [] m.type = "Update" -> Varint(m.last) \o [k \in 1 .. m.last |-> 0]

(* The three types of messages and their fields *)
LEMMA MessageFacts ==
  ASSUME NEW m \in Message
  PROVE  /\ m = [type |-> m.type, head |-> m.head, last |-> m.last]
         /\ WithoutLast(m) = [type |-> m.type, head |-> m.head, last |-> None]
         /\ \/ /\ m.type = "CommandRequest"
               /\ m.head = None \/ IsU32(m.head)
               /\ m.last = None \/ m.last \in Variants(Commands)
            \/ /\ m.type = "EventReply"
               /\ IsU64(m.head)
               /\ m.last = None \/ m.last \in EventOf
            \/ /\ m.type = "Update"
               /\ IsU32(m.head) /\ IsU32(m.last)
<1>1. IsU64(0)
  BY ByteFacts
<1>2. /\ \A n \in Offsets \cup ByteOffsets \cup ByteLens : IsU32(n)
      /\ \A n \in Ticks : IsU64(n)
  BY DatagramsAssumption
<1>3. CASE m \in [type : {"CommandRequest"}, head : Offsets \cup {None},
                  last : Variants(Commands) \cup {None}]
  BY <1>2, <1>3 DEF WithoutLast
<1>4. CASE m \in [type : {"EventReply"}, head : Ticks, last : EventOf]
  BY <1>2, <1>4 DEF WithoutLast
<1>5. CASE m \in [type : {"EventReply"}, head : {0}, last : {None}]
  BY <1>1, <1>5 DEF WithoutLast
<1>6. CASE m \in [type : {"Update"}, head : ByteOffsets, last : ByteLens]
  BY <1>2, <1>6 DEF WithoutLast
<1> QED BY <1>3, <1>4, <1>5, <1>6 DEF Message

(* The head of a message is read back, and is refused when cut off. *)
LEMMA HeadFacts ==
  ASSUME NEW m \in Message
  PROVE  /\ HeadBytes(m) \in Seq(Nat) /\ Len(HeadBytes(m)) \in 1 .. 10
         /\ \A rest \in Seq(Nat) : TakeHead(m.type, HeadBytes(m) \o rest) = Ok(m.head, rest)
         /\ \A size \in Nat : size < Len(HeadBytes(m)) =>
              TakeHead(m.type, SubSeq(HeadBytes(m), 1, size)) = Err
<1>1. CASE m.type = "CommandRequest" /\ (m.head = None \/ IsU32(m.head))
  <2> DEFINE enc == OptVarint(m.head)
  <2>1. HeadBytes(m) = enc /\ \A bytes : TakeHead(m.type, bytes) = TakeOptU32(bytes)
    BY <1>1 DEF HeadBytes, TakeHead
  <2>2. /\ enc \in Seq(Nat) /\ Len(enc) \in 1 .. 6
        /\ \A rest \in Seq(Nat) : TakeOptU32(enc \o rest) = Ok(m.head, rest)
        /\ \A size \in Nat : size < Len(enc) => TakeOptU32(SubSeq(enc, 1, size)) = Err
    BY <1>1, DatagramsAssumption, OptFacts
  <2> HIDE DEF enc
  <2>3. Len(enc) \in 1 .. 10
    BY <2>2
  <2> QED BY <2>1, <2>2, <2>3
<1>2. CASE m.type = "EventReply" /\ IsU64(m.head)
  <2>1. HeadBytes(m) = Varint(m.head) /\ \A bytes : TakeHead(m.type, bytes) = TakeU64(bytes)
    BY <1>2 DEF HeadBytes, TakeHead
  <2> QED BY <1>2, <2>1, U64Facts
<1>3. CASE m.type = "Update" /\ IsU32(m.head)
  <2> DEFINE enc == Varint(m.head)
  <2>1. HeadBytes(m) = enc /\ \A bytes : TakeHead(m.type, bytes) = TakeU32(bytes)
    BY <1>3 DEF HeadBytes, TakeHead
  <2>2. /\ enc \in Seq(Nat) /\ Len(enc) \in 1 .. 5
        /\ \A rest \in Seq(Nat) : TakeU32(enc \o rest) = Ok(m.head, rest)
        /\ \A size \in Nat : size < Len(enc) => TakeU32(SubSeq(enc, 1, size)) = Err
    BY <1>3, U32Facts
  <2> HIDE DEF enc
  <2>3. Len(enc) \in 1 .. 10
    BY <2>2
  <2> QED BY <2>1, <2>2, <2>3
<1> QED BY <1>1, <1>2, <1>3, MessageFacts

(* The last field of a request or a reply: read whole, or taken for none. *)
LEMMA LastFieldFacts ==
  ASSUME NEW m \in Message, m.type # "Update"
  PROVE  /\ LastBytes(m) \in Seq(Nat) /\ Len(LastBytes(m)) \in 0 .. 11
         /\ TakeLast(m.type, LastBytes(m)) = Ok(m.last, <<>>)
         /\ \A size \in Nat : size < Len(LastBytes(m)) =>
              TakeLast(m.type, SubSeq(LastBytes(m), 1, size)) = Ok(None, <<>>)
<1>1. DeserialiseLastField(Err) = Ok(None, <<>>)
  BY ErrFacts DEF DeserialiseLastField
<1>2. \A v, rest : DeserialiseLastField(Ok(v, rest)) = Ok(v, rest)
  BY OkFacts DEF DeserialiseLastField
<1>3. CASE m.type = "CommandRequest" /\ m.last = None
  <2>1. LastBytes(m) = <<>>
    BY <1>3 DEF LastBytes, SerialiseLastField
  <2>2. TakeLast(m.type, <<>>) = DeserialiseLastField(TakeCommand(<<>>))
    BY <1>3 DEF TakeLast
  <2>3. TakeCommand(<<>>) = Err
    BY NothingIsTaken DEF TakeCommand
  <2>4. TakeLast(m.type, <<>>) = Ok(None, <<>>)
    BY <1>1, <2>2, <2>3
  <2>5. <<>> \in Seq(Nat) /\ Len(<<>>) = 0
    OBVIOUS
  <2> QED BY <1>3, <2>1, <2>4, <2>5
<1>4. CASE m.type = "CommandRequest" /\ m.last \in Variants(Commands)
  <2>1. Commands \in 1 .. 128 /\ None \notin Int
    BY DatagramsAssumption
  <2>2. /\ Varint(m.last) = <<m.last>> /\ m.last \in Nat
        /\ TakeCommand(<<m.last>> \o <<>>) = Ok(m.last, <<>>)
    <3>1. <<>> \in Seq(Nat)
      OBVIOUS
    <3> QED BY <1>4, <2>1, <3>1, VariantFacts DEF TakeCommand
  <2>3. LastBytes(m) = <<m.last>>
    BY <1>4, <2>1, <2>2 DEF LastBytes, SerialiseLastField
  <2>4. \A bytes : TakeLast(m.type, bytes) = DeserialiseLastField(TakeCommand(bytes))
    BY <1>4 DEF TakeLast
  <2>5. <<m.last>> \o <<>> = <<m.last>>
    BY <2>2
  <2>6. TakeLast(m.type, <<m.last>>) = Ok(m.last, <<>>)
    BY <1>2, <2>2, <2>4, <2>5
  <2>7. TakeLast(m.type, <<>>) = Ok(None, <<>>)
    BY <1>1, <2>4, NothingIsTaken DEF TakeCommand
  <2>8. /\ <<m.last>> \in Seq(Nat) /\ Len(<<m.last>>) = 1
        /\ \A size \in Nat : size < 1 => SubSeq(<<m.last>>, 1, size) = <<>>
    BY <2>2
  <2>9. Len(<<m.last>>) \in 0 .. 11
    BY <2>8
  <2>10. ASSUME NEW size \in Nat, size < Len(<<m.last>>)
         PROVE  TakeLast(m.type, SubSeq(<<m.last>>, 1, size)) = Ok(None, <<>>)
    <3>1. SubSeq(<<m.last>>, 1, size) = <<>>
      BY <2>8, <2>10
    <3> QED BY <2>7, <3>1
  <2> QED BY <2>3, <2>6, <2>8, <2>9, <2>10
<1>5. CASE m.type = "EventReply" /\ m.last = None
  <2>1. LastBytes(m) = <<>>
    BY <1>5 DEF LastBytes, SerialiseLastField
  <2>2. TakeLast(m.type, <<>>) = DeserialiseLastField(TakeEvent(<<>>))
    BY <1>5 DEF TakeLast
  <2>3. TakeEvent(<<>>) = Err
    BY NothingIsTaken, ErrFacts DEF TakeEvent
  <2>4. TakeLast(m.type, <<>>) = Ok(None, <<>>)
    BY <1>1, <2>2, <2>3
  <2>5. <<>> \in Seq(Nat) /\ Len(<<>>) = 0
    OBVIOUS
  <2> QED BY <1>5, <2>1, <2>4, <2>5
<1>6. CASE m.type = "EventReply" /\ m.last \in EventOf
  <2> DEFINE enc == SerialiseEvent(m.last)
  <2>1. /\ enc \in Seq(Nat) /\ Len(enc) \in 1 .. 11
        /\ TakeEvent(enc) = Ok(m.last, <<>>)
        /\ \A size \in Nat : size < Len(enc) => TakeEvent(SubSeq(enc, 1, size)) = Err
    BY <1>6, EventFacts
  <2>2. LastBytes(m) = enc
    BY <1>6, NoneIsNoEvent DEF LastBytes, SerialiseLastField
  <2>3. \A bytes : TakeLast(m.type, bytes) = DeserialiseLastField(TakeEvent(bytes))
    BY <1>6 DEF TakeLast
  <2> HIDE DEF enc
  <2>4. Len(enc) \in 0 .. 11
    BY <2>1
  <2> QED BY <1>1, <1>2, <2>1, <2>2, <2>3, <2>4
<1> QED BY <1>3, <1>4, <1>5, <1>6, MessageFacts

(* An update, its bytes included *)
LEMMA UpdateFacts ==
  ASSUME NEW m \in Message, m.type = "Update"
  PROVE  /\ LastBytes(m) \in Seq(Nat)
         /\ m.last \in Nat
         /\ Len(LastBytes(m)) = Len(Varint(m.last)) + m.last
         /\ TakeLast(m.type, LastBytes(m)) = Ok(m.last, <<>>)
<1> DEFINE zeros == [k \in 1 .. m.last |-> 0]
           enc == Varint(m.last)
<1>1. IsU32(m.last)
  BY MessageFacts
<1>2. /\ m.last \in Nat /\ enc \in Seq(Nat)
      /\ \A rest \in Seq(Nat) : TakeU32(enc \o rest) = Ok(m.last, rest)
  BY <1>1, U32Facts
<1>3. zeros \in Seq(Nat) /\ Len(zeros) = m.last
  BY <1>2
<1>4. LastBytes(m) = enc \o zeros /\ TakeLast(m.type, enc \o zeros) = TakeBytes(enc \o zeros)
  BY DEF LastBytes, TakeLast
<1> HIDE DEF enc, zeros
<1>5. TakeU32(enc \o zeros) = Ok(m.last, zeros)
  BY <1>2, <1>3
<1>6. TakeBytes(enc \o zeros) = Ok(m.last, SubSeq(zeros, m.last + 1, Len(zeros)))
  <2>1. m.last <= Len(zeros)
    BY <1>2, <1>3
  <2> QED BY <1>5, <2>1, OkFacts DEF TakeBytes
<1>7. SubSeq(zeros, m.last + 1, Len(zeros)) = <<>>
  BY <1>2, <1>3
<1>8. enc \o zeros \in Seq(Nat) /\ Len(enc \o zeros) = Len(enc) + Len(zeros)
  BY <1>2, <1>3, ConcatFacts
<1> QED BY <1>2, <1>3, <1>4, <1>6, <1>7, <1>8 DEF enc

(* A message is its head followed by its last field. *)
LEMMA SerialiseIsHeadAndLast ==
  ASSUME NEW m \in Message
  PROVE  /\ Serialise(m) = HeadBytes(m) \o LastBytes(m)
         /\ HeadBytes(m) \in Seq(Nat) /\ LastBytes(m) \in Seq(Nat)
<1>1. HeadBytes(m) \in Seq(Nat) /\ LastBytes(m) \in Seq(Nat)
  BY HeadFacts, LastFieldFacts, UpdateFacts
<1>2. CASE m.type = "CommandRequest" \/ m.type = "EventReply"
  BY <1>1, <1>2 DEF Serialise, HeadBytes, LastBytes
<1>3. CASE m.type = "Update" /\ IsU32(m.head) /\ IsU32(m.last)
  <2> DEFINE zeros == [k \in 1 .. m.last |-> 0]
  <2>1. Varint(m.head) \in Seq(Nat) /\ Varint(m.last) \in Seq(Nat) /\ m.last \in Nat
    BY <1>3, U32Facts
  <2>2. zeros \in Seq(Nat)
    BY <2>1
  <2>3. /\ Serialise(m) = (Varint(m.head) \o Varint(m.last)) \o zeros
        /\ HeadBytes(m) = Varint(m.head) /\ LastBytes(m) = Varint(m.last) \o zeros
    BY <1>3 DEF Serialise, HeadBytes, LastBytes
  <2> HIDE DEF zeros
  <2>4. \A a, b, c \in Seq(Nat) : (a \o b) \o c = a \o (b \o c)
    OBVIOUS
  <2> QED BY <1>1, <2>1, <2>2, <2>3, <2>4
<1> QED BY <1>2, <1>3, MessageFacts

(* What is written is read back: from_bytes undoes to_slice and to_vec for *)
(* every message of the two layers, whatever its numbers.                  *)
THEOREM DeserialiseSerialise ==
  ASSUME NEW m \in Message
  PROVE  Deserialise(m.type, Serialise(m)) = m
<1>1. /\ Serialise(m) = HeadBytes(m) \o LastBytes(m)
      /\ HeadBytes(m) \in Seq(Nat) /\ LastBytes(m) \in Seq(Nat)
  BY SerialiseIsHeadAndLast
<1>2. TakeHead(m.type, Serialise(m)) = Ok(m.head, LastBytes(m))
  BY <1>1, HeadFacts
<1>3. TakeLast(m.type, LastBytes(m)) = Ok(m.last, <<>>)
  BY LastFieldFacts, UpdateFacts
<1>4. Deserialise(m.type, Serialise(m)) = [type |-> m.type, head |-> m.head, last |-> m.last]
  BY <1>2, <1>3, OkFacts DEF Deserialise
<1> QED BY <1>4, MessageFacts

(* A request or reply that is cut off is refused or has lost its last      *)
(* field, wherever the cut falls.                                          *)
THEOREM DeserialiseCut ==
  ASSUME NEW m \in Message, m.type # "Update",
         NEW size \in Nat, size < Len(Serialise(m))
  PROVE  Deserialise(m.type, SubSeq(Serialise(m), 1, size)) \in {Err, WithoutLast(m)}
<1> DEFINE a == HeadBytes(m)
           b == LastBytes(m)
           bytes == SubSeq(a \o b, 1, size)
<1>1. Serialise(m) = a \o b /\ a \in Seq(Nat) /\ b \in Seq(Nat)
  BY SerialiseIsHeadAndLast
<1>2. /\ \A rest \in Seq(Nat) : TakeHead(m.type, a \o rest) = Ok(m.head, rest)
      /\ \A n \in Nat : n < Len(a) => TakeHead(m.type, SubSeq(a, 1, n)) = Err
  BY HeadFacts
<1>3. \A n \in Nat : n < Len(b) => TakeLast(m.type, SubSeq(b, 1, n)) = Ok(None, <<>>)
  BY LastFieldFacts
<1> HIDE DEF a, b
<1>4. /\ Len(a) \in Nat /\ Len(b) \in Nat
      /\ size \in 0 .. Len(a) + Len(b) /\ size < Len(a) + Len(b)
  BY <1>1, ConcatFacts
<1>5. CASE size < Len(a)
  <2>1. bytes = SubSeq(a, 1, size)
    BY <1>1, <1>4, <1>5, CutFacts
  <2>2. TakeHead(m.type, bytes) = Err
    BY <1>2, <1>5, <2>1
  <2> HIDE DEF bytes
  <2>3. Deserialise(m.type, bytes) = Err
    BY <2>2, ErrFacts DEF Deserialise
  <2> QED BY <1>1, <2>3 DEF bytes
<1>6. CASE size >= Len(a)
  <2> DEFINE rest == SubSeq(b, 1, size - Len(a))
  <2>1. bytes = a \o rest
    BY <1>1, <1>4, <1>6, CutFacts
  <2>2. size - Len(a) \in Nat /\ size - Len(a) < Len(b)
    BY <1>4, <1>6
  <2>3. rest \in Seq(Nat) /\ TakeLast(m.type, rest) = Ok(None, <<>>)
    BY <1>1, <1>3, <2>2
  <2> HIDE DEF rest
  <2>4. TakeHead(m.type, bytes) = Ok(m.head, rest)
    BY <1>2, <2>1, <2>3
  <2> HIDE DEF bytes
  <2>5. Deserialise(m.type, bytes) = [type |-> m.type, head |-> m.head, last |-> None]
    BY <2>3, <2>4, OkFacts DEF Deserialise
  <2>6. Deserialise(m.type, bytes) = WithoutLast(m)
    BY <2>5, MessageFacts
  <2> QED BY <1>1, <2>6 DEF bytes
<1> QED BY <1>4, <1>5, <1>6

------------------------------------------------------------------------------
(* Sizes *)

(* Only numbers from 2^28 on take five bytes. *)
LEMMA LongVarint ==
  ASSUME NEW n, IsU32(n), Len(Varint(n)) > 4
  PROVE  n >= 268435456
<1> DEFINE s == Shifted(n)
<1>1. n \in Nat /\ s[5] < 128
  <2>1. n \in Nat /\ s[5] < 16 /\ s[5] \in Nat
    BY ShiftedFacts DEF IsU32
  <2> QED BY <2>1
<1>2. VarintLen(n) \in 1 .. 5 /\ VarintLen(n) > 4
  <2>1. Len(Varint(n)) = VarintLen(n) /\ VarintLen(n) \in 1 .. 5
    BY <1>1, VarintFacts
  <2> QED BY <2>1
<1>3. s[4] >= 128
  <2>1. \A k \in 1 .. 10 : k < VarintLen(n) => s[k] >= 128
    BY <1>1, VarintLenFacts
  <2>2. 4 \in 1 .. 10 /\ 4 < VarintLen(n)
    BY <1>2
  <2> QED BY <2>1, <2>2
<1>4. s[1] = n /\ s[1] \in Nat /\ s[2] \in Nat /\ s[3] \in Nat /\ s[4] \in Nat
  BY <1>1, ShiftedFacts
<1>5. /\ s[1] = 128 * s[1 + 1] + (s[1] % 128)
      /\ s[2] = 128 * s[2 + 1] + (s[2] % 128)
      /\ s[3] = 128 * s[3 + 1] + (s[3] % 128)
  BY <1>1, ShiftedFacts
<1> HIDE DEF s
<1>6. s[1] >= 128 * s[2] /\ s[2] >= 128 * s[3] /\ s[3] >= 128 * s[4]
  <2>1. \A m, q \in Nat : m = 128 * q + (m % 128) => m >= 128 * q
    OBVIOUS
  <2>2. /\ s[1] = 128 * s[2] + (s[1] % 128)
        /\ s[2] = 128 * s[3] + (s[2] % 128)
        /\ s[3] = 128 * s[4] + (s[3] % 128)
    BY <1>5
  <2>3. s[1] >= 128 * s[2]
    BY <1>4, <2>1, <2>2
  <2>4. s[2] >= 128 * s[3]
    BY <1>4, <2>1, <2>2
  <2>5. s[3] >= 128 * s[4]
    BY <1>4, <2>1, <2>2
  <2> QED BY <2>3, <2>4, <2>5
<1> QED BY <1>3, <1>4, <1>6

(* How long a message gets, compared with the buffer it goes into *)
LEMMA SizeFacts ==
  ASSUME NEW m \in Message
  PROVE  /\ Serialise(m) \in Seq(Nat)
         /\ m.type # "Update" => Len(Serialise(m)) <= MAX_DATAGRAM_SIZE
         /\ m.type = "Update" /\ m.last <= UPDATE_BYTES_SIZE /\ ~(Len(Varint(m.head)) > 4) =>
              Len(Serialise(m)) <= MIN_PAYLOAD_SIZE
<1> DEFINE a == HeadBytes(m)
           b == LastBytes(m)
<1>1. Serialise(m) = a \o b /\ a \in Seq(Nat) /\ b \in Seq(Nat)
  BY SerialiseIsHeadAndLast
<1>2. Len(a) \in Nat /\ Len(a) <= 10
  <2>1. \A k \in 1 .. 10 : k \in Nat /\ k <= 10
    OBVIOUS
  <2> QED BY <2>1, HeadFacts
<1>3. m.type # "Update" => Len(b) \in Nat /\ Len(b) <= 11
  <2>1. \A k \in 0 .. 11 : k \in Nat /\ k <= 11
    OBVIOUS
  <2> QED BY <2>1, LastFieldFacts
<1>4. m.type = "Update" => /\ m.last \in Nat /\ Len(b) = Len(Varint(m.last)) + m.last
                           /\ a = Varint(m.head) /\ IsU32(m.head)
  BY UpdateFacts, MessageFacts DEF HeadBytes
<1> HIDE DEF a, b
<1>5. Serialise(m) \in Seq(Nat) /\ Len(Serialise(m)) = Len(a) + Len(b) /\ Len(b) \in Nat
  BY <1>1, ConcatFacts
<1>6. m.type # "Update" => Len(Serialise(m)) <= MAX_DATAGRAM_SIZE
  <2>1. MAX_DATAGRAM_SIZE \in Nat /\ MAX_DATAGRAM_SIZE >= 21
    BY DatagramsAssumption
  <2>2. \A x, y, z \in Nat : x <= 10 /\ y <= 11 /\ z >= 21 => x + y <= z
    OBVIOUS
  <2>3. m.type # "Update" => Len(a) + Len(b) <= MAX_DATAGRAM_SIZE
    BY <1>2, <1>3, <2>1, <2>2
  <2> QED BY <1>5, <2>3
<1>7. ASSUME m.type = "Update", m.last <= UPDATE_BYTES_SIZE,
             ~(Len(Varint(m.head)) > 4)
      PROVE  Len(Serialise(m)) <= MIN_PAYLOAD_SIZE
  <2>1. m.last \in 0 .. 127 /\ m.last + 5 <= MIN_PAYLOAD_SIZE /\ MIN_PAYLOAD_SIZE \in Nat
    <3>1. MIN_PAYLOAD_SIZE \in 5 .. 132
      BY DatagramsAssumption
    <3>2. m.last \in Nat /\ m.last <= MIN_PAYLOAD_SIZE - (4 + 1)
      BY <1>4, <1>7 DEF UPDATE_BYTES_SIZE, UPDATE_BYTES_OVERHEAD
    <3>3. \A l \in Nat, p \in 5 .. 132 : l <= p - (4 + 1) => l \in 0 .. 127 /\ l + 5 <= p
      OBVIOUS
    <3>4. \A p \in 5 .. 132 : p \in Nat
      OBVIOUS
    <3> QED BY <3>1, <3>2, <3>3, <3>4, Zenon
  <2>2. Len(Varint(m.last)) = 1
    <3>1. Varint(m.last) = <<m.last>>
      BY <2>1, ByteFacts
    <3> QED BY <3>1
  <2>3. Len(a) <= 4
    BY <1>2, <1>4, <1>7
  <2>4. Len(b) = 1 + m.last
    BY <1>4, <1>7, <2>2
  <2>5. \A x, l, p \in Nat : x <= 4 /\ l + 5 <= p => x + (1 + l) <= p
    OBVIOUS
  <2>6. Len(a) + (1 + m.last) <= MIN_PAYLOAD_SIZE
    <3>1. Len(a) \in Nat /\ m.last \in Nat
      BY <1>2, <1>4, <1>7
    <3> QED BY <2>1, <2>3, <2>5, <3>1
  <2> QED BY <1>5, <2>4, <2>6
<1> QED BY <1>5, <1>6, <1>7

------------------------------------------------------------------------------
(* A message on its way *)

(* What is in the datagram, and which messages there are. *)
SentInv ==
  /\ message \in Message
  /\ message.type = "Update" => message.last <= UPDATE_BYTES_SIZE
  /\ pc = "sent" => datagram = Serialise(message)

(* What recv_from leaves of a datagram is read as the property says. *)
LEMMA ReceiveFacts ==
  ASSUME SentInv, NEW size \in BufferSizes, Receive(size)
  PROVE  ReceivedIsSent'
<1> DEFINE whole == Serialise(message)
           n == Min({size, Len(whole)})
<1>1. /\ message \in Message /\ datagram = whole /\ size \in Nat
      /\ message.type = "Update" => size >= Len(whole)
  BY DatagramsAssumption DEF SentInv, Receive
<1>2. whole \in Seq(Nat) /\ Len(whole) \in Nat
  BY <1>1, SizeFacts
<1>3. /\ message' = message
      /\ datagram' = SubSeq(whole, 1, n)
      /\ received' = Deserialise(message.type, SubSeq(whole, 1, n))
  BY <1>1 DEF Receive
<1> HIDE DEF whole
<1>4. CASE size >= Len(whole)
  <2>1. n = Len(whole)
    <3> DEFINE S == {size, Len(whole)}
    <3>1. S \subseteq Int /\ Len(whole) \in S /\ \A k \in S : Len(whole) <= k
      BY <1>1, <1>2, <1>4
    <3> HIDE DEF S
    <3>2. Min(S) = Len(whole)
      BY <3>1, MinIs
    <3> QED BY <3>2 DEF S
  <2>2. SubSeq(whole, 1, Len(whole)) = whole
    BY <1>2
  <2>3. received' = message
    BY <1>1, <1>3, <2>1, <2>2, DeserialiseSerialise DEF whole
  <2> QED BY <1>3, <2>3 DEF ReceivedIsSent
<1>5. CASE size < Len(whole)
  <2>1. n = size
    <3> DEFINE S == {size, Len(whole)}
    <3>1. S \subseteq Int /\ size \in S /\ \A k \in S : size <= k
      BY <1>1, <1>2, <1>5
    <3> HIDE DEF S
    <3>2. Min(S) = size
      BY <3>1, MinIs
    <3> QED BY <3>2 DEF S
  <2>2. Len(SubSeq(whole, 1, size)) = size
    BY <1>1, <1>2, <1>5
  <2>3. message.type # "Update"
    BY <1>1, <1>2, <1>5
  <2>4. received' \in {Err, WithoutLast(message)}
    BY <1>1, <1>3, <1>5, <2>1, <2>3, DeserialiseCut DEF whole
  <2>5. Len(datagram') < Len(whole)
    BY <1>3, <1>5, <2>1, <2>2
  <2> QED BY <1>3, <2>4, <2>5 DEF ReceivedIsSent, whole
<1> QED BY <1>1, <1>2, <1>4, <1>5

(* The invariant holds of a message not sent yet, *)
LEMMA DatagramsInit == Init => SentInv /\ ReceivedIsSent /\ MessagesFit
BY DEF Init, SentInv, ReceivedIsSent, MessagesFit

(* and sending and receiving preserve it. *)
LEMMA DatagramsNext ==
  ASSUME SentInv, ReceivedIsSent, MessagesFit, [Next]_vars
  PROVE  SentInv' /\ ReceivedIsSent' /\ MessagesFit'
<1>1. CASE UNCHANGED vars
  BY <1>1 DEF vars, SentInv, ReceivedIsSent, MessagesFit
<1>2. CASE SendMessage
  <2>1. /\ message' = message /\ message.type # "Update"
        /\ Len(Serialise(message)) <= MAX_DATAGRAM_SIZE
    BY <1>2, SizeFacts DEF SendMessage, SentInv
  <2>2. datagram' = Serialise(message) /\ pc' = "sent"
    BY <1>2, <2>1 DEF SendMessage
  <2> QED BY <2>1, <2>2 DEF SentInv, ReceivedIsSent, MessagesFit
<1>3. CASE SendUpdate
  <2>1. message' = message /\ message.type = "Update" /\ message \in Message
    BY <1>3 DEF SendUpdate, SentInv
  <2>2. Len(Serialise(message)) > MIN_PAYLOAD_SIZE => Len(Varint(message.head)) > 4
    <3>1. ~(Len(Varint(message.head)) > 4) => Len(Serialise(message)) <= MIN_PAYLOAD_SIZE
      BY <2>1, SizeFacts DEF SentInv
    <3>2. Len(Serialise(message)) \in Nat /\ MIN_PAYLOAD_SIZE \in Nat
      BY <2>1, SizeFacts, DatagramsAssumption
    <3> QED BY <3>1, <3>2
  <2>3. \/ datagram' = Serialise(message) /\ pc' = "sent"
        \/ pc' = "panicked" /\ Len(Varint(message.head)) > 4
    <3>1. Len(Serialise(message)) \in Nat /\ MIN_PAYLOAD_SIZE \in Nat
      BY <2>1, SizeFacts, DatagramsAssumption
    <3> QED BY <1>3, <2>2, <3>1 DEF SendUpdate
  <2>4. CASE datagram' = Serialise(message) /\ pc' = "sent"
    BY <2>1, <2>4 DEF SentInv, ReceivedIsSent, MessagesFit
  <2>5. CASE pc' = "panicked" /\ Len(Varint(message.head)) > 4
    <3>1. message.head >= 268435456
      BY <2>1, <2>5, MessageFacts, LongVarint
    <3> QED BY <2>1, <2>5, <3>1 DEF SentInv, ReceivedIsSent, MessagesFit
  <2> QED BY <2>3, <2>4, <2>5
<1>4. ASSUME NEW size \in BufferSizes, Receive(size)
      PROVE  SentInv' /\ ReceivedIsSent' /\ MessagesFit'
  <2>1. message' = message /\ pc' = "received"
    BY <1>4 DEF Receive
  <2>2. ReceivedIsSent'
    BY <1>4, ReceiveFacts
  <2> QED BY <2>1, <2>2 DEF SentInv, MessagesFit
<1> QED BY <1>1, <1>2, <1>3, <1>4 DEF Next

(* Every message is received as it was sent, or refused, or without its    *)
(* last field, for all u32 offsets, all u64 ticks and all buffer sizes.    *)
THEOREM MessagesArrive == Spec => []ReceivedIsSent
<1>1. Init => SentInv /\ ReceivedIsSent /\ MessagesFit
  BY DatagramsInit
<1>2. SentInv /\ ReceivedIsSent /\ MessagesFit /\ [Next]_vars =>
        (SentInv /\ ReceivedIsSent /\ MessagesFit)'
  BY DatagramsNext
<1> QED BY <1>1, <1>2, PTL DEF Spec

(* No request or reply is too long for its buffer, and no update whose     *)
(* byte offset takes at most four bytes is too long for a frame.           *)
THEOREM BuffersSuffice == Spec => []MessagesFit
<1>1. Init => SentInv /\ ReceivedIsSent /\ MessagesFit
  BY DatagramsInit
<1>2. SentInv /\ ReceivedIsSent /\ MessagesFit /\ [Next]_vars =>
        (SentInv /\ ReceivedIsSent /\ MessagesFit)'
  BY DatagramsNext
<1> QED BY <1>1, <1>2, PTL DEF Spec

------------------------------------------------------------------------------
(* The order of versions *)

(* The parts of a version. *)
LEMMA VersionParts ==
  ASSUME NEW v \in Version
  PROVE  /\ v.major \in Nat /\ v.minor \in Nat /\ v.patch \in Nat
         /\ v.pre \in PreRelease \cup {NoPre}
BY DEF Version

(* The three answers of u8::cmp exclude each other. *)
LEMMA CmpFacts ==
  ASSUME NEW m \in Nat, NEW n \in Nat
  PROVE  /\ Cmp(m, n) = Less <=> m < n
         /\ Cmp(m, n) = Equal <=> m = n
         /\ Cmp(m, n) = Greater <=> n < m
BY DEF Cmp, Less, Equal, Greater

(* Equal pre-releases are those with the same stage and number. *)
LEMMA PreFacts ==
  ASSUME NEW p \in PreRelease \cup {NoPre}
  PROVE  /\ p[2] \in Nat
         /\ p = NoPre \/ (p = <<p[1], p[2]>> /\ p[1] \in {"Alpha", "Beta"})
         /\ p # NoPre => p[1] \in {"Alpha", "Beta"}
         /\ Stage(p) \in 1 .. 3
<1>1. CASE p = NoPre
  BY <1>1 DEF NoPre, Stage
<1>2. CASE p \in PreRelease
  <2>1. p[1] \in {"Alpha", "Beta"} /\ p[2] \in Nat /\ p = <<p[1], p[2]>>
    BY <1>2 DEF PreRelease
  <2> QED BY <2>1 DEF Stage
<1> QED BY <1>1, <1>2

(* The match on the two options compares stages, then numbers. *)
LEMMA PreCmpFacts ==
  ASSUME NEW p \in PreRelease \cup {NoPre}, NEW q \in PreRelease \cup {NoPre}
  PROVE  /\ PreCmp(p, q) = Less <=>
              Stage(p) < Stage(q) \/ (Stage(p) = Stage(q) /\ p[2] < q[2])
         /\ PreCmp(p, q) = Equal <=> p = q
         /\ PreCmp(p, q) = Greater <=>
              Stage(q) < Stage(p) \/ (Stage(q) = Stage(p) /\ q[2] < p[2])
<1>1. CASE p = NoPre \/ q = NoPre
  <2>1. NoPre[2] = 0 /\ Stage(NoPre) = 3
    BY DEF NoPre, Stage
  <2>2. \A r \in PreRelease \cup {NoPre} : r # NoPre => Stage(r) \in 1 .. 2
    BY DEF Stage
  <2> QED BY <1>1, <2>1, <2>2 DEF PreCmp, Less, Equal, Greater
<1>2. CASE p # NoPre /\ q # NoPre
  <2>1. /\ p[1] \in {"Alpha", "Beta"} /\ q[1] \in {"Alpha", "Beta"}
        /\ p[2] \in Nat /\ q[2] \in Nat
        /\ p = q <=> p[1] = q[1] /\ p[2] = q[2]
    BY <1>2, PreFacts
  <2>2. PreCmp(p, q) = PreReleaseCmp(p, q)
    BY <1>2 DEF PreCmp
  <2>3. CASE p[1] = q[1]
    <3>1. PreReleaseCmp(p, q) = Cmp(p[2], q[2]) /\ Stage(p) = Stage(q)
      BY <1>2, <2>3 DEF PreReleaseCmp, Stage
    <3>2. Stage(p) \in Nat
      BY PreFacts
    <3> QED BY <2>1, <2>2, <2>3, <3>1, <3>2, CmpFacts
  <2>4. CASE p[1] # q[1]
    BY <1>2, <2>1, <2>2, <2>4 DEF PreReleaseCmp, Stage, Less, Equal, Greater
  <2> QED BY <2>3, <2>4
<1> QED BY <1>1, <1>2

(* Ord for Version agrees with the order of semver.org on all versions,    *)
(* whatever their numbers: so it is total, and no two different versions   *)
(* compare as equal.                                                       *)
THEOREM VersionCmpIsSemver ==
  ASSUME NEW v \in Version, NEW w \in Version
  PROVE  /\ VersionCmp(v, w) = Less <=> Precedes(v, w)
         /\ VersionCmp(v, w) = Equal <=> v = w
         /\ VersionCmp(v, w) = Greater <=> Precedes(w, v)
<1> DEFINE cmpMajor == Cmp(v.major, w.major)
           cmpMinor == Cmp(v.minor, w.minor)
           cmpPatch == Cmp(v.patch, w.patch)
           cmpPre == PreCmp(v.pre, w.pre)
<1>1. /\ v.major \in Nat /\ v.minor \in Nat /\ v.patch \in Nat
      /\ w.major \in Nat /\ w.minor \in Nat /\ w.patch \in Nat
      /\ v.pre \in PreRelease \cup {NoPre} /\ w.pre \in PreRelease \cup {NoPre}
  BY VersionParts
<1>2. v = w <=> /\ v.major = w.major /\ v.minor = w.minor
                /\ v.patch = w.patch /\ v.pre = w.pre
  BY DEF Version
<1>3. /\ cmpMajor = Less <=> v.major < w.major
      /\ cmpMajor = Equal <=> v.major = w.major
      /\ cmpMajor = Greater <=> w.major < v.major
  BY <1>1, CmpFacts
<1>4. /\ cmpMinor = Less <=> v.minor < w.minor
      /\ cmpMinor = Equal <=> v.minor = w.minor
      /\ cmpMinor = Greater <=> w.minor < v.minor
  BY <1>1, CmpFacts
<1>5. /\ cmpPatch = Less <=> v.patch < w.patch
      /\ cmpPatch = Equal <=> v.patch = w.patch
      /\ cmpPatch = Greater <=> w.patch < v.patch
  BY <1>1, CmpFacts
<1>6. /\ cmpPre = Less <=> \/ Stage(v.pre) < Stage(w.pre)
                           \/ Stage(v.pre) = Stage(w.pre) /\ v.pre[2] < w.pre[2]
      /\ cmpPre = Equal <=> v.pre = w.pre
      /\ cmpPre = Greater <=> \/ Stage(w.pre) < Stage(v.pre)
                              \/ Stage(w.pre) = Stage(v.pre) /\ w.pre[2] < v.pre[2]
  BY <1>1, PreCmpFacts
<1>7. VersionCmp(v, w) = Then(cmpMajor, Then(cmpMinor, Then(cmpPatch, cmpPre)))
  BY DEF VersionCmp
<1> HIDE DEF cmpMajor, cmpMinor, cmpPatch, cmpPre
<1> QED BY <1>1, <1>2, <1>3, <1>4, <1>5, <1>6, <1>7, SMTT(30)
        DEF Then, Precedes, Less, Equal, Greater

(* The same of every pair of versions offered one after the other. *)
THEOREM OffersAreOrdered == OfferSpec => []OrderIsSemver
<1> DEFINE Typed == previous \in Version /\ offered \in Version
<1>1. Inputs \subseteq Version
  <2>1. Numbers \subseteq Nat
    BY NumbersAssumption
  <2> QED BY <2>1 DEF Inputs, Version, PreRelease
<1>2. OfferInit => Typed
  BY <1>1 DEF OfferInit
<1>3. Typed /\ [OfferNext]_offerVars => Typed'
  BY <1>1 DEF OfferNext, Offer, offerVars
<1>4. Typed => OrderIsSemver
  BY VersionCmpIsSemver DEF OrderIsSemver
<1> QED BY <1>2, <1>3, <1>4, PTL DEF OfferSpec

------------------------------------------------------------------------------
(* Versions as text *)

(* Where a single token is found in a text *)
LEMMA TokenPlaces ==
  ASSUME NEW S, NEW whole \in Seq(S), NEW x \in S
  PROVE  Places(whole, <<x>>) = {k \in 1 .. Len(whole) : whole[k] = x}
<1>1. Len(<<x>>) = 1 /\ Len(whole) \in Nat
  OBVIOUS
<1>2. \A k \in 1 .. Len(whole) : SubSeq(whole, k, k) = <<whole[k]>>
  <2>1. \A s \in Seq(S) : Len(s) = 1 => s = <<s[1]>>
    OBVIOUS
  <2>2. \A k \in 1 .. Len(whole) : /\ SubSeq(whole, k, k) \in Seq(S)
                                   /\ Len(SubSeq(whole, k, k)) = 1
                                   /\ SubSeq(whole, k, k)[1] = whole[k]
    OBVIOUS
  <2> QED BY <2>1, <2>2
<1>3. \A y \in S : <<y>> = <<x>> <=> y = x
  OBVIOUS
<1>4. \A k \in 1 .. Len(whole) : whole[k] \in S
  OBVIOUS
<1>5. \A k \in 1 .. Len(whole) : k + 1 - 1 = k
  OBVIOUS
<1>6. Len(whole) - 1 + 1 = Len(whole)
  BY <1>1
<1> QED BY <1>1, <1>2, <1>3, <1>4, <1>5, <1>6 DEF Places

(* split_once at a token that the text has *)
LEMMA SplitFacts ==
  ASSUME NEW S, NEW before \in Seq(S), NEW x \in S, NEW after \in Seq(S),
         \A k \in 1 .. Len(before) : before[k] # x
  PROVE  LET whole == before \o (<<x>> \o after)
         IN  Splits(whole, <<x>>) /\ Before(whole, <<x>>) = before /\ After(whole, <<x>>) = after
<1> DEFINE upto == before \o <<x>>
           whole == before \o (<<x>> \o after)
           first == Len(before) + 1
<1>1. /\ upto \in Seq(S) /\ Len(upto) = first /\ upto[first] = x
      /\ \A k \in 1 .. Len(before) : upto[k] = before[k]
      /\ SubSeq(upto, 1, Len(before)) = before
      /\ Len(<<x>>) = 1 /\ Len(before) \in Nat /\ Len(after) \in Nat
  OBVIOUS
<1>2. whole = upto \o after
  OBVIOUS
<1> HIDE DEF upto, whole
<1>3. /\ whole \in Seq(S) /\ Len(whole) = first + Len(after)
      /\ \A k \in 1 .. first : whole[k] = upto[k]
      /\ SubSeq(whole, first + 1, Len(whole)) = after
  <2>1. /\ whole \in Seq(S) /\ Len(whole) = Len(upto) + Len(after)
        /\ \A k \in 1 .. Len(upto) : whole[k] = upto[k]
        /\ SubSeq(whole, Len(upto) + 1, Len(whole)) = after
    <3>1. upto \in Seq(S)
      BY <1>1
    <3> QED BY <1>2, <3>1, ConcatFacts
  <2> HIDE DEF first
  <2> QED BY <1>1, <2>1
<1>4. whole[first] = x /\ \A k \in 1 .. Len(before) : whole[k] = before[k]
  BY <1>1, <1>3
<1>5. SubSeq(whole, 1, first - 1) = before
  <2>1. SubSeq(whole, 1, Len(before)) = SubSeq(upto, 1, Len(before))
    BY <1>1, <1>2, CutFacts
  <2> QED BY <1>1, <2>1
<1>6. SubSeq(whole, first + 1, Len(whole)) = after
  BY <1>3
<1>7. Places(whole, <<x>>) = {k \in 1 .. Len(whole) : whole[k] = x}
  BY <1>3, TokenPlaces
<1>8. first \in Places(whole, <<x>>)
  <2>1. first \in 1 .. Len(whole)
    BY <1>1, <1>3
  <2> QED BY <1>4, <1>7, <2>1
<1>9. \A k \in Places(whole, <<x>>) : first <= k
  BY <1>1, <1>4, <1>7
<1>10. Min(Places(whole, <<x>>)) = first
  <2>1. Places(whole, <<x>>) \subseteq Int
    BY <1>7
  <2> QED BY <1>8, <1>9, <2>1, MinIs
<1> HIDE DEF first
<1>11. Splits(whole, <<x>>) /\ Before(whole, <<x>>) = before /\ After(whole, <<x>>) = after
  BY <1>1, <1>5, <1>6, <1>8, <1>10 DEF Splits, Before, After
<1> QED BY <1>11 DEF whole

(* A token that neither of two texts has *)
LEMMA WithoutConcat ==
  ASSUME NEW S, NEW s \in Seq(S), NEW t \in Seq(S), NEW x,
         \A k \in 1 .. Len(s) : s[k] # x, \A k \in 1 .. Len(t) : t[k] # x
  PROVE  s \o t \in Seq(S) /\ \A k \in 1 .. Len(s \o t) : (s \o t)[k] # x
<1>1. \A k \in 1 .. Len(s \o t) : (s \o t)[k] = IF k <= Len(s) THEN s[k] ELSE t[k - Len(s)]
  OBVIOUS
<1>2. s \o t \in Seq(S) /\ Len(s \o t) = Len(s) + Len(t) /\ Len(s) \in Nat /\ Len(t) \in Nat
  OBVIOUS
<1> QED BY <1>1, <1>2

(* split_once at a token that the text has not *)
LEMMA NoSplit ==
  ASSUME NEW S, NEW whole \in Seq(S), NEW x \in S, \A k \in 1 .. Len(whole) : whole[k] # x
  PROVE  ~Splits(whole, <<x>>)
BY TokenPlaces DEF Splits

------------------------------------------------------------------------------

(* A set of tokens with the ones that Display writes *)
AreTokens(S) ==
  /\ {Token("."), Token("-"), Token("+"), Token("alpha"), Token("beta")} \subseteq S
  /\ \A n \in Nat : Numeral(n) \in S

(* The tokens that from_str looks for are not mistaken for others. *)
LEMMA TokenFacts ==
  /\ \A n \in Nat : /\ Numeral(n) # Token(".") /\ Numeral(n) # Token("-")
                    /\ Numeral(n) # Token("+")
  /\ Token("+") # Token("-") /\ Token("+") # Token(".")
  /\ Token("alpha") # Token("+") /\ Token("beta") # Token("+")
  /\ Token("alpha") # Token("beta") /\ Token(".") # Token("alpha")
  /\ Token(".") # Token("beta")
BY DEF Token, Numeral

(* parse::<u8> of a number in its range *)
LEMMA NumeralIsRead ==
  ASSUME NEW n \in 0 .. 255
  PROVE  ParseU8(<<Numeral(n)>>) = n
<1> DEFINE s == <<Numeral(n)>>
<1>1. Len(s) = 1 /\ s[1] = Numeral(n)
  OBVIOUS
<1>2. Numeral(n)[1] = "numeral" /\ Numeral(n)[2] = n
  BY DEF Numeral
<1>3. n <= 255
  OBVIOUS
<1> HIDE DEF s
<1>4. ParseU8(s) = n
  BY <1>1, <1>2, <1>3 DEF ParseU8
<1> QED BY <1>4 DEF s

(* Three tokens and their parts *)
LEMMA TripleFacts ==
  ASSUME NEW S, NEW s \in Seq(S), Len(s) = 3
  PROVE  /\ SubSeq(s, 1, 2) = <<s[1], s[2]>>
         /\ SubSeq(s, 2, 3) = <<s[2], s[3]>>
         /\ SubSeq(s, 3, 3) = <<s[3]>>
<1>1. \A t \in Seq(S) : /\ Len(t) = 1 => t = <<t[1]>>
                        /\ Len(t) = 2 => t = <<t[1], t[2]>>
  OBVIOUS
<1>2. \A i \in 1 .. Len(s) : \A j \in i .. Len(s) :
        /\ SubSeq(s, i, j) \in Seq(S) /\ Len(SubSeq(s, i, j)) = j - i + 1
        /\ \A k \in 1 .. (j - i + 1) : SubSeq(s, i, j)[k] = s[i + k - 1]
  BY PartFacts, Zenon
<1>3. SubSeq(s, 1, 2) \in Seq(S) /\ Len(SubSeq(s, 1, 2)) = 2 /\
      SubSeq(s, 1, 2)[1] = s[1] /\ SubSeq(s, 1, 2)[2] = s[2]
  BY <1>2
<1>4. SubSeq(s, 2, 3) \in Seq(S) /\ Len(SubSeq(s, 2, 3)) = 2 /\
      SubSeq(s, 2, 3)[1] = s[2] /\ SubSeq(s, 2, 3)[2] = s[3]
  BY <1>2
<1>5. SubSeq(s, 3, 3) \in Seq(S) /\ Len(SubSeq(s, 3, 3)) = 1 /\ SubSeq(s, 3, 3)[1] = s[3]
  BY <1>2
<1> QED BY <1>1, <1>3, <1>4, <1>5

(* Two tokens and a third one *)
LEMMA TripleConcat ==
  ASSUME NEW S, NEW s \in Seq(S), NEW t \in Seq(S)
  PROVE  Len(s) = 2 /\ Len(t) = 1 =>
           /\ s \o t \in Seq(S) /\ Len(s \o t) = 3
           /\ (s \o t)[1] = s[1] /\ (s \o t)[2] = s[2] /\ (s \o t)[3] = t[1]
<1>1. /\ s \o t \in Seq(S) /\ Len(s \o t) = Len(s) + Len(t)
      /\ \A k \in 1 .. Len(s) : (s \o t)[k] = s[k]
  BY ConcatFacts
<1>2. \A k \in 1 .. Len(t) : (s \o t)[Len(s) + k] = t[k]
  BY ConcatSecond
<1>3. ASSUME Len(s) = 2, Len(t) = 1
      PROVE  (s \o t)[3] = t[1]
  <2>1. 1 \in 1 .. Len(t) /\ Len(s) + 1 = 3
    BY <1>3
  <2> QED BY <1>2, <2>1, Zenon
<1> QED BY <1>1, <1>3

(* The two places where a pattern of two tokens may be in three *)
LEMMA PairPlaces ==
  ASSUME NEW S, NEW s \in Seq(S), NEW p \in Seq(S), Len(s) = 3, Len(p) = 2
  PROVE  Places(s, p) =
           {k \in 1 .. 2 : IF k = 1 THEN s[1] = p[1] /\ s[2] = p[2]
                                    ELSE s[2] = p[1] /\ s[3] = p[2]}
<1>1. p = <<p[1], p[2]>>
  OBVIOUS
<1>2. SubSeq(s, 1, 2) = <<s[1], s[2]>> /\ SubSeq(s, 2, 3) = <<s[2], s[3]>>
  BY TripleFacts
<1>3. /\ SubSeq(s, 1, 2) = p <=> s[1] = p[1] /\ s[2] = p[2]
      /\ SubSeq(s, 2, 3) = p <=> s[2] = p[1] /\ s[3] = p[2]
  BY <1>1, <1>2
<1>4. Places(s, p) = {k \in 1 .. 2 : SubSeq(s, k, k + 1) = p}
  BY DEF Places
<1>5. \A k \in 1 .. 2 : (k = 1 /\ k + 1 = 2) \/ (k = 2 /\ k # 1 /\ k + 1 = 3)
  OBVIOUS
<1>6. \A k \in 1 .. 2 : SubSeq(s, k, k + 1) = p <=>
                          IF k = 1 THEN s[1] = p[1] /\ s[2] = p[2]
                                   ELSE s[2] = p[1] /\ s[3] = p[2]
  BY <1>3, <1>5
<1> QED BY <1>4, <1>6

(* What follows a designator of two tokens in three *)
LEMMA PreParts ==
  ASSUME NEW S, NEW p \in Seq(S), Len(p) = 2, NEW x \in S, p[2] # p[1], x # p[2]
  PROVE  /\ Splits(p \o <<x>>, p) /\ After(p \o <<x>>, p) = <<x>>
         /\ \A q \in Seq(S) : Len(q) = 2 /\ q[1] # p[1] /\ q[1] # p[2] => ~Splits(p \o <<x>>, q)
<1> DEFINE s == p \o <<x>>
<1>1. /\ s \in Seq(S) /\ Len(s) = 3 /\ s[1] = p[1] /\ s[2] = p[2] /\ s[3] = x
  <2>1. <<x>> \in Seq(S) /\ Len(<<x>>) = 1 /\ <<x>>[1] = x
    OBVIOUS
  <2> QED BY <2>1, TripleConcat
<1> HIDE DEF s
<1>2. SubSeq(s, 3, 3) = <<x>>
  BY <1>1, TripleFacts
<1>3. Places(s, p) = {1}
  BY <1>1, PairPlaces
<1>4. \A q \in Seq(S) : Len(q) = 2 /\ q[1] # p[1] /\ q[1] # p[2] => Places(s, q) = {}
  BY <1>1, PairPlaces
<1>5. Min({1}) = 1
  BY MinIs
<1>6. Splits(s, p) /\ After(s, p) = <<x>>
  BY <1>1, <1>2, <1>3, <1>5 DEF Splits, After
<1> QED BY <1>4, <1>6 DEF Splits, s

(* What from_str makes of the part after the dash *)
LEMMA PreIsRead ==
  ASSUME NEW n \in 0 .. 255
  PROVE  /\ ParsePre(AlphaDot \o <<Numeral(n)>>) = <<"Alpha", n>>
         /\ ParsePre(BetaDot \o <<Numeral(n)>>) = <<"Beta", n>>
<1> DEFINE S == {Token("alpha"), Token("beta"), Token("."), Numeral(n)}
<1>1. /\ AlphaDot \in Seq(S) /\ Len(AlphaDot) = 2
      /\ AlphaDot[1] = Token("alpha") /\ AlphaDot[2] = Token(".")
      /\ BetaDot \in Seq(S) /\ Len(BetaDot) = 2
      /\ BetaDot[1] = Token("beta") /\ BetaDot[2] = Token(".")
  BY DEF AlphaDot, BetaDot
<1>2. Numeral(n) \in S
  OBVIOUS
<1>3. /\ Token("beta") # Token("alpha") /\ Token(".") # Token("alpha")
      /\ Token(".") # Token("beta") /\ Numeral(n) # Token(".")
  BY TokenFacts
<1> HIDE DEF S
<1>4. /\ Splits(AlphaDot \o <<Numeral(n)>>, AlphaDot)
      /\ After(AlphaDot \o <<Numeral(n)>>, AlphaDot) = <<Numeral(n)>>
  BY <1>1, <1>2, <1>3, PreParts
<1>5. /\ Splits(BetaDot \o <<Numeral(n)>>, BetaDot)
      /\ After(BetaDot \o <<Numeral(n)>>, BetaDot) = <<Numeral(n)>>
      /\ ~Splits(BetaDot \o <<Numeral(n)>>, AlphaDot)
  BY <1>1, <1>2, <1>3, PreParts
<1> QED BY <1>4, <1>5, NumeralIsRead DEF ParsePre

(* The tokens of the last part of a version, and of all of it *)
LEMMA DisplayPreFacts ==
  ASSUME NEW S, AreTokens(S), NEW p \in ({"Alpha", "Beta"} \X Nat) \cup {NoPre}
  PROVE  /\ DisplayPre(p) \in Seq(S)
         /\ \A k \in 1 .. Len(DisplayPre(p)) : DisplayPre(p)[k] # Token("+")
         /\ p = NoPre => DisplayPre(p) = <<>>
         /\ p # NoPre /\ p[1] = "Alpha" =>
              /\ AlphaDot \o <<Numeral(p[2])>> \in Seq(S)
              /\ DisplayPre(p) = Dash \o (AlphaDot \o <<Numeral(p[2])>>)
         /\ p # NoPre /\ p[1] = "Beta" =>
              /\ BetaDot \o <<Numeral(p[2])>> \in Seq(S)
              /\ DisplayPre(p) = Dash \o (BetaDot \o <<Numeral(p[2])>>)
<1>1. /\ Token(".") \in S /\ Token("-") \in S /\ Token("+") \in S
      /\ Token("alpha") \in S /\ Token("beta") \in S
      /\ \A n \in Nat : Numeral(n) \in S
  BY DEF AreTokens
<1>2. /\ Dash \in Seq(S) /\ Len(Dash) = 1 /\ Dash[1] = Token("-")
      /\ AlphaDot \in Seq(S) /\ Len(AlphaDot) = 2
      /\ AlphaDot[1] = Token("alpha") /\ AlphaDot[2] = Token(".")
      /\ BetaDot \in Seq(S) /\ Len(BetaDot) = 2
      /\ BetaDot[1] = Token("beta") /\ BetaDot[2] = Token(".")
  BY <1>1 DEF Dash, AlphaDot, BetaDot
<1>3. ASSUME NEW d \in {AlphaDot, BetaDot}, NEW n \in Nat
      PROVE  /\ d \o <<Numeral(n)>> \in Seq(S)
             /\ Dash \o (d \o <<Numeral(n)>>) \in Seq(S)
             /\ Dash \o d \o <<Numeral(n)>> = Dash \o (d \o <<Numeral(n)>>)
             /\ \A k \in 1 .. Len(Dash \o (d \o <<Numeral(n)>>)) :
                  (Dash \o (d \o <<Numeral(n)>>))[k] # Token("+")
  <2> DEFINE t == <<Numeral(n)>>
             s == d \o t
  <2>1. t \in Seq(S) /\ Len(t) = 1 /\ t[1] = Numeral(n)
    BY <1>1
  <2>2. d \in Seq(S) /\ Len(d) = 2 /\ d[1] # Token("+") /\ d[2] # Token("+")
    BY <1>2, TokenFacts
  <2>3. Numeral(n) # Token("+") /\ Token("-") # Token("+")
    BY TokenFacts
  <2> HIDE DEF t
  <2>4. s \in Seq(S) /\ \A k \in 1 .. Len(s) : s[k] # Token("+")
    <3>1. s \in Seq(S) /\ Len(s) = 3 /\ s[1] = d[1] /\ s[2] = d[2] /\ s[3] = t[1]
      BY <2>1, <2>2, TripleConcat
    <3>2. \A k \in 1 .. 3 : k = 1 \/ k = 2 \/ k = 3
      OBVIOUS
    <3> HIDE DEF s
    <3> QED BY <2>1, <2>2, <2>3, <3>1, <3>2
  <2>5. Dash \o d \o t = Dash \o s
    BY <1>2, <2>1, <2>2
  <2> HIDE DEF s
  <2>6. Dash \o s \in Seq(S) /\ \A k \in 1 .. Len(Dash \o s) : (Dash \o s)[k] # Token("+")
    <3>1. Dash \in Seq(S) /\ \A k \in 1 .. Len(Dash) : Dash[k] # Token("+")
      BY <1>2, <2>3
    <3> QED BY <2>4, <3>1, WithoutConcat
  <2> QED BY <2>4, <2>5, <2>6 DEF s, t
<1>4. CASE p = NoPre
  <2>1. DisplayPre(p) = <<>>
    BY <1>4 DEF DisplayPre
  <2> QED BY <1>4, <2>1
<1>5. CASE p # NoPre
  <2>1. p[1] \in {"Alpha", "Beta"} /\ p[2] \in Nat
    BY <1>5
  <2>2. CASE p[1] = "Alpha"
    <3>1. DisplayPre(p) = Dash \o AlphaDot \o <<Numeral(p[2])>>
      BY <1>5, <2>2 DEF DisplayPre
    <3> QED BY <1>3, <1>5, <2>1, <2>2, <3>1
  <2>3. CASE p[1] = "Beta"
    <3>1. DisplayPre(p) = Dash \o BetaDot \o <<Numeral(p[2])>>
      BY <1>5, <2>3 DEF DisplayPre
    <3> QED BY <1>3, <1>5, <2>1, <2>3, <3>1
  <2> QED BY <2>1, <2>2, <2>3
<1> QED BY <1>4, <1>5

(* A text as Display puts it together, and as from_str takes it apart *)
Written(a, d, b, c, e, f) == (a \o d \o b \o d \o c \o e) \o f

Apart(a, d, b, c, e, f) == a \o (d \o (b \o (d \o ((c \o e) \o f))))

(* They are the same text. *)
LEMMA Regroup ==
  ASSUME NEW S, NEW a \in Seq(S), NEW b \in Seq(S), NEW c \in Seq(S), NEW d \in Seq(S),
         NEW e \in Seq(S), NEW f \in Seq(S)
  PROVE  Written(a, d, b, c, e, f) = Apart(a, d, b, c, e, f)
<1> DEFINE Cat(x, y) == x \o y
           left == Cat(Cat(Cat(a, d), b), d)
           right == Cat(Cat(c, e), f)
<1>1. \A x, y \in Seq(S) : Cat(x, y) \in Seq(S)
  OBVIOUS
<1>2. \A x, y, z \in Seq(S) : Cat(Cat(x, y), z) = Cat(x, Cat(y, z))
  BY SMTT(30)
<1> HIDE DEF Cat
<1>3. left \in Seq(S) /\ right \in Seq(S)
  BY <1>1
<1>4. Cat(Cat(Cat(left, c), e), f) = Cat(left, right)
  <2>1. Cat(Cat(left, c), e) = Cat(left, Cat(c, e)) /\ Cat(c, e) \in Seq(S)
    <3> HIDE DEF left
    <3> QED BY <1>1, <1>2, <1>3
  <2> HIDE DEF left
  <2> QED BY <1>2, <1>3, <2>1
<1>5. Cat(left, right) = Cat(a, Cat(d, Cat(b, Cat(d, right))))
  <2> HIDE DEF right
  <2>1. Cat(d, right) \in Seq(S) /\ Cat(b, Cat(d, right)) \in Seq(S)
    BY <1>1, <1>3
  <2>2. Cat(a, d) \in Seq(S) /\ Cat(Cat(a, d), b) \in Seq(S)
    BY <1>1
  <2>3. Cat(left, right) = Cat(Cat(Cat(a, d), b), Cat(d, right))
    BY <1>2, <1>3, <2>2
  <2>4. Cat(Cat(Cat(a, d), b), Cat(d, right)) = Cat(Cat(a, d), Cat(b, Cat(d, right)))
    BY <1>2, <2>1, <2>2
  <2>5. Cat(Cat(a, d), Cat(b, Cat(d, right))) = Cat(a, Cat(d, Cat(b, Cat(d, right))))
    BY <1>2, <2>1
  <2> HIDE DEF left
  <2> QED BY <2>3, <2>4, <2>5
<1>6. Cat(Cat(Cat(left, c), e), f) = Cat(a, Cat(d, Cat(b, Cat(d, right))))
  BY <1>4, <1>5, Zenon
<1> QED BY <1>6, Zenon DEF Written, Apart, Cat, left, right

(* A single numeral *)
LEMMA NumeralFacts ==
  ASSUME NEW S, AreTokens(S), NEW n \in Nat
  PROVE  /\ <<Numeral(n)>> \in Seq(S)
         /\ \A k \in 1 .. Len(<<Numeral(n)>>) : /\ <<Numeral(n)>>[k] # Token(".")
                                                /\ <<Numeral(n)>>[k] # Token("-")
                                                /\ <<Numeral(n)>>[k] # Token("+")
<1> DEFINE s == <<Numeral(n)>>
<1>1. Numeral(n) \in S
  BY DEF AreTokens
<1>2. s \in Seq(S) /\ Len(s) = 1 /\ s[1] = Numeral(n)
  BY <1>1
<1>3. \A k \in 1 .. 1 : k = 1
  OBVIOUS
<1> HIDE DEF s
<1>4. \A k \in 1 .. Len(s) : s[k] # Token(".") /\ s[k] # Token("-") /\ s[k] # Token("+")
  BY <1>2, <1>3, TokenFacts
<1> QED BY <1>2, <1>4 DEF s

(* The build identifier is passed over, whatever is in it. *)
LEMMA BuildIsDropped ==
  ASSUME NEW S, AreTokens(S), NEW core \in Seq(S), NEW ident \in Seq(S),
         \A k \in 1 .. Len(core) : core[k] # Token("+"),
         NEW build \in {<<>>, Plus \o ident}
  PROVE  WithoutBuild(core \o build) = core
<1>1. Token("+") \in S
  BY DEF AreTokens
<1>2. CASE build = <<>>
  <2>1. core \o build = core
    BY <1>2
  <2>2. ~Splits(core, Plus)
    BY <1>1, NoSplit DEF Plus
  <2> QED BY <2>1, <2>2 DEF WithoutBuild
<1>3. CASE build = Plus \o ident
  <2>1. /\ Splits(core \o (Plus \o ident), Plus)
        /\ Before(core \o (Plus \o ident), Plus) = core
    BY <1>1, SplitFacts DEF Plus
  <2> QED BY <1>3, <2>1 DEF WithoutBuild
<1> QED BY <1>2, <1>3

(* A version that the code can hold: its numbers are u8. *)
Version8 ==
  [major : 0 .. 255, minor : 0 .. 255, patch : 0 .. 255,
   pre : ({"Alpha", "Beta"} \X (0 .. 255)) \cup {NoPre}]

(* The pre-releases of such a version, with u8 numbers *)
LEMMA WideNumbers ==
  ASSUME NEW p \in {"Alpha", "Beta"} \X (0 .. 255)
  PROVE  p \in {"Alpha", "Beta"} \X Nat
OBVIOUS

LEMMA NarrowPre ==
  ASSUME NEW p \in ({"Alpha", "Beta"} \X (0 .. 255)) \cup {NoPre}
  PROVE  /\ p[2] \in 0 .. 255
         /\ p # NoPre => p[1] \in {"Alpha", "Beta"} /\ p = <<p[1], p[2]>>
<1>1. CASE p = NoPre
  BY <1>1 DEF NoPre
<1>2. CASE p \in {"Alpha", "Beta"} \X (0 .. 255)
  BY <1>2
<1> QED BY <1>1, <1>2

(* from_str undoes Display for every version, and passes over every build  *)
(* identifier, whatever tokens are in it: it splits off what follows the   *)
(* first plus before it looks for a dash.                                  *)
THEOREM FromStrDisplay ==
  ASSUME NEW S, AreTokens(S), NEW v \in Version8, NEW ident \in Seq(S),
         NEW build \in {<<>>, Plus \o ident}
  PROVE  FromStr(Display(v) \o build) = v
<1> DEFINE a == <<Numeral(v.major)>>
           b == <<Numeral(v.minor)>>
           c == <<Numeral(v.patch)>>
           core == c \o DisplayPre(v.pre)
           whole == Display(v) \o build
<1>1. /\ v.major \in 0 .. 255 /\ v.minor \in 0 .. 255 /\ v.patch \in 0 .. 255
      /\ v.pre \in ({"Alpha", "Beta"} \X (0 .. 255)) \cup {NoPre}
  BY DEF Version8
<1>2. v.major \in Nat /\ v.minor \in Nat /\ v.patch \in Nat
  <2>1. \A n \in 0 .. 255 : n \in Nat
    OBVIOUS
  <2> QED BY <1>1, <2>1, Zenon
<1>3. v.pre \in ({"Alpha", "Beta"} \X Nat) \cup {NoPre}
  BY <1>1, WideNumbers, Zenon
<1>4. Token(".") \in S /\ Token("-") \in S /\ Token("+") \in S
  BY DEF AreTokens
<1>5. /\ a \in Seq(S) /\ \A k \in 1 .. Len(a) : a[k] # Token(".")
      /\ b \in Seq(S) /\ \A k \in 1 .. Len(b) : b[k] # Token(".")
      /\ c \in Seq(S) /\ \A k \in 1 .. Len(c) : c[k] # Token("-") /\ c[k] # Token("+")
  BY <1>2, NumeralFacts
<1>6. ParseU8(a) = v.major /\ ParseU8(b) = v.minor /\ ParseU8(c) = v.patch
  BY <1>1, NumeralIsRead
<1>7. build \in Seq(S) /\ Dot \in Seq(S)
  <2>1. Plus \in Seq(S) /\ Dot \in Seq(S)
    BY <1>4 DEF Plus, Dot
  <2>2. <<>> \in Seq(S) /\ Plus \o ident \in Seq(S)
    BY <2>1
  <2> QED BY <2>1, <2>2, Zenon
<1>8. whole = a \o (Dot \o (b \o (Dot \o (core \o build))))
  <2>1. DisplayPre(v.pre) \in Seq(S)
    BY <1>3, DisplayPreFacts
  <2>2. Display(v) = a \o Dot \o b \o Dot \o c \o DisplayPre(v.pre)
    BY DEF Display
  <2> HIDE DEF a, b, c
  <2>3. a \in Seq(S) /\ b \in Seq(S) /\ c \in Seq(S)
    BY <1>5
  <2>4. (a \o Dot \o b \o Dot \o c \o DisplayPre(v.pre)) \o build =
          a \o (Dot \o (b \o (Dot \o ((c \o DisplayPre(v.pre)) \o build))))
    <3>1. Written(a, Dot, b, c, DisplayPre(v.pre), build) =
            Apart(a, Dot, b, c, DisplayPre(v.pre), build)
      BY <1>7, <2>1, <2>3, Regroup, SMTT(30)
    <3> QED BY <3>1, Zenon DEF Written, Apart
  <2> QED BY <2>2, <2>4, Zenon
<1> HIDE DEF a, b, c
<1>9. core \in Seq(S) /\ \A k \in 1 .. Len(core) : core[k] # Token("+")
  <2>1. /\ DisplayPre(v.pre) \in Seq(S)
        /\ \A k \in 1 .. Len(DisplayPre(v.pre)) : DisplayPre(v.pre)[k] # Token("+")
    BY <1>3, DisplayPreFacts
  <2> QED BY <1>5, <2>1, WithoutConcat
<1>10. WithoutBuild(core \o build) = core
  BY <1>9, BuildIsDropped
<1>11. /\ Splits(core, Dash) => Before(core, Dash) = c /\ ParsePre(After(core, Dash)) = v.pre
       /\ ~Splits(core, Dash) => core = c /\ v.pre = NoPre
  <2>1. CASE v.pre = NoPre
    <3>1. core = c
      <4>1. DisplayPre(v.pre) = <<>>
        BY <1>3, <2>1, DisplayPreFacts
      <4> QED BY <1>5, <4>1
    <3>2. ~Splits(c, Dash)
      BY <1>4, <1>5, NoSplit DEF Dash
    <3> HIDE DEF core
    <3> QED BY <2>1, <3>1, <3>2
  <2>2. ASSUME NEW pre \in Seq(S), DisplayPre(v.pre) = Dash \o pre, ParsePre(pre) = v.pre
        PROVE  /\ Splits(core, Dash) /\ Before(core, Dash) = c
               /\ ParsePre(After(core, Dash)) = v.pre
    <3>1. /\ Splits(c \o (Dash \o pre), Dash) /\ Before(c \o (Dash \o pre), Dash) = c
          /\ After(c \o (Dash \o pre), Dash) = pre
      <4>1. c \in Seq(S) /\ \A k \in 1 .. Len(c) : c[k] # Token("-")
        BY <1>5
      <4> QED BY <1>4, <4>1, SplitFacts DEF Dash
    <3> QED BY <2>2, <3>1
  <2>3. CASE v.pre # NoPre
    <3>1. /\ v.pre[1] \in {"Alpha", "Beta"} /\ v.pre[2] \in 0 .. 255
          /\ v.pre = <<v.pre[1], v.pre[2]>>
      BY <1>1, <2>3, NarrowPre, Zenon
    <3>2. CASE v.pre[1] = "Alpha"
      <4> DEFINE pre == AlphaDot \o <<Numeral(v.pre[2])>>
      <4>1. pre \in Seq(S) /\ DisplayPre(v.pre) = Dash \o pre
        BY <1>3, <2>3, <3>2, DisplayPreFacts
      <4>2. ParsePre(pre) = v.pre
        BY <3>1, <3>2, PreIsRead
      <4> HIDE DEF pre, core
      <4> QED BY <2>2, <4>1, <4>2
    <3>3. CASE v.pre[1] = "Beta"
      <4> DEFINE pre == BetaDot \o <<Numeral(v.pre[2])>>
      <4>1. pre \in Seq(S) /\ DisplayPre(v.pre) = Dash \o pre
        BY <1>3, <2>3, <3>3, DisplayPreFacts
      <4>2. ParsePre(pre) = v.pre
        BY <3>1, <3>3, PreIsRead
      <4> HIDE DEF pre, core
      <4> QED BY <2>2, <4>1, <4>2
    <3> QED BY <3>1, <3>2, <3>3
  <2> QED BY <2>1, <2>3
<1> HIDE DEF core, whole
<1> DEFINE tail == core \o build
           afterMajor == b \o (Dot \o tail)
<1>12. tail \in Seq(S)
  BY <1>7, <1>9
<1> HIDE DEF tail
<1>13. afterMajor \in Seq(S)
  BY <1>5, <1>7, <1>12
<1>14. Splits(afterMajor, Dot) /\ Before(afterMajor, Dot) = b /\ After(afterMajor, Dot) = tail
  <2>1. b \in Seq(S) /\ \A k \in 1 .. Len(b) : b[k] # Token(".")
    BY <1>5
  <2> QED BY <1>4, <1>12, <2>1, SplitFacts DEF Dot
<1>15. whole = a \o (Dot \o afterMajor)
  BY <1>8 DEF tail
<1> HIDE DEF afterMajor
<1>16. Splits(whole, Dot) /\ Before(whole, Dot) = a /\ After(whole, Dot) = afterMajor
  <2>1. /\ Splits(a \o (Dot \o afterMajor), Dot)
        /\ Before(a \o (Dot \o afterMajor), Dot) = a
        /\ After(a \o (Dot \o afterMajor), Dot) = afterMajor
    <3>1. a \in Seq(S) /\ \A k \in 1 .. Len(a) : a[k] # Token(".")
      BY <1>5
    <3> QED BY <1>4, <1>13, <3>1, SplitFacts DEF Dot
  <2> QED BY <1>15, <2>1
<1>17. WithoutBuild(tail) = core
  BY <1>10 DEF tail
<1> DEFINE patch == ParseU8(IF Splits(core, Dash) THEN Before(core, Dash) ELSE core)
           pre == IF Splits(core, Dash) THEN ParsePre(After(core, Dash)) ELSE NoPre
           read == [major |-> v.major, minor |-> v.minor, patch |-> patch, pre |-> pre]
<1>18. patch = v.patch /\ pre = v.pre
  BY <1>6, <1>11
<1>19. FromStr(whole) = IF NotU8 \notin {read.major, read.minor, read.patch, read.pre[2]}
                          THEN read ELSE ParseVersionErr
  BY <1>6, <1>14, <1>16, <1>17 DEF FromStr
<1> HIDE DEF patch, pre
<1>20. read = v
  BY <1>18 DEF Version8
<1>21. NotU8 \notin {v.major, v.minor, v.patch, v.pre[2]}
  <2>1. v.pre[2] \in 0 .. 255
    BY <1>1, NarrowPre, Zenon
  <2>2. NotU8 \notin 0 .. 255
    BY DEF NotU8
  <2> QED BY <1>1, <2>1, <2>2, Zenon
<1> HIDE DEF read
<1> QED BY <1>19, <1>20, <1>21 DEF whole

(* What FromStr reads of each text offered is the version offered, for all *)
(* sets of numbers.                                                        *)
THEOREM OffersAreRead == OfferSpec => []ReadsWhatIsWritten
<1> DEFINE S == {Token("."), Token("-"), Token("+"), Token("alpha"), Token("beta"),
                 Token("some"), Token("ident")} \cup {Numeral(n) : n \in Nat}
<1>1. AreTokens(S)
  BY DEF AreTokens
<1>2. \A build \in Builds : \E ident \in Seq(S) : build \in {<<>>, Plus \o ident}
  <2>1. /\ <<Token("some")>> \in Seq(S) /\ <<Token("ident")>> \in Seq(S)
        /\ Dash \in Seq(S) /\ Plus \in Seq(S) /\ AlphaDot \in Seq(S) /\ BetaDot \in Seq(S)
    BY DEF Dash, Plus, AlphaDot, BetaDot
  <2>2. \A n \in {0, 1, 255} : <<Numeral(n)>> \in Seq(S)
    <3>1. \A n \in {0, 1, 255} : Numeral(n) \in S
      BY <1>1 DEF AreTokens
    <3> HIDE DEF S
    <3> QED BY <3>1
  <2> HIDE DEF S
  <2>3. \A s, t \in Seq(S) : s \o t \in Seq(S)
    OBVIOUS
  <2>4. /\ <<Token("some")>> \o Dash \o <<Token("ident")>> \in Seq(S)
        /\ Dash \o BetaDot \o <<Numeral(1)>> \in Seq(S)
        /\ AlphaDot \o <<Numeral(0)>> \in Seq(S)
        /\ <<Numeral(255)>> \o Plus \o Dash \in Seq(S)
    BY <2>1, <2>2, <2>3
  <2>5. Identifiers \subseteq Seq(S)
    BY <2>4, Zenon DEF Identifiers
  <2>6. <<>> \in Seq(S)
    OBVIOUS
  <2> QED BY <2>5, <2>6, Zenon DEF Builds
<1>3. Inputs \subseteq Version8
  <2>1. \A n \in Numbers : n \in 0 .. 255
    BY NumbersAssumption
  <2>2. \A p \in {"Alpha", "Beta"} \X Numbers : p \in {"Alpha", "Beta"} \X (0 .. 255)
    BY <2>1, Zenon
  <2> DEFINE Few == ({"Alpha", "Beta"} \X Numbers) \cup {NoPre}
             All == ({"Alpha", "Beta"} \X (0 .. 255)) \cup {NoPre}
  <2>3. \A p \in Few : p \in All
    BY <2>2, Zenon
  <2> HIDE DEF Few, All
  <2>4. [major : Numbers, minor : Numbers, patch : Numbers, pre : Few] \subseteq
          [major : 0 .. 255, minor : 0 .. 255, patch : 0 .. 255, pre : All]
    BY <2>1, <2>3
  <2> QED BY <2>4, Zenon DEF Inputs, Version8, Few, All
<1> HIDE DEF S
<1>4. \A v \in Inputs : \A build \in Builds : FromStr(Display(v) \o build) = v
  <2> SUFFICES ASSUME NEW v \in Inputs, NEW build \in Builds
               PROVE  FromStr(Display(v) \o build) = v
    OBVIOUS
  <2>1. PICK ident \in Seq(S) : build \in {<<>>, Plus \o ident}
    BY <1>2
  <2>2. v \in Version8
    BY <1>3
  <2> QED BY <1>1, <2>1, <2>2, FromStrDisplay
<1>5. OfferInit => ReadsWhatIsWritten
  BY <1>4 DEF OfferInit, ReadsWhatIsWritten
<1>6. ReadsWhatIsWritten /\ [OfferNext]_offerVars => ReadsWhatIsWritten'
  BY <1>4 DEF OfferNext, Offer, offerVars, ReadsWhatIsWritten
<1> QED BY <1>5, <1>6, PTL DEF OfferSpec

==============================================================================
