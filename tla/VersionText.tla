----------------------------- MODULE VersionText -----------------------------
(***************************************************************************)
(* Versions as text: Display and FromStr for Version (data/src/update.rs). *)
(*                                                                         *)
(* A text is a sequence of tokens, which are numerals, the separators and  *)
(* words.  No two numerals follow each other.                              *)
(***************************************************************************)
EXTENDS Version, Sequences, FiniteSetsExt

Token(word) == <<word, 0>>
Numeral(n) == <<"numeral", n>>

Dot == <<Token(".")>>
Dash == <<Token("-")>>
Plus == <<Token("+")>>
AlphaDot == <<Token("alpha"), Token(".")>>
BetaDot == <<Token("beta"), Token(".")>>

(* Display for Version *)
DisplayPre(pre) ==
  CASE pre = NoPre -> <<>>
    [] pre # NoPre /\ pre[1] = "Alpha" -> Dash \o AlphaDot \o <<Numeral(pre[2])>>
    [] pre # NoPre /\ pre[1] = "Beta" -> Dash \o BetaDot \o <<Numeral(pre[2])>>

Display(v) ==
  <<Numeral(v.major)>> \o Dot \o <<Numeral(v.minor)>> \o Dot \o <<Numeral(v.patch)>> \o
    DisplayPre(v.pre)

------------------------------------------------------------------------------
(* str::split_once *)

Places(text, pattern) ==
  {k \in 1 .. Len(text) - Len(pattern) + 1 :
     SubSeq(text, k, k + Len(pattern) - 1) = pattern}

Splits(text, pattern) == Places(text, pattern) # {}

Before(text, pattern) == SubSeq(text, 1, Min(Places(text, pattern)) - 1)

After(text, pattern) == SubSeq(text, Min(Places(text, pattern)) + Len(pattern), Len(text))

(* str::parse::<u8>, which takes a leading plus *)
NotU8 == -1

ParseU8(text) ==
  LET digits == IF Len(text) = 2 /\ SubSeq(text, 1, 1) = Plus THEN Tail(text) ELSE text
  IN  IF Len(digits) = 1 /\ digits[1][1] = "numeral" /\ digits[1][2] <= 255
        THEN digits[1][2]
        ELSE NotU8

------------------------------------------------------------------------------

ParseVersionErr == [error |-> "ParseVersionErr"]

(* What follows a plus is a build identifier, which a Version has not. *)
WithoutBuildUnlessDashed(text) ==
  IF Splits(text, Plus) /\ ~Splits(text, Dash) THEN Before(text, Plus) ELSE text

WithoutBuild(text) == IF Splits(text, Plus) THEN Before(text, Plus) ELSE text

(* The part after the dash: a pre-release, or anything else. *)
ParsePre(text) ==
  CASE Splits(text, AlphaDot) -> <<"Alpha", ParseU8(After(text, AlphaDot))>>
    [] ~Splits(text, AlphaDot) /\ Splits(text, BetaDot) -> <<"Beta", ParseU8(After(text, BetaDot))>>
    [] ~Splits(text, AlphaDot) /\ ~Splits(text, BetaDot) -> NoPre

(* FromStr for Version *)
FromStr(text) ==
  LET afterMajor == After(text, Dot)
      rest == WithoutBuild(After(afterMajor, Dot))
      v == [major |-> ParseU8(Before(text, Dot)),
            minor |-> ParseU8(Before(afterMajor, Dot)),
            patch |-> ParseU8(IF Splits(rest, Dash) THEN Before(rest, Dash) ELSE rest),
            pre |-> IF Splits(rest, Dash) THEN ParsePre(After(rest, Dash)) ELSE NoPre]
  IN  IF /\ Splits(text, Dot)
         /\ Splits(afterMajor, Dot)
         /\ NotU8 \notin {v.major, v.minor, v.patch, v.pre[2]}
        THEN v
        ELSE ParseVersionErr

==============================================================================
