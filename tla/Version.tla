------------------------------- MODULE Version -------------------------------
(***************************************************************************)
(* Versions of software updates and their order (data/src/update.rs).      *)
(*                                                                         *)
(* The numbers are u8 in the code and are only compared, so they are       *)
(* naturals here.  A pre-release is a pair of its designator and number.   *)
(***************************************************************************)
EXTENDS Integers

NoPre == <<"None", 0>>

PreRelease == {"Alpha", "Beta"} \X Nat

Version == [major : Nat, minor : Nat, patch : Nat, pre : PreRelease \cup {NoPre}]

Less == -1
Equal == 0
Greater == 1

(* u8::cmp *)
Cmp(m, n) == IF m < n THEN Less ELSE IF m = n THEN Equal ELSE Greater

(* Ordering::then *)
Then(first, second) == IF first = Equal THEN second ELSE first

(* Ord for PreRelease *)
PreReleaseCmp(p, q) ==
  CASE p[1] = q[1] -> Cmp(p[2], q[2])
    [] p[1] = "Alpha" /\ q[1] = "Beta" -> Less
    [] p[1] = "Beta" /\ q[1] = "Alpha" -> Greater

(* The arms of the match on the two options in Ord for Version. *)
PreCmpNoneFirst(p, q) ==
  CASE p = NoPre /\ q = NoPre -> Equal
    [] p = NoPre /\ q # NoPre -> Less
    [] p # NoPre /\ q = NoPre -> Greater
    [] p # NoPre /\ q # NoPre -> PreReleaseCmp(p, q)

PreCmp(p, q) ==
  CASE p = NoPre /\ q = NoPre -> Equal
    [] p = NoPre /\ q # NoPre -> Greater
    [] p # NoPre /\ q = NoPre -> Less
    [] p # NoPre /\ q # NoPre -> PreReleaseCmp(p, q)

(* Ord for Version *)
VersionCmp(v, w) ==
  Then(Cmp(v.major, w.major),
    Then(Cmp(v.minor, w.minor),
      Then(Cmp(v.patch, w.patch), PreCmp(v.pre, w.pre))))

Newer(v, w) == VersionCmp(v, w) = Greater

------------------------------------------------------------------------------
(* Reference: the order of semver.org, restricted to what Version holds.   *)
(* Release numbers decide from left to right; of equal ones a pre-release  *)
(* precedes the release, alphas precede betas, then numbers decide.        *)

Stage(pre) == IF pre = NoPre THEN 3 ELSE IF pre[1] = "Beta" THEN 2 ELSE 1

Precedes(v, w) ==
  \/ v.major < w.major
  \/ v.major = w.major /\ v.minor < w.minor
  \/ v.major = w.major /\ v.minor = w.minor /\ v.patch < w.patch
  \/ /\ <<v.major, v.minor, v.patch>> = <<w.major, w.minor, w.patch>>
     /\ \/ Stage(v.pre) < Stage(w.pre)
        \/ Stage(v.pre) = Stage(w.pre) /\ v.pre[2] < w.pre[2]

==============================================================================
