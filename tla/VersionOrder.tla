----------------------------- MODULE VersionOrder -----------------------------
(***************************************************************************)
(* A sequence of versions offered to a server one after the other, as in   *)
(* successive prepare-update commands, and the text of each, as a person   *)
(* or a build would write it down.                                         *)
(***************************************************************************)
EXTENDS VersionText

CONSTANT Numbers   \* inputs: the numbers that occur in versions

ASSUME NumbersAssumption == Numbers \subseteq 0 .. 255

VARIABLES previous, offered, text

offerVars == <<previous, offered, text>>

Inputs ==
  [major : Numbers, minor : Numbers, patch : Numbers,
   pre : ({"Alpha", "Beta"} \X Numbers) \cup {NoPre}]

(* What may follow a version: nothing, or a build identifier, which may    *)
(* look like a pre-release.                                                *)
Identifiers ==
  {<<Token("some")>> \o Dash \o <<Token("ident")>>,
   Dash \o BetaDot \o <<Numeral(1)>>,
   AlphaDot \o <<Numeral(0)>>,
   <<Numeral(255)>> \o Plus \o Dash}

Builds == {<<>>} \cup {Plus \o ident : ident \in Identifiers}

Offer(v) ==
  /\ offered' = v
  /\ \E build \in Builds : text' = Display(v) \o build

OfferInit ==
  /\ previous \in Inputs
  /\ offered \in Inputs
  /\ \E build \in Builds : text = Display(offered) \o build

OfferNext == previous' = offered /\ \E v \in Inputs : Offer(v)

OfferSpec == OfferInit /\ [][OfferNext]_offerVars

(* Ord for Version is the order of semver.org on the versions it can hold, *)
(* which decides what activate_update_if_new_version takes for newer.      *)
OrderIsSemver ==
  /\ VersionCmp(previous, offered) = Less <=> Precedes(previous, offered)
  /\ VersionCmp(previous, offered) = Equal <=> previous = offered
  /\ VersionCmp(previous, offered) = Greater <=> Precedes(offered, previous)

(* FromStr reads back what Display has written, and passes over a build    *)
(* identifier even if it has dashes, dots or pluses of its own or looks    *)
(* like a pre-release: the order in which from_str splits decides.         *)
ReadsWhatIsWritten == FromStr(text) = offered

==============================================================================
