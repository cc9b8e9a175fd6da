------------------------------- MODULE MCUpdate -------------------------------
(* Small instances of Update. *)
EXTENDS Update

Release(patch) == [major |-> 1, minor |-> 2, patch |-> patch, pre |-> NoPre]

(* "1.2.0" *)
MCCurrent == Release(0)

(* Newer releases whose lengths end on and off a threshold, and one that   *)
(* precedes the version the servers run.                                   *)
MCOffers ==
  {[version |-> Release(3), update_len |-> len] : len \in {4, 5, 6}}
    \cup {[version |-> [Release(0) EXCEPT !.pre = <<"Beta", 1>>], update_len |-> 2]}

==============================================================================
