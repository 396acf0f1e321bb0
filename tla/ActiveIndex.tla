---------------------------- MODULE ActiveIndex ----------------------------
(***************************************************************************)
(* What the sweep asks of the index it keeps for each side: a set of       *)
(* active points that changes by one point at a time, and that is never    *)
(* asked to activate an active point or to deactivate an inactive one.     *)
(* DenseActiveSet implements it when boxes have one dimension,             *)
(* NodeRangeTree when they have more.                                      *)
(***************************************************************************)
CONSTANT Universe
VARIABLE active

Init == active = {}

Insert(p) ==
  /\ p \in Universe \ active
  /\ active' = active \cup {p}

Erase(p) ==
  /\ p \in active
  /\ active' = active \ {p}

Next == \E p \in Universe : Insert(p) \/ Erase(p)

Spec == Init /\ [][Next]_active
=============================================================================
