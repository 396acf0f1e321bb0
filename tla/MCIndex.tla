------------------------------ MODULE MCIndex ------------------------------
(***************************************************************************)
(* Both indexes of active points, which the sweep updates by the same      *)
(* calls: the packed array in one dimension, the range tree in more.  The  *)
(* static tree of LiftedRT, which nothing updates, answers the same        *)
(* queries.                                                                *)
(***************************************************************************)
EXTENDS DenseActiveSet, NodeRangeTree

BothInit == DenseInit /\ TreeInit
BothNext == \E p \in Universe : \/ Insert(p) /\ SetActive(p)
                                \/ Erase(p) /\ SetInactive(p)
BothSpec == BothInit /\ [][BothNext]_<<denseVars, treeVars>>

\* Ties, increasing and mixed orders along either axis.
First  == {<<0, 0, 0, 0>>, <<0, 1, 1, 2>>, <<2, 0, 1, 0>>}
Second == [1 .. 4 -> 0 .. 1] \cup First
Places == {[p \in 1 .. 4 |-> <<x[p], y[p]>>] : x \in First, y \in Second}

\* The bounds of the samplers are strict and on one side; the tree allows all.
Less(v, strict)    == [lower |-> NoBound, upper |-> Bound(v, strict)]
Greater(v, strict) == [lower |-> Bound(v, strict), upper |-> NoBound]
Between(v, s, w, t) == [lower |-> Bound(v, s), upper |-> Bound(w, t)]
Ranges ==
  {Less(1, TRUE), Less(2, TRUE), Less(0, FALSE), Less(1, FALSE),
   Greater(0, TRUE), Greater(1, TRUE), Greater(1, FALSE), Greater(2, FALSE),
   Between(0, TRUE, 1, FALSE), Between(0, TRUE, 1, TRUE),
   Between(1, FALSE, 1, FALSE), Between(1, TRUE, 1, FALSE),
   Between(2, FALSE, 1, FALSE)}
Asked == [1 .. 2 -> Ranges]
=============================================================================
