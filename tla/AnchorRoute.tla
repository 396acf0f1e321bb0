---------------------------- MODULE AnchorRoute ----------------------------
(***************************************************************************)
(* The decomposition that both ANCHOR samplers walk through                *)
(* (cpp/include/anchor/anchor_core.hpp).  A view holds boxes of either     *)
(* side, of which those that meet in all dimensions from its level on meet *)
(* altogether.  In the dimension of its level, of two boxes that meet one  *)
(* starts inside the other; that other one is the anchor of the pair, and  *)
(* the points that start inside an anchor are an interval of their ranks.  *)
(* A tree over the ranks cuts the interval into nodes; the anchors that    *)
(* stop at a node and the points below the node make a view of the next    *)
(* level.  At the last level an anchor and its interval are an atom.       *)
(*                                                                         *)
(* The sorted arrays that a view of the code carries, one for each         *)
(* dimension, are the orders of its two sets: a stable filter of a sorted  *)
(* array is sorted.  A binary search in such an array, or a pointer that   *)
(* moves along it, counts the points before a value.                       *)
(*                                                                         *)
(* BelowOrAt, WeighToEnd, WithinEnd and ChildPathOfRanks are mistakes that *)
(* the properties must refute.                                             *)
(***************************************************************************)
EXTENDS BoxJoin, Sequences

\* The leaves of a tree over n points: the code doubles 1 until n fits.
CONSTANT Padded(_)
ASSUME PaddedAssumption ==
  \A n \in 1 .. Cardinality(Box) : Padded(n) \in Nat /\ n <= Padded(n)

\* What Padded is for TLC.
PowerOfTwo(n) == CHOOSE w \in {2^i : i \in 0 .. n} : n <= w /\ w < 2 * n

VARIABLE geo          \* the input

-----------------------------------------------------------------------------
(* Views, ranks and anchor intervals.                                      *)

ValidR == Valid(geo) \cap R
ValidS == Valid(geo) \cap S
NodeKey == [tree : {"B", "A"}, begin : Nat, end : Nat]
View    == [level : Dims, a : SUBSET ValidR, b : SUBSET ValidS, path : Seq(NodeKey)]

\* The path, the nodes that handed a view on, is what tells it from others.
TopView        == [level |-> 1, a |-> ValidR, b |-> ValidS, path |-> <<>>]
EmptyView(v)   == v.a = {} \/ v.b = {}
Opposite(v, p) == IF p \in R THEN v.b ELSE v.a
PairOf(p, q)   == IF p \in R THEN <<p, q>> ELSE <<q, p>>

\* Where q stands among points, sorted by lower coordinate and number.
Precedes(x, q, j) ==
  geo[x].lo[j] < geo[q].lo[j] \/ (geo[x].lo[j] = geo[q].lo[j] /\ x < q)
Position(points, q, j) == Cardinality({x \in points : Precedes(x, q, j)})

LowerRank(points, value, j) ==
  Cardinality({x \in points : geo[x].lo[j] < value})
UpperRank(points, value, j) ==
  Cardinality({x \in points : geo[x].lo[j] <= value})

\* The ranks of the points that start inside p.  Of two boxes that start
\* together, the one of R is the anchor.
Interval(v, p) ==
  [lo |-> IF p \in R THEN LowerRank(Opposite(v, p), geo[p].lo[v.level], v.level)
                     ELSE UpperRank(Opposite(v, p), geo[p].lo[v.level], v.level),
   hi |-> LowerRank(Opposite(v, p), geo[p].hi[v.level], v.level)]

WithinEnd(x, i) == x.lo <= i /\ i <= x.hi

Within(x, i) == x.lo <= i /\ i < x.hi
Inside(v, p) ==
  {q \in Opposite(v, p) :
     Within(Interval(v, p), Position(Opposite(v, p), q, v.level))}

-----------------------------------------------------------------------------
(* The route tree: a node with the anchors that have come to it (source)   *)
(* and the points below it (lattice).  The tree "B" stands over the points *)
(* of side S and its anchors are of side R; "A" is the other way about.    *)

Node == [view : View, tree : {"B", "A"}, begin : Nat, end : Nat,
         source : SUBSET Box, lattice : SUBSET Box]

Whole(t)       == IF t.tree = "B" THEN t.view.b ELSE t.view.a
Leaves(t)      == Cardinality(Whole(t))
Rank(t, q)     == Position(Whole(t), q, t.view.level)
Reach(t, p)    == Interval(t.view, p)
Least(x, y)    == IF x < y THEN x ELSE y
Greatest(x, y) == IF x < y THEN y ELSE x

Root(v, tree) ==
  LET anchors == IF tree = "B" THEN v.a ELSE v.b
      points  == IF tree = "B" THEN v.b ELSE v.a
  IN  [view |-> v, tree |-> tree,
       begin |-> 0, end |-> Padded(Cardinality(points)),
       source |-> {p \in anchors : Interval(v, p).lo # Interval(v, p).hi},
       lattice |-> points]

\* The anchor reaches over all the leaves of the node that are real.
Stops(t, p) ==
  Reach(t, p).lo <= t.begin /\ Least(t.end, Leaves(t)) <= Reach(t, p).hi
Stop(t) == {p \in t.source : Stops(t, p)}

Middle(t) == t.begin + (t.end - t.begin) \div 2

BelowOrAt(t, q) == Rank(t, q) <= Middle(t)

GoesLeft(t, q)  == Rank(t, q) < Middle(t)

\* The anchors that go on to the node from begin to end, and its points.
Child(t, begin, end, points) ==
  [t EXCEPT !.begin = begin, !.end = end, !.lattice = points,
     !.source = {p \in t.source \ Stop(t) :
                   Greatest(Reach(t, p).lo, begin)
                     < Least(Reach(t, p).hi, Least(end, Leaves(t)))}]

Left(t)  == Child(t, t.begin, Middle(t), {q \in t.lattice : GoesLeft(t, q)})
Right(t) == Child(t, Middle(t), t.end, {q \in t.lattice : ~GoesLeft(t, q)})

\* A leaf has none, and no node lies beyond the real leaves.
Children(t) ==
  {c \in {Left(t), Right(t)} : t.end - t.begin > 1 /\ c.begin < Leaves(t)}

KeyOf(t) == [tree |-> t.tree, begin |-> t.begin, end |-> t.end]

ChildPathOfRanks(t) == Append(t.view.path, [KeyOf(t) EXCEPT !.tree = "B"])

\* The code hashes the path to a number that names the streams of the view.
ChildPath(t) == Append(t.view.path, KeyOf(t))

\* The view of the next level that the node hands out, unless a side is empty.
NextView(t) ==
  [level |-> t.view.level + 1,
   a |-> IF t.tree = "B" THEN Stop(t) ELSE t.lattice,
   b |-> IF t.tree = "B" THEN t.lattice ELSE Stop(t),
   path |-> ChildPath(t)]

-----------------------------------------------------------------------------
(* The last level: the anchors of either side with their intervals.        *)

Anchor == [view : View, box : Box]
Atom   == [path : Seq(NodeKey), anchor : Box, opposite : SUBSET Box,
           lo : Nat, hi : Nat, weight : Nat]

WeighToEnd(x) == x.hi
Weigh(x)      == x.hi - x.lo

AtomOf(w) ==
  LET x == Interval(w.view, w.box) IN
  [path |-> w.view.path, anchor |-> w.box, opposite |-> Opposite(w.view, w.box),
   lo |-> x.lo, hi |-> x.hi, weight |-> Weigh(x)]

\* The pairs an atom stands for: one for each rank of its interval.
AtomPairs(x) ==
  {PairOf(x.anchor, q) : q \in {q \in x.opposite :
                                  Within(x, Position(x.opposite, q, Dim))}}

-----------------------------------------------------------------------------
(* The pairs of the join that each piece of the decomposition stands for,  *)
(* by what boxes are and not by how they are routed.                       *)

ViewPairs(v) == {p \in v.a \X v.b : Meets(geo, p[1], p[2], v.level .. Dim)}

Touched(v, p, first) == {q \in Inside(v, p) : Meets(geo, p, q, first .. Dim)}
NodePairs(t) ==
  UNION {{PairOf(p, q) : q \in t.lattice \cap Touched(t.view, p, t.view.level + 1)} :
           p \in t.source}
AnchorPairs(w) == {PairOf(w.box, q) : q \in Inside(w.view, w.box)}

PairsOf(w) ==
  CASE w[1] = "view"   -> ViewPairs(w[2])
    [] w[1] = "node"   -> NodePairs(w[2])
    [] w[1] = "anchor" -> AnchorPairs(w[2])
    [] w[1] = "atom"   -> AtomPairs(w[2])
=============================================================================
