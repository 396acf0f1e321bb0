------------------------------ MODULE BoxJoin ------------------------------
(***************************************************************************)
(* The input of every sampler: two sets of half-open boxes and the set of  *)
(* pairs that intersect (cpp/include/anchor/types.hpp, and the class       *)
(* Geometry of anchor_core.hpp).                                           *)
(*                                                                         *)
(* A box is its number.  The numbers of R come before those of S, so that  *)
(* the code's rule for ties, "side R first, then the smaller id", is <.    *)
(* A geometry gives each box its corners; only the order of coordinates    *)
(* matters to the code, so integers stand for the doubles as well.         *)
(***************************************************************************)
EXTENDS Integers, FiniteSets

CONSTANTS R, S,     \* the numbers of the boxes of each side
          Dim,      \* the number of dimensions
          Shapes,   \* the corners a box may have
          MaxOutput \* bound: places in the output of one call of sample

Dims == 1 .. Dim
Box  == R \cup S

ASSUME SidesAssumption ==
  /\ R \subseteq Nat /\ IsFiniteSet(R)
  /\ S \subseteq Nat /\ IsFiniteSet(S)
  /\ \A r \in R, s \in S : r < s
ASSUME ShapesAssumption ==
  /\ Dim \in Nat \ {0}
  /\ Shapes \subseteq [lo : [Dims -> Int], hi : [Dims -> Int]]
ASSUME OutputAssumption == MaxOutput \in Nat

Geometry == [Box -> Shapes]

\* A box with an empty side takes part in nothing (nonempty_indices).
NonEmpty(shape) == \A j \in Dims : shape.lo[j] < shape.hi[j]
Valid(geo)      == {b \in Box : NonEmpty(geo[b])}

\* Half-open boxes: two that only touch do not intersect.
Meets(geo, a, b, dims) ==
  \A j \in dims : geo[a].lo[j] < geo[b].hi[j] /\ geo[b].lo[j] < geo[a].hi[j]
Intersect(geo, a, b) ==
  a \in Valid(geo) /\ b \in Valid(geo) /\ Meets(geo, a, b, Dims)

Pair      == R \X S
Join(geo) == {p \in Pair : Intersect(geo, p[1], p[2])}
=============================================================================
