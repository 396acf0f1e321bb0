------------------------------ MODULE LiftedRT ------------------------------
(***************************************************************************)
(* The lifted sampler, class LiftedRangeTree of                            *)
(* cpp/include/anchor/algorithms.hpp.  A box of S is a point in twice as   *)
(* many dimensions, its lower and upper corners in turn, and the boxes     *)
(* that meet a box of R are the points in a range that is bounded on one   *)
(* side along each axis.  The constructor asks a static range tree for the *)
(* number of points in the range of each box of R (its degree); sample     *)
(* draws a box for each place of the output by its degree, groups the      *)
(* places by box, and draws the partners of each group.                    *)
(*                                                                         *)
(* The tree answers with the set of points in range, which is what         *)
(* NodeRangeTree is checked to do.  The list anchors_ and its degrees_     *)
(* hold the boxes of positive degree: here a function on all valid boxes   *)
(* of R.  Throws names the state in which the code would throw.            *)
(*                                                                         *)
(* InRangeTouching is a mistake that the properties must refute.           *)
(***************************************************************************)
EXTENDS BoxJoin

VARIABLES geo,               \* the input
          buildIndex,        \* SamplerOptions::build_sampling_index
          phase,             \* what the object is doing
          rows,              \* boxes of R that the current loop has still to take
          degrees, total,    \* the points in range of each box, and their sum
          positions,         \* sample: the box drawn for each place
          output,            \* sample: the caller's span
          reply              \* what the last call returned

input == <<geo, buildIndex>>
vars  == <<input, phase, rows, degrees, total, positions, output, reply>>

Sampler == INSTANCE JoinSampler WITH join <- Join(geo), indexed <- buildIndex

NoPair == <<>>               \* a place that is not written yet
ValidR(g) == Valid(g) \cap R
ValidS(g) == Valid(g) \cap S

-----------------------------------------------------------------------------
(* Points and queries of the tree, whose axes are 1 .. 2 * Dim.            *)

Axis == 1 .. 2 * Dim
IsLower(axis)  == axis % 2 = 1
DimOf(axis)    == (axis + 1) \div 2

\* The point that box s is lifted to.
Lifted(s, axis) == IF IsLower(axis) THEN geo[s].lo[DimOf(axis)] ELSE geo[s].hi[DimOf(axis)]

InRangeTouching(a, s, axis) ==
  IF IsLower(axis) THEN Lifted(s, axis) <= geo[a].hi[DimOf(axis)]
                   ELSE geo[a].lo[DimOf(axis)] <= Lifted(s, axis)

\* A strict prefix of each lower axis and a strict suffix of each upper one.
InRange(a, s, axis) ==
  IF IsLower(axis) THEN Lifted(s, axis) < geo[a].hi[DimOf(axis)]
                   ELSE geo[a].lo[DimOf(axis)] < Lifted(s, axis)

Partners(a) == {s \in ValidS(geo) : \A axis \in Axis : InRange(a, s, axis)}

\* The loops take the boxes in the order of their numbers.
IsFirst(a) == a \in rows /\ \A b \in rows : a <= b

-----------------------------------------------------------------------------
(* The constructor, which builds a tree only if both sides have a box.     *)

Builds(g) == ValidR(g) # {} /\ ValidS(g) # {}

Init ==
  /\ geo \in Geometry
  /\ buildIndex \in BOOLEAN
  /\ phase = IF Builds(geo) THEN "degrees" ELSE "idle"
  /\ rows = IF Builds(geo) THEN ValidR(geo) ELSE {}
  /\ degrees = [a \in ValidR(geo) |-> 0]
  /\ total = 0
  /\ positions = <<>> /\ output = <<>>
  /\ reply = Sampler!NoReply

CountDegree(a) ==
  LET degree == Cardinality(Partners(a)) IN
  /\ phase = "degrees" /\ IsFirst(a)
  /\ degrees' = [degrees EXCEPT ![a] = degree]
  /\ total' = total + degree
  /\ rows' = rows \ {a}
  /\ UNCHANGED <<input, phase, positions, output, reply>>

Constructed ==
  /\ phase = "degrees" /\ rows = {}
  /\ phase' = "idle"
  /\ UNCHANGED <<input, rows, degrees, total, positions, output, reply>>

-----------------------------------------------------------------------------
(* Calls.                                                                  *)

Count ==
  /\ phase = "idle"
  /\ reply' = Sampler!CountReply(total)
  /\ UNCHANGED <<input, phase, rows, degrees, total, positions, output>>

\* The calls of sample that return, or throw, before any draw.
SampleNothing(k) ==
  /\ phase = "idle"
  /\ \/ k = 0 /\ reply' = Sampler!SampleReply(<<>>)
     \/ k > 0 /\ total = 0 /\ reply' = Sampler!EmptyReply
     \/ k > 0 /\ total # 0 /\ ~buildIndex /\ reply' = Sampler!NoIndexReply
  /\ UNCHANGED <<input, phase, rows, degrees, total, positions, output>>

\* The alias draws any box of positive degree; only groups with a place are visited.
BeginSample(k) ==
  /\ phase = "idle" /\ k > 0 /\ total # 0 /\ buildIndex
  /\ positions' \in [1 .. k -> {a \in ValidR(geo) : degrees[a] > 0}]
  /\ output' = [i \in 1 .. k |-> NoPair]
  /\ rows' = {positions'[i] : i \in 1 .. k}
  /\ phase' = "draw"
  /\ reply' = Sampler!NoReply
  /\ UNCHANGED <<input, degrees, total>>

Places(a) == {i \in DOMAIN positions : positions[i] = a}

DrawGroup(a) ==
  /\ phase = "draw" /\ IsFirst(a)
  /\ \E partner \in [Places(a) -> Partners(a)] :
       output' = [i \in DOMAIN output |->
                    IF i \in Places(a) THEN <<a, partner[i]>> ELSE output[i]]
  /\ rows' = rows \ {a}
  /\ UNCHANGED <<input, phase, degrees, total, positions, reply>>

EndSample ==
  /\ phase = "draw" /\ rows = {}
  /\ phase' = "idle"
  /\ reply' = Sampler!SampleReply(output)
  /\ positions' = <<>> /\ output' = <<>>
  /\ UNCHANGED <<input, rows, degrees, total>>

Next ==
  \/ \E a \in R : CountDegree(a) \/ DrawGroup(a)
  \/ Constructed \/ Count \/ EndSample
  \/ \E k \in 0 .. MaxOutput : SampleNothing(k) \/ BeginSample(k)

Spec == Init /\ [][Next]_vars

-----------------------------------------------------------------------------
(* Properties.                                                             *)

TypeOK ==
  /\ geo \in Geometry
  /\ buildIndex \in BOOLEAN
  /\ phase \in {"degrees", "idle", "draw"}
  /\ rows \subseteq ValidR(geo)
  /\ degrees \in [ValidR(geo) -> Nat]
  /\ total \in Nat
  /\ \E k \in 0 .. MaxOutput :
       /\ positions \in [1 .. k -> ValidR(geo)]
       /\ output \in [1 .. k -> Pair \cup {NoPair}]

\* The degrees add up to the size of the join once the constructor returns.
CountIsExact == phase \in {"idle", "draw"} => total = Cardinality(Join(geo))

\* The pairs of one box of R.
Row(a) == {p \in Join(geo) : p[1] = a}

\* The range of a box holds its partners in the join and no other, in its own
\* coordinates and without negation, so a degree is the size of a row of the
\* join; sample finds for each group the partners the degree has counted
\* (make_query, 927-939).  A draw of a box by its degree and then of one of its
\* partners is a uniform draw of a pair.
RowIsUniform ==
  phase = "draw" =>
    \A a \in rows : /\ {<<a, s>> : s \in Partners(a)} = Row(a)
                    /\ degrees[a] = Cardinality(Row(a))

\* "positive LiftedRT degree has empty query".
Throws == phase = "draw" /\ \E a \in rows : Partners(a) = {}

NeverThrows == ~Throws

\* Every call answers as JoinSampler says.
IsJoinSampler == Sampler!Spec
=============================================================================
