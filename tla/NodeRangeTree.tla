---------------------------- MODULE NodeRangeTree ----------------------------
(***************************************************************************)
(* Class NodeRangeTree of cpp/include/anchor/node_range_tree.hpp: the      *)
(* index of active points of the sweep in two and more dimensions          *)
(* (dynamic), and the index of all points of LiftedRT, of which each is    *)
(* always active (static).  A level is a balanced tree over a set of       *)
(* points, sorted along one axis.  Each of its nodes has a level of its    *)
(* own over its points along the next axis (associated), and a count of    *)
(* its active points.  A query gathers nodes of the last axis (blocks)     *)
(* whose active points are those in range, and draws a block and a rank of *)
(* it.                                                                     *)
(*                                                                         *)
(* Within a level a node is the set of its points, so a node is the        *)
(* sequence of those sets from the first axis to its own.  A point is its  *)
(* number, which breaks ties of coordinates.                               *)
(*                                                                         *)
(* AboveTouching is a mistake that the properties must refute.             *)
(***************************************************************************)
EXTENDS Integers, Sequences, FiniteSetsExt

CONSTANTS Skeleton,     \* the points of the tree, which are numbers
          Axes,         \* the number of axes
          Placements,   \* the coordinates that the points may have
          Queries       \* what is asked, a range for each axis

\* A bound of a range: a value, which may be in the range or not, or none.
NoBound == [kind |-> "none"]
Bound(value, strict) == [kind |-> "bound", value |-> value, strict |-> strict]
Bounds == {NoBound} \cup [kind : {"bound"}, value : Int, strict : BOOLEAN]

\* A tree without points has no root, and none of its queries an answer.
ASSUME SkeletonAssumption ==
  /\ Skeleton \subseteq Int /\ Skeleton # {} /\ IsFiniteSet(Skeleton)
  /\ Axes \in Nat \ {0}
  /\ \A c \in Placements : \A p \in Skeleton : \A a \in 1 .. Axes : c[p][a] \in Int
  /\ \A query \in Queries : \A a \in 1 .. Axes :
       query[a].lower \in Bounds /\ query[a].upper \in Bounds

VARIABLES dynamic,      \* whether the points are switched on and off
          coordinate,   \* of each point along each axis
          active,       \* the points whose flag is set
          count         \* active_count of each node

treeVars == <<dynamic, coordinate, active, count>>

-----------------------------------------------------------------------------
(* The skeleton, which never changes.                                      *)

Node == UNION {[1 .. a -> (SUBSET Skeleton) \ {{}}] : a \in 1 .. Axes}

Axis(n)   == Len(n)
Points(n) == n[Len(n)]
IsLeaf(n) == Cardinality(Points(n)) = 1

KeyLess(p, q, a) ==
  \/ coordinate[p][a] < coordinate[q][a]
  \/ coordinate[p][a] = coordinate[q][a] /\ p < q

\* build: the first half of the points in their order goes left.
LowerHalf(n) ==
  {p \in Points(n) :
     Cardinality({q \in Points(n) : KeyLess(q, p, Axis(n))})
       < Cardinality(Points(n)) \div 2}
Left(n)       == [n EXCEPT ![Len(n)] = LowerHalf(n)]
Right(n)      == [n EXCEPT ![Len(n)] = @ \ LowerHalf(n)]
HasNext(n)    == Axis(n) < Axes
Associated(n) == Append(n, Points(n))
RootNode      == <<Skeleton>>

\* Where the functions of a level go on to: the halves of a node, and the root
\* of its level along the next axis.
Halves(n)    == IF IsLeaf(n) THEN {} ELSE {Left(n), Right(n)}
NextLevel(n) == IF HasNext(n) THEN {Associated(n)} ELSE {}

\* The nodes that a recursion meets which goes on from n to next[n].
Walk(next, from) ==
  LET met[n \in Node] == {n} \cup UNION {met[m] : m \in next[n]} IN met[from]

Nodes == Walk([n \in Node |-> Halves(n) \cup NextLevel(n)], RootNode)

TreeInit ==
  /\ dynamic \in BOOLEAN
  /\ coordinate \in Placements
  /\ active = IF dynamic THEN {} ELSE Skeleton
  /\ count = [n \in Nodes |-> IF dynamic THEN 0 ELSE Cardinality(Points(n))]

-----------------------------------------------------------------------------
(* set_active, which throws in a static tree.                              *)

\* The point comes after the greatest of the left child.
GoesRight(n, p) == \A q \in Points(Left(n)) : KeyLess(q, p, Axis(n))

\* The nodes that update changes on its way down to the point.
Descent(n, p) ==
  IF IsLeaf(n) THEN {} ELSE {IF GoesRight(n, p) THEN Right(n) ELSE Left(n)}
Visited(p) == Walk([n \in Node |-> Descent(n, p) \cup NextLevel(n)], RootNode)

CountBy(p, delta) ==
  LET visited == Visited(p)
  IN  count' = [n \in DOMAIN count |->
                  IF n \in visited THEN count[n] + delta ELSE count[n]]

SetActive(p) ==
  /\ dynamic /\ p \notin active
  /\ active' = active \cup {p}
  /\ CountBy(p, 1)
  /\ UNCHANGED <<dynamic, coordinate>>

SetInactive(p) ==
  /\ dynamic /\ p \in active
  /\ active' = active \ {p}
  /\ CountBy(p, -1)
  /\ UNCHANGED <<dynamic, coordinate>>

TreeNext == \E p \in Skeleton : SetActive(p) \/ SetInactive(p)

TreeSpec == TreeInit /\ [][TreeNext]_treeVars

-----------------------------------------------------------------------------
(* Queries.                                                                *)

AboveTouching(x, b) == b = NoBound \/ b.value <= x
Above(x, b) == b = NoBound \/ (IF b.strict THEN b.value < x ELSE b.value <= x)
Below(x, b) == b = NoBound \/ (IF b.strict THEN x < b.value ELSE x <= b.value)
In(x, range) == Above(x, range.lower) /\ Below(x, range.upper)

\* A query with a range that no number is in is answered at once.
IsEmpty(range) ==
  /\ range.lower # NoBound /\ range.upper # NoBound
  /\ \/ range.upper.value < range.lower.value
     \/ /\ range.upper.value = range.lower.value
        /\ range.lower.strict \/ range.upper.strict

Values(n)  == {coordinate[p][Axis(n)] : p \in Points(n)}
Outside(n, range) ==
  ~Above(Max(Values(n)), range.lower) \/ ~Below(Min(Values(n)), range.upper)
Covered(n, range) ==
  Above(Min(Values(n)), range.lower) /\ Below(Max(Values(n)), range.upper)
Satisfies(p, query) == \A a \in 1 .. Axes : In(coordinate[p][a], query[a])

\* collect: a node that no point in range can be below ends it, one that the
\* range covers leaves the other axes, and a leaf can only be looked at.
Reaches(n, query) == count[n] # 0 /\ ~Outside(n, query[Axis(n)])
Onwards(n, query) ==
  IF ~Reaches(n, query) THEN {}
  ELSE IF Covered(n, query[Axis(n)]) THEN NextLevel(n) ELSE Halves(n)
IsBlock(n, query) ==
  /\ Reaches(n, query)
  /\ IF Covered(n, query[Axis(n)]) THEN ~HasNext(n)
     ELSE IsLeaf(n) /\ \A p \in Points(n) : p \in active /\ Satisfies(p, query)

Blocks(query) ==
  IF \E a \in 1 .. Axes : IsEmpty(query[a]) THEN {}
  ELSE {n \in Walk([m \in Node |-> Onwards(m, query)], RootNode) : IsBlock(n, query)}

\* sample: a block by its weight, then a rank of it.
Draws(query) ==
  {d \in Blocks(query) \X (0 .. Cardinality(Skeleton)) : d[2] < count[d[1]]}

\* count: the sum of the weights of the blocks, one for each draw.
Size(draws) == Cardinality(draws)

\* select_active_by_rank: the active points below a node, by rank from 0.
ByRank[n \in DOMAIN count] ==
  [r \in 0 .. count[n] - 1 |->
     IF IsLeaf(n) THEN CHOOSE p \in Points(n) : TRUE
     ELSE IF r < count[Left(n)] THEN ByRank[Left(n)][r]
     ELSE ByRank[Right(n)][r - count[Left(n)]]]

-----------------------------------------------------------------------------
(* Properties.                                                             *)

\* After any sequence of updates every node of every level counts its active
\* points: the descent by keys changes the nodes that hold the point, and no
\* other, through ties on any axis (update 309-335).
CountsAgree == \A n \in DOMAIN count : count[n] = Cardinality(Points(n) \cap active)

\* A query counts the active points in its range, and each of them is drawn by
\* exactly one rank of one block (collect_blocks, select_active_by_rank).
AnswersExactly(query) ==
  LET hits  == {p \in active : Satisfies(p, query)}
      draws == Draws(query)
  IN  /\ Size(draws) = Cardinality(hits)
      /\ {ByRank[d[1]][d[2]] : d \in draws} = hits

\* Every query of the range tree is answered exactly.
QueriesAreExact == \A query \in Queries : AnswersExactly(query)
=============================================================================
