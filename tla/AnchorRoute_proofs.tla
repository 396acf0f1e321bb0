------------------------- MODULE AnchorRoute_proofs -------------------------
(***************************************************************************)
(* Proofs about the decomposition, which those about both ANCHOR samplers  *)
(* rest on, for any finite sets of boxes, any corners, any number of       *)
(* dimensions and any padding that holds the points.                       *)
(*                                                                         *)
(* The argument: a rank lies in the interval of an anchor exactly if its   *)
(* point starts inside the anchor (Owns), so the weight of an atom counts  *)
(* its pairs, and of two boxes that meet in a dimension exactly one owns   *)
(* the other.  Opening a view, routing a node and turning a last view into *)
(* atoms therefore replace a piece of work by pieces that partition its    *)
(* pairs.                                                                  *)
(***************************************************************************)
EXTENDS AnchorRoute, FiniteSetTheorems, TLAPS

\* Point q starts inside p in dimension j; of two that start together, the
\* box of R is the owner.
Owns(p, q, j) ==
  /\ geo[p].lo[j] < geo[q].lo[j] \/ (p \in R /\ geo[p].lo[j] = geo[q].lo[j])
  /\ geo[q].lo[j] < geo[p].hi[j]

\* Either side of a view has its anchors.
IsAnchor(v, p) == p \in v.a \cup v.b

\* The side of a view whose boxes are the anchors of a tree.
Anchors(t) == IF t.tree = "B" THEN t.view.a ELSE t.view.b

\* A node is routed above the last level; its points are those of its range.
NodeOK(t) ==
  /\ t.view.level < Dim
  /\ t.source \subseteq Anchors(t)
  /\ t.lattice \subseteq Whole(t)
  /\ \A q \in t.lattice : t.begin <= Rank(t, q) /\ Rank(t, q) < t.end

-----------------------------------------------------------------------------
(* Boxes and views.                                                        *)

\* A box number is a natural number, and the corners of a valid box are
\* integers in order.
LEMMA BoxFacts ==
  ASSUME geo \in Geometry
  PROVE  /\ Box \subseteq Nat /\ R \cap S = {} /\ Box = R \cup S
         /\ IsFiniteSet(Box)
         /\ \A b \in Box, j \in Dims : /\ geo[b].lo[j] \in Int
                                       /\ geo[b].hi[j] \in Int
         /\ \A b \in Valid(geo) : /\ b \in Box
                                  /\ \A j \in Dims : geo[b].lo[j] < geo[b].hi[j]
<1>1. Box \subseteq Nat /\ R \cap S = {} /\ Box = R \cup S
  BY SidesAssumption DEF Box
<1>2. IsFiniteSet(Box)
  BY SidesAssumption, FS_Union DEF Box
<1>3. ASSUME NEW b \in Box, NEW j \in Dims
      PROVE  geo[b].lo[j] \in Int /\ geo[b].hi[j] \in Int
  <2>1. geo[b] \in [lo : [Dims -> Int], hi : [Dims -> Int]]
    BY ShapesAssumption DEF Geometry
  <2> QED BY <2>1
<1>4. ASSUME NEW b \in Valid(geo)
      PROVE  b \in Box /\ \A j \in Dims : geo[b].lo[j] < geo[b].hi[j]
  BY DEF Valid, NonEmpty
<1> QED BY <1>1, <1>2, <1>3, <1>4

\* The two sides of a view are finite sets of valid boxes that share none.
LEMMA ViewFacts ==
  ASSUME geo \in Geometry, NEW v \in View
  PROVE  /\ v.level \in Dims
         /\ v.a \subseteq Valid(geo) /\ v.a \subseteq R /\ IsFiniteSet(v.a)
         /\ v.b \subseteq Valid(geo) /\ v.b \subseteq S /\ IsFiniteSet(v.b)
         /\ v.a \subseteq Box /\ v.b \subseteq Box
         /\ \A p \in v.a : p \notin S /\ Opposite(v, p) = v.b
         /\ \A p \in v.b : p \notin R /\ Opposite(v, p) = v.a
<1>1. /\ v.level \in Dims
      /\ v.a \subseteq Valid(geo) /\ v.a \subseteq R
      /\ v.b \subseteq Valid(geo) /\ v.b \subseteq S
  BY DEF View, ValidR, ValidS
<1>2. v.a \subseteq Box /\ v.b \subseteq Box
  BY <1>1, BoxFacts
<1>3. IsFiniteSet(v.a) /\ IsFiniteSet(v.b)
  BY <1>2, BoxFacts, FS_Subset
<1>4. /\ \A p \in v.a : p \notin S /\ Opposite(v, p) = v.b
      /\ \A p \in v.b : p \notin R /\ Opposite(v, p) = v.a
  BY <1>1, BoxFacts DEF Opposite
<1> QED BY <1>1, <1>2, <1>3, <1>4

-----------------------------------------------------------------------------
(* Ranks.                                                                  *)

\* The binary searches and the positions of finite sets of points are numbers.
LEMMA RankTypes ==
  ASSUME NEW points, IsFiniteSet(points), NEW q, NEW value, NEW j
  PROVE  /\ Position(points, q, j) \in Nat
         /\ LowerRank(points, value, j) \in Nat
         /\ UpperRank(points, value, j) \in Nat
<1>1. \A T : T \subseteq points => Cardinality(T) \in Nat
  BY FS_Subset, FS_CardinalityType
<1> QED BY <1>1 DEF Position, LowerRank, UpperRank

\* A point of a set of n has a rank below n.
LEMMA RankBelow ==
  ASSUME geo \in Geometry, NEW points \in SUBSET Box, NEW q \in points, NEW j \in Dims
  PROVE  /\ Position(points, q, j) \in Nat /\ Cardinality(points) \in Nat
         /\ Position(points, q, j) < Cardinality(points)
<1> DEFINE before == {x \in points : Precedes(x, q, j)}
<1>1. IsFiniteSet(points)
  BY BoxFacts, FS_Subset
<1>2. before \cup {q} \subseteq points
  OBVIOUS
<1>3. q \notin before
  <2>1. q \in Nat /\ geo[q].lo[j] \in Int
    BY BoxFacts
  <2> QED BY <2>1 DEF Precedes
<1>4. /\ IsFiniteSet(before) /\ Cardinality(before) \in Nat
      /\ Cardinality(points) \in Nat
  BY <1>1, FS_Subset, FS_CardinalityType
<1>5. Cardinality(before \cup {q}) = Cardinality(before) + 1
  BY <1>3, <1>4, FS_AddElement
<1>6. Cardinality(before \cup {q}) <= Cardinality(points)
  BY <1>1, <1>2, FS_Subset
<1>7. Position(points, q, j) = Cardinality(before)
  BY DEF Position
<1> HIDE DEF before
<1> QED BY <1>4, <1>5, <1>6, <1>7

\* A point's rank is at least lower_rank of a value exactly if it does not
\* start before the value (lower_rank, 149-159).
LEMMA LowerRankSplits ==
  ASSUME geo \in Geometry, NEW points \in SUBSET Box, NEW q \in points,
         NEW j \in Dims, NEW value \in Int
  PROVE  LowerRank(points, value, j) <= Position(points, q, j)
           <=> value <= geo[q].lo[j]
<1> DEFINE Before == {x \in points : Precedes(x, q, j)}
           Below  == {x \in points : geo[x].lo[j] < value}
<1>1. /\ IsFiniteSet(points) /\ IsFiniteSet(Before) /\ IsFiniteSet(Below)
      /\ Cardinality(Before) \in Nat /\ Cardinality(Below) \in Nat
  <2>1. IsFiniteSet(points)
    BY BoxFacts, FS_Subset
  <2>2. Before \subseteq points /\ Below \subseteq points
    OBVIOUS
  <2> QED BY <2>1, <2>2, FS_Subset, FS_CardinalityType
<1>2. \A x \in points : x \in Nat /\ geo[x].lo[j] \in Int
  BY BoxFacts
<1>3. CASE value <= geo[q].lo[j]
  <2>1. Below \subseteq Before
    BY <1>2, <1>3 DEF Precedes
  <2>2. Cardinality(Below) <= Cardinality(Before)
    BY <1>1, <2>1, FS_Subset
  <2> QED BY <1>3, <2>2 DEF LowerRank, Position
<1>4. CASE ~(value <= geo[q].lo[j])
  <2>1. q \notin Before
    BY <1>2 DEF Precedes
  <2>2. Before \cup {q} \subseteq Below
    BY <1>2, <1>4 DEF Precedes
  <2>3. /\ IsFiniteSet(Before \cup {q})
        /\ Cardinality(Before \cup {q}) = Cardinality(Before) + 1
    BY <1>1, <2>1, FS_AddElement
  <2>4. Cardinality(Before) + 1 <= Cardinality(Below)
    BY <1>1, <2>2, <2>3, FS_Subset
  <2>5. ~(Cardinality(Below) <= Cardinality(Before))
    BY <1>1, <2>4
  <2> QED BY <1>4, <2>5 DEF LowerRank, Position
<1> QED BY <1>3, <1>4

\* The same for upper_rank and the points that start at the value or before
\* (upper_rank, 161-171).
LEMMA UpperRankSplits ==
  ASSUME geo \in Geometry, NEW points \in SUBSET Box, NEW q \in points,
         NEW j \in Dims, NEW value \in Int
  PROVE  UpperRank(points, value, j) <= Position(points, q, j)
           <=> value < geo[q].lo[j]
<1> DEFINE above == value + 1
<1>1. \A x \in points : geo[x].lo[j] \in Int
  BY BoxFacts
<1>2. {x \in points : geo[x].lo[j] <= value} = {x \in points : geo[x].lo[j] < above}
  BY <1>1
<1>3. UpperRank(points, value, j) = LowerRank(points, above, j)
  BY <1>2 DEF UpperRank, LowerRank
<1>4. LowerRank(points, above, j) <= Position(points, q, j) <=> above <= geo[q].lo[j]
  BY LowerRankSplits
<1> QED BY <1>1, <1>3, <1>4

-----------------------------------------------------------------------------
(* Ownership.                                                              *)

\* The interval of an anchor holds the ranks of the points it owns
\* (make_anchor_intervals 173-198, compute_base_atoms 442-479).
LEMMA InsideIsOwned ==
  ASSUME geo \in Geometry, NEW v \in View, NEW p, IsAnchor(v, p)
  PROVE  /\ Inside(v, p) = {q \in Opposite(v, p) : Owns(p, q, v.level)}
         /\ Interval(v, p).lo \in Nat /\ Interval(v, p).hi \in Nat
<1> DEFINE j      == v.level
           points == Opposite(v, p)
           at(q)  == Position(points, q, j)
           i      == Interval(v, p)
<1>1. /\ j \in Dims /\ p \in Box /\ points \in SUBSET Box /\ IsFiniteSet(points)
  BY ViewFacts DEF IsAnchor
<1>2. geo[p].lo[j] \in Int /\ geo[p].hi[j] \in Int
  BY <1>1, BoxFacts
<1>3. /\ i.hi = LowerRank(points, geo[p].hi[j], j)
      /\ p \in R => i.lo = LowerRank(points, geo[p].lo[j], j)
      /\ p \notin R => i.lo = UpperRank(points, geo[p].lo[j], j)
  BY DEF Interval
<1>4. i.lo \in Nat /\ i.hi \in Nat
  BY <1>1, <1>3, RankTypes
<1>5. ASSUME NEW q \in points
      PROVE  Within(i, at(q)) <=> Owns(p, q, j)
  <2>1. geo[q].lo[j] \in Int /\ at(q) \in Nat
    BY <1>1, BoxFacts, RankTypes
  <2>2. at(q) < i.hi <=> geo[q].lo[j] < geo[p].hi[j]
    <3>1. i.hi <= at(q) <=> geo[p].hi[j] <= geo[q].lo[j]
      BY <1>1, <1>2, <1>3, LowerRankSplits
    <3> QED BY <1>2, <1>4, <2>1, <3>1
  <2>3. CASE p \in R
    <3>1. i.lo <= at(q) <=> geo[p].lo[j] <= geo[q].lo[j]
      BY <1>1, <1>2, <1>3, <2>3, LowerRankSplits
    <3> QED BY <1>2, <2>1, <2>2, <2>3, <3>1 DEF Within, Owns
  <2>4. CASE p \notin R
    <3>1. i.lo <= at(q) <=> geo[p].lo[j] < geo[q].lo[j]
      BY <1>1, <1>2, <1>3, <2>4, UpperRankSplits
    <3> QED BY <1>2, <2>1, <2>2, <2>4, <3>1 DEF Within, Owns
  <2> QED BY <2>3, <2>4
<1>6. Inside(v, p) = {q \in points : Owns(p, q, j)}
  BY <1>5 DEF Inside
<1> QED BY <1>4, <1>6

\* Of two boxes of different sides that meet in a dimension, exactly one owns
\* the other, through ties as well.
LEMMA OneOwner ==
  ASSUME geo \in Geometry, NEW j \in Dims,
         NEW r \in Valid(geo) \cap R, NEW s \in Valid(geo) \cap S
  PROVE  /\ (Owns(r, s, j) \/ Owns(s, r, j)) <=> Meets(geo, r, s, {j})
         /\ ~(Owns(r, s, j) /\ Owns(s, r, j))
<1>1. /\ geo[r].lo[j] \in Int /\ geo[r].hi[j] \in Int /\ geo[r].lo[j] < geo[r].hi[j]
      /\ geo[s].lo[j] \in Int /\ geo[s].hi[j] \in Int /\ geo[s].lo[j] < geo[s].hi[j]
      /\ r \in R /\ s \notin R
  BY BoxFacts
<1>2. Meets(geo, r, s, {j}) <=> /\ geo[r].lo[j] < geo[s].hi[j]
                                /\ geo[s].lo[j] < geo[r].hi[j]
  BY DEF Meets
<1> QED BY <1>1, <1>2 DEF Owns

\* An interval is as long as the anchor has points inside, and never runs
\* backwards (the weight of an atom, compute_base_atoms 485-499).
LEMMA IntervalCounts ==
  ASSUME geo \in Geometry, NEW v \in View, NEW p, IsAnchor(v, p)
  PROVE  /\ IsFiniteSet(Inside(v, p))
         /\ Cardinality(Inside(v, p)) = Interval(v, p).hi - Interval(v, p).lo
         /\ Interval(v, p).lo <= Interval(v, p).hi
<1> DEFINE j      == v.level
           points == Opposite(v, p)
           before == {q \in points : geo[q].lo[j] < geo[p].hi[j]}
           out    == IF p \in R THEN {q \in points : geo[q].lo[j] < geo[p].lo[j]}
                                ELSE {q \in points : geo[q].lo[j] <= geo[p].lo[j]}
<1>1. /\ j \in Dims /\ p \in Box /\ p \in Valid(geo)
      /\ points \in SUBSET Box /\ IsFiniteSet(points)
  BY ViewFacts DEF IsAnchor
<1>2. /\ geo[p].lo[j] \in Int /\ geo[p].hi[j] \in Int
      /\ geo[p].lo[j] < geo[p].hi[j]
      /\ \A q \in points : geo[q].lo[j] \in Int
  BY <1>1, BoxFacts
<1>3. out \subseteq before /\ before \subseteq points
  BY <1>2
<1>4. Inside(v, p) = before \ out
  BY <1>2, InsideIsOwned DEF Owns
<1>5. /\ Interval(v, p).hi = Cardinality(before)
      /\ Interval(v, p).lo = Cardinality(out)
  BY DEF Interval, LowerRank, UpperRank
<1>6. /\ IsFiniteSet(before) /\ IsFiniteSet(out)
      /\ Cardinality(before) \in Nat /\ Cardinality(out) \in Nat
      /\ Cardinality(out) <= Cardinality(before)
  BY <1>1, <1>3, FS_Subset, FS_CardinalityType
<1>7. /\ IsFiniteSet(before \ out)
      /\ Cardinality(before \ out) = Cardinality(before) - Cardinality(before \cap out)
  BY <1>6, FS_Difference
<1>8. before \cap out = out
  BY <1>3
<1> HIDE DEF before, out
<1> QED BY <1>4, <1>5, <1>6, <1>7, <1>8

-----------------------------------------------------------------------------
(* The pairs of a piece of work.                                           *)

\* The side of a pair that is the anchor in the tree of a node, and its point.
AnchorIn(t, z) == IF t.tree = "B" THEN z[1] ELSE z[2]
PointIn(t, z)  == IF t.tree = "B" THEN z[2] ELSE z[1]

\* Meeting in dimensions l to Dim is meeting in l and in the others, and does
\* not depend on the order of the two boxes.
LEMMA MeetsFacts ==
  ASSUME NEW a, NEW b
  PROVE  /\ \A l \in Dims : l < Dim =>
               (Meets(geo, a, b, l .. Dim)
                  <=> Meets(geo, a, b, {l}) /\ Meets(geo, a, b, l + 1 .. Dim))
         /\ Meets(geo, a, b, Dim .. Dim) <=> Meets(geo, a, b, {Dim})
         /\ \A dims : Meets(geo, a, b, dims) <=> Meets(geo, b, a, dims)
<1>1. ASSUME NEW l \in Dims, l < Dim
      PROVE  Meets(geo, a, b, l .. Dim)
               <=> Meets(geo, a, b, {l}) /\ Meets(geo, a, b, l + 1 .. Dim)
  <2>1. \A j : j \in l .. Dim <=> j \in {l} \/ j \in l + 1 .. Dim
    BY <1>1, ShapesAssumption DEF Dims
  <2> QED BY <2>1 DEF Meets
<1>2. Dim .. Dim = {Dim}
  BY ShapesAssumption
<1>3. \A dims : Meets(geo, a, b, dims) <=> Meets(geo, b, a, dims)
  BY DEF Meets
<1> QED BY <1>1, <1>2, <1>3

\* A node holds the pairs of one of its anchors and one of its points that the
\* anchor owns in the dimension of the view and meets in the later ones.
LEMMA NodePairsAre ==
  ASSUME geo \in Geometry, NEW t \in Node, NodeOK(t)
  PROVE  NodePairs(t) =
           {z \in Pair : /\ AnchorIn(t, z) \in t.source
                         /\ PointIn(t, z) \in t.lattice
                         /\ Owns(AnchorIn(t, z), PointIn(t, z), t.view.level)
                         /\ Meets(geo, z[1], z[2], t.view.level + 1 .. Dim)}
<1> DEFINE v == t.view
           l == t.view.level
           Mine == {z \in Pair : /\ AnchorIn(t, z) \in t.source
                                 /\ PointIn(t, z) \in t.lattice
                                 /\ Owns(AnchorIn(t, z), PointIn(t, z), l)
                                 /\ Meets(geo, z[1], z[2], l + 1 .. Dim)}
<1>1. v \in View /\ t.tree \in {"B", "A"}
  BY DEF Node
<1>2. /\ v.a \subseteq R /\ v.b \subseteq S
      /\ \A p \in v.a : p \notin S /\ Opposite(v, p) = v.b
      /\ \A p \in v.b : p \notin R /\ Opposite(v, p) = v.a
  BY <1>1, ViewFacts
<1>3. \A p \in t.source : IsAnchor(v, p) /\ Opposite(v, p) = Whole(t)
  BY <1>1, <1>2 DEF NodeOK, Anchors, Whole, IsAnchor
<1>4. ASSUME NEW p \in t.source, NEW q \in t.lattice
      PROVE  /\ q \in Touched(v, p, l + 1)
                  <=> Owns(p, q, l) /\ Meets(geo, p, q, l + 1 .. Dim)
             /\ PairOf(p, q) \in Pair
             /\ AnchorIn(t, PairOf(p, q)) = p /\ PointIn(t, PairOf(p, q)) = q
             /\ PairOf(p, q) = IF t.tree = "B" THEN <<p, q>> ELSE <<q, p>>
  <2>1. q \in Opposite(v, p)
    BY <1>3 DEF NodeOK
  <2>2. q \in Touched(v, p, l + 1) <=> Owns(p, q, l) /\ Meets(geo, p, q, l + 1 .. Dim)
    BY <1>1, <1>3, <2>1, InsideIsOwned DEF Touched
  <2>3. CASE t.tree = "B"
    <3>1. p \in R /\ q \in S
      BY <1>2, <2>3 DEF NodeOK, Anchors, Whole
    <3> QED BY <2>2, <2>3, <3>1 DEF PairOf, Pair, AnchorIn, PointIn
  <2>4. CASE t.tree # "B"
    <3>1. p \in S /\ p \notin R /\ q \in R
      BY <1>2, <2>4 DEF NodeOK, Anchors, Whole
    <3> QED BY <2>2, <2>4, <3>1 DEF PairOf, Pair, AnchorIn, PointIn
  <2> QED BY <2>3, <2>4
<1>5. ASSUME NEW z \in NodePairs(t)
      PROVE  z \in Mine
  <2>1. PICK p \in t.source : \E q \in t.lattice \cap Touched(v, p, l + 1) : z = PairOf(p, q)
    BY <1>5 DEF NodePairs
  <2>2. PICK q \in t.lattice : q \in Touched(v, p, l + 1) /\ z = PairOf(p, q)
    BY <2>1
  <2>3. Meets(geo, z[1], z[2], l + 1 .. Dim)
    BY <1>4, <2>2, MeetsFacts
  <2> QED BY <1>4, <2>2, <2>3
<1>6. ASSUME NEW z \in Mine
      PROVE  z \in NodePairs(t)
  <2> DEFINE p == AnchorIn(t, z)
             q == PointIn(t, z)
  <2>1. p \in t.source /\ q \in t.lattice
    OBVIOUS
  <2>2. z = <<z[1], z[2]>>
    BY DEF Pair
  <2>3. z = PairOf(p, q)
    <3>1. CASE t.tree = "B"
      BY <1>4, <2>1, <2>2, <3>1 DEF AnchorIn, PointIn
    <3>2. CASE t.tree # "B"
      BY <1>4, <2>1, <2>2, <3>2 DEF AnchorIn, PointIn
    <3> QED BY <3>1, <3>2
  <2>4. Meets(geo, p, q, l + 1 .. Dim)
    BY MeetsFacts DEF AnchorIn, PointIn
  <2>5. q \in Touched(v, p, l + 1)
    BY <1>4, <2>1, <2>4
  <2> QED BY <2>1, <2>3, <2>5 DEF NodePairs
<1> QED BY <1>5, <1>6

-----------------------------------------------------------------------------
(* What each step hands on partitions what it takes.                       *)

\* The pieces of new partition the pairs of old.
Partitions(new, old) ==
  /\ \A n \in new : PairsOf(n) \subseteq PairsOf(old)
  /\ \A z \in PairsOf(old) :
       \E n \in new : z \in PairsOf(n) /\ \A m \in new \ {n} : z \notin PairsOf(m)

\* The tag of a piece of work decides what its pairs are.
LEMMA PairsOfTag ==
  ASSUME NEW x
  PROVE  /\ PairsOf(<<"view", x>>) = ViewPairs(x)
         /\ PairsOf(<<"node", x>>) = NodePairs(x)
         /\ PairsOf(<<"anchor", x>>) = AnchorPairs(x)
         /\ PairsOf(<<"atom", x>>) = AtomPairs(x)
BY DEF PairsOf

\* A root of either tree holds the pairs of its view that its anchors own: an
\* anchor with an empty interval owns nothing (restrict_orders 264-283).
LEMMA RootFacts ==
  ASSUME geo \in Geometry, NEW v \in View, v.level < Dim, ~EmptyView(v),
         NEW tree \in {"B", "A"}
  PROVE  /\ Root(v, tree) \in Node /\ NodeOK(Root(v, tree))
         /\ NodePairs(Root(v, tree)) =
              {z \in ViewPairs(v) : IF tree = "B" THEN Owns(z[1], z[2], v.level)
                                                  ELSE Owns(z[2], z[1], v.level)}
<1> DEFINE t       == Root(v, tree)
           front   == IF tree = "B" THEN v.a ELSE v.b
           points  == IF tree = "B" THEN v.b ELSE v.a
<1>1. /\ t.view = v /\ t.tree = tree /\ t.begin = 0
      /\ t.end = Padded(Cardinality(points)) /\ t.lattice = points
      /\ t.source = {p \in front : Interval(v, p).lo # Interval(v, p).hi}
      /\ t = [view |-> v, tree |-> tree, begin |-> 0, end |-> t.end,
              source |-> t.source, lattice |-> points]
  BY DEF Root
<1>2. /\ v.level \in Dims /\ v.a \subseteq Box /\ v.b \subseteq Box
      /\ v.a \subseteq R /\ v.b \subseteq S
      /\ IsFiniteSet(points) /\ points \subseteq Box /\ front \subseteq Box
  BY ViewFacts
<1>3. t.end \in Nat /\ Cardinality(points) \in Nat /\ Cardinality(points) <= t.end
  <2>1. Cardinality(points) \in Nat /\ Cardinality(points) # 0
    BY <1>2, FS_CardinalityType, FS_EmptySet DEF EmptyView
  <2>2. Cardinality(points) <= Cardinality(Box) /\ Cardinality(Box) \in Nat
    BY <1>2, BoxFacts, FS_Subset, FS_CardinalityType
  <2>3. Cardinality(points) \in 1 .. Cardinality(Box)
    BY <2>1, <2>2
  <2> QED BY <1>1, <2>1, <2>3, PaddedAssumption
<1>4. t \in Node
  <2>1. t.source \subseteq Box
    BY <1>1, <1>2
  <2> QED BY <1>1, <1>2, <1>3, <2>1 DEF Node
<1>5. Whole(t) = points /\ Anchors(t) = front
  BY <1>1 DEF Whole, Anchors
<1>6. ASSUME NEW q \in points
      PROVE  0 <= Rank(t, q) /\ Rank(t, q) < t.end
  <2>1. Rank(t, q) = Position(points, q, v.level)
    BY <1>1, <1>5 DEF Rank
  <2> QED BY <1>2, <1>3, <2>1, RankBelow
<1>7. NodeOK(t)
  BY <1>1, <1>5, <1>6 DEF NodeOK
<1> HIDE DEF t
<1>8. ASSUME NEW z \in Pair, AnchorIn(t, z) \in front, PointIn(t, z) \in points,
             Owns(AnchorIn(t, z), PointIn(t, z), v.level)
      PROVE  AnchorIn(t, z) \in t.source
  <2> DEFINE p == AnchorIn(t, z)
             q == PointIn(t, z)
  <2>1. IsAnchor(v, p) /\ q \in Opposite(v, p)
    BY <1>8, ViewFacts DEF IsAnchor
  <2>2. q \in Inside(v, p)
    BY <1>8, <2>1, InsideIsOwned
  <2>3. Cardinality(Inside(v, p)) # 0
    BY <2>1, <2>2, IntervalCounts, FS_EmptySet
  <2>4. Interval(v, p).lo # Interval(v, p).hi
    BY <2>1, <2>3, IntervalCounts, InsideIsOwned
  <2> QED BY <1>1, <1>8, <2>4
<1>9. \A z \in Pair :
        /\ AnchorIn(t, z) = IF tree = "B" THEN z[1] ELSE z[2]
        /\ PointIn(t, z) = IF tree = "B" THEN z[2] ELSE z[1]
  BY <1>1 DEF AnchorIn, PointIn
<1> DEFINE Owned(z) == Owns(AnchorIn(t, z), PointIn(t, z), v.level)
<1>10. NodePairs(t) =
         {z \in Pair : /\ AnchorIn(t, z) \in t.source /\ PointIn(t, z) \in points
                       /\ Owned(z) /\ Meets(geo, z[1], z[2], v.level + 1 .. Dim)}
  BY <1>1, <1>4, <1>7, NodePairsAre
<1>11. ASSUME NEW z \in Pair, z[1] \in v.a, z[2] \in v.b, Owned(z)
       PROVE  Meets(geo, z[1], z[2], v.level .. Dim)
                <=> Meets(geo, z[1], z[2], v.level + 1 .. Dim)
  <2>1. z[1] \in Valid(geo) \cap R /\ z[2] \in Valid(geo) \cap S
    BY <1>11, ViewFacts
  <2>2. Owns(z[1], z[2], v.level) \/ Owns(z[2], z[1], v.level)
    BY <1>9, <1>11
  <2>3. Meets(geo, z[1], z[2], {v.level})
    BY <1>2, <2>1, <2>2, OneOwner
  <2> QED BY <1>2, <2>3, MeetsFacts
<1>12. \A z \in Pair : z[1] \in v.a /\ z[2] \in v.b
                       <=> AnchorIn(t, z) \in front /\ PointIn(t, z) \in points
  BY <1>9
<1>13. \A z \in Pair : AnchorIn(t, z) \in t.source => AnchorIn(t, z) \in front
  BY <1>1
<1>14. ViewPairs(v) = {z \in Pair : /\ z[1] \in v.a /\ z[2] \in v.b
                                    /\ Meets(geo, z[1], z[2], v.level .. Dim)}
  BY <1>2 DEF ViewPairs, Pair
<1>15. NodePairs(t) = {z \in ViewPairs(v) : Owned(z)}
  BY <1>8, <1>10, <1>11, <1>12, <1>13, <1>14
<1>16. \A z \in ViewPairs(v) : Owned(z) <=> IF tree = "B" THEN Owns(z[1], z[2], v.level)
                                                        ELSE Owns(z[2], z[1], v.level)
  BY <1>9, <1>14
<1> QED BY <1>4, <1>7, <1>15, <1>16 DEF t

\* Opening a view: of the two boxes of a pair one owns the other, so the pair
\* goes to one of the two trees (compile 369-384).
LEMMA OpenViewPartitions ==
  ASSUME geo \in Geometry, NEW v \in View, v.level < Dim, ~EmptyView(v)
  PROVE  Partitions({<<"node", Root(v, "B")>>, <<"node", Root(v, "A")>>}, <<"view", v>>)
<1> DEFINE b == Root(v, "B")
           a == Root(v, "A")
<1>1. /\ NodePairs(b) = {z \in ViewPairs(v) : Owns(z[1], z[2], v.level)}
      /\ NodePairs(a) = {z \in ViewPairs(v) : Owns(z[2], z[1], v.level)}
  BY RootFacts
<1>2. ASSUME NEW z \in ViewPairs(v)
      PROVE  /\ Owns(z[1], z[2], v.level) \/ Owns(z[2], z[1], v.level)
             /\ ~(Owns(z[1], z[2], v.level) /\ Owns(z[2], z[1], v.level))
  <2>1. /\ z[1] \in Valid(geo) \cap R /\ z[2] \in Valid(geo) \cap S
        /\ v.level \in Dims /\ Meets(geo, z[1], z[2], v.level .. Dim)
    BY ViewFacts DEF ViewPairs
  <2>2. Meets(geo, z[1], z[2], {v.level})
    BY <2>1, MeetsFacts
  <2> QED BY <2>1, <2>2, OneOwner
<1>3. /\ PairsOf(<<"node", b>>) = NodePairs(b) /\ PairsOf(<<"node", a>>) = NodePairs(a)
      /\ PairsOf(<<"view", v>>) = ViewPairs(v)
  BY PairsOfTag
<1> HIDE DEF a, b
<1> QED BY <1>1, <1>2, <1>3 DEF Partitions, a, b

\* The middle of a node that is not a leaf lies inside it.
LEMMA MiddleFacts ==
  ASSUME NEW b \in Nat, NEW e \in Nat, e - b > 1
  PROVE  /\ b + (e - b) \div 2 \in Nat
         /\ b < b + (e - b) \div 2 /\ b + (e - b) \div 2 < e
OBVIOUS

\* A child is a node of the same tree, over the points of its range.
LEMMA ChildFacts ==
  ASSUME geo \in Geometry, NEW t \in Node, NodeOK(t), t.end - t.begin > 1,
         NEW c \in {Left(t), Right(t)}
  PROVE  /\ c \in Node /\ NodeOK(c)
         /\ c.view = t.view /\ c.tree = t.tree
         /\ c.source \subseteq t.source \ Stop(t)
         /\ c.lattice \subseteq t.lattice
<1> DEFINE m == Middle(t)
<1>1. /\ t.begin \in Nat /\ t.end \in Nat
      /\ t = [view |-> t.view, tree |-> t.tree, begin |-> t.begin, end |-> t.end,
              source |-> t.source, lattice |-> t.lattice]
  BY DEF Node
<1>2. m \in Nat /\ t.begin < m /\ m < t.end
  BY <1>1, MiddleFacts DEF Middle
<1>3. PICK from \in Nat, to \in Nat, points \in SUBSET t.lattice :
        /\ c = Child(t, from, to, points)
        /\ \A q \in points : from <= Rank(t, q) /\ Rank(t, q) < to
  <2>1. \A q \in t.lattice : Rank(t, q) \in Nat
    <3>1. IsFiniteSet(Whole(t))
      BY ViewFacts DEF Whole, Node
    <3> QED BY <3>1, RankTypes DEF Rank
  <2>2. CASE c = Left(t)
    <3>1. \A q \in {q \in t.lattice : GoesLeft(t, q)} :
            t.begin <= Rank(t, q) /\ Rank(t, q) < m
      BY DEF NodeOK, GoesLeft
    <3> QED BY <1>1, <1>2, <2>2, <3>1 DEF Left
  <2>3. CASE c = Right(t)
    <3>1. \A q \in {q \in t.lattice : ~GoesLeft(t, q)} :
            m <= Rank(t, q) /\ Rank(t, q) < t.end
      BY <1>2, <2>1 DEF NodeOK, GoesLeft
    <3> QED BY <1>1, <1>2, <2>3, <3>1 DEF Right
  <2> QED BY <2>2, <2>3
<1>4. /\ c = [view |-> t.view, tree |-> t.tree, begin |-> from, end |-> to,
              source |-> c.source, lattice |-> points]
      /\ c.source \subseteq t.source \ Stop(t)
  BY <1>1, <1>3 DEF Child
<1>5. c.view = t.view /\ c.tree = t.tree /\ c.begin = from /\ c.end = to
      /\ c.lattice = points
  BY <1>4
<1>6. Whole(c) = Whole(t) /\ Anchors(c) = Anchors(t)
  BY <1>5 DEF Whole, Anchors
<1>7. \A q : Rank(c, q) = Rank(t, q)
  BY <1>5, <1>6 DEF Rank
<1>8. c \in Node
  BY <1>4 DEF Node
<1>9. NodeOK(c)
  BY <1>3, <1>4, <1>5, <1>6, <1>7 DEF NodeOK
<1> QED BY <1>4, <1>5, <1>8, <1>9

\* The view that a node hands out is one of the next level.
LEMMA NextViewFacts ==
  ASSUME geo \in Geometry, NEW t \in Node, NodeOK(t)
  PROVE  /\ NextView(t) \in View
         /\ ViewPairs(NextView(t)) =
              {z \in NodePairs(t) : AnchorIn(t, z) \in Stop(t)}
<1> DEFINE v == NextView(t)
           l == t.view.level
<1>1. /\ t.view \in View /\ t.tree \in {"B", "A"} /\ t.begin \in Nat /\ t.end \in Nat
      /\ l \in Dims /\ l < Dim
  BY DEF Node, NodeOK, View
<1>2. /\ v.level = l + 1
      /\ v.a = IF t.tree = "B" THEN Stop(t) ELSE t.lattice
      /\ v.b = IF t.tree = "B" THEN t.lattice ELSE Stop(t)
      /\ v.path = Append(t.view.path, [tree |-> t.tree, begin |-> t.begin, end |-> t.end])
      /\ v = [level |-> v.level, a |-> v.a, b |-> v.b, path |-> v.path]
  BY DEF NextView, ChildPath, KeyOf
<1>3. /\ Stop(t) \subseteq t.source
      /\ t.tree = "B" => t.source \subseteq t.view.a /\ t.lattice \subseteq t.view.b
      /\ t.tree # "B" => t.source \subseteq t.view.b /\ t.lattice \subseteq t.view.a
  BY DEF Stop, NodeOK, Anchors, Whole
<1>4. v.a \subseteq t.view.a /\ v.b \subseteq t.view.b
  BY <1>2, <1>3
<1>5. v \in View
  <2>1. v.a \in SUBSET ValidR /\ v.b \in SUBSET ValidS
    BY <1>1, <1>4 DEF View
  <2>2. v.level \in Dims
    BY <1>1, <1>2, ShapesAssumption DEF Dims
  <2>3. t.view.path \in Seq(NodeKey)
    BY <1>1 DEF View
  <2>4. [tree |-> t.tree, begin |-> t.begin, end |-> t.end] \in NodeKey
    BY <1>1 DEF NodeKey
  <2>5. v.path \in Seq(NodeKey)
    BY <1>2, <2>3, <2>4
  <2> QED BY <1>2, <2>1, <2>2, <2>5 DEF View
<1>6. v.a \subseteq R /\ v.b \subseteq S
  BY <1>5, ViewFacts
<1>7. ViewPairs(v) = {z \in Pair : /\ AnchorIn(t, z) \in Stop(t)
                                   /\ PointIn(t, z) \in t.lattice
                                   /\ Meets(geo, z[1], z[2], l + 1 .. Dim)}
  <2>1. ViewPairs(v) = {z \in Pair : /\ z[1] \in v.a /\ z[2] \in v.b
                                     /\ Meets(geo, z[1], z[2], l + 1 .. Dim)}
    BY <1>2, <1>6 DEF ViewPairs, Pair
  <2>2. \A z \in Pair : z[1] \in v.a /\ z[2] \in v.b
                        <=> AnchorIn(t, z) \in Stop(t) /\ PointIn(t, z) \in t.lattice
    BY <1>2 DEF AnchorIn, PointIn
  <2> HIDE DEF v
  <2> QED BY <2>1, <2>2
<1>8. ASSUME NEW p \in Stop(t), NEW q \in t.lattice
      PROVE  Owns(p, q, l)
  <2>1. IsAnchor(t.view, p) /\ Opposite(t.view, p) = Whole(t)
    BY <1>1, <1>3, ViewFacts DEF IsAnchor, Whole
  <2>2. /\ q \in Whole(t) /\ IsFiniteSet(Whole(t))
        /\ t.begin <= Rank(t, q) /\ Rank(t, q) < t.end
    BY <1>1, ViewFacts DEF NodeOK, Whole
  <2>3. Rank(t, q) = Position(Opposite(t.view, p), q, l)
    BY <2>1 DEF Rank
  <2>4. Rank(t, q) \in Nat /\ Leaves(t) \in Nat /\ Rank(t, q) < Leaves(t)
    <3>1. Whole(t) \in SUBSET Box
      BY <1>1, ViewFacts DEF Whole
    <3> QED BY <1>1, <2>2, <3>1, RankBelow DEF Rank, Leaves
  <2>5. Interval(t.view, p).lo \in Nat /\ Interval(t.view, p).hi \in Nat
    BY <1>1, <2>1, InsideIsOwned
  <2>6. /\ Interval(t.view, p).lo <= t.begin
        /\ t.end <= Interval(t.view, p).hi \/ Leaves(t) <= Interval(t.view, p).hi
    BY DEF Stop, Stops, Reach, Least
  <2>7. Within(Interval(t.view, p), Rank(t, q))
    BY <1>1, <2>2, <2>4, <2>5, <2>6 DEF Within
  <2> QED BY <1>1, <2>1, <2>2, <2>3, <2>7, InsideIsOwned DEF Inside
<1>9. NodePairs(t) = {z \in Pair : /\ AnchorIn(t, z) \in t.source
                                   /\ PointIn(t, z) \in t.lattice
                                   /\ Owns(AnchorIn(t, z), PointIn(t, z), l)
                                   /\ Meets(geo, z[1], z[2], l + 1 .. Dim)}
  BY NodePairsAre
<1>10. ViewPairs(v) = {z \in NodePairs(t) : AnchorIn(t, z) \in Stop(t)}
  BY <1>3, <1>7, <1>8, <1>9
<1> QED BY <1>5, <1>10

\* Routing a node: an anchor that stops takes its pairs to the next level, and
\* of any other the pairs go left or right with their points (route_tree 336-418).
LEMMA RouteNodePartitions ==
  ASSUME geo \in Geometry, NEW t \in Node, NodeOK(t)
  PROVE  Partitions({<<"node", c>> : c \in Children(t)}
                      \cup (IF EmptyView(NextView(t)) THEN {} ELSE {<<"view", NextView(t)>>}),
                    <<"node", t>>)
<1> DEFINE l   == t.view.level
           v   == NextView(t)
           new == {<<"node", c>> : c \in Children(t)}
                    \cup (IF EmptyView(v) THEN {} ELSE {<<"view", v>>})
           p(z) == AnchorIn(t, z)
           q(z) == PointIn(t, z)
<1>1. /\ t.view \in View /\ t.begin \in Nat /\ t.end \in Nat /\ l \in Dims
  BY DEF Node, View
<1>2. \A c : c \in Children(t) <=> /\ c = Left(t) \/ c = Right(t)
                                   /\ t.end - t.begin > 1 /\ c.begin < Leaves(t)
  BY DEF Children, Left, Right
<1>3. ViewPairs(v) = {z \in NodePairs(t) : p(z) \in Stop(t)}
  BY NextViewFacts
<1>4. NodePairs(t) = {z \in Pair : /\ p(z) \in t.source /\ q(z) \in t.lattice
                                   /\ Owns(p(z), q(z), l)
                                   /\ Meets(geo, z[1], z[2], l + 1 .. Dim)}
  BY NodePairsAre
<1>5. ASSUME NEW c \in Children(t)
      PROVE  NodePairs(c) = {z \in NodePairs(t) : /\ p(z) \in c.source
                                                  /\ q(z) \in c.lattice}
  <2>1. /\ c \in Node /\ NodeOK(c) /\ c.view = t.view /\ c.tree = t.tree
        /\ c.source \subseteq t.source /\ c.lattice \subseteq t.lattice
    BY <1>2, ChildFacts
  <2>2. \A z : AnchorIn(c, z) = p(z) /\ PointIn(c, z) = q(z)
    BY <2>1 DEF AnchorIn, PointIn
  <2>3. NodePairs(c) = {z \in Pair : /\ p(z) \in c.source /\ q(z) \in c.lattice
                                     /\ Owns(p(z), q(z), l)
                                     /\ Meets(geo, z[1], z[2], l + 1 .. Dim)}
    BY <2>1, <2>2, NodePairsAre
  <2> QED BY <1>4, <2>1, <2>3
<1>6. /\ \A c : PairsOf(<<"node", c>>) = NodePairs(c)
      /\ PairsOf(<<"view", v>>) = ViewPairs(v)
  BY PairsOfTag
<1>7. ASSUME NEW n \in new
      PROVE  PairsOf(n) \subseteq NodePairs(t)
  BY <1>3, <1>5, <1>6
<1>8. ASSUME NEW z \in NodePairs(t), p(z) \in Stop(t)
      PROVE  \E n \in new : z \in PairsOf(n) /\ \A m \in new \ {n} : z \notin PairsOf(m)
  <2>1. z \in ViewPairs(v)
    BY <1>3, <1>8
  <2>2. ~EmptyView(v)
    BY <2>1 DEF ViewPairs, EmptyView
  <2>3. \A c \in Children(t) : p(z) \notin c.source
    BY <1>2, <1>8, ChildFacts
  <2>4. \A c \in Children(t) : z \notin NodePairs(c)
    BY <1>5, <2>3
  <2> HIDE DEF v
  <2> QED BY <1>6, <2>1, <2>2, <2>4
<1>9. ASSUME NEW z, NEW c \in Children(t), z \in NodePairs(c), z \notin ViewPairs(v),
              \A d \in Children(t) : d # c => z \notin NodePairs(d)
       PROVE  \E n \in new : z \in PairsOf(n) /\ \A m \in new \ {n} : z \notin PairsOf(m)
  <2>1. <<"node", c>> \in new /\ z \in PairsOf(<<"node", c>>)
    BY <1>6, <1>9
  <2>2. ASSUME NEW m \in new, m # <<"node", c>>
        PROVE  z \notin PairsOf(m)
    <3>1. CASE m = <<"view", v>>
      BY <1>6, <1>9, <3>1
    <3>2. CASE \E d \in Children(t) : m = <<"node", d>>
      BY <1>6, <1>9, <2>2, <3>2
    <3> QED BY <3>1, <3>2
  <2> HIDE DEF new
  <2> QED BY <2>1, <2>2
<1>10. ASSUME NEW z \in NodePairs(t), p(z) \notin Stop(t)
      PROVE  \E n \in new : z \in PairsOf(n) /\ \A m \in new \ {n} : z \notin PairsOf(m)
  <2> DEFINE i == Reach(t, p(z))
             k == Rank(t, q(z))
  <2>1. p(z) \in t.source /\ q(z) \in t.lattice /\ Owns(p(z), q(z), l)
    BY <1>4
  <2>2. /\ IsAnchor(t.view, p(z)) /\ Opposite(t.view, p(z)) = Whole(t)
        /\ q(z) \in Whole(t) /\ Whole(t) \in SUBSET Box
        /\ t.begin <= k /\ k < t.end
    BY <1>1, <2>1, ViewFacts DEF NodeOK, Anchors, Whole, IsAnchor
  <2>3. i.lo \in Nat /\ i.hi \in Nat /\ i.lo <= k /\ k < i.hi
    <3>1. q(z) \in Inside(t.view, p(z)) /\ i = Interval(t.view, p(z))
      BY <1>1, <2>1, <2>2, InsideIsOwned DEF Reach
    <3>2. Within(i, k)
      BY <2>2, <3>1 DEF Inside, Rank
    <3> QED BY <1>1, <2>2, <3>1, <3>2, InsideIsOwned DEF Within
  <2>4. k \in Nat /\ Leaves(t) \in Nat /\ k < Leaves(t)
    BY <1>1, <2>2, RankBelow DEF Rank, Leaves
  <2>5. ~(i.lo <= t.begin /\ Least(t.end, Leaves(t)) <= i.hi)
    BY <1>10, <2>1 DEF Stop, Stops
  <2>6. t.end - t.begin > 1
    BY <1>1, <2>2, <2>3, <2>4, <2>5 DEF Least
  <2>7. Middle(t) \in Nat /\ t.begin < Middle(t) /\ Middle(t) < t.end
    BY <1>1, <2>6, MiddleFacts DEF Middle
  <2>8. /\ Left(t).begin = t.begin /\ Right(t).begin = Middle(t)
        /\ Left(t).lattice = {x \in t.lattice : GoesLeft(t, x)}
        /\ Right(t).lattice = {x \in t.lattice : ~GoesLeft(t, x)}
        /\ Left(t).source = {x \in t.source \ Stop(t) :
              Greatest(Reach(t, x).lo, t.begin) < Least(Reach(t, x).hi, Least(Middle(t), Leaves(t)))}
        /\ Right(t).source = {x \in t.source \ Stop(t) :
              Greatest(Reach(t, x).lo, Middle(t)) < Least(Reach(t, x).hi, Least(t.end, Leaves(t)))}
    BY DEF Left, Right, Child, Node
  <2>9. z \notin ViewPairs(v)
    BY <1>3, <1>10
  <2>10. CASE GoesLeft(t, q(z))
    <3>1. k < Middle(t)
      BY <2>10 DEF GoesLeft
    <3>2. p(z) \in Left(t).source
      BY <1>1, <1>10, <2>1, <2>2, <2>3, <2>4, <2>7, <2>8, <3>1 DEF Greatest, Least
    <3>3. Left(t) \in Children(t)
      BY <1>1, <1>2, <2>2, <2>4, <2>6, <2>8
    <3>4. z \in NodePairs(Left(t))
      BY <1>5, <2>1, <2>8, <2>10, <3>2, <3>3
    <3>5. \A c \in Children(t) : c # Left(t) => z \notin NodePairs(c)
      BY <1>2, <1>5, <2>8, <2>10
    <3> QED BY <1>9, <2>9, <3>3, <3>4, <3>5
  <2>11. CASE ~GoesLeft(t, q(z))
    <3>1. Middle(t) <= k
      BY <2>4, <2>7, <2>11 DEF GoesLeft
    <3>2. p(z) \in Right(t).source
      BY <1>1, <1>10, <2>1, <2>2, <2>3, <2>4, <2>7, <2>8, <3>1 DEF Greatest, Least
    <3>3. Right(t) \in Children(t)
      BY <1>2, <2>4, <2>6, <2>7, <2>8, <3>1
    <3>4. z \in NodePairs(Right(t))
      BY <1>5, <2>1, <2>8, <2>11, <3>2, <3>3
    <3>5. \A c \in Children(t) : c # Right(t) => z \notin NodePairs(c)
      BY <1>2, <1>5, <2>8, <2>11
    <3> QED BY <1>9, <2>9, <3>3, <3>4, <3>5
  <2> QED BY <2>10, <2>11
<1> QED BY <1>6, <1>7, <1>8, <1>10 DEF Partitions

\* An anchor of a last view holds the pairs of the view that it owns.
LEMMA AnchorPairsAre ==
  ASSUME geo \in Geometry, NEW v \in View, v.level = Dim, NEW p, IsAnchor(v, p)
  PROVE  AnchorPairs([view |-> v, box |-> p]) =
           {z \in ViewPairs(v) : \/ z[1] = p /\ Owns(p, z[2], Dim)
                                 \/ z[2] = p /\ Owns(p, z[1], Dim)}
<1> DEFINE w    == [view |-> v, box |-> p]
           mine == {z \in ViewPairs(v) : \/ z[1] = p /\ Owns(p, z[2], Dim)
                                         \/ z[2] = p /\ Owns(p, z[1], Dim)}
<1>1. /\ v.a \subseteq Valid(geo) \cap R /\ v.b \subseteq Valid(geo) \cap S
      /\ \A x \in v.a : x \notin S /\ Opposite(v, x) = v.b
      /\ \A x \in v.b : x \notin R /\ Opposite(v, x) = v.a
      /\ Dim \in Dims
  BY ViewFacts
<1>2. AnchorPairs(w) = {PairOf(p, q) : q \in Inside(v, p)}
  BY DEF AnchorPairs
<1>3. Inside(v, p) = {q \in Opposite(v, p) : Owns(p, q, Dim)}
  BY InsideIsOwned
<1>4. \A z : z \in ViewPairs(v) <=> /\ z \in v.a \X v.b /\ Meets(geo, z[1], z[2], {Dim})
  BY MeetsFacts DEF ViewPairs
<1>5. CASE p \in v.a
  <2>1. p \in R /\ Opposite(v, p) = v.b /\ p \notin v.b
    BY <1>1, <1>5
  <2>2. \A q : PairOf(p, q) = <<p, q>>
    BY <2>1 DEF PairOf
  <2>3. \A q \in v.b : Owns(p, q, Dim) => Meets(geo, p, q, {Dim})
    BY <1>1, <1>5, OneOwner
  <2>4. ASSUME NEW z \in AnchorPairs(w)
        PROVE  z \in mine
    <3>1. PICK q \in Inside(v, p) : z = <<p, q>>
      BY <1>2, <2>2
    <3>2. q \in v.b /\ Owns(p, q, Dim)
      BY <1>3, <2>1
    <3>3. z \in v.a \X v.b /\ z[1] = p /\ z[2] = q
      BY <1>5, <3>1, <3>2
    <3>4. z \in ViewPairs(v)
      BY <1>4, <2>3, <3>2, <3>3
    <3>5. Owns(p, z[2], Dim)
      BY <3>2, <3>3
    <3> QED BY <3>3, <3>4, <3>5
  <2>5. ASSUME NEW z \in mine
        PROVE  z \in AnchorPairs(w)
    <3>1. z = <<z[1], z[2]>> /\ z[1] \in v.a /\ z[2] \in v.b
      BY <1>4
    <3>2. z[1] = p /\ Owns(p, z[2], Dim)
      BY <2>1, <3>1
    <3>3. z[2] \in Inside(v, p)
      BY <1>3, <2>1, <3>1, <3>2
    <3> QED BY <1>2, <2>2, <3>1, <3>2, <3>3
  <2> QED BY <2>4, <2>5
<1>6. CASE p \in v.b
  <2>1. p \notin R /\ Opposite(v, p) = v.a /\ p \notin v.a
    BY <1>1, <1>6
  <2>2. \A q : PairOf(p, q) = <<q, p>>
    BY <2>1 DEF PairOf
  <2>3. \A q \in v.a : Owns(p, q, Dim) => Meets(geo, q, p, {Dim})
    BY <1>1, <1>6, OneOwner
  <2>4. ASSUME NEW z \in AnchorPairs(w)
        PROVE  z \in mine
    <3>1. PICK q \in Inside(v, p) : z = <<q, p>>
      BY <1>2, <2>2
    <3>2. q \in v.a /\ Owns(p, q, Dim)
      BY <1>3, <2>1
    <3>3. z \in v.a \X v.b /\ z[1] = q /\ z[2] = p
      BY <1>6, <3>1, <3>2
    <3>4. z \in ViewPairs(v)
      BY <1>4, <2>3, <3>2, <3>3
    <3>5. Owns(p, z[1], Dim)
      BY <3>2, <3>3
    <3> QED BY <3>3, <3>4, <3>5
  <2>5. ASSUME NEW z \in mine
        PROVE  z \in AnchorPairs(w)
    <3>1. z = <<z[1], z[2]>> /\ z[1] \in v.a /\ z[2] \in v.b
      BY <1>4
    <3>2. z[2] = p /\ Owns(p, z[1], Dim)
      BY <2>1, <3>1
    <3>3. z[1] \in Inside(v, p)
      BY <1>3, <2>1, <3>1, <3>2
    <3> QED BY <1>2, <2>2, <3>1, <3>2, <3>3
  <2> QED BY <2>4, <2>5
<1> QED BY <1>5, <1>6 DEF IsAnchor

\* A last view: each of its pairs has one anchor (compute_base_atoms 431-501).
LEMMA OpenLastPartitions ==
  ASSUME geo \in Geometry, NEW v \in View, v.level = Dim
  PROVE  Partitions({<<"anchor", w>> : w \in [view : {v}, box : v.a \cup v.b]},
                    <<"view", v>>)
<1> DEFINE on(p) == [view |-> v, box |-> p]
           new   == {<<"anchor", w>> : w \in [view : {v}, box : v.a \cup v.b]}
<1>1. \A n : n \in new <=> \E p \in v.a \cup v.b : n = <<"anchor", on(p)>>
  OBVIOUS
<1>2. \A p \in v.a \cup v.b :
        PairsOf(<<"anchor", on(p)>>) =
          {z \in ViewPairs(v) : \/ z[1] = p /\ Owns(p, z[2], Dim)
                                \/ z[2] = p /\ Owns(p, z[1], Dim)}
  <2>1. ASSUME NEW p \in v.a \cup v.b
        PROVE  AnchorPairs(on(p)) =
                 {z \in ViewPairs(v) : \/ z[1] = p /\ Owns(p, z[2], Dim)
                                       \/ z[2] = p /\ Owns(p, z[1], Dim)}
    <3>1. IsAnchor(v, p)
      BY DEF IsAnchor
    <3> QED BY <3>1, AnchorPairsAre
  <2>2. \A p : PairsOf(<<"anchor", on(p)>>) = AnchorPairs(on(p))
    BY PairsOfTag
  <2> QED BY <2>1, <2>2
<1>3. ASSUME NEW z \in ViewPairs(v)
      PROVE  /\ z[1] \in v.a /\ z[2] \in v.b /\ z[1] # z[2]
             /\ Owns(z[1], z[2], Dim) \/ Owns(z[2], z[1], Dim)
             /\ ~(Owns(z[1], z[2], Dim) /\ Owns(z[2], z[1], Dim))
  <2>1. /\ z[1] \in v.a /\ z[2] \in v.b /\ Meets(geo, z[1], z[2], {Dim})
        /\ z[1] \in Valid(geo) \cap R /\ z[2] \in Valid(geo) \cap S
        /\ Dim \in Dims
    BY ViewFacts, MeetsFacts DEF ViewPairs
  <2>2. z[1] # z[2]
    BY <2>1, BoxFacts
  <2> QED BY <2>1, <2>2, OneOwner
<1>4. ASSUME NEW z \in ViewPairs(v)
      PROVE  \E n \in new : z \in PairsOf(n) /\ \A m \in new \ {n} : z \notin PairsOf(m)
  <2>1. PICK p \in v.a \cup v.b : z \in PairsOf(<<"anchor", on(p)>>)
    <3>1. z[1] \in v.a \cup v.b /\ z[2] \in v.a \cup v.b
      BY <1>3
    <3>2. ASSUME Owns(z[1], z[2], Dim)
          PROVE  z \in PairsOf(<<"anchor", on(z[1])>>)
      <4>1. PairsOf(<<"anchor", on(z[1])>>) =
              {y \in ViewPairs(v) : \/ y[1] = z[1] /\ Owns(z[1], y[2], Dim)
                                    \/ y[2] = z[1] /\ Owns(z[1], y[1], Dim)}
        BY <1>2, <3>1
      <4> QED BY <3>2, <4>1
    <3>3. ASSUME Owns(z[2], z[1], Dim)
          PROVE  z \in PairsOf(<<"anchor", on(z[2])>>)
      <4>1. PairsOf(<<"anchor", on(z[2])>>) =
              {y \in ViewPairs(v) : \/ y[1] = z[2] /\ Owns(z[2], y[2], Dim)
                                    \/ y[2] = z[2] /\ Owns(z[2], y[1], Dim)}
        BY <1>2, <3>1
      <4> QED BY <3>3, <4>1
    <3> QED BY <1>3, <3>1, <3>2, <3>3
  <2>2. ASSUME NEW x \in v.a \cup v.b, z \in PairsOf(<<"anchor", on(x)>>)
        PROVE  x = p
    BY <1>2, <1>3, <2>1, <2>2
  <2>3. <<"anchor", on(p)>> \in new
    BY <1>1
  <2>4. \A m \in new \ {<<"anchor", on(p)>>} : z \notin PairsOf(m)
    BY <1>1, <2>2
  <2> HIDE DEF new
  <2> QED BY <2>1, <2>3, <2>4
<1>5. \A n \in new : PairsOf(n) \subseteq ViewPairs(v)
  BY <1>1, <1>2
<1>6. PairsOf(<<"view", v>>) = ViewPairs(v)
  BY PairsOfTag
<1> HIDE DEF new
<1>7. Partitions(new, <<"view", v>>)
  BY <1>4, <1>5, <1>6 DEF Partitions
<1> QED BY <1>7 DEF new

\* An atom holds the pairs of its anchor, and weighs as many; an anchor without
\* an atom has none (compute_base_atoms 481-499).
LEMMA AtomFacts ==
  ASSUME geo \in Geometry, NEW w \in Anchor, w.view.level = Dim, IsAnchor(w.view, w.box)
  PROVE  /\ AtomOf(w) \in Atom
         /\ AtomPairs(AtomOf(w)) = AnchorPairs(w)
         /\ IsFiniteSet(AtomPairs(AtomOf(w)))
         /\ AtomOf(w).weight = Cardinality(AtomPairs(AtomOf(w)))
         /\ AtomOf(w).lo = AtomOf(w).hi => AnchorPairs(w) = {}
<1> DEFINE v == w.view
           p == w.box
           i == Interval(v, p)
           x == AtomOf(w)
<1>1. v \in View /\ p \in Box
  BY DEF Anchor
<1>2. /\ x.path = v.path /\ x.anchor = p /\ x.opposite = Opposite(v, p)
      /\ x.lo = i.lo /\ x.hi = i.hi /\ x.weight = i.hi - i.lo
      /\ x = [path |-> x.path, anchor |-> x.anchor, opposite |-> x.opposite,
              lo |-> x.lo, hi |-> x.hi, weight |-> x.weight]
  BY DEF AtomOf, Weigh
<1>3. /\ i.lo \in Nat /\ i.hi \in Nat /\ i.lo <= i.hi
      /\ IsFiniteSet(Inside(v, p))
      /\ Cardinality(Inside(v, p)) = i.hi - i.lo
  BY <1>1, InsideIsOwned, IntervalCounts
<1>4. x \in Atom
  <2>1. Opposite(v, p) \in SUBSET Box
    BY <1>1, ViewFacts DEF IsAnchor
  <2>2. v.path \in Seq(NodeKey)
    BY <1>1 DEF View
  <2>3. i.hi - i.lo \in Nat
    BY <1>3
  <2> QED BY <1>1, <1>2, <1>3, <2>1, <2>2, <2>3 DEF Atom
<1>5. Inside(v, p) = {q \in x.opposite : Within(x, Position(x.opposite, q, Dim))}
  BY <1>2 DEF Inside, Within
<1>6. AtomPairs(x) = {PairOf(p, q) : q \in Inside(v, p)}
  BY <1>2, <1>5 DEF AtomPairs
<1>7. AnchorPairs(w) = AtomPairs(x)
  BY <1>6 DEF AnchorPairs
<1>8. ExistsBijection(Inside(v, p), AtomPairs(x))
  <2> DEFINE f == [q \in Inside(v, p) |-> PairOf(p, q)]
  <2>1. f \in [Inside(v, p) -> AtomPairs(x)]
    BY <1>6
  <2>2. \A z \in AtomPairs(x) : \E q \in Inside(v, p) : f[q] = z
    BY <1>6
  <2>3. \A q, y \in Inside(v, p) : f[q] = f[y] => q = y
    BY DEF PairOf
  <2>4. f \in Bijection(Inside(v, p), AtomPairs(x))
    BY <2>1, <2>2, <2>3 DEF Bijection, Injection, Surjection, IsInjective
  <2> QED BY <2>4 DEF ExistsBijection
<1>9. IsFiniteSet(AtomPairs(x)) /\ Cardinality(AtomPairs(x)) = i.hi - i.lo
  BY <1>3, <1>8, FS_Bijection
<1>10. i.lo = i.hi => AtomPairs(x) = {}
  BY <1>3, <1>9, FS_EmptySet
<1> QED BY <1>2, <1>4, <1>7, <1>9, <1>10

\* An anchor becomes one atom, or nothing if it has no pairs.
LEMMA MakeAtomPartitions ==
  ASSUME geo \in Geometry, NEW w \in Anchor, w.view.level = Dim, IsAnchor(w.view, w.box)
  PROVE  Partitions(IF AtomOf(w).lo # AtomOf(w).hi THEN {<<"atom", AtomOf(w)>>} ELSE {},
                    <<"anchor", w>>)
<1>1. /\ PairsOf(<<"atom", AtomOf(w)>>) = AtomPairs(AtomOf(w))
      /\ PairsOf(<<"anchor", w>>) = AnchorPairs(w)
  BY PairsOfTag
<1>2. /\ AtomPairs(AtomOf(w)) = AnchorPairs(w)
      /\ AtomOf(w).lo = AtomOf(w).hi => AnchorPairs(w) = {}
  BY AtomFacts
<1> QED BY <1>1, <1>2 DEF Partitions

-----------------------------------------------------------------------------
(* The whole join.                                                         *)

\* The top view holds the whole join.
LEMMA TopViewFacts ==
  /\ TopView \in View
  /\ ViewPairs(TopView) = Join(geo)
  /\ EmptyView(TopView) => Join(geo) = {}
<1>1. TopView \in View
  <2>1. 1 \in Dims /\ <<>> \in Seq(NodeKey)
    BY ShapesAssumption DEF Dims
  <2> QED BY <2>1 DEF TopView, View
<1>2. ViewPairs(TopView) = Join(geo)
  <2>1. \A z : z \in ViewPairs(TopView) <=> /\ z \in ValidR \X ValidS
                                           /\ Meets(geo, z[1], z[2], Dims)
    BY DEF ViewPairs, TopView, Dims
  <2>2. \A z : z \in Join(geo) <=> /\ z \in R \X S
                                  /\ z[1] \in Valid(geo) /\ z[2] \in Valid(geo)
                                  /\ Meets(geo, z[1], z[2], Dims)
    BY DEF Join, Pair, Intersect
  <2>3. \A z : z \in ValidR \X ValidS <=> /\ z \in R \X S
                                         /\ z[1] \in Valid(geo) /\ z[2] \in Valid(geo)
    BY DEF ValidR, ValidS
  <2> QED BY <2>1, <2>2, <2>3
<1>3. EmptyView(TopView) => ViewPairs(TopView) = {}
  BY DEF ViewPairs, EmptyView
<1> QED BY <1>1, <1>2, <1>3

\* The join, and each set of its pairs, is finite.
LEMMA FiniteJoin ==
  IsFiniteSet(Join(geo)) /\ Cardinality(Join(geo)) \in Nat
<1>1. IsFiniteSet(R \X S)
  BY SidesAssumption, FS_Product
<1>2. Join(geo) \subseteq R \X S
  BY DEF Join, Pair
<1> QED BY <1>1, <1>2, FS_Subset, FS_CardinalityType

-----------------------------------------------------------------------------
(* What depends on the input alone, which never changes.                   *)

\* The pairs of a piece of work depend on the input alone, which never changes.
LEMMA PairsStay ==
  ASSUME geo' = geo
  PROVE  /\ Join(geo)' = Join(geo)
         /\ \A w : PairsOf(w)' = PairsOf(w)
         /\ \A x : AtomPairs(x)' = AtomPairs(x)
<1>1. Join(geo)' = Join(geo)
  OBVIOUS
<1>2. \A points, q, j : Position(points, q, j)' = Position(points, q, j)
  BY DEF Position, Precedes
<1>3. \A v, p : Interval(v, p)' = Interval(v, p)
  BY DEF Interval, LowerRank, UpperRank
<1>4. \A v, p : Inside(v, p)' = Inside(v, p)
  BY <1>2, <1>3 DEF Inside
<1>5. \A x : AtomPairs(x)' = AtomPairs(x)
  BY <1>2 DEF AtomPairs
<1>6. \A w : AnchorPairs(w)' = AnchorPairs(w)
  BY <1>4 DEF AnchorPairs
<1>7. \A v : ViewPairs(v)' = ViewPairs(v)
  BY DEF ViewPairs
<1>8. \A v, p, first : Touched(v, p, first)' = Touched(v, p, first)
  BY <1>4 DEF Touched
<1>9. \A t : NodePairs(t)' = NodePairs(t)
  BY <1>8 DEF NodePairs
<1> QED BY <1>1, <1>5, <1>6, <1>7, <1>9, Zenon DEF PairsOf

\* What is known of nodes and views depends on the input alone.
LEMMA WorkStays ==
  ASSUME geo' = geo
  PROVE  /\ \A t : NodeOK(t)' <=> NodeOK(t)
         /\ View' = View /\ Node' = Node /\ Anchor' = Anchor /\ Atom' = Atom
         /\ \A v : EmptyView(v)' <=> EmptyView(v)
<1>1. View' = View
  BY DEF View, ValidR, ValidS
<1>2. Node' = Node /\ Anchor' = Anchor /\ Atom' = Atom
  BY <1>1 DEF Node, Anchor, Atom
<1>3. \A t, q : Rank(t, q)' = Rank(t, q)
  BY DEF Rank, Position, Precedes, Whole
<1>4. \A t : NodeOK(t)' <=> NodeOK(t)
  BY <1>3 DEF NodeOK, Whole, Anchors
<1> QED BY <1>1, <1>2, <1>4 DEF EmptyView
=============================================================================
