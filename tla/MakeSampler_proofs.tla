------------------------- MODULE MakeSampler_proofs -------------------------
(***************************************************************************)
(* Proofs about the two samplers that rest on range trees, the plane sweep *)
(* and the lifted one, about the packed array that a sweep in one          *)
(* dimension uses instead, and about the object that make_sampler returns, *)
(* for any finite sets of boxes, any corners and any number of dimensions. *)
(*                                                                         *)
(* The argument for the sweep: the events swept so far come before the     *)
(* pending ones, so the active points are those started and not ended.  At *)
(* a START event the active partners that pass the query are then exactly  *)
(* the block of the event, the blocks met so far are disjoint, and their   *)
(* sizes add up to the number of pairs both of whose boxes have started.   *)
(*                                                                         *)
(* For the lifted sampler: two boxes meet exactly when the lifted point of *)
(* one is in the range of the other, so the degree of a box is the size of *)
(* its row of the join.  The rows taken by the constructor are disjoint    *)
(* and, when none is left, make up the join.                               *)
(***************************************************************************)
EXTENDS MakeSampler, DenseActiveSet, NodeRangeTree, FiniteSetTheorems,
        FunctionTheorems, SequenceTheorems, TLAPS

-----------------------------------------------------------------------------
(* The index of a sweep in one dimension, on any set of points.            *)

\* The two actions, with the guard of Next.
LEMMA DenseNextCases ==
  ASSUME [DenseNext]_denseVars
  PROVE  (\E p \in Universe : Insert(p) \/ Erase(p)) \/ UNCHANGED denseVars
BY DEF DenseNext

\* Inductive as it stands: erasing p needs that no other point claims its place.
DenseInv == DenseTypeOK /\ RanksAreActive

\* Appending a point gives it the new last rank.
LEMMA DenseInsert ==
  ASSUME DenseInv, NEW p \in Universe, Insert(p)
  PROVE  DenseInv'
<1> USE DEF DenseInv, DenseTypeOK, RanksAreActive, Insert, npos
<1>1. /\ values' \in Seq(Universe) /\ Len(values') = Len(values) + 1
      /\ \A i \in 1 .. Len(values) : values'[i] = values[i]
      /\ values'[Len(values) + 1] = p
  OBVIOUS
<1>2. DenseTypeOK'
  BY <1>1
<1>3. \A q \in Universe :
        (IF flag[q] THEN position[q] \in 1 .. Len(values)
                         /\ values[position[q]] = q
                    ELSE position[q] = npos)'
  BY <1>1
<1>4. \A i \in 1 .. Len(values') :
        flag'[values'[i]] /\ position'[values'[i]] = i
  BY <1>1
<1> QED BY <1>2, <1>3, <1>4

\* What the swap-erasure leaves in the array: the hole at i holds the last
\* point, the other places keep theirs, and the array is one shorter.
LEMMA MoveLastShape ==
  ASSUME NEW T, NEW v \in Seq(T), NEW i \in 1 .. Len(v)
  PROVE  /\ MoveLast(v, i) \in Seq(T)
         /\ Len(MoveLast(v, i)) = Len(v) - 1
         /\ \A j \in 1 .. Len(v) - 1 :
              MoveLast(v, i)[j] = IF j = i THEN v[Len(v)] ELSE v[j]
<1> DEFINE w == [v EXCEPT ![i] = v[Len(v)]]
<1>1. w \in Seq(T) /\ Len(w) = Len(v)
      /\ \A j \in 1 .. Len(v) : w[j] = IF j = i THEN v[Len(v)] ELSE v[j]
  BY ExceptSeq
<1> HIDE DEF w
<1>2. /\ SubSeq(w, 1, Len(v) - 1) \in Seq(T)
      /\ Len(SubSeq(w, 1, Len(v) - 1)) = Len(v) - 1
      /\ \A j \in 1 .. Len(v) - 1 : SubSeq(w, 1, Len(v) - 1)[j] = w[j]
  BY <1>1, SubSeqProperties
<1> QED BY <1>1, <1>2 DEF MoveLast, w

\* Erasing gives the hole's rank to the point that stood last.
LEMMA DenseErase ==
  ASSUME DenseInv, NEW p \in Universe, Erase(p)
  PROVE  DenseInv'
<1> DEFINE hole == position[p]
           last == values[Len(values)]
<1>1. /\ values \in Seq(Universe) /\ hole \in 1 .. Len(values)
      /\ values[hole] = p /\ values' = MoveLast(values, hole)
  BY DEF DenseInv, DenseTypeOK, RanksAreActive, Erase
<1>3. /\ values' \in Seq(Universe) /\ Len(values') = Len(values) - 1
      /\ \A j \in 1 .. Len(values) - 1 :
           values'[j] = IF j = hole THEN last ELSE values[j]
  <2> HIDE DEF hole
  <2> QED BY <1>1, MoveLastShape
<1>2. /\ last \in Universe /\ flag[last] /\ position[last] = Len(values)
      /\ last = p <=> hole = Len(values)
  BY <1>1 DEF DenseInv, DenseTypeOK, RanksAreActive
<1>4. \A q \in Universe :
        /\ position'[q] = IF q = p THEN npos
                          ELSE IF q = last THEN hole ELSE position[q]
        /\ flag'[q] <=> q # p /\ flag[q]
  BY <1>1, <1>2 DEF DenseInv, DenseTypeOK, Erase, Reposition
<1>5. DenseTypeOK'
  BY <1>1, <1>2, <1>3 DEF DenseInv, DenseTypeOK, Erase, Reposition, npos
<1> HIDE DEF hole, last
<1>6. ASSUME NEW q \in Universe
      PROVE  (IF flag[q] THEN position[q] \in 1 .. Len(values)
                              /\ values[position[q]] = q
                         ELSE position[q] = npos)'
  <2>1. CASE q = p
    BY <1>4, <2>1
  <2>2. CASE q # p /\ q = last
    <3>1. position'[q] = hole /\ hole \in 1 .. Len(values) - 1
      BY <1>1, <1>2, <1>4, <2>2
    <3>2. flag'[q]
      BY <1>2, <1>4, <2>2
    <3> QED BY <1>3, <2>2, <3>1, <3>2
  <2>3. CASE q # p /\ q # last
    <3>1. IF flag[q] THEN position[q] \in 1 .. Len(values)
                          /\ values[position[q]] = q
                     ELSE position[q] = npos
      BY DEF DenseInv, RanksAreActive
    <3>2. flag[q] => position[q] \in 1 .. Len(values) - 1 /\ position[q] # hole
      BY <1>1, <2>3, <3>1 DEF last
    <3>3. flag'[q] <=> flag[q]
      BY <1>4, <2>3
    <3>4. position'[q] = position[q]
      BY <1>4, <2>3
    <3>5. CASE flag[q]
      BY <1>3, <3>1, <3>2, <3>3, <3>4, <3>5
    <3>6. CASE ~flag[q]
      BY <3>1, <3>3, <3>4, <3>6
    <3> QED BY <3>5, <3>6
  <2> QED BY <2>1, <2>2, <2>3
<1>7. ASSUME NEW i \in 1 .. Len(values')
      PROVE  flag'[values'[i]] /\ position'[values'[i]] = i
  <2>0. i \in 1 .. Len(values) - 1
    BY <1>3
  <2>1. CASE i = hole
    <3>1. values'[i] = last /\ last # p
      BY <1>1, <1>2, <1>3, <2>0, <2>1
    <3> QED BY <1>2, <1>4, <2>1, <3>1
  <2>2. CASE i # hole
    <3>0. values'[i] = values[i] /\ i \in 1 .. Len(values)
      BY <1>1, <1>3, <2>0, <2>2
    <3>1. /\ values'[i] = values[i] /\ values[i] \in Universe
          /\ position[values[i]] = i /\ flag[values[i]]
      BY <1>1, <3>0 DEF DenseInv, RanksAreActive
    <3>2. values[i] # p /\ values[i] # last
      BY <1>1, <1>2, <2>0, <2>2, <3>1 DEF hole
    <3> QED BY <1>4, <3>1, <3>2
  <2> QED BY <2>1, <2>2
<1> QED BY <1>5, <1>6, <1>7 DEF DenseInv, RanksAreActive

\* The invariant holds initially and every step preserves it.
LEMMA DenseInductive == DenseSpec => []DenseInv
<1>1. DenseInit => DenseInv
  BY DEF DenseInit, DenseInv, DenseTypeOK, RanksAreActive, npos
<1>2. DenseInv /\ [DenseNext]_denseVars => DenseInv'
  <2> SUFFICES ASSUME DenseInv, [DenseNext]_denseVars PROVE DenseInv'
    OBVIOUS
  <2>1. CASE UNCHANGED denseVars
    BY <2>1 DEF denseVars, DenseInv, DenseTypeOK, RanksAreActive
  <2> QED BY <2>1, DenseNextCases, DenseInsert, DenseErase
<1> QED BY <1>1, <1>2, PTL DEF DenseSpec

\* The array holds points of the universe and each flag is a boolean, through
\* any sequence of insert and erase (472-490).
THEOREM DenseTypeCorrect == DenseSpec => []DenseTypeOK
BY DenseInductive, PTL DEF DenseInv

\* A uniform rank is a uniform active point (sample, 496-501): the ranks and
\* the active points correspond one to one after any swap-erasure.
THEOREM RanksAreAlwaysActive == DenseSpec => []RanksAreActive
BY DenseInductive, PTL DEF DenseInv

\* The dense array is the index of active points that the sweep relies on.
THEOREM DenseImplementsIndex == DenseSpec => IsActiveIndex
<1>1. DenseInit => Index!Init
  BY DEF DenseInit, Index!Init, ActivePoints
<1>2. DenseInv /\ [DenseNext]_denseVars => [Index!Next]_ActivePoints
  <2> SUFFICES ASSUME DenseInv, [DenseNext]_denseVars PROVE [Index!Next]_ActivePoints
    OBVIOUS
  <2>1. ASSUME NEW p \in Universe, Insert(p) PROVE Index!Insert(p)
    BY <2>1 DEF Insert, Index!Insert, ActivePoints, DenseInv, DenseTypeOK
  <2>2. ASSUME NEW p \in Universe, Erase(p) PROVE Index!Erase(p)
    BY <2>2 DEF Erase, Index!Erase, ActivePoints, DenseInv, DenseTypeOK
  <2>3. CASE UNCHANGED denseVars
    BY <2>3 DEF denseVars, ActivePoints
  <2> QED BY <2>1, <2>2, <2>3, DenseNextCases DEF Index!Next
<1>3. QED
  BY <1>1, <1>2, DenseInductive, PTL
  DEF DenseSpec, IsActiveIndex, Index!Spec

-----------------------------------------------------------------------------
(* The range tree: the order of points along an axis.                      *)

\* Every point has coordinates.
Placed == \A p \in Skeleton : \A a \in 1 .. Axes : coordinate[p][a] \in Int

\* The points of P that come before p along axis a, and their number.
Ahead(P, p, a)  == {q \in P : KeyLess(q, p, a)}
RankIn(P, p, a) == Cardinality(Ahead(P, p, a))

\* A smaller part of a finite set has fewer elements.
LEMMA Fewer ==
  ASSUME NEW S1, IsFiniteSet(S1), NEW T1 \in SUBSET S1
  PROVE  /\ IsFiniteSet(T1) /\ Cardinality(T1) \in Nat /\ Cardinality(S1) \in Nat
         /\ Cardinality(T1) <= Cardinality(S1)
         /\ T1 # S1 => Cardinality(T1) < Cardinality(S1)
<1>1. /\ IsFiniteSet(T1) /\ Cardinality(T1) <= Cardinality(S1)
      /\ Cardinality(S1) = Cardinality(T1) => S1 = T1
  BY FS_Subset
<1>2. Cardinality(T1) \in Nat /\ Cardinality(S1) \in Nat
  BY <1>1, FS_CardinalityType
<1> QED BY <1>1, <1>2

\* The first numbers are so many.
LEMMA UpTo ==
  ASSUME NEW n \in Nat
  PROVE  /\ IsFiniteSet(1 .. n) /\ Cardinality(1 .. n) = n
         /\ IsFiniteSet(0 .. n - 1) /\ Cardinality(0 .. n - 1) = n
<1>1. IsFiniteSet(1 .. n) /\ Cardinality(1 .. n) = n
  BY FS_Interval
<1>2. IsFiniteSet(0 .. n - 1) /\ Cardinality(0 .. n - 1) = n
  BY FS_Interval
<1> QED BY <1>1, <1>2

\* The order is total, as the numbers of points break ties.
LEMMA KeyOrder ==
  ASSUME Placed, NEW a \in 1 .. Axes, NEW p \in Skeleton, NEW q \in Skeleton
  PROVE  /\ ~KeyLess(p, p, a)
         /\ \A r \in Skeleton : KeyLess(p, q, a) /\ KeyLess(q, r, a) => KeyLess(p, r, a)
         /\ p # q => KeyLess(p, q, a) \/ KeyLess(q, p, a)
         /\ ~(KeyLess(p, q, a) /\ KeyLess(q, p, a))
<1>1. /\ \A r \in Skeleton : r \in Int /\ coordinate[r][a] \in Int
  BY SkeletonAssumption DEF Placed
<1>2. p \in Int /\ q \in Int /\ coordinate[p][a] \in Int /\ coordinate[q][a] \in Int
  BY <1>1
<1>3. ~KeyLess(p, p, a)
  BY <1>2 DEF KeyLess
<1>4. ASSUME NEW r \in Skeleton, KeyLess(p, q, a), KeyLess(q, r, a)
      PROVE  KeyLess(p, r, a)
  BY <1>1, <1>2, <1>4 DEF KeyLess
<1>5. p # q => KeyLess(p, q, a) \/ KeyLess(q, p, a)
  BY <1>2 DEF KeyLess
<1>6. ~(KeyLess(p, q, a) /\ KeyLess(q, p, a))
  BY <1>2 DEF KeyLess
<1> QED BY <1>3, <1>4, <1>5, <1>6

\* In a set of points the number of those ahead is a rank: it grows along the
\* axis and takes every value below the size of the set once.
LEMMA RankFacts ==
  ASSUME Placed, NEW a \in 1 .. Axes, NEW P \in SUBSET Skeleton
  PROVE  /\ IsFiniteSet(P) /\ Cardinality(P) \in Nat
         /\ \A p \in P : RankIn(P, p, a) \in 0 .. Cardinality(P) - 1
         /\ \A p, q \in P : KeyLess(p, q, a) => RankIn(P, p, a) < RankIn(P, q, a)
         /\ \A p, q \in P : RankIn(P, p, a) = RankIn(P, q, a) => p = q
         /\ \A r \in 0 .. Cardinality(P) - 1 : \E p \in P : RankIn(P, p, a) = r
<1>1. IsFiniteSet(P) /\ Cardinality(P) \in Nat
  BY SkeletonAssumption, Fewer
<1>2. \A p \in P : /\ IsFiniteSet(Ahead(P, p, a)) /\ Ahead(P, p, a) \subseteq P
                   /\ RankIn(P, p, a) \in Nat
  <2>1. \A p \in P : Ahead(P, p, a) \in SUBSET P
    BY DEF Ahead
  <2> QED BY <1>1, <2>1, Fewer DEF RankIn
<1>3. ASSUME NEW p \in P
      PROVE  RankIn(P, p, a) \in 0 .. Cardinality(P) - 1
  <2>1. p \notin Ahead(P, p, a)
    BY KeyOrder DEF Ahead
  <2>2. RankIn(P, p, a) < Cardinality(P)
    BY <1>1, <1>2, <2>1, Fewer DEF RankIn
  <2> QED BY <1>1, <1>2, <2>2
<1>4. ASSUME NEW p \in P, NEW q \in P, KeyLess(p, q, a)
      PROVE  RankIn(P, p, a) < RankIn(P, q, a)
  <2>1. \A r \in P : KeyLess(r, p, a) => KeyLess(r, q, a)
    BY <1>4, KeyOrder
  <2>2. p \in Ahead(P, q, a) /\ p \notin Ahead(P, p, a)
    BY <1>4, KeyOrder DEF Ahead
  <2>3. Ahead(P, p, a) \subseteq Ahead(P, q, a)
    BY <2>1 DEF Ahead
  <2> QED BY <1>2, <2>2, <2>3, Fewer DEF RankIn
<1>5. ASSUME NEW p \in P, NEW q \in P, RankIn(P, p, a) = RankIn(P, q, a)
      PROVE  p = q
  <2>1. ~KeyLess(p, q, a) /\ ~KeyLess(q, p, a)
    BY <1>2, <1>4, <1>5
  <2> QED BY <2>1, KeyOrder
<1>6. ASSUME NEW r \in 0 .. Cardinality(P) - 1
      PROVE  \E p \in P : RankIn(P, p, a) = r
  <2> DEFINE rank == [p \in P |-> RankIn(P, p, a)]
             T    == 0 .. Cardinality(P) - 1
  <2>1. IsFiniteSet(T) /\ Cardinality(T) = Cardinality(P)
    BY <1>1, FS_Interval
  <2>2. rank \in [P -> T]
    BY <1>3
  <2>3. \A p, q \in P : rank[p] = rank[q] => p = q
    BY <1>5
  <2>4. r \in T
    OBVIOUS
  <2> HIDE DEF rank, T
  <2>5. rank \in Injection(P, T)
    BY <2>2, <2>3 DEF Injection, IsInjective
  <2>6. rank \in Surjection(P, T)
    BY <1>1, <2>1, <2>5, FS_Injection
  <2>7. \E p \in P : rank[p] = r
    BY <2>4, <2>6 DEF Surjection
  <2> QED BY <2>7 DEF rank
<1> QED BY <1>1, <1>3, <1>4, <1>5, <1>6

-----------------------------------------------------------------------------
(* The range tree: its nodes.                                              *)

\* What a node is.
LEMMA NodeFacts ==
  ASSUME NEW n \in Node
  PROVE  /\ Axis(n) \in 1 .. Axes
         /\ n \in [1 .. Axis(n) -> (SUBSET Skeleton) \ {{}}]
         /\ Points(n) \in SUBSET Skeleton /\ Points(n) # {}
         /\ IsFiniteSet(Points(n)) /\ Cardinality(Points(n)) \in Nat \ {0}
<1>1. PICK a \in 1 .. Axes : n \in [1 .. a -> (SUBSET Skeleton) \ {{}}]
  BY DEF Node
<1>2. Axes \in Nat /\ a \in Nat
  BY SkeletonAssumption
<1>3. Len(n) = a
  BY <1>1, <1>2
<1>4. Points(n) \in (SUBSET Skeleton) \ {{}}
  BY <1>1, <1>2, <1>3 DEF Points
<1>5. IsFiniteSet(Points(n)) /\ Cardinality(Points(n)) \in Nat
  BY <1>4, SkeletonAssumption, Fewer
<1>6. Cardinality(Points(n)) # 0
  BY <1>4, <1>5, FS_EmptySet
<1> QED BY <1>1, <1>3, <1>4, <1>5, <1>6 DEF Axis

\* The node n with other points on its axis.
LEMMA SamePlace ==
  ASSUME NEW n \in Node, NEW P \in (SUBSET Skeleton) \ {{}}, NEW m,
         m = [n EXCEPT ![Len(n)] = P]
  PROVE  m \in Node /\ Axis(m) = Axis(n) /\ Points(m) = P
<1>1. Axis(n) \in 1 .. Axes /\ n \in [1 .. Axis(n) -> (SUBSET Skeleton) \ {{}}]
  BY NodeFacts
<1>2. m \in [1 .. Axis(n) -> (SUBSET Skeleton) \ {{}}] /\ m[Axis(n)] = P
  BY <1>1 DEF Axis
<1>3. Axis(n) \in Nat
  BY <1>1, SkeletonAssumption
<1>4. Len(m) = Axis(n)
  BY <1>2, <1>3
<1>5. m \in Node
  BY <1>1, <1>2 DEF Node
<1> QED BY <1>2, <1>4, <1>5 DEF Axis, Points

\* The first half of the points is neither none nor all of them, and comes
\* before the other half.
LEMMA LowerHalfFacts ==
  ASSUME Placed, NEW n \in Node, ~IsLeaf(n)
  PROVE  /\ LowerHalf(n) \subseteq Points(n)
         /\ LowerHalf(n) # {} /\ LowerHalf(n) # Points(n)
         /\ \A p \in LowerHalf(n), q \in Points(n) \ LowerHalf(n) : KeyLess(p, q, Axis(n))
<1> DEFINE P == Points(n)
           a == Axis(n)
           h == Cardinality(P) \div 2
<1>1. /\ a \in 1 .. Axes /\ P \in SUBSET Skeleton
      /\ IsFiniteSet(P) /\ Cardinality(P) \in Nat \ {0, 1}
  BY NodeFacts DEF IsLeaf
<1>2. h \in 1 .. Cardinality(P) - 1
  BY <1>1
<1>3. LowerHalf(n) = {p \in P : RankIn(P, p, a) < h}
  BY DEF LowerHalf, RankIn, Ahead
<1> HIDE DEF P, a, h
<1>4. /\ \A p \in P : RankIn(P, p, a) \in 0 .. Cardinality(P) - 1
      /\ \A p, q \in P : KeyLess(p, q, a) => RankIn(P, p, a) < RankIn(P, q, a)
      /\ \A r \in 0 .. Cardinality(P) - 1 : \E p \in P : RankIn(P, p, a) = r
  BY <1>1, RankFacts
<1>5. PICK p \in P : RankIn(P, p, a) = 0
  BY <1>1, <1>4
<1>6. p \in LowerHalf(n)
  BY <1>2, <1>3, <1>5
<1>7. PICK q \in P : RankIn(P, q, a) = Cardinality(P) - 1
  BY <1>1, <1>4
<1>8. q \notin LowerHalf(n)
  BY <1>1, <1>2, <1>3, <1>7
<1>9. ASSUME NEW x \in LowerHalf(n), NEW y \in P \ LowerHalf(n)
      PROVE  KeyLess(x, y, a)
  <2>1. RankIn(P, x, a) < h /\ ~(RankIn(P, y, a) < h) /\ x \in P /\ y \in P /\ x # y
    BY <1>3
  <2>2. ~KeyLess(y, x, a)
    BY <1>1, <1>2, <1>4, <2>1
  <2> QED BY <1>1, <2>1, <2>2, KeyOrder
<1>10. LowerHalf(n) \subseteq P
  BY <1>3
<1> QED BY <1>6, <1>7, <1>8, <1>9, <1>10 DEF P, a

\* The halves of a node that is not a leaf divide its points.
LEMMA HalvesFacts ==
  ASSUME Placed, NEW n \in Node, ~IsLeaf(n)
  PROVE  /\ Left(n) \in Node /\ Axis(Left(n)) = Axis(n)
         /\ Right(n) \in Node /\ Axis(Right(n)) = Axis(n)
         /\ Points(Left(n)) \cup Points(Right(n)) = Points(n)
         /\ Points(Left(n)) \cap Points(Right(n)) = {}
         /\ \A p \in Points(Left(n)), q \in Points(Right(n)) : KeyLess(p, q, Axis(n))
         /\ Cardinality(Points(Left(n))) < Cardinality(Points(n))
         /\ Cardinality(Points(Right(n))) < Cardinality(Points(n))
<1>1. /\ LowerHalf(n) \subseteq Points(n) /\ LowerHalf(n) # {} /\ LowerHalf(n) # Points(n)
      /\ \A p \in LowerHalf(n), q \in Points(n) \ LowerHalf(n) : KeyLess(p, q, Axis(n))
  BY LowerHalfFacts
<1>2. Points(n) \in SUBSET Skeleton /\ IsFiniteSet(Points(n))
  BY NodeFacts
<1>3. Left(n) \in Node /\ Axis(Left(n)) = Axis(n) /\ Points(Left(n)) = LowerHalf(n)
  BY <1>1, <1>2, SamePlace DEF Left
<1>4. Right(n) = [n EXCEPT ![Len(n)] = Points(n) \ LowerHalf(n)]
  BY DEF Right, Points
<1>5. /\ Right(n) \in Node /\ Axis(Right(n)) = Axis(n)
      /\ Points(Right(n)) = Points(n) \ LowerHalf(n)
  BY <1>1, <1>2, <1>4, SamePlace
<1>6. /\ Cardinality(Points(Left(n))) < Cardinality(Points(n))
      /\ Cardinality(Points(Right(n))) < Cardinality(Points(n))
  BY <1>1, <1>2, <1>3, <1>5, Fewer
<1> QED BY <1>1, <1>3, <1>5, <1>6

\* The next level begins with the points of the node.
LEMMA NextLevelFacts ==
  ASSUME NEW n \in Node, HasNext(n)
  PROVE  /\ Associated(n) \in Node /\ Axis(Associated(n)) = Axis(n) + 1
         /\ Points(Associated(n)) = Points(n)
<1> DEFINE V == (SUBSET Skeleton) \ {{}}
<1>1. /\ Axis(n) \in 1 .. Axes /\ n \in [1 .. Axis(n) -> V]
      /\ Points(n) \in V /\ Axes \in Nat
  BY NodeFacts, SkeletonAssumption
<1> HIDE DEF V
<1>2. Axis(n) \in Nat /\ Axis(n) + 1 \in 1 .. Axes
  BY <1>1 DEF HasNext
<1>3. n \in Seq(V) /\ Len(n) = Axis(n)
  BY <1>1, <1>2 DEF Axis
<1>4. /\ Append(n, Points(n)) \in Seq(V) /\ Len(Append(n, Points(n))) = Axis(n) + 1
      /\ Append(n, Points(n))[Axis(n) + 1] = Points(n)
  BY <1>1, <1>3, AppendProperties
<1>5. Append(n, Points(n)) \in [1 .. Axis(n) + 1 -> V]
  BY <1>4, LenProperties
<1>6. Append(n, Points(n)) \in Node
  BY <1>2, <1>5 DEF Node, V
<1> QED BY <1>4, <1>6 DEF Associated, Axis, Points

\* What is left of a recursion below a node: each level holds no more points
\* than there are.
Measure(n) == (Axes - Axis(n)) * (Cardinality(Skeleton) + 1) + Cardinality(Points(n))

\* The nodes that the functions of the tree go on to are smaller.
LEMMA OnwardsAreSmaller ==
  ASSUME Placed, NEW n \in Node
  PROVE  /\ Measure(n) \in Nat
         /\ Halves(n) \subseteq Node /\ NextLevel(n) \subseteq Node
         /\ \A m \in Halves(n) \cup NextLevel(n) :
              /\ Measure(m) \in Nat /\ Measure(m) < Measure(n)
              /\ Points(m) \subseteq Points(n)
<1> DEFINE N == Cardinality(Skeleton)
<1>1. N \in Nat /\ Axes \in Nat
  BY SkeletonAssumption, FS_CardinalityType
<1>2. \A a, b \in Nat : a * (b + 1) \in Nat /\ (a + 1) * (b + 1) = a * (b + 1) + (b + 1)
  OBVIOUS
<1>3. \A m \in Node : Axes - Axis(m) \in Nat /\ Cardinality(Points(m)) \in 1 .. N
  <2>1. \A m \in Node : Axis(m) \in 1 .. Axes /\ Cardinality(Points(m)) \in Nat \ {0}
    BY NodeFacts
  <2>2. \A m \in Node : Points(m) \in SUBSET Skeleton
    BY NodeFacts
  <2>3. \A m \in Node : Cardinality(Points(m)) <= N
    BY <2>2, SkeletonAssumption, Fewer
  <2> QED BY <1>1, <2>1, <2>3
<1> HIDE DEF N
<1>4. \A m \in Node : /\ (Axes - Axis(m)) * (N + 1) \in Nat
                      /\ Measure(m) = (Axes - Axis(m)) * (N + 1) + Cardinality(Points(m))
  BY <1>1, <1>2, <1>3 DEF Measure, N
<1>5. \A m \in Node : Measure(m) \in Nat
  BY <1>3, <1>4
<1>6. ASSUME NEW m \in Halves(n)
      PROVE  /\ m \in Node /\ Axis(m) = Axis(n) /\ Points(m) \subseteq Points(n)
             /\ Cardinality(Points(m)) < Cardinality(Points(n))
  <2>1. ~IsLeaf(n) /\ (m = Left(n) \/ m = Right(n))
    BY DEF Halves
  <2> QED BY <2>1, HalvesFacts
<1>7. ASSUME NEW m \in Halves(n)
      PROVE  Measure(m) < Measure(n)
  BY <1>3, <1>4, <1>6
<1>8. ASSUME NEW m \in NextLevel(n)
      PROVE  m \in Node /\ Axis(m) = Axis(n) + 1 /\ Points(m) = Points(n)
  <2>1. HasNext(n) /\ m = Associated(n)
    BY DEF NextLevel
  <2> QED BY <2>1, NextLevelFacts
<1>9. ASSUME NEW m \in NextLevel(n)
      PROVE  Measure(m) < Measure(n)
  <2>1. Axes - Axis(n) = (Axes - Axis(m)) + 1
    <3>1. Axis(n) \in Int /\ Axis(m) = Axis(n) + 1
      BY <1>8, NodeFacts, SkeletonAssumption
    <3> QED BY <1>1, <3>1
  <2>2. (Axes - Axis(n)) * (N + 1) = (Axes - Axis(m)) * (N + 1) + (N + 1)
    BY <1>1, <1>2, <1>3, <1>8, <2>1
  <2>3. Cardinality(Points(m)) = Cardinality(Points(n))
    BY <1>8
  <2> QED BY <1>1, <1>3, <1>4, <1>8, <2>2, <2>3
<1> QED BY <1>5, <1>6, <1>7, <1>8, <1>9

-----------------------------------------------------------------------------
(* The range tree: what a recursion on its nodes meets.                    *)

\* A set of natural numbers that is not empty has a least one.
LEMMA LeastNumber ==
  ASSUME NEW T \in SUBSET Nat, T # {}
  PROVE  \E x \in T : \A y \in T : x <= y
<1> DEFINE less == OpToRel(<, Nat)
<1>1. IsWellFoundedOn(less, Nat)
  BY NatLessThanWellFounded
<1>2. PICK x \in T : \A y \in T : <<y, x>> \notin less
  BY <1>1, WFMin
<1>3. \A y \in T : ~(y < x)
  BY <1>2 DEF OpToRel
<1>4. \A y \in T : x <= y
  BY <1>3
<1> QED BY <1>4

\* Of nodes some come first: none that a recursion goes on to is smaller.
LEMMA SmallestNode ==
  ASSUME Placed, NEW X \in SUBSET Node, X # {}
  PROVE  \E n \in X : \A m \in X : Measure(n) <= Measure(m)
<1> DEFINE T == {Measure(n) : n \in X}
<1>1. \A n \in X : Measure(n) \in Nat
  BY OnwardsAreSmaller
<1>2. T \in SUBSET Nat /\ T # {}
  BY <1>1
<1>3. PICK s \in T : \A t \in T : s <= t
  <2> HIDE DEF T
  <2> QED BY <1>2, LeastNumber
<1>4. PICK n \in X : s = Measure(n)
  BY <1>3
<1>5. \A m \in X : Measure(n) <= Measure(m)
  BY <1>3, <1>4
<1> QED BY <1>5

\* A recursion that goes on from a node to some of those of the tree.
Descending(next) ==
  /\ next \in [Node -> SUBSET Node]
  /\ \A n \in Node : next[n] \subseteq Halves(n) \cup NextLevel(n)

\* The nodes that it meets, as the least set that it does not lead out of.
ClosedUnder(next, X) == \A x \in X : next[x] \subseteq X
Met(next, n) ==
  {m \in Node : \A X \in SUBSET Node : n \in X /\ ClosedUnder(next, X) => m \in X}

\* Met holds the node and what is next to its nodes, and is the least such set.
LEMMA MetIsLeast ==
  ASSUME NEW next \in [Node -> SUBSET Node], NEW n \in Node
  PROVE  /\ n \in Met(next, n) /\ Met(next, n) \subseteq Node
         /\ ClosedUnder(next, Met(next, n))
         /\ \A X \in SUBSET Node :
              n \in X /\ ClosedUnder(next, X) => Met(next, n) \subseteq X
<1>1. n \in Met(next, n) /\ Met(next, n) \subseteq Node
  BY DEF Met
<1>2. ASSUME NEW u \in Met(next, n), NEW m \in next[u]
      PROVE  m \in Met(next, n)
  <2>1. m \in Node
    BY <1>1
  <2>2. ASSUME NEW X \in SUBSET Node, n \in X, ClosedUnder(next, X)
        PROVE  m \in X
    <3>1. u \in X
      BY <2>2 DEF Met
    <3> QED BY <2>2, <3>1 DEF ClosedUnder
  <2> QED BY <2>1, <2>2 DEF Met
<1>3. ASSUME NEW X \in SUBSET Node, n \in X, ClosedUnder(next, X)
      PROVE  Met(next, n) \subseteq X
  BY <1>3 DEF Met
<1> QED BY <1>1, <1>2, <1>3 DEF ClosedUnder

\* What is met from a node that is met is met.
LEMMA MetOn ==
  ASSUME NEW next \in [Node -> SUBSET Node], NEW n \in Node, NEW m \in Met(next, n)
  PROVE  m \in Node /\ Met(next, m) \subseteq Met(next, n)
<1>1. /\ m \in Node /\ Met(next, n) \in SUBSET Node
      /\ ClosedUnder(next, Met(next, n))
  BY MetIsLeast
<1> QED BY <1>1, MetIsLeast

\* What is met is the node itself and what is met from the nodes next to it.
LEMMA MetUnfolds ==
  ASSUME NEW next \in [Node -> SUBSET Node], NEW n \in Node
  PROVE  Met(next, n) = {n} \cup UNION {Met(next, m) : m \in next[n]}
<1> DEFINE X == {n} \cup UNION {Met(next, m) : m \in next[n]}
<1>1. \A m \in next[n] : /\ m \in Node /\ m \in Met(next, m)
                         /\ Met(next, m) \subseteq Node
  BY MetIsLeast
<1>2. X \in SUBSET Node
  BY <1>1
<1>3. ASSUME NEW x \in X, NEW d \in next[x]
      PROVE  d \in X
  <2>1. CASE x = n
    BY <1>1, <2>1
  <2>2. CASE \E m \in next[n] : x \in Met(next, m)
    <3>1. PICK m \in next[n] : x \in Met(next, m)
      BY <2>2
    <3>2. ClosedUnder(next, Met(next, m))
      BY <1>1, <3>1, MetIsLeast
    <3>3. d \in Met(next, m)
      BY <3>1, <3>2 DEF ClosedUnder
    <3> QED BY <3>3
  <2> QED BY <2>1, <2>2
<1>4. Met(next, n) \subseteq X
  <2>1. n \in X
    OBVIOUS
  <2> HIDE DEF X
  <2>2. ClosedUnder(next, X)
    BY <1>3 DEF ClosedUnder
  <2> QED BY <1>2, <2>1, <2>2, MetIsLeast
<1>5. X \subseteq Met(next, n)
  <2>1. \A m \in next[n] : m \in Met(next, n)
    BY MetIsLeast DEF ClosedUnder
  <2> QED BY <2>1, MetIsLeast, MetOn
<1> QED BY <1>4, <1>5

\* The recursive function of the model computes what is met.
LEMMA WalkIsMet ==
  ASSUME Placed, NEW next, Descending(next), NEW from \in Node
  PROVE  Walk(next, from) = Met(next, from)
<1> DEFINE Body(f, n) == {n} \cup UNION {f[m] : m \in next[n]}
           met        == CHOOSE f : f = [n \in Node |-> Body(f, n)]
           all        == [n \in Node |-> Met(next, n)]
<1>1. next \in [Node -> SUBSET Node]
  BY DEF Descending
<1>2. ASSUME NEW n \in Node
      PROVE  Body(all, n) = Met(next, n)
  <2>1. \A m \in next[n] : all[m] = Met(next, m)
    BY <1>1
  <2>2. Met(next, n) = {n} \cup UNION {Met(next, m) : m \in next[n]}
    BY <1>1, MetUnfolds
  <2>3. {all[m] : m \in next[n]} = {Met(next, m) : m \in next[n]}
    BY <2>1
  <2> HIDE DEF all
  <2> QED BY <2>2, <2>3
<1>3. all = [n \in Node |-> Body(all, n)]
  BY <1>2
<1>4. met = [n \in Node |-> Body(met, n)]
  <2> HIDE DEF all
  <2> QED BY <1>3
<1>5. Walk(next, from) = met[from]
  BY DEF Walk
<1> HIDE DEF met
<1> DEFINE Wrong == {n \in Node : met[n] # Met(next, n)}
<1>6. ASSUME Wrong # {}
      PROVE  FALSE
  <2>1. PICK n \in Wrong : \A m \in Wrong : Measure(n) <= Measure(m)
    <3>1. Wrong \in SUBSET Node
      OBVIOUS
    <3> HIDE DEF Wrong
    <3> QED BY <1>6, <3>1, SmallestNode
  <2>2. n \in Node
    OBVIOUS
  <2>3. ASSUME NEW m \in next[n]
        PROVE  met[m] = Met(next, m)
    <3>1. m \in Node /\ m \in Halves(n) \cup NextLevel(n)
      BY <1>1, <2>2 DEF Descending
    <3>2. Measure(m) \in Nat /\ Measure(m) < Measure(n) /\ Measure(n) \in Nat
      BY <2>2, <3>1, OnwardsAreSmaller
    <3>3. m \notin Wrong
      BY <2>1, <3>2
    <3> QED BY <3>1, <3>3
  <2>4. {met[m] : m \in next[n]} = {Met(next, m) : m \in next[n]}
    BY <2>3
  <2>5. met[n] = Body(met, n)
    BY <1>4, <2>2
  <2>6. met[n] = Met(next, n)
    BY <1>1, <2>2, <2>4, <2>5, MetUnfolds
  <2> QED BY <2>1, <2>6
<1> QED BY <1>5, <1>6

-----------------------------------------------------------------------------
(* The range tree: its counts.                                             *)

\* The root holds every point.
LEMMA RootFacts ==
  RootNode \in Node /\ Axis(RootNode) = 1 /\ Points(RootNode) = Skeleton
<1>1. Skeleton # {} /\ Axes \in Nat \ {0}
  BY SkeletonAssumption
<1>2. Skeleton \in (SUBSET Skeleton) \ {{}} /\ 1 \in 1 .. Axes
  BY <1>1
<1>3. RootNode \in [1 .. 1 -> (SUBSET Skeleton) \ {{}}]
  BY <1>2 DEF RootNode
<1>4. RootNode \in Node
  BY <1>2, <1>3 DEF Node
<1> QED BY <1>4 DEF RootNode, Axis, Points

\* A recursion over the tree is one that descends.
LEMMA Descends ==
  ASSUME Placed, NEW next \in [Node -> SUBSET Node],
         \A n \in Node : next[n] \subseteq Halves(n) \cup NextLevel(n)
  PROVE  /\ Descending(next)
         /\ Walk(next, RootNode) \subseteq Node /\ RootNode \in Walk(next, RootNode)
         /\ ClosedUnder(next, Walk(next, RootNode))
         /\ \A X \in SUBSET Node :
              RootNode \in X /\ ClosedUnder(next, X) => Walk(next, RootNode) \subseteq X
<1>1. Descending(next)
  BY DEF Descending
<1>2. RootNode \in Node /\ Walk(next, RootNode) = Met(next, RootNode)
  BY <1>1, RootFacts, WalkIsMet
<1> QED BY <1>1, <1>2, MetIsLeast

\* The nodes of the tree are the root and what the recursion of build makes.
LEMMA NodesFacts ==
  ASSUME Placed
  PROVE  /\ Nodes \subseteq Node /\ RootNode \in Nodes
         /\ \A n \in Nodes : Halves(n) \subseteq Nodes /\ NextLevel(n) \subseteq Nodes
         /\ \A X \in SUBSET Node :
              RootNode \in X /\ (\A n \in X : Halves(n) \subseteq X /\ NextLevel(n) \subseteq X)
                => Nodes \subseteq X
<1> DEFINE next == [n \in Node |-> Halves(n) \cup NextLevel(n)]
<1>1. \A n \in Node : Halves(n) \cup NextLevel(n) \subseteq Node
  BY OnwardsAreSmaller
<1>2. /\ next \in [Node -> SUBSET Node]
      /\ \A n \in Node : next[n] = Halves(n) \cup NextLevel(n)
  BY <1>1
<1>3. Nodes = Walk(next, RootNode)
  BY DEF Nodes
<1> HIDE DEF next
<1>4. /\ Nodes \subseteq Node /\ RootNode \in Nodes /\ ClosedUnder(next, Nodes)
      /\ \A X \in SUBSET Node : RootNode \in X /\ ClosedUnder(next, X) => Nodes \subseteq X
  BY <1>2, <1>3, Descends
<1>5. ASSUME NEW n \in Nodes
      PROVE  Halves(n) \subseteq Nodes /\ NextLevel(n) \subseteq Nodes
  <2>1. n \in Node /\ next[n] \subseteq Nodes
    BY <1>4 DEF ClosedUnder
  <2> QED BY <1>2, <2>1
<1>6. ASSUME NEW X \in SUBSET Node, RootNode \in X,
             \A n \in X : Halves(n) \subseteq X /\ NextLevel(n) \subseteq X
      PROVE  Nodes \subseteq X
  <2>1. ClosedUnder(next, X)
    <3> SUFFICES ASSUME NEW n \in X PROVE next[n] \subseteq X
      BY DEF ClosedUnder
    <3> QED BY <1>2, <1>6
  <2> QED BY <1>4, <1>6, <2>1
<1> QED BY <1>4, <1>5, <1>6

\* The comparison with the left child finds the half with the point.
LEMMA DescentFacts ==
  ASSUME Placed, NEW n \in Node, NEW p \in Points(n)
  PROVE  /\ Descent(n, p) \subseteq Halves(n)
         /\ \A m \in Halves(n) : m \in Descent(n, p) <=> p \in Points(m)
<1>1. CASE IsLeaf(n)
  BY <1>1 DEF Descent, Halves
<1>2. CASE ~IsLeaf(n)
  <2>1. /\ Axis(n) \in 1 .. Axes /\ Points(n) \in SUBSET Skeleton
        /\ Left(n) \in Node /\ Right(n) \in Node
        /\ Points(Left(n)) \cup Points(Right(n)) = Points(n)
        /\ Points(Left(n)) \cap Points(Right(n)) = {}
        /\ \A x \in Points(Left(n)), y \in Points(Right(n)) : KeyLess(x, y, Axis(n))
    BY <1>2, NodeFacts, HalvesFacts
  <2>2. GoesRight(n, p) <=> p \in Points(Right(n))
    <3>1. CASE p \in Points(Left(n))
      <4>1. ~KeyLess(p, p, Axis(n))
        BY <2>1, KeyOrder
      <4> QED BY <2>1, <3>1, <4>1 DEF GoesRight
    <3>2. CASE p \in Points(Right(n))
      BY <2>1, <3>2 DEF GoesRight
    <3> QED BY <2>1, <3>1, <3>2
  <2>3. Halves(n) = {Left(n), Right(n)}
    BY <1>2 DEF Halves
  <2>4. Descent(n, p) = {IF GoesRight(n, p) THEN Right(n) ELSE Left(n)}
    BY <1>2 DEF Descent
  <2>5. Left(n) # Right(n)
    BY <2>1, NodeFacts
  <2>6. CASE p \in Points(Right(n))
    <3>1. Descent(n, p) = {Right(n)} /\ p \notin Points(Left(n))
      BY <2>1, <2>2, <2>4, <2>6
    <3> QED BY <2>3, <2>5, <2>6, <3>1
  <2>7. CASE p \notin Points(Right(n))
    <3>1. Descent(n, p) = {Left(n)} /\ p \in Points(Left(n))
      BY <2>1, <2>2, <2>4, <2>7
    <3> QED BY <2>3, <2>5, <2>7, <3>1
  <2> QED BY <2>6, <2>7
<1> QED BY <1>1, <1>2

\* An update changes the nodes that hold the point, and no other.
LEMMA VisitedHoldThePoint ==
  ASSUME Placed, NEW p \in Skeleton
  PROVE  Visited(p) = {n \in Nodes : p \in Points(n)}
<1> DEFINE down == [n \in Node |-> Descent(n, p) \cup NextLevel(n)]
           Hold == {n \in Nodes : p \in Points(n)}
<1>1. \A n \in Node : Descent(n, p) \subseteq Halves(n)
  BY DEF Descent, Halves
<1>2. \A n \in Node : Halves(n) \subseteq Node /\ NextLevel(n) \subseteq Node
  BY OnwardsAreSmaller
<1>3. /\ down \in [Node -> SUBSET Node]
      /\ \A n \in Node : down[n] = Descent(n, p) \cup NextLevel(n)
      /\ \A n \in Node : down[n] \subseteq Halves(n) \cup NextLevel(n)
  BY <1>1, <1>2
<1>4. Visited(p) = Walk(down, RootNode)
  BY DEF Visited
<1> HIDE DEF down
<1>5. /\ Visited(p) \subseteq Node /\ RootNode \in Visited(p)
      /\ ClosedUnder(down, Visited(p))
      /\ \A X \in SUBSET Node :
           RootNode \in X /\ ClosedUnder(down, X) => Visited(p) \subseteq X
  BY <1>3, <1>4, Descends
<1>6. Visited(p) \subseteq Hold
  <2>1. Hold \in SUBSET Node /\ RootNode \in Hold
    BY NodesFacts, RootFacts
  <2>2. ASSUME NEW n \in Hold, NEW m \in down[n]
        PROVE  m \in Hold
    <3>1. n \in Node /\ n \in Nodes /\ p \in Points(n)
      BY <2>1
    <3>2. CASE m \in Descent(n, p)
      <4>1. m \in Halves(n) /\ p \in Points(m)
        BY <3>1, <3>2, DescentFacts
      <4> QED BY <3>1, <4>1, NodesFacts
    <3>3. CASE m \in NextLevel(n)
      <4>1. Points(m) = Points(n)
        BY <3>1, <3>3, NextLevelFacts DEF NextLevel
      <4> QED BY <3>1, <3>3, <4>1, NodesFacts
    <3> QED BY <1>3, <3>1, <3>2, <3>3
  <2> HIDE DEF Hold
  <2>3. ClosedUnder(down, Hold)
    BY <2>2 DEF ClosedUnder
  <2> QED BY <1>5, <2>1, <2>3
<1>7. Hold \subseteq Visited(p)
  <2> DEFINE X == {n \in Node : p \in Points(n) => n \in Visited(p)}
  <2>1. X \in SUBSET Node /\ RootNode \in X
    BY <1>5, RootFacts
  <2>2. ASSUME NEW n \in X, NEW m \in Halves(n)
        PROVE  m \in X
    <3>1. n \in Node /\ m \in Node /\ Points(m) \subseteq Points(n)
      BY OnwardsAreSmaller
    <3>2. ASSUME p \in Points(m) PROVE m \in Visited(p)
      <4>1. p \in Points(n) /\ n \in Visited(p)
        BY <3>1, <3>2
      <4>2. m \in Descent(n, p)
        BY <3>1, <3>2, <4>1, DescentFacts
      <4> QED BY <1>3, <1>5, <3>1, <4>1, <4>2 DEF ClosedUnder
    <3> QED BY <3>1, <3>2
  <2>3. ASSUME NEW n \in X, NEW m \in NextLevel(n)
        PROVE  m \in X
    <3>1. n \in Node /\ m \in Node /\ Points(m) \subseteq Points(n)
      BY OnwardsAreSmaller
    <3>2. ASSUME p \in Points(m) PROVE m \in Visited(p)
      BY <1>3, <1>5, <3>1, <3>2 DEF ClosedUnder
    <3> QED BY <3>1, <3>2
  <2> HIDE DEF X
  <2>4. Nodes \subseteq X
    BY <2>1, <2>2, <2>3, NodesFacts
  <2> QED BY <2>4 DEF X
<1> QED BY <1>6, <1>7

\* What the properties of the tree rest on: its counts are those of its nodes.
TreeInv ==
  /\ coordinate \in Placements /\ active \subseteq Skeleton
  /\ DOMAIN count = Nodes
  /\ CountsAgree

\* The coordinates of a tree are numbers.
LEMMA InvIsPlaced ==
  TreeInv => Placed
BY SkeletonAssumption DEF TreeInv, Placed

\* Nodes are made of coordinates, which no update changes.
LEMMA NodesAreFixed ==
  ASSUME coordinate' = coordinate
  PROVE  Nodes' = Nodes
<1>1. \A p, q, a : KeyLess(p, q, a)' <=> KeyLess(p, q, a)
  BY DEF KeyLess
<1>2. \A n : LowerHalf(n)' = LowerHalf(n)
  BY <1>1 DEF LowerHalf
<1>3. \A n : Left(n)' = Left(n) /\ Right(n)' = Right(n)
  BY <1>2 DEF Left, Right
<1>4. \A n : Halves(n)' = Halves(n)
  BY <1>3 DEF Halves
<1> DEFINE next == [n \in Node |-> Halves(n) \cup NextLevel(n)]
<1>5. next' = next
  BY <1>4
<1>6. Nodes = Walk(next, RootNode) /\ Nodes' = Walk(next', RootNode)
  BY DEF Nodes
<1> HIDE DEF next
<1> QED BY <1>5, <1>6

\* A tree begins with no point active, or with all of them.
LEMMA TreeInitInv ==
  TreeInit => TreeInv
<1> SUFFICES ASSUME TreeInit PROVE TreeInv
  OBVIOUS
<1>1. coordinate \in Placements /\ active \subseteq Skeleton /\ DOMAIN count = Nodes
  BY DEF TreeInit
<1>2. Placed
  BY <1>1, SkeletonAssumption DEF Placed
<1>3. \A n \in Nodes : Points(n) \in SUBSET Skeleton
  BY <1>2, NodesFacts, NodeFacts
<1>4. ASSUME NEW n \in Nodes
      PROVE  count[n] = Cardinality(Points(n) \cap active)
  <2>1. CASE dynamic
    <3>1. count[n] = 0 /\ Points(n) \cap active = {}
      BY <2>1 DEF TreeInit
    <3> QED BY <3>1, FS_EmptySet
  <2>2. CASE ~dynamic
    <3>1. count[n] = Cardinality(Points(n)) /\ Points(n) \cap active = Points(n)
      BY <1>3, <2>2 DEF TreeInit
    <3> QED BY <3>1
  <2> QED BY <2>1, <2>2
<1> QED BY <1>1, <1>4 DEF TreeInv, CountsAgree

\* An update of a point adds to the counts of the nodes that hold it.
LEMMA CountByInv ==
  ASSUME TreeInv, NEW p \in Skeleton, UNCHANGED coordinate,
         \/ /\ p \notin active /\ active' = active \cup {p} /\ CountBy(p, 1)
         \/ /\ p \in active /\ active' = active \ {p} /\ CountBy(p, -1)
  PROVE  TreeInv'
<1>1. /\ coordinate \in Placements /\ active \subseteq Skeleton /\ DOMAIN count = Nodes
      /\ \A n \in Nodes : count[n] = Cardinality(Points(n) \cap active)
      /\ Placed
  BY InvIsPlaced DEF TreeInv, CountsAgree
<1>2. Nodes' = Nodes /\ coordinate' \in Placements /\ active' \subseteq Skeleton
  BY <1>1, NodesAreFixed
<1>3. DOMAIN count' = Nodes
  BY <1>1 DEF CountBy
<1>4. ASSUME NEW n \in Nodes
      PROVE  count'[n] = Cardinality(Points(n) \cap active')
  <2>1. IsFiniteSet(Points(n) \cap active)
    <3>1. IsFiniteSet(Points(n)) /\ Points(n) \cap active \in SUBSET Points(n)
      BY <1>1, NodesFacts, NodeFacts
    <3> QED BY <3>1, Fewer
  <2>2. n \in Visited(p) <=> p \in Points(n)
    BY <1>1, VisitedHoldThePoint
  <2>3. count[n] = Cardinality(Points(n) \cap active)
    BY <1>1
  <2>4. CASE p \notin active /\ active' = active \cup {p} /\ CountBy(p, 1)
    <3>1. count'[n] = IF p \in Points(n) THEN count[n] + 1 ELSE count[n]
      BY <1>1, <2>2, <2>4 DEF CountBy
    <3>2. CASE p \in Points(n)
      <4>1. Points(n) \cap active' = (Points(n) \cap active) \cup {p}
        BY <2>4, <3>2
      <4>2. p \notin Points(n) \cap active
        BY <2>4
      <4> QED BY <2>1, <2>3, <3>1, <3>2, <4>1, <4>2, FS_AddElement
    <3>3. CASE p \notin Points(n)
      <4>1. Points(n) \cap active' = Points(n) \cap active
        BY <2>4, <3>3
      <4> QED BY <2>3, <3>1, <3>3, <4>1
    <3> QED BY <3>2, <3>3
  <2>5. CASE p \in active /\ active' = active \ {p} /\ CountBy(p, -1)
    <3>1. count'[n] = IF p \in Points(n) THEN count[n] + (-1) ELSE count[n]
      BY <1>1, <2>2, <2>5 DEF CountBy
    <3>2. CASE p \in Points(n)
      <4>1. Points(n) \cap active' = (Points(n) \cap active) \ {p}
        BY <2>5, <3>2
      <4>2. p \in Points(n) \cap active
        BY <2>5, <3>2
      <4>3. Cardinality(Points(n) \cap active) \in Nat
        BY <2>1, FS_CardinalityType
      <4>4. Cardinality((Points(n) \cap active) \ {p}) = Cardinality(Points(n) \cap active) - 1
        BY <2>1, <4>2, FS_RemoveElement
      <4> QED BY <2>3, <3>1, <3>2, <4>1, <4>3, <4>4
    <3>3. CASE p \notin Points(n)
      <4>1. Points(n) \cap active' = Points(n) \cap active
        BY <2>5, <3>3
      <4> QED BY <2>3, <3>1, <3>3, <4>1
    <3> QED BY <3>2, <3>3
  <2> QED BY <2>4, <2>5
<1> QED BY <1>2, <1>3, <1>4 DEF TreeInv, CountsAgree

\* Every step of a tree keeps its counts.
LEMMA TreeInductive == TreeSpec => []TreeInv
<1>1. TreeInv /\ [TreeNext]_treeVars => TreeInv'
  <2> SUFFICES ASSUME TreeInv, [TreeNext]_treeVars PROVE TreeInv'
    OBVIOUS
  <2>1. ASSUME NEW p \in Skeleton, SetActive(p) PROVE TreeInv'
    BY <2>1, CountByInv DEF SetActive
  <2>2. ASSUME NEW p \in Skeleton, SetInactive(p) PROVE TreeInv'
    BY <2>2, CountByInv DEF SetInactive
  <2>3. CASE UNCHANGED treeVars
    <3>1. coordinate' = coordinate /\ active' = active /\ count' = count
      BY <2>3 DEF treeVars
    <3> QED BY <3>1, NodesAreFixed DEF TreeInv, CountsAgree
  <2> QED BY <2>1, <2>2, <2>3 DEF TreeNext
<1> QED BY <1>1, TreeInitInv, PTL DEF TreeSpec

\* The counts of every node of every level are those of its active points, for
\* any points, axes and coordinates, with or without ties.
THEOREM CountsAlwaysAgree == TreeSpec => []CountsAgree
<1>1. TreeInv => CountsAgree
  BY DEF TreeInv
<1> QED BY <1>1, TreeInductive, PTL

-----------------------------------------------------------------------------
(* The range tree: the blocks of a query.                                  *)

\* The greatest and the least coordinate of a node are those of two points.
LEMMA ExtremesFacts ==
  ASSUME Placed, NEW n \in Node
  PROVE  /\ \A p \in Points(n) : coordinate[p][Axis(n)] \in Int
         /\ Max(Values(n)) \in Int /\ Min(Values(n)) \in Int
         /\ \A p \in Points(n) : /\ Min(Values(n)) <= coordinate[p][Axis(n)]
                                 /\ coordinate[p][Axis(n)] <= Max(Values(n))
<1> DEFINE P == Points(n)
           a == Axis(n)
<1>1. /\ a \in 1 .. Axes /\ P \in SUBSET Skeleton /\ IsFiniteSet(P)
      /\ Cardinality(P) \in Nat \ {0}
  BY NodeFacts
<1>2. \A p \in P : coordinate[p][a] \in Int
  BY <1>1 DEF Placed
<1>3. Values(n) = {coordinate[p][a] : p \in P}
  BY DEF Values
<1> HIDE DEF P, a
<1>4. /\ \A p \in P : RankIn(P, p, a) \in 0 .. Cardinality(P) - 1
      /\ \A p, q \in P : KeyLess(p, q, a) => RankIn(P, p, a) < RankIn(P, q, a)
      /\ \A r \in 0 .. Cardinality(P) - 1 : \E p \in P : RankIn(P, p, a) = r
  BY <1>1, RankFacts
<1>5. PICK p \in P : RankIn(P, p, a) = 0
  BY <1>1, <1>4
<1>6. PICK q \in P : RankIn(P, q, a) = Cardinality(P) - 1
  BY <1>1, <1>4
<1>7. \A x \in P : ~KeyLess(x, p, a) /\ ~KeyLess(q, x, a)
  BY <1>1, <1>4, <1>5, <1>6
<1>8. \A x \in P : coordinate[p][a] <= coordinate[x][a] /\ coordinate[x][a] <= coordinate[q][a]
  BY <1>2, <1>7 DEF KeyLess
<1>9. Min(Values(n)) \in Values(n) /\ \A v \in Values(n) : Min(Values(n)) <= v
  BY <1>3, <1>8 DEF Min
<1>10. Max(Values(n)) \in Values(n) /\ \A v \in Values(n) : Max(Values(n)) >= v
  <2>1. coordinate[q][a] \in Values(n) /\ \A v \in Values(n) : coordinate[q][a] >= v
    BY <1>2, <1>3, <1>8
  <2> QED BY <2>1 DEF Max
<1>11. Values(n) \subseteq Int /\ \A x \in P : coordinate[x][a] \in Values(n)
  BY <1>2, <1>3
<1>12. Max(Values(n)) \in Int /\ Min(Values(n)) \in Int
  BY <1>9, <1>10, <1>11
<1>13. \A x \in P : /\ Min(Values(n)) <= coordinate[x][a]
                    /\ coordinate[x][a] <= Max(Values(n))
  BY <1>2, <1>9, <1>10, <1>11, <1>12
<1> QED BY <1>2, <1>12, <1>13 DEF P, a

\* What lies above a bound lies above it with anything greater, and likewise
\* below; nothing lies in an empty range.
LEMMA BoundFacts ==
  ASSUME NEW x \in Int, NEW y \in Int, x <= y, NEW b \in Bounds
  PROVE  (Above(x, b) => Above(y, b)) /\ (Below(y, b) => Below(x, b))
<1>1. CASE b = NoBound
  BY <1>1 DEF Above, Below
<1>2. CASE b # NoBound
  <2>1. b.value \in Int /\ b.strict \in BOOLEAN
    BY <1>2 DEF Bounds
  <2>2. Above(x, b) => Above(y, b)
    BY <1>2, <2>1 DEF Above
  <2>3. Below(y, b) => Below(x, b)
    BY <1>2, <2>1 DEF Below
  <2> QED BY <2>2, <2>3
<1> QED BY <1>1, <1>2

LEMMA EmptyFacts ==
  ASSUME NEW x \in Int, NEW range, range.lower \in Bounds, range.upper \in Bounds,
         In(x, range)
  PROVE  ~IsEmpty(range)
<1> SUFFICES ASSUME range.lower # NoBound, range.upper # NoBound
             PROVE  ~IsEmpty(range)
  BY DEF IsEmpty
<1>1. /\ range.lower.value \in Int /\ range.upper.value \in Int
      /\ range.lower.strict \in BOOLEAN /\ range.upper.strict \in BOOLEAN
  BY DEF Bounds
<1>2. /\ IF range.lower.strict THEN range.lower.value < x ELSE range.lower.value <= x
      /\ IF range.upper.strict THEN x < range.upper.value ELSE x <= range.upper.value
  BY DEF In, Above, Below
<1> QED BY <1>1, <1>2 DEF IsEmpty

\* A node with a point in the range is not outside, and each point of one that
\* the range covers is in it.
LEMMA RangeFacts ==
  ASSUME Placed, NEW n \in Node, NEW range, range.lower \in Bounds, range.upper \in Bounds,
         NEW p \in Points(n)
  PROVE  /\ In(coordinate[p][Axis(n)], range) => ~Outside(n, range)
         /\ Covered(n, range) => In(coordinate[p][Axis(n)], range)
<1> DEFINE x == coordinate[p][Axis(n)]
           l == Min(Values(n))
           u == Max(Values(n))
<1>1. x \in Int /\ l \in Int /\ u \in Int /\ l <= x /\ x <= u
  BY ExtremesFacts
<1>2. Outside(n, range) <=> ~Above(u, range.lower) \/ ~Below(l, range.upper)
  BY DEF Outside
<1>3. Covered(n, range) <=> Above(l, range.lower) /\ Below(u, range.upper)
  BY DEF Covered
<1> HIDE DEF x, l, u
<1>4. In(x, range) => ~Outside(n, range)
  BY <1>1, <1>2, BoundFacts DEF In
<1>5. Covered(n, range) => In(x, range)
  BY <1>1, <1>3, BoundFacts DEF In
<1> QED BY <1>4, <1>5 DEF x

\* The nodes that collect meets for a query.
Onward(query)    == [n \in Node |-> Onwards(n, query)]
Collected(query) == Walk(Onward(query), RootNode)

\* A query has two bounds for each axis.
LEMMA QueryBounds ==
  ASSUME NEW query \in Queries, NEW a \in 1 .. Axes
  PROVE  query[a].lower \in Bounds /\ query[a].upper \in Bounds
BY SkeletonAssumption

\* collect goes on to disjoint nodes.
LEMMA OnwardsFacts ==
  ASSUME Placed, NEW n \in Node, NEW query
  PROVE  /\ Onwards(n, query) \subseteq Halves(n) \cup NextLevel(n)
         /\ Onwards(n, query) \subseteq Node
         /\ \A m \in Onwards(n, query) : Points(m) \subseteq Points(n)
         /\ \A l, m \in Onwards(n, query) : Points(l) \cap Points(m) # {} => l = m
<1>1. \/ Onwards(n, query) = {} \/ Onwards(n, query) = NextLevel(n)
      \/ Onwards(n, query) = Halves(n)
  BY DEF Onwards
<1>2. /\ Halves(n) \subseteq Node /\ NextLevel(n) \subseteq Node
      /\ \A m \in Halves(n) \cup NextLevel(n) : Points(m) \subseteq Points(n)
  BY OnwardsAreSmaller
<1>3. \A l, m \in NextLevel(n) : l = m
  BY DEF NextLevel
<1>4. \A l, m \in Halves(n) : Points(l) \cap Points(m) # {} => l = m
  <2>1. CASE IsLeaf(n)
    BY <2>1 DEF Halves
  <2>2. CASE ~IsLeaf(n)
    BY <2>2, HalvesFacts DEF Halves
  <2> QED BY <2>1, <2>2
<1> QED BY <1>1, <1>2, <1>3, <1>4

\* collect meets nodes of the tree.
LEMMA CollectedFacts ==
  ASSUME Placed, NEW query
  PROVE  /\ Onward(query) \in [Node -> SUBSET Node] /\ Descending(Onward(query))
         /\ Collected(query) \subseteq Nodes /\ RootNode \in Collected(query)
         /\ \A n \in Collected(query) : Onwards(n, query) \subseteq Collected(query)
         /\ \A X \in SUBSET Node :
              RootNode \in X /\ (\A n \in X : Onwards(n, query) \subseteq X)
                => Collected(query) \subseteq X
<1> DEFINE next == Onward(query)
<1>1. next \in [Node -> SUBSET Node] /\ \A n \in Node : next[n] = Onwards(n, query)
  BY OnwardsFacts DEF Onward
<1>2. \A n \in Node : next[n] \subseteq Halves(n) \cup NextLevel(n)
  BY <1>1, OnwardsFacts
<1>3. Collected(query) = Walk(next, RootNode)
  BY DEF Collected
<1> HIDE DEF next
<1>4. /\ Descending(next)
      /\ Collected(query) \subseteq Node /\ RootNode \in Collected(query)
      /\ ClosedUnder(next, Collected(query))
      /\ \A X \in SUBSET Node :
           RootNode \in X /\ ClosedUnder(next, X) => Collected(query) \subseteq X
  BY <1>1, <1>2, <1>3, Descends
<1>5. ASSUME NEW X \in SUBSET Node
      PROVE  ClosedUnder(next, X) <=> \A n \in X : Onwards(n, query) \subseteq X
  BY <1>1 DEF ClosedUnder
<1>6. \A n \in Collected(query) : Onwards(n, query) \subseteq Collected(query)
  BY <1>4, <1>5
<1>7. \A X \in SUBSET Node :
        RootNode \in X /\ (\A n \in X : Onwards(n, query) \subseteq X)
          => Collected(query) \subseteq X
  BY <1>4, <1>5
<1>8. Collected(query) \subseteq Nodes
  <2>1. Nodes \in SUBSET Node /\ RootNode \in Nodes
    BY NodesFacts
  <2>2. \A n \in Nodes : Onwards(n, query) \subseteq Nodes
    BY <2>1, NodesFacts, OnwardsFacts
  <2> QED BY <1>7, <2>1, <2>2
<1> QED BY <1>1, <1>4, <1>6, <1>7, <1>8 DEF next

\* collect leaves an axis for the next one only with points in its range.
LEMMA EarlierAxes ==
  ASSUME Placed, NEW query \in Queries, NEW n \in Collected(query), NEW p \in Points(n),
         NEW a \in 1 .. Axis(n) - 1
  PROVE  In(coordinate[p][a], query[a])
<1> DEFINE Held(m) == \A q \in Points(m) : \A b \in 1 .. Axis(m) - 1 : In(coordinate[q][b], query[b])
           X == {m \in Node : Held(m)}
<1>1. RootNode \in X
  BY RootFacts
<1>2. ASSUME NEW m \in X, NEW l \in Onwards(m, query)
      PROVE  l \in X
  <2>1. m \in Node /\ Held(m) /\ l \in Node /\ Points(l) \subseteq Points(m)
    BY OnwardsFacts
  <2>2. Axis(m) \in 1 .. Axes /\ Axes \in Nat
    BY <2>1, NodeFacts, SkeletonAssumption
  <2>3. CASE Covered(m, query[Axis(m)]) /\ l \in NextLevel(m)
    <3>1. Axis(l) = Axis(m) + 1
      BY <2>1, <2>3, NextLevelFacts DEF NextLevel
    <3>2. \A q \in Points(m) : In(coordinate[q][Axis(m)], query[Axis(m)])
      BY <2>1, <2>2, <2>3, QueryBounds, RangeFacts
    <3>3. \A b \in 1 .. Axis(l) - 1 : b \in 1 .. Axis(m) - 1 \/ b = Axis(m)
      BY <2>2, <3>1
    <3>4. Held(l)
      BY <2>1, <3>2, <3>3
    <3> QED BY <2>1, <3>4
  <2>4. CASE l \in Halves(m)
    <3>1. Axis(l) = Axis(m)
      BY <2>1, <2>4, HalvesFacts DEF Halves
    <3> QED BY <2>1, <3>1
  <2> QED BY <2>3, <2>4 DEF Onwards
<1>3. n \in X
  <2> HIDE DEF X
  <2>1. X \in SUBSET Node
    BY DEF X
  <2> QED BY <1>1, <1>2, <2>1, CollectedFacts
<1> QED BY <1>3

\* The active points of a block are in range.
LEMMA BlocksAreInRange ==
  ASSUME Placed, NEW query \in Queries, NEW n \in Collected(query), IsBlock(n, query),
         NEW p \in Points(n)
  PROVE  Satisfies(p, query)
<1>1. n \in Node /\ Axis(n) \in 1 .. Axes /\ Axes \in Nat
  BY CollectedFacts, NodesFacts, NodeFacts, SkeletonAssumption
<1>2. CASE Covered(n, query[Axis(n)])
  <2>1. Axis(n) = Axes
    BY <1>1, <1>2 DEF IsBlock, HasNext
  <2>2. In(coordinate[p][Axes], query[Axes])
    BY <1>1, <1>2, <2>1, QueryBounds, RangeFacts
  <2>3. \A a \in 1 .. Axes - 1 : In(coordinate[p][a], query[a])
    BY <2>1, EarlierAxes
  <2>4. \A a \in 1 .. Axes : a \in 1 .. Axes - 1 \/ a = Axes
    BY <1>1
  <2> QED BY <2>2, <2>3, <2>4 DEF Satisfies
<1>3. CASE ~Covered(n, query[Axis(n)])
  BY <1>3 DEF IsBlock
<1> QED BY <1>2, <1>3

\* An active point in range is in a block.
LEMMA HitsAreInBlocks ==
  ASSUME TreeInv, NEW query \in Queries, NEW p \in active, Satisfies(p, query)
  PROVE  \E n \in Collected(query) : IsBlock(n, query) /\ p \in Points(n)
<1> DEFINE X == {n \in Collected(query) : p \in Points(n)}
<1>1. Placed /\ p \in Skeleton
  BY InvIsPlaced DEF TreeInv
<1>2. RootNode \in X /\ X \in SUBSET Node
  BY <1>1, CollectedFacts, NodesFacts, RootFacts
<1>3. PICK n \in X : \A m \in X : Measure(n) <= Measure(m)
  <2> HIDE DEF X
  <2> QED BY <1>1, <1>2, SmallestNode
<1>4. n \in Node /\ n \in Nodes /\ n \in Collected(query) /\ p \in Points(n)
  BY <1>1, <1>2, CollectedFacts
<1>5. Axis(n) \in 1 .. Axes
  BY <1>4, NodeFacts
<1>6. Reaches(n, query)
  <2>1. count[n] = Cardinality(Points(n) \cap active)
    BY <1>4 DEF TreeInv, CountsAgree
  <2>2. IsFiniteSet(Points(n) \cap active)
    <3>1. IsFiniteSet(Points(n)) /\ Points(n) \cap active \in SUBSET Points(n)
      BY <1>4, NodeFacts
    <3> QED BY <3>1, Fewer
  <2>3. count[n] # 0
    BY <1>4, <2>1, <2>2, FS_EmptySet
  <2>4. In(coordinate[p][Axis(n)], query[Axis(n)])
    BY <1>5 DEF Satisfies
  <2>5. ~Outside(n, query[Axis(n)])
    BY <1>1, <1>4, <1>5, <2>4, QueryBounds, RangeFacts
  <2> QED BY <2>3, <2>5 DEF Reaches
<1>7. \A m \in Onwards(n, query) : p \notin Points(m)
  <2>1. SUFFICES ASSUME NEW m \in Onwards(n, query), p \in Points(m) PROVE FALSE
    OBVIOUS
  <2>2. m \in X
    BY <1>1, <1>4, <2>1, CollectedFacts
  <2>3. m \in Halves(n) \cup NextLevel(n)
    BY <1>1, <1>4, OnwardsFacts
  <2>4. Measure(m) \in Nat /\ Measure(m) < Measure(n) /\ Measure(n) \in Nat
    BY <1>1, <1>4, <2>3, OnwardsAreSmaller
  <2> QED BY <1>3, <2>2, <2>4
<1>8. CASE Covered(n, query[Axis(n)])
  <2>1. Onwards(n, query) = NextLevel(n)
    BY <1>6, <1>8 DEF Onwards
  <2>2. ~HasNext(n)
    BY <1>4, <1>7, <2>1, NextLevelFacts DEF NextLevel
  <2> QED BY <1>4, <1>6, <1>8, <2>2 DEF IsBlock
<1>9. CASE ~Covered(n, query[Axis(n)])
  <2>1. Onwards(n, query) = Halves(n)
    BY <1>6, <1>9 DEF Onwards
  <2>2. IsLeaf(n)
    BY <1>1, <1>4, <1>7, <2>1, HalvesFacts DEF Halves
  <2>3. Points(n) = {p}
    BY <1>4, <2>2, NodeFacts, FS_Singleton DEF IsLeaf
  <2> QED BY <1>4, <1>6, <1>9, <2>2, <2>3 DEF IsBlock
<1> QED BY <1>8, <1>9

\* What a recursion meets below a node has no points but those of the node.
LEMMA MetHasItsPoints ==
  ASSUME Placed, NEW query, NEW n \in Node, NEW m \in Met(Onward(query), n)
  PROVE  m \in Node /\ Points(m) \subseteq Points(n)
<1> DEFINE X == {l \in Node : Points(l) \subseteq Points(n)}
<1>1. X \in SUBSET Node /\ n \in X
  OBVIOUS
<1>2. Onward(query) \in [Node -> SUBSET Node]
  BY CollectedFacts
<1>3. ASSUME NEW l \in X, NEW k \in Onward(query)[l]
      PROVE  k \in X
  <2>1. l \in Node /\ k \in Onwards(l, query)
    BY DEF Onward
  <2>2. k \in Node /\ Points(k) \subseteq Points(l)
    BY <2>1, OnwardsFacts
  <2> QED BY <2>2
<1> HIDE DEF X
<1>4. ClosedUnder(Onward(query), X)
  BY <1>3 DEF ClosedUnder
<1>5. m \in X
  BY <1>1, <1>2, <1>4, MetIsLeast
<1> QED BY <1>5 DEF X

\* From each node with a point of a block collect goes on to that block, so
\* that no other node with the point is a block.
LEMMA BlocksAreDisjoint ==
  ASSUME Placed, NEW query, NEW b \in Collected(query), IsBlock(b, query),
         NEW c \in Collected(query), IsBlock(c, query),
         NEW p, p \in Points(b), p \in Points(c)
  PROVE  b = c
<1> DEFINE next == Onward(query)
           X    == {n \in Node : p \in Points(n) => b \in Met(next, n)}
<1>1. /\ next \in [Node -> SUBSET Node] /\ Descending(next)
      /\ b \in Node /\ c \in Node /\ p \in Skeleton
  BY CollectedFacts, NodesFacts, NodeFacts
<1>2. \A n \in Node : next[n] = Onwards(n, query)
  BY DEF Onward
<1>3. Onwards(b, query) = {} /\ Onwards(c, query) = {}
  BY DEF IsBlock, Onwards, NextLevel, Halves
<1>4. \A n \in Node : Met(next, n) = {n} \cup UNION {Met(next, m) : m \in next[n]}
  BY <1>1, MetUnfolds
<1>5. RootNode \in X
  <2>1. RootNode \in Node /\ Walk(next, RootNode) = Met(next, RootNode)
    BY <1>1, RootFacts, WalkIsMet
  <2> QED BY <2>1 DEF Collected
<1>6. ASSUME NEW n \in X, NEW m \in Onwards(n, query)
      PROVE  m \in X
  <2>1. n \in Node /\ m \in Node /\ Points(m) \subseteq Points(n)
    BY OnwardsFacts
  <2>2. ASSUME p \in Points(m)
        PROVE  b \in Met(next, m)
    <3>1. b \in Met(next, n) /\ b # n
      BY <1>3, <2>1, <2>2
    <3>2. PICK l \in next[n] : b \in Met(next, l)
      BY <1>4, <2>1, <3>1
    <3>3. l \in Onwards(n, query) /\ l \in Node
      BY <1>2, <2>1, OnwardsFacts
    <3>4. p \in Points(l)
      BY <3>2, <3>3, MetHasItsPoints
    <3>5. l = m
      BY <2>1, <2>2, <3>3, <3>4, OnwardsFacts
    <3> QED BY <3>2, <3>5
  <2> QED BY <2>1, <2>2
<1>7. X \in SUBSET Node
  OBVIOUS
<1>8. c \in X
  <2> HIDE DEF X
  <2> QED BY <1>5, <1>6, <1>7, CollectedFacts
<1>9. b \in Met(next, c)
  BY <1>8
<1>10. next[c] = {}
  BY <1>1, <1>2, <1>3
<1>11. Met(next, c) = {c} \cup UNION {Met(next, m) : m \in {}}
  BY <1>1, <1>4, <1>10
<1> QED BY <1>9, <1>11

-----------------------------------------------------------------------------
(* The range tree: ranks and answers.                                      *)

\* The active points of a node, and those with a rank along its axis.
Live(n)        == Points(n) \cap active
Ranked(n, r)   == {p \in Live(n) : RankIn(Live(n), p, Axis(n)) = r}

\* The ranks of a node are those of its active points.
LEMMA LiveFacts ==
  ASSUME TreeInv, NEW n \in Nodes
  PROVE  /\ n \in Node /\ Axis(n) \in 1 .. Axes /\ n \in DOMAIN count
         /\ Live(n) \in SUBSET Skeleton /\ IsFiniteSet(Live(n))
         /\ count[n] \in Nat /\ count[n] = Cardinality(Live(n))
         /\ count[n] <= Cardinality(Skeleton)
         /\ \A p \in Live(n) : RankIn(Live(n), p, Axis(n)) \in 0 .. count[n] - 1
         /\ \A r \in 0 .. count[n] - 1 : \E p \in Live(n) : Ranked(n, r) = {p}
<1>1. Placed /\ n \in Node /\ n \in DOMAIN count
  BY InvIsPlaced, NodesFacts DEF TreeInv
<1>2. Axis(n) \in 1 .. Axes /\ Points(n) \in SUBSET Skeleton
  BY <1>1, NodeFacts
<1>3. Live(n) \in SUBSET Skeleton
  BY <1>2 DEF Live
<1>4. count[n] = Cardinality(Live(n))
  BY DEF TreeInv, CountsAgree, Live
<1>5. /\ IsFiniteSet(Live(n)) /\ Cardinality(Live(n)) \in Nat
      /\ Cardinality(Live(n)) <= Cardinality(Skeleton)
  BY <1>3, SkeletonAssumption, Fewer
<1>6. /\ \A p \in Live(n) : RankIn(Live(n), p, Axis(n)) \in 0 .. Cardinality(Live(n)) - 1
      /\ \A p, q \in Live(n) :
           RankIn(Live(n), p, Axis(n)) = RankIn(Live(n), q, Axis(n)) => p = q
      /\ \A r \in 0 .. Cardinality(Live(n)) - 1 :
           \E p \in Live(n) : RankIn(Live(n), p, Axis(n)) = r
  BY <1>1, <1>2, <1>3, RankFacts
<1>7. ASSUME NEW r \in 0 .. count[n] - 1
      PROVE  \E p \in Live(n) : Ranked(n, r) = {p}
  <2>1. PICK p \in Live(n) : RankIn(Live(n), p, Axis(n)) = r
    BY <1>4, <1>6
  <2>2. Ranked(n, r) = {p}
    BY <1>6, <2>1 DEF Ranked
  <2> QED BY <2>2
<1> QED BY <1>1, <1>2, <1>3, <1>4, <1>5, <1>6, <1>7

\* The ranks of a node are those of its left half and, after them, those of
\* its right half.
LEMMA RanksOfHalves ==
  ASSUME TreeInv, NEW n \in Nodes, ~IsLeaf(n), NEW r \in 0 .. count[n] - 1
  PROVE  /\ Left(n) \in Nodes /\ Right(n) \in Nodes
         /\ r < count[Left(n)] => /\ r \in 0 .. count[Left(n)] - 1
                                  /\ Ranked(Left(n), r) = Ranked(n, r)
         /\ ~(r < count[Left(n)]) => /\ r - count[Left(n)] \in 0 .. count[Right(n)] - 1
                                     /\ Ranked(Right(n), r - count[Left(n)]) = Ranked(n, r)
<1> DEFINE L == Live(Left(n))
           U == Live(Right(n))
           A == Live(n)
           a == Axis(n)
           k == count[Left(n)]
<1>1. Placed /\ n \in Node /\ a \in 1 .. Axes /\ A \in SUBSET Skeleton
  BY InvIsPlaced, LiveFacts
<1>2. Left(n) \in Nodes /\ Right(n) \in Nodes
  BY <1>1, NodesFacts DEF Halves
<1>3. /\ Axis(Left(n)) = a /\ Axis(Right(n)) = a
      /\ Points(Left(n)) \cup Points(Right(n)) = Points(n)
      /\ Points(Left(n)) \cap Points(Right(n)) = {}
      /\ \A p \in Points(Left(n)), q \in Points(Right(n)) : KeyLess(p, q, a)
  BY <1>1, HalvesFacts
<1>4. /\ A = L \cup U /\ L \cap U = {}
      /\ \A p \in L, q \in U : KeyLess(p, q, a) /\ ~KeyLess(q, p, a)
  <2>1. A = L \cup U /\ L \cap U = {}
    BY <1>3 DEF Live
  <2>2. \A p \in L, q \in U : KeyLess(p, q, a)
    BY <1>3 DEF Live
  <2>3. \A p \in L, q \in U : p \in Skeleton /\ q \in Skeleton
    BY <1>1, <2>1
  <2> QED BY <1>1, <2>1, <2>2, <2>3, KeyOrder
<1>5. /\ IsFiniteSet(L) /\ IsFiniteSet(U) /\ k = Cardinality(L) /\ k \in Nat
      /\ count[Right(n)] = Cardinality(U) /\ count[Right(n)] \in Nat
      /\ count[n] = Cardinality(A) /\ count[n] \in Nat
  BY <1>2, LiveFacts
<1>6. \A p \in L : RankIn(L, p, a) \in 0 .. k - 1
  BY <1>2, <1>3, LiveFacts
<1>7. \A p \in U : RankIn(U, p, a) \in 0 .. count[Right(n)] - 1
  BY <1>2, <1>3, LiveFacts
<1> HIDE DEF L, U, A, a, k
<1>8. count[n] = k + count[Right(n)]
  BY <1>4, <1>5, FS_Union, FS_EmptySet
<1>9. \A p \in L : RankIn(A, p, a) = RankIn(L, p, a)
  BY <1>4 DEF RankIn, Ahead
<1>10. ASSUME NEW p \in U
       PROVE  RankIn(A, p, a) = k + RankIn(U, p, a)
  <2>1. Ahead(A, p, a) = L \cup Ahead(U, p, a) /\ L \cap Ahead(U, p, a) = {}
    BY <1>4 DEF Ahead
  <2>2. IsFiniteSet(Ahead(U, p, a)) /\ Cardinality(Ahead(U, p, a)) \in Nat
    <3>1. Ahead(U, p, a) \in SUBSET U
      BY DEF Ahead
    <3> QED BY <1>5, <3>1, Fewer
  <2> QED BY <1>5, <2>1, <2>2, FS_Union, FS_EmptySet DEF RankIn
<1>11. ASSUME r < k
       PROVE  /\ r \in 0 .. k - 1
              /\ {p \in L : RankIn(L, p, a) = r} = {p \in A : RankIn(A, p, a) = r}
  <2>1. \A p \in U : RankIn(A, p, a) # r
    BY <1>5, <1>7, <1>10, <1>11
  <2>2. r \in 0 .. k - 1
    BY <1>5, <1>11
  <2>3. \A p \in A : p \in L \/ p \in U
    BY <1>4
  <2>4. \A p \in L : p \in A
    BY <1>4
  <2>5. {p \in L : RankIn(L, p, a) = r} = {p \in A : RankIn(A, p, a) = r}
    BY <1>9, <2>1, <2>3, <2>4
  <2> QED BY <2>2, <2>5
<1>12. ASSUME ~(r < k)
       PROVE  /\ r - k \in 0 .. count[Right(n)] - 1
              /\ {p \in U : RankIn(U, p, a) = r - k} = {p \in A : RankIn(A, p, a) = r}
  <2>1. \A p \in L : RankIn(A, p, a) # r
    BY <1>5, <1>6, <1>9, <1>12
  <2>2. \A p \in U : RankIn(U, p, a) = r - k <=> RankIn(A, p, a) = r
    BY <1>5, <1>7, <1>10
  <2>3. r - k \in 0 .. count[Right(n)] - 1
    BY <1>5, <1>8, <1>12
  <2> QED BY <1>4, <2>1, <2>2, <2>3
<1> QED BY <1>2, <1>3, <1>11, <1>12 DEF Ranked, L, U, A, a, k

\* select_active_by_rank finds the active point with that rank.
LEMMA ByRankFindsRank ==
  ASSUME TreeInv, NEW n \in Nodes, NEW r \in 0 .. count[n] - 1
  PROVE  ByRank[n][r] \in Ranked(n, r)
<1> DEFINE Found(f, m, s) ==
             IF IsLeaf(m) THEN CHOOSE p \in Points(m) : TRUE
             ELSE IF s < count[Left(m)] THEN f[Left(m)][s]
             ELSE f[Right(m)][s - count[Left(m)]]
           Of(f, m) == [s \in 0 .. count[m] - 1 |-> Found(f, m, s)]
           wanted == [m \in Nodes |->
                        [s \in 0 .. count[m] - 1 |-> CHOOSE p \in Ranked(m, s) : TRUE]]
<1>1. Placed /\ DOMAIN count = Nodes /\ Nodes \in SUBSET Node
  BY InvIsPlaced, NodesFacts DEF TreeInv
<1>2. ASSUME NEW m \in Nodes, NEW s \in 0 .. count[m] - 1, IsLeaf(m)
      PROVE  Ranked(m, s) = {CHOOSE p \in Points(m) : TRUE}
  <2>1. PICK p \in Live(m) : Ranked(m, s) = {p}
    BY LiveFacts
  <2>2. Points(m) = {p}
    BY <1>1, <1>2, <2>1, NodeFacts, FS_Singleton DEF IsLeaf, Live
  <2> QED BY <2>1, <2>2
<1>3. ASSUME NEW m \in Nodes, NEW s \in 0 .. count[m] - 1
      PROVE  Found(wanted, m, s) = wanted[m][s]
  <2>1. wanted[m][s] = CHOOSE p \in Ranked(m, s) : TRUE
    OBVIOUS
  <2>2. CASE IsLeaf(m)
    BY <1>2, <2>1, <2>2
  <2>3. CASE ~IsLeaf(m)
    <3>1. /\ Left(m) \in Nodes /\ Right(m) \in Nodes
          /\ s < count[Left(m)] => /\ s \in 0 .. count[Left(m)] - 1
                                   /\ Ranked(Left(m), s) = Ranked(m, s)
          /\ ~(s < count[Left(m)]) =>
               /\ s - count[Left(m)] \in 0 .. count[Right(m)] - 1
               /\ Ranked(Right(m), s - count[Left(m)]) = Ranked(m, s)
      BY <2>3, RanksOfHalves
    <3>2. CASE s < count[Left(m)]
      <4>1. wanted[Left(m)][s] = CHOOSE p \in Ranked(m, s) : TRUE
        BY <3>1, <3>2
      <4> QED BY <2>1, <2>3, <3>2, <4>1
    <3>3. CASE ~(s < count[Left(m)])
      <4>1. wanted[Right(m)][s - count[Left(m)]] = CHOOSE p \in Ranked(m, s) : TRUE
        BY <3>1, <3>3
      <4> QED BY <2>1, <2>3, <3>3, <4>1
    <3> QED BY <3>2, <3>3
  <2> QED BY <2>2, <2>3
<1>4. wanted = [m \in Nodes |-> Of(wanted, m)]
  <2>1. \A m \in Nodes : wanted[m] = [s \in 0 .. count[m] - 1 |-> wanted[m][s]]
    OBVIOUS
  <2>2. \A m \in Nodes : Of(wanted, m) = [s \in 0 .. count[m] - 1 |-> wanted[m][s]]
    <3> HIDE DEF wanted, Found
    <3> QED BY <1>3
  <2>3. wanted = [m \in Nodes |-> wanted[m]]
    OBVIOUS
  <2> HIDE DEF wanted, Of
  <2> QED BY <2>1, <2>2, <2>3
<1>5. ByRank = [m \in Nodes |-> Of(ByRank, m)]
  <2>1. ByRank = CHOOSE f : f = [m \in Nodes |-> Of(f, m)]
    BY <1>1 DEF ByRank
  <2> HIDE DEF wanted, Of
  <2> QED BY <1>4, <2>1
<1> DEFINE Wrong == {m \in Nodes : \E s \in 0 .. count[m] - 1 : ByRank[m][s] \notin Ranked(m, s)}
<1>6. ASSUME Wrong # {}
      PROVE  FALSE
  <2>1. PICK m \in Wrong : \A l \in Wrong : Measure(m) <= Measure(l)
    <3>1. Wrong \in SUBSET Node
      BY <1>1
    <3> HIDE DEF Wrong
    <3> QED BY <1>1, <1>6, <3>1, SmallestNode
  <2>2. m \in Nodes /\ m \in Node
    BY <1>1
  <2>3. PICK s \in 0 .. count[m] - 1 : ByRank[m][s] \notin Ranked(m, s)
    BY <2>1
  <2>4. ByRank[m][s] = Found(ByRank, m, s)
    <3>1. ByRank[m] = Of(ByRank, m)
      <4> HIDE DEF Of
      <4> QED BY <1>5, <2>2
    <3>2. Of(ByRank, m)[s] = Found(ByRank, m, s)
      <4> HIDE DEF Found
      <4> QED OBVIOUS
    <3> QED BY <3>1, <3>2
  <2>5. CASE IsLeaf(m)
    BY <1>2, <2>2, <2>3, <2>4, <2>5
  <2>6. CASE ~IsLeaf(m)
    <3>1. /\ Left(m) \in Nodes /\ Right(m) \in Nodes
          /\ s < count[Left(m)] => /\ s \in 0 .. count[Left(m)] - 1
                                   /\ Ranked(Left(m), s) = Ranked(m, s)
          /\ ~(s < count[Left(m)]) =>
               /\ s - count[Left(m)] \in 0 .. count[Right(m)] - 1
               /\ Ranked(Right(m), s - count[Left(m)]) = Ranked(m, s)
      BY <2>2, <2>6, RanksOfHalves
    <3>2. \A l \in {Left(m), Right(m)} :
            \A t \in 0 .. count[l] - 1 : ByRank[l][t] \in Ranked(l, t)
      <4>1. SUFFICES ASSUME NEW l \in {Left(m), Right(m)} PROVE l \notin Wrong
        BY <3>1
      <4>2. l \in Halves(m)
        BY <2>6 DEF Halves
      <4>3. Measure(l) \in Nat /\ Measure(l) < Measure(m) /\ Measure(m) \in Nat
        BY <1>1, <2>2, <4>2, OnwardsAreSmaller
      <4> QED BY <2>1, <4>3
    <3>3. CASE s < count[Left(m)]
      <4>1. ByRank[Left(m)][s] \in Ranked(m, s)
        BY <3>1, <3>2, <3>3
      <4> QED BY <2>3, <2>4, <2>6, <3>3, <4>1
    <3>4. CASE ~(s < count[Left(m)])
      <4>1. ByRank[Right(m)][s - count[Left(m)]] \in Ranked(m, s)
        BY <3>1, <3>2, <3>4
      <4> QED BY <2>3, <2>4, <2>6, <3>4, <4>1
    <3> QED BY <3>3, <3>4
  <2> QED BY <2>5, <2>6
<1> QED BY <1>6

\* A draw is a rank of a block, and a block one that collect meets for a query
\* in which no range is empty.
LEMMA DrawFacts ==
  ASSUME TreeInv, NEW query \in Queries
  PROVE  /\ \A d \in Draws(query) :
              /\ d = <<d[1], d[2]>> /\ d[1] \in Nodes /\ d[2] \in 0 .. count[d[1]] - 1
              /\ d[1] \in Collected(query) /\ IsBlock(d[1], query)
         /\ \A n, r : n \in Collected(query) /\ IsBlock(n, query) /\ r \in 0 .. count[n] - 1
                      /\ (\A a \in 1 .. Axes : ~IsEmpty(query[a]))
                        => <<n, r>> \in Draws(query)
<1> DEFINE found == {n \in Collected(query) : IsBlock(n, query)}
           none  == \E a \in 1 .. Axes : IsEmpty(query[a])
<1>1. Placed /\ Collected(query) \subseteq Nodes
  BY InvIsPlaced, CollectedFacts
<1>2. Blocks(query) = IF none THEN {} ELSE found
  BY DEF Blocks, Collected, Onward
<1>3. ASSUME NEW d \in Draws(query)
      PROVE  /\ d = <<d[1], d[2]>> /\ d[1] \in Nodes /\ d[2] \in 0 .. count[d[1]] - 1
             /\ d[1] \in Collected(query) /\ IsBlock(d[1], query)
  <2>1. /\ d = <<d[1], d[2]>> /\ d[1] \in Blocks(query)
        /\ d[2] \in 0 .. Cardinality(Skeleton) /\ d[2] < count[d[1]]
    BY DEF Draws
  <2>2. d[1] \in found
    BY <1>2, <2>1
  <2>3. d[1] \in Nodes
    BY <1>1, <2>2
  <2>4. count[d[1]] \in Nat
    BY <2>3, LiveFacts
  <2>5. Cardinality(Skeleton) \in Nat
    BY SkeletonAssumption, FS_CardinalityType
  <2>6. d[2] \in 0 .. count[d[1]] - 1
    BY <2>1, <2>4, <2>5
  <2> QED BY <2>1, <2>2, <2>3, <2>6
<1>4. ASSUME NEW n, NEW r, n \in Collected(query), IsBlock(n, query),
             r \in 0 .. count[n] - 1, \A a \in 1 .. Axes : ~IsEmpty(query[a])
      PROVE  <<n, r>> \in Draws(query)
  <2>1. n \in Blocks(query) /\ n \in Nodes
    BY <1>1, <1>2, <1>4
  <2>2. count[n] \in Nat /\ count[n] <= Cardinality(Skeleton)
    BY <2>1, LiveFacts
  <2>3. Cardinality(Skeleton) \in Nat
    BY SkeletonAssumption, FS_CardinalityType
  <2>4. r \in 0 .. Cardinality(Skeleton) /\ r < count[n]
    BY <1>4, <2>2, <2>3
  <2> QED BY <2>1, <2>4 DEF Draws
<1> HIDE DEF found, none
<1> QED BY <1>3, <1>4

\* Each active point in range is drawn by one rank of one block.
LEMMA DrawsAreHits ==
  ASSUME TreeInv, NEW query \in Queries
  PROVE  AnswersExactly(query)
<1> DEFINE hits  == {p \in active : Satisfies(p, query)}
           draws == Draws(query)
           drawn == [d \in draws |-> ByRank[d[1]][d[2]]]
<1>1. Placed
  BY InvIsPlaced
<1>2. ASSUME NEW d \in draws
      PROVE  drawn[d] \in Ranked(d[1], d[2]) /\ drawn[d] \in hits
  <2>1. /\ d[1] \in Nodes /\ d[2] \in 0 .. count[d[1]] - 1
        /\ d[1] \in Collected(query) /\ IsBlock(d[1], query)
    BY DrawFacts
  <2>2. drawn[d] \in Ranked(d[1], d[2])
    BY <2>1, ByRankFindsRank
  <2>3. drawn[d] \in Points(d[1]) /\ drawn[d] \in active
    BY <2>2 DEF Ranked, Live
  <2>4. Satisfies(drawn[d], query)
    BY <1>1, <2>1, <2>3, BlocksAreInRange
  <2> QED BY <2>2, <2>3, <2>4
<1>3. ASSUME NEW d \in draws, NEW e \in draws, drawn[d] = drawn[e]
      PROVE  d = e
  <2>1. /\ d = <<d[1], d[2]>> /\ d[1] \in Collected(query) /\ IsBlock(d[1], query)
        /\ e = <<e[1], e[2]>> /\ e[1] \in Collected(query) /\ IsBlock(e[1], query)
    BY DrawFacts
  <2>2. /\ drawn[d] \in Points(d[1]) /\ RankIn(Live(d[1]), drawn[d], Axis(d[1])) = d[2]
        /\ drawn[e] \in Points(e[1]) /\ RankIn(Live(e[1]), drawn[e], Axis(e[1])) = e[2]
    BY <1>2 DEF Ranked, Live
  <2> HIDE DEF drawn, draws
  <2>3. d[1] = e[1]
    BY <1>1, <1>3, <2>1, <2>2, BlocksAreDisjoint
  <2>4. d[2] = e[2]
    BY <1>3, <2>2, <2>3
  <2> QED BY <2>1, <2>3, <2>4
<1>4. ASSUME NEW p \in hits
      PROVE  \E d \in draws : drawn[d] = p
  <2>1. PICK n \in Collected(query) : IsBlock(n, query) /\ p \in Points(n)
    BY HitsAreInBlocks
  <2>2. n \in Nodes /\ p \in Live(n)
    BY <1>1, <2>1, CollectedFacts DEF Live
  <2> DEFINE r == RankIn(Live(n), p, Axis(n))
  <2>3. r \in 0 .. count[n] - 1
    BY <2>2, LiveFacts
  <2>4. \A a \in 1 .. Axes : ~IsEmpty(query[a])
    <3>1. SUFFICES ASSUME NEW a \in 1 .. Axes PROVE ~IsEmpty(query[a])
      OBVIOUS
    <3>2. coordinate[p][a] \in Int /\ In(coordinate[p][a], query[a])
      BY <1>1 DEF TreeInv, Placed, Satisfies
    <3> QED BY <3>2, QueryBounds, EmptyFacts
  <2>5. <<n, r>> \in draws
    BY <2>1, <2>3, <2>4, DrawFacts
  <2>6. PICK q \in Live(n) : Ranked(n, r) = {q}
    BY <2>2, <2>3, LiveFacts
  <2>7. p \in Ranked(n, r)
    BY <2>2 DEF Ranked
  <2>8. drawn[<<n, r>>] \in Ranked(n, r)
    BY <2>2, <2>3, <2>5, ByRankFindsRank
  <2>9. drawn[<<n, r>>] = p
    BY <2>6, <2>7, <2>8
  <2> QED BY <2>5, <2>9
<1>5. IsFiniteSet(hits)
  <2>1. hits \in SUBSET Skeleton
    BY DEF TreeInv
  <2> QED BY <2>1, SkeletonAssumption, Fewer
<1>6. {ByRank[d[1]][d[2]] : d \in draws} = hits
  BY <1>2, <1>4
<1>7. AnswersExactly(query) <=> /\ Cardinality(draws) = Cardinality(hits)
                                /\ {ByRank[d[1]][d[2]] : d \in draws} = hits
  BY DEF AnswersExactly, Size
<1>8. drawn \in [draws -> hits]
  BY <1>2
<1> HIDE DEF drawn, draws, hits
<1>9. drawn \in Injection(draws, hits)
  BY <1>3, <1>8 DEF Injection, IsInjective
<1>10. drawn \in Surjection(draws, hits)
  BY <1>4, <1>8 DEF Surjection
<1>11. Cardinality(draws) = Cardinality(hits)
  BY <1>5, <1>9, <1>10, FS_Injection
<1> QED BY <1>6, <1>7, <1>11

\* Each query is answered exactly after any updates: each active point in its
\* range has one rank of one block, for any points, axes, coordinates and
\* ranges, open or closed.
THEOREM QueriesAreAlwaysExact == TreeSpec => []QueriesAreExact
<1>1. TreeInv => QueriesAreExact
  BY DrawsAreHits DEF QueriesAreExact
<1> QED BY <1>1, TreeInductive, PTL

-----------------------------------------------------------------------------
(* The alias table: sequences in order.                                    *)

\* What is in a sequence, and that nothing is in it twice.
Elems(q) == {q[j] : j \in 1 .. Len(q)}
Once(q)  == \A i, j \in 1 .. Len(q) : q[i] = q[j] => i = j

\* A strict total order, as a set of pairs.
IsOrder(U, before) ==
  /\ \A x \in U : <<x, x>> \notin before
  /\ \A x, y, z \in U :
       <<x, y>> \in before /\ <<y, z>> \in before => <<x, z>> \in before
  /\ \A x, y \in U : x # y => <<x, y>> \in before \/ <<y, x>> \in before

\* InOrder lists each element of the set once.
LEMMA Listed ==
  ASSUME NEW U, IsFiniteSet(U), NEW before, IsOrder(U, before)
  PROVE  /\ InOrder(U, before) \in Seq(U) /\ Once(InOrder(U, before))
         /\ Elems(InOrder(U, before)) = U
<1> DEFINE Early(x) == {y \in U : <<y, x>> \in before}
           rank     == [x \in U |-> Cardinality(Early(x))]
           n        == Cardinality(U)
           T        == 0 .. n - 1
           q        == InOrder(U, before)
<1>1. n \in Nat
  BY FS_CardinalityType
<1>2. \A x \in U : IsFiniteSet(Early(x)) /\ Early(x) \in SUBSET U
  <2>1. \A x \in U : Early(x) \in SUBSET U
    OBVIOUS
  <2> QED BY <2>1, Fewer
<1>3. rank \in [U -> T]
  <2>1. ASSUME NEW x \in U
        PROVE  Cardinality(Early(x)) \in T
    <3>1. x \notin Early(x) /\ Early(x) \in SUBSET U
      BY DEF IsOrder
    <3>2. Cardinality(Early(x)) \in Nat /\ Cardinality(Early(x)) < n
      <4> HIDE DEF Early
      <4> QED BY <3>1, Fewer
    <3> QED BY <1>1, <3>2
  <2> QED BY <2>1
<1>4. ASSUME NEW x \in U, NEW y \in U, <<x, y>> \in before
      PROVE  Cardinality(Early(x)) < Cardinality(Early(y))
  <2>1. \A z \in U : <<z, x>> \in before => <<z, y>> \in before
    BY <1>4 DEF IsOrder
  <2>2. x \in Early(y) /\ x \notin Early(x)
    BY <1>4 DEF IsOrder
  <2>3. Early(x) \subseteq Early(y)
    BY <2>1
  <2>4. IsFiniteSet(Early(y)) /\ Early(x) \in SUBSET Early(y) /\ Early(x) # Early(y)
    BY <1>2, <2>2, <2>3
  <2> HIDE DEF Early
  <2> QED BY <2>4, Fewer
<1>5. \A x, y \in U : rank[x] = rank[y] => x = y
  <2>1. ASSUME NEW x \in U, NEW y \in U, rank[x] = rank[y], x # y
        PROVE  FALSE
    <3>1. <<x, y>> \in before \/ <<y, x>> \in before
      BY <2>1 DEF IsOrder
    <3>2. rank[x] < rank[y] \/ rank[y] < rank[x]
      BY <1>4, <3>1
    <3>3. rank[x] \in Nat /\ rank[y] \in Nat
      <4> HIDE DEF rank
      <4> QED BY <1>1, <1>3
    <3> HIDE DEF rank
    <3> QED BY <2>1, <3>2, <3>3
  <2> QED BY <2>1
<1>6. IsFiniteSet(T) /\ Cardinality(T) = n
  BY <1>1, UpTo
<1>7. \A r \in T : \E x \in U : rank[x] = r
  <2> HIDE DEF rank, T
  <2>1. rank \in Injection(U, T)
    BY <1>3, <1>5 DEF Injection, IsInjective
  <2>2. rank \in Surjection(U, T)
    BY <1>1, <1>6, <2>1, FS_Injection
  <2> QED BY <2>2 DEF Surjection
<1>8. /\ q = [r \in 1 .. n |-> CHOOSE x \in U : Cardinality(Early(x)) = r - 1]
  BY DEF InOrder
<1>9. ASSUME NEW r \in 1 .. n
      PROVE  q[r] \in U /\ rank[q[r]] = r - 1
  <2>1. r - 1 \in T
    BY <1>1
  <2>2. \E x \in U : Cardinality(Early(x)) = r - 1
    BY <1>7, <2>1
  <2>3. q[r] = CHOOSE x \in U : Cardinality(Early(x)) = r - 1
    BY <1>8
  <2> HIDE DEF q, Early
  <2>4. q[r] \in U /\ Cardinality(Early(q[r])) = r - 1
    BY <2>2, <2>3
  <2> QED BY <2>4
<1> HIDE DEF rank, Early
<1>10. q \in [1 .. n -> U]
  <2>1. \A r \in 1 .. n : (CHOOSE x \in U : Cardinality(Early(x)) = r - 1) \in U
    BY <1>8, <1>9
  <2> HIDE DEF n
  <2> QED BY <1>8, <2>1
<1> HIDE DEF q, n
<1>11. q \in Seq(U) /\ Len(q) = n
  BY <1>1, <1>10
<1>12. Once(q)
  <2>1. \A i, j \in 1 .. n : q[i] = q[j] => i - 1 = j - 1
    BY <1>9
  <2>2. \A i, j \in 1 .. n : q[i] = q[j] => i = j
    BY <1>1, <2>1
  <2> QED BY <1>11, <2>2 DEF Once
<1>13. ASSUME NEW x \in U
       PROVE  \E r \in 1 .. n : q[r] = x
  <2>1. rank[x] \in Nat /\ rank[x] + 1 \in 1 .. n
    BY <1>1, <1>3
  <2>2. PICK r \in 1 .. n : r = rank[x] + 1
    BY <2>1
  <2>3. q[r] \in U /\ rank[q[r]] = r - 1
    BY <1>9
  <2>4. rank[q[r]] = rank[x]
    BY <2>1, <2>2, <2>3
  <2>5. q[r] = x
    BY <1>5, <2>3, <2>4
  <2> QED BY <2>5
<1>14. Elems(q) = U
  BY <1>9, <1>11, <1>13 DEF Elems
<1> QED BY <1>11, <1>12, <1>14 DEF q

\* A sequence over a set is one over a larger set, and its elements are of it.
LEMMA SeqOfMore ==
  ASSUME NEW U, NEW T \in SUBSET U, NEW q \in Seq(T)
  PROVE  q \in Seq(U) /\ Elems(q) \subseteq T
<1>1. Len(q) \in Nat /\ q \in [1 .. Len(q) -> T]
  OBVIOUS
<1>2. q \in [1 .. Len(q) -> U]
  BY <1>1
<1>3. \A j \in 1 .. Len(q) : q[j] \in T
  BY <1>1
<1> QED BY <1>1, <1>2, <1>3 DEF Elems

\* A stack of columns holds each of them once.
LEMMA Stacked ==
  ASSUME NEW T \in SUBSET Nat, IsFiniteSet(T)
  PROVE  Stack(T) \in Seq(T) /\ Once(Stack(T)) /\ Elems(Stack(T)) = T
<1> DEFINE before == {p \in T \X T : p[1] < p[2]}
<1>1. \A x, y \in T : <<x, y>> \in before <=> x < y
  OBVIOUS
<1>2. \A x \in T : x \in Nat
  OBVIOUS
<1>3. Stack(T) = InOrder(T, before)
  BY DEF Stack
<1> HIDE DEF before
<1>4. IsOrder(T, before)
  BY <1>1, <1>2 DEF IsOrder
<1> QED BY <1>3, <1>4, Listed

\* Taking the top of a stack.
LEMMA Popped ==
  ASSUME NEW U, NEW q \in Seq(U), q # <<>>, Once(q)
  PROVE  /\ Last(q) \in U /\ Last(q) \in Elems(q)
         /\ Front(q) \in Seq(U) /\ Once(Front(q))
         /\ Elems(Front(q)) = Elems(q) \ {Last(q)}
<1> DEFINE n == Len(q)
<1>1. n \in Nat /\ n >= 1
  BY EmptySeq
<1>2. /\ Front(q) \in Seq(U) /\ Len(Front(q)) = n - 1
      /\ \A i \in 1 .. n - 1 : Front(q)[i] = q[i]
  <2>1. \A i \in 1 .. n - 1 : q[i] \in U
    BY <1>1
  <2>2. /\ SubSeq(q, 1, n - 1) \in Seq(U)
        /\ Len(SubSeq(q, 1, n - 1)) = IF 1 <= n - 1 THEN n - 1 - 1 + 1 ELSE 0
        /\ \A i \in 1 .. n - 1 - 1 + 1 : SubSeq(q, 1, n - 1)[i] = q[1 + i - 1]
    <3>1. 1 \in Int /\ n - 1 \in Int
      BY <1>1
    <3> HIDE DEF n
    <3> QED BY <2>1, <3>1, SubSeqProperties
  <2> HIDE DEF n
  <2>3. n - 1 - 1 + 1 = n - 1 /\ \A i \in 1 .. n - 1 : 1 + i - 1 = i
    BY <1>1
  <2>4. \A i \in 1 .. n - 1 : SubSeq(q, 1, n - 1)[i] = q[i]
    BY <2>2, <2>3
  <2>5. Len(SubSeq(q, 1, n - 1)) = n - 1
    BY <1>1, <2>2
  <2> QED BY <2>2, <2>4, <2>5 DEF Front, n
<1>3. Last(q) = q[n] /\ q[n] \in U
  BY <1>1 DEF Last
<1>4. \A i, j \in 1 .. n : q[i] = q[j] => i = j
  BY DEF Once
<1>5. Last(q) \in Elems(q)
  BY <1>1, <1>3 DEF Elems
<1>6. Once(Front(q))
  <2>1. \A i \in 1 .. n - 1 : i \in 1 .. n
    BY <1>1
  <2> QED BY <1>2, <1>4, <2>1 DEF Once
<1>7. Elems(Front(q)) = {q[i] : i \in 1 .. n - 1}
  BY <1>2 DEF Elems
<1>8. \A i \in 1 .. n : i \in 1 .. n - 1 <=> q[i] # q[n]
  BY <1>1, <1>4
<1>9. Elems(Front(q)) = Elems(q) \ {Last(q)}
  <2>1. Elems(q) = {q[i] : i \in 1 .. n}
    BY DEF Elems
  <2>2. \A i \in 1 .. n - 1 : i \in 1 .. n
    BY <1>1
  <2> HIDE DEF n
  <2>3. \A x \in Elems(Front(q)) : x \in Elems(q) /\ x # q[n]
    BY <1>7, <1>8, <2>1, <2>2
  <2>4. \A x \in Elems(q) : x # q[n] => x \in Elems(Front(q))
    BY <1>7, <1>8, <2>1, <2>2
  <2> QED BY <1>3, <2>3, <2>4
<1> QED BY <1>2, <1>3, <1>5, <1>6, <1>9

\* Putting a column on top.
LEMMA Pushed ==
  ASSUME NEW U, NEW q \in Seq(U), NEW x \in U, x \notin Elems(q), Once(q)
  PROVE  /\ Append(q, x) \in Seq(U) /\ Once(Append(q, x))
         /\ Elems(Append(q, x)) = Elems(q) \cup {x}
<1> DEFINE n == Len(q)
           a == Append(q, x)
<1>1. /\ n \in Nat /\ a \in Seq(U) /\ Len(a) = n + 1
      /\ \A i \in 1 .. n : a[i] = q[i]
      /\ a[n + 1] = x
  BY AppendProperties
<1>2. \A i, j \in 1 .. n : q[i] = q[j] => i = j
  BY DEF Once
<1>3. \A i \in 1 .. n : q[i] # x
  BY DEF Elems
<1>4. \A i \in 1 .. n + 1 : i \in 1 .. n \/ i = n + 1
  BY <1>1
<1> HIDE DEF a, n
<1>5. Once(a)
  BY <1>1, <1>2, <1>3, <1>4 DEF Once
<1>6. Elems(a) = Elems(q) \cup {x}
  <2>1. Elems(q) = {q[i] : i \in 1 .. n}
    BY DEF Elems, n
  <2>2. Elems(a) = {a[i] : i \in 1 .. n + 1}
    BY <1>1 DEF Elems
  <2>3. n + 1 \in 1 .. n + 1 /\ \A i \in 1 .. n : i \in 1 .. n + 1
    BY <1>1
  <2> QED BY <1>1, <1>4, <2>1, <2>2, <2>3
<1> QED BY <1>1, <1>5, <1>6 DEF a


-----------------------------------------------------------------------------
(* The alias table: adding up by counting.                                 *)

\* Masses as a set of units, so that they can be added up by counting.
Pile(f, T) == {p \in T \X Nat : 1 <= p[2] /\ p[2] <= f[p[1]]}
Mass(f, T) == Cardinality(Pile(f, T))

\* No columns hold nothing.
LEMMA PileOfNone ==
  ASSUME NEW f
  PROVE  IsFiniteSet(Pile(f, {})) /\ Mass(f, {}) = 0
<1>1. Pile(f, {}) = {}
  BY DEF Pile
<1> QED BY <1>1, FS_EmptySet DEF Mass

\* The pile of one more column.
LEMMA PileOfMore ==
  ASSUME NEW f, NEW T, NEW i, i \notin T, f[i] \in Nat, IsFiniteSet(Pile(f, T))
  PROVE  /\ IsFiniteSet(Pile(f, T \cup {i}))
         /\ Mass(f, T) \in Nat
         /\ Mass(f, T \cup {i}) = Mass(f, T) + f[i]
<1> DEFINE new == {i} \X (1 .. f[i])
<1>1. IsFiniteSet(1 .. f[i]) /\ Cardinality(1 .. f[i]) = f[i]
  BY UpTo
<1>2. IsFiniteSet({i}) /\ Cardinality({i}) = 1
  BY FS_Singleton
<1>3. IsFiniteSet(new) /\ Cardinality(new) = f[i]
  <2> DEFINE units == 1 .. f[i]
  <2> HIDE DEF units
  <2>1. IsFiniteSet({i} \X units) /\ Cardinality({i} \X units) = Cardinality({i}) * Cardinality(units)
    BY <1>1, <1>2, FS_Product DEF units
  <2>2. 1 * f[i] = f[i]
    OBVIOUS
  <2> QED BY <1>1, <1>2, <2>1, <2>2 DEF units
<1>4. Pile(f, T \cup {i}) = Pile(f, T) \cup new
  BY DEF Pile
<1>5. Pile(f, T) \cap new = {}
  BY DEF Pile
<1> HIDE DEF new
<1>6. /\ IsFiniteSet(Pile(f, T) \cup new)
      /\ Cardinality(Pile(f, T) \cup new)
           = Cardinality(Pile(f, T)) + Cardinality(new) - Cardinality(Pile(f, T) \cap new)
  BY <1>3, FS_Union
<1>7. Cardinality(Pile(f, T)) \in Nat
  BY FS_CardinalityType
<1>8. Cardinality(Pile(f, T) \cap new) = 0
  BY <1>5, FS_EmptySet
<1>9. Cardinality(Pile(f, T \cup {i})) = Cardinality(Pile(f, T)) + f[i] - 0
  BY <1>3, <1>4, <1>6, <1>8
<1>10. \A x, y \in Nat : x + y - 0 = x + y
  OBVIOUS
<1>11. Cardinality(Pile(f, T \cup {i})) = Cardinality(Pile(f, T)) + f[i]
  BY <1>7, <1>9, <1>10
<1>12. IsFiniteSet(Pile(f, T \cup {i}))
  BY <1>4, <1>6
<1> QED BY <1>7, <1>11, <1>12 DEF Mass

\* The pile of one less.
LEMMA PileOfLess ==
  ASSUME NEW f, NEW T, NEW i \in T, f[i] \in Nat, IsFiniteSet(Pile(f, T))
  PROVE  /\ IsFiniteSet(Pile(f, T \ {i})) /\ Mass(f, T \ {i}) \in Nat
         /\ Mass(f, T) = Mass(f, T \ {i}) + f[i]
<1>1. Pile(f, T \ {i}) \subseteq Pile(f, T)
  BY DEF Pile
<1>2. IsFiniteSet(Pile(f, T \ {i}))
  BY <1>1, FS_Subset
<1>3. (T \ {i}) \cup {i} = T /\ i \notin T \ {i}
  OBVIOUS
<1> QED BY <1>2, <1>3, PileOfMore

\* Columns that all hold at least, or at most, what they should together, hold it.
LEMMA PileIsLevel ==
  ASSUME NEW T, IsFiniteSet(T), NEW c \in Nat, NEW f, \A i \in T : f[i] \in Nat,
         IsFiniteSet(Pile(f, T)), Mass(f, T) = Cardinality(T) * c,
         (\A i \in T : f[i] >= c) \/ (\A i \in T : f[i] <= c)
  PROVE  \A i \in T : f[i] = c
<1> DEFINE level == T \X (1 .. c)
<1>1. IsFiniteSet(1 .. c) /\ Cardinality(1 .. c) = c
  BY FS_Interval
<1>2. IsFiniteSet(level) /\ Cardinality(level) = Cardinality(T) * c
  BY <1>1, FS_Product
<1>3. level \subseteq Pile(f, T) \/ Pile(f, T) \subseteq level
  <2>1. CASE \A i \in T : f[i] >= c
    BY <2>1 DEF Pile
  <2>2. CASE \A i \in T : f[i] <= c
    BY <2>2 DEF Pile
  <2> QED BY <2>1, <2>2
<1>4. level = Pile(f, T)
  <2> HIDE DEF level
  <2> QED BY <1>2, <1>3, FS_Subset DEF Mass
<1>5. ASSUME NEW i \in T
      PROVE  f[i] = c
  <2>1. \A j \in Nat : 1 <= j => (<<i, j>> \in level <=> j <= c)
    OBVIOUS
  <2>2. \A j \in Nat : 1 <= j => (<<i, j>> \in Pile(f, T) <=> j <= f[i])
    BY DEF Pile
  <2> HIDE DEF level
  <2>3. \A j \in Nat : 1 <= j => (j <= c <=> j <= f[i])
    BY <1>4, <2>1, <2>2
  <2>4. f[i] \in Nat
    OBVIOUS
  <2> QED BY <2>3, <2>4
<1> QED BY <1>5

\* The first columns up to n.
LEMMA FirstColumns ==
  ASSUME NEW n \in Nat
  PROVE  /\ 1 .. 0 = {}
         /\ n > 0 => 1 .. n = (1 .. n - 1) \cup {n} /\ n \notin 1 .. n - 1
OBVIOUS

\* The sum of the weights exists, and counts their units.
LEMMA SumOfUnits ==
  ASSUME NEW w \in Seq(Nat), NEW f, \A n \in 1 .. Len(w) : f[n] = w[n]
  PROVE  \A n \in 0 .. Len(w) :
           IsFiniteSet(Pile(f, 1 .. n)) /\ Mass(f, 1 .. n) \in Nat
<1> DEFINE k      == Len(w)
           Good(n) == IsFiniteSet(Pile(f, 1 .. n)) /\ Mass(f, 1 .. n) \in Nat
           Bad    == {n \in 0 .. k : ~Good(n)}
<1>1. k \in Nat /\ \A n \in 1 .. k : f[n] \in Nat
  OBVIOUS
<1>2. ASSUME Bad # {}
      PROVE  FALSE
  <2>1. Bad \in SUBSET Nat
    OBVIOUS
  <2>2. PICK n \in Bad : \A m \in Bad : n <= m
    <3> HIDE DEF Bad
    <3> QED BY <1>2, <2>1, LeastNumber
  <2>3. n \in 0 .. k /\ ~Good(n)
    OBVIOUS
  <2>4. CASE n = 0
    <3>1. Good(0)
      BY PileOfNone, FirstColumns
    <3> QED BY <2>3, <2>4, <3>1
  <2>5. CASE n # 0
    <3>1. n - 1 \in 0 .. k /\ n \in 1 .. k /\ ~(n <= n - 1) /\ n \in Nat /\ n > 0
      BY <1>1, <2>3, <2>5
    <3>2. Good(n - 1)
      BY <2>2, <3>1
    <3>3. f[n] \in Nat /\ n \notin 1 .. n - 1 /\ 1 .. n = (1 .. n - 1) \cup {n}
      BY <1>1, <3>1, FirstColumns
    <3>4. IsFiniteSet(Pile(f, 1 .. n - 1))
      BY <3>2
    <3>5. /\ IsFiniteSet(Pile(f, (1 .. n - 1) \cup {n}))
          /\ Mass(f, 1 .. n - 1) \in Nat
          /\ Mass(f, (1 .. n - 1) \cup {n}) = Mass(f, 1 .. n - 1) + f[n]
      BY <3>3, <3>4, PileOfMore
    <3>6. Mass(f, 1 .. n) \in Nat
      <4>1. Mass(f, 1 .. n - 1) + f[n] \in Nat
        BY <3>3, <3>5
      <4> QED BY <3>3, <3>5, <4>1
    <3>7. Good(n)
      BY <3>3, <3>5, <3>6
    <3> QED BY <2>3, <3>7
  <2> QED BY <2>4, <2>5
<1> QED BY <1>2

\* The sum is what the recursion computes.
LEMMA SumUnfolds ==
  ASSUME NEW w \in Seq(Nat)
  PROVE  \E sum \in [0 .. Len(w) -> Nat] :
           /\ Total(w) = sum[Len(w)]
           /\ sum[0] = 0
           /\ \A n \in 1 .. Len(w) : sum[n] = sum[n - 1] + w[n]
<1> DEFINE k   == Len(w)
           Step(g, n) == IF n = 0 THEN 0 ELSE g[n - 1] + w[n]
           sum == CHOOSE g : g = [n \in 0 .. k |-> Step(g, n)]
           all == [n \in 0 .. k |-> Mass(w, 1 .. n)]
<1>1. k \in Nat
  OBVIOUS
<1>2. \A n \in 0 .. k : IsFiniteSet(Pile(w, 1 .. n)) /\ Mass(w, 1 .. n) \in Nat
  <2>1. \A n \in 1 .. Len(w) : w[n] = w[n]
    OBVIOUS
  <2> QED BY SumOfUnits
<1>3. ASSUME NEW n \in 0 .. k
      PROVE  Step(all, n) = Mass(w, 1 .. n)
  <2>1. CASE n = 0
    <3>1. Mass(w, 1 .. 0) = 0
      BY PileOfNone, FirstColumns
    <3> QED BY <2>1, <3>1
  <2>2. CASE n # 0
    <3>1. n \in Nat /\ n > 0 /\ n - 1 \in 0 .. k /\ n \in 1 .. k
      BY <1>1, <2>2
    <3>2. w[n] \in Nat /\ IsFiniteSet(Pile(w, 1 .. n - 1))
      BY <1>2, <3>1
    <3>3. n \notin 1 .. n - 1 /\ 1 .. n = (1 .. n - 1) \cup {n}
      BY <3>1, FirstColumns
    <3>4. Mass(w, (1 .. n - 1) \cup {n}) = Mass(w, 1 .. n - 1) + w[n]
      BY <3>2, <3>3, PileOfMore
    <3>5. all[n - 1] = Mass(w, 1 .. n - 1)
      BY <3>1
    <3> HIDE DEF all
    <3> QED BY <2>2, <3>3, <3>4, <3>5
  <2> QED BY <2>1, <2>2
<1>4. all = [n \in 0 .. k |-> Step(all, n)]
  <2> DEFINE other == [n \in 0 .. k |-> Step(all, n)]
  <2>1. \A n \in 0 .. k : all[n] = other[n]
    <3>1. \A n \in 0 .. k : all[n] = Mass(w, 1 .. n)
      OBVIOUS
    <3> HIDE DEF all
    <3> QED BY <1>3, <3>1
  <2> QED BY <1>3
<1>5. sum = [n \in 0 .. k |-> Step(sum, n)]
  <2> HIDE DEF all
  <2> QED BY <1>4
<1>6. Total(w) = sum[k]
  BY DEF Total
<1> HIDE DEF sum
<1>7. sum[0] = 0 /\ \A n \in 1 .. k : sum[n] = sum[n - 1] + w[n]
  <2>1. \A n \in 0 .. k : sum[n] = IF n = 0 THEN 0 ELSE sum[n - 1] + w[n]
    BY <1>5
  <2>2. 0 \in 0 .. k /\ \A n \in 1 .. k : n \in 0 .. k /\ n # 0
    BY <1>1
  <2> QED BY <2>1, <2>2
<1>8. \A n \in 0 .. k : sum[n] \in Nat
  <2> DEFINE Bad == {n \in 0 .. k : sum[n] \notin Nat}
  <2>1. ASSUME Bad # {}
        PROVE  FALSE
    <3>1. Bad \in SUBSET Nat
      OBVIOUS
    <3>2. PICK n \in Bad : \A m \in Bad : n <= m
      <4> HIDE DEF Bad
      <4> QED BY <2>1, <3>1, LeastNumber
    <3>3. n # 0
      BY <1>7
    <3>4. n - 1 \in 0 .. k /\ n \in 1 .. k /\ ~(n <= n - 1)
      BY <1>1, <3>3
    <3>5. sum[n - 1] \in Nat /\ w[n] \in Nat
      BY <3>2, <3>4
    <3>6. sum[n] = sum[n - 1] + w[n]
      BY <1>7, <3>4
    <3> QED BY <3>5, <3>6
  <2> QED BY <2>1
<1>9. sum \in [0 .. k -> Nat]
  <2>1. DOMAIN sum = 0 .. k /\ sum = [n \in 0 .. k |-> sum[n]]
    BY <1>5
  <2> QED BY <1>8, <2>1
<1> QED BY <1>6, <1>7, <1>9

\* The scaled weights of k columns make up k times the total.
LEMMA ScaledMass ==
  ASSUME NEW w \in Seq(Nat), NEW f,
         \A n \in 1 .. Len(w) : f[n] = w[n] * Len(w)
  PROVE  /\ Total(w) \in Nat
         /\ IsFiniteSet(Pile(f, 1 .. Len(w)))
         /\ Mass(f, 1 .. Len(w)) = Len(w) * Total(w)
<1> DEFINE k == Len(w)
<1>1. PICK sum \in [0 .. k -> Nat] :
        /\ Total(w) = sum[k]
        /\ sum[0] = 0
        /\ \A n \in 1 .. k : sum[n] = sum[n - 1] + w[n]
  BY SumUnfolds
<1>2. k \in Nat /\ \A n \in 1 .. k : w[n] \in Nat
  OBVIOUS
<1>3. \A n \in 1 .. k : f[n] \in Nat /\ f[n] = w[n] * k
  BY <1>2
<1>4. \A n \in 0 .. k : sum[n] \in Nat
  BY <1>1
<1> HIDE DEF k
<1> DEFINE Good(n) == IsFiniteSet(Pile(f, 1 .. n)) /\ Mass(f, 1 .. n) = k * sum[n]
           Bad     == {n \in 0 .. k : ~Good(n)}
<1>5. ASSUME Bad # {}
      PROVE  FALSE
  <2>1. Bad \in SUBSET Nat
    BY <1>2
  <2>2. PICK n \in Bad : \A m \in Bad : n <= m
    <3> HIDE DEF Bad
    <3> QED BY <1>5, <2>1, LeastNumber
  <2>3. n \in 0 .. k /\ ~Good(n)
    OBVIOUS
  <2>4. CASE n = 0
    <3>1. IsFiniteSet(Pile(f, 1 .. 0)) /\ Mass(f, 1 .. 0) = 0
      BY PileOfNone, FirstColumns
    <3>2. k * sum[0] = 0
      BY <1>1, <1>2
    <3> QED BY <2>3, <2>4, <3>1, <3>2
  <2>5. CASE n # 0
    <3>1. n - 1 \in 0 .. k /\ n \in 1 .. k /\ ~(n <= n - 1) /\ n \in Nat /\ n > 0
      BY <1>2, <2>3, <2>5
    <3>2. Good(n - 1)
      BY <2>2, <3>1
    <3>3. n \notin 1 .. n - 1 /\ 1 .. n = (1 .. n - 1) \cup {n}
      BY <3>1, FirstColumns
    <3>4. f[n] \in Nat /\ f[n] = w[n] * k /\ w[n] \in Nat
      BY <1>2, <1>3, <3>1
    <3>5. IsFiniteSet(Pile(f, 1 .. n - 1)) /\ Mass(f, 1 .. n - 1) = k * sum[n - 1]
      BY <3>2
    <3>6. /\ IsFiniteSet(Pile(f, (1 .. n - 1) \cup {n}))
          /\ Mass(f, (1 .. n - 1) \cup {n}) = Mass(f, 1 .. n - 1) + f[n]
      BY <3>3, <3>4, <3>5, PileOfMore
    <3>7. Mass(f, 1 .. n) = k * sum[n - 1] + w[n] * k
      BY <3>3, <3>4, <3>5, <3>6
    <3>8. sum[n] = sum[n - 1] + w[n] /\ sum[n - 1] \in Nat
      BY <1>1, <1>4, <3>1
    <3>9. k * (sum[n - 1] + w[n]) = k * sum[n - 1] + w[n] * k
      <4>1. \A a, b, c \in Nat : a * (b + c) = a * b + c * a
        OBVIOUS
      <4> QED BY <1>2, <3>4, <3>8, <4>1
    <3>10. Mass(f, 1 .. n) = k * sum[n]
      BY <3>7, <3>8, <3>9
    <3>11. IsFiniteSet(Pile(f, 1 .. n))
      BY <3>3, <3>6
    <3> QED BY <2>3, <3>10, <3>11
  <2> QED BY <2>4, <2>5
<1>6. k \in 0 .. k
  BY <1>2
<1>7. Good(k)
  BY <1>5, <1>6
<1> QED BY <1>1, <1>4, <1>6, <1>7 DEF k


-----------------------------------------------------------------------------
(* The alias table: its draws.                                             *)

\* The draws from the columns T that give i, when a column has c places.
Outcomes(t, T, c, i) == {d \in T \X (0 .. c - 1) : Drawn(t, d[1], d[2]) = i}

\* No columns, no draws.
LEMMA OutcomesOfNone ==
  ASSUME NEW t, NEW c, NEW i
  PROVE  Cardinality(Outcomes(t, {}, c, i)) = 0
<1>1. Outcomes(t, {}, c, i) = {}
  BY DEF Outcomes
<1> QED BY <1>1, FS_EmptySet

\* The draws of one more column.
LEMMA OutcomesOfMore ==
  ASSUME NEW t, NEW T, IsFiniteSet(T), NEW c \in Nat, NEW i, NEW s, s \notin T
  PROVE  /\ Cardinality(Outcomes(t, T, c, i)) \in Nat
         /\ Cardinality(Outcomes(t, {s}, c, i)) \in Nat
         /\ Cardinality(Outcomes(t, T \cup {s}, c, i))
              = Cardinality(Outcomes(t, T, c, i)) + Cardinality(Outcomes(t, {s}, c, i))
<1> DEFINE A == Outcomes(t, T, c, i)
           B == Outcomes(t, {s}, c, i)
           places == 0 .. c - 1
<1>1. IsFiniteSet(places) /\ IsFiniteSet({s})
  <2>1. 0 \in Int /\ c - 1 \in Int
    OBVIOUS
  <2>2. IsFiniteSet(places)
    BY <2>1, FS_Interval
  <2> QED BY <2>2, FS_Singleton
<1>2. IsFiniteSet(T \X places) /\ IsFiniteSet({s} \X places)
  <2> HIDE DEF places
  <2> QED BY <1>1, FS_Product
<1>3. A \in SUBSET (T \X places) /\ B \in SUBSET ({s} \X places)
  BY DEF Outcomes
<1>4. Outcomes(t, T \cup {s}, c, i) = A \cup B /\ A \cap B = {}
  BY DEF Outcomes
<1> HIDE DEF A, B, places
<1>5. /\ IsFiniteSet(A) /\ IsFiniteSet(B)
      /\ Cardinality(A) \in Nat /\ Cardinality(B) \in Nat
  BY <1>2, <1>3, Fewer
<1>6. Cardinality(A \cup B) = Cardinality(A) + Cardinality(B) - Cardinality(A \cap B)
  BY <1>5, FS_Union
<1>7. Cardinality(A \cap B) = 0
  BY <1>4, FS_EmptySet
<1>8. Cardinality(A \cup B) = Cardinality(A) + Cardinality(B)
  BY <1>5, <1>6, <1>7
<1> QED BY <1>4, <1>5, <1>8 DEF A, B

\* The draws of one column: its own below the threshold, its alias above.
LEMMA OutcomesOfOne ==
  ASSUME NEW t, NEW s, NEW c \in Nat, NEW i,
         t.threshold[s] \in 0 .. c, t.alias[s] # s \/ t.threshold[s] = c
  PROVE  /\ i = s => Cardinality(Outcomes(t, {s}, c, i)) = t.threshold[s]
         /\ i # s /\ i = t.alias[s] =>
              Cardinality(Outcomes(t, {s}, c, i)) = c - t.threshold[s]
         /\ i # s /\ i # t.alias[s] => Cardinality(Outcomes(t, {s}, c, i)) = 0
<1> DEFINE x == t.threshold[s]
           l == t.alias[s]
<1>1. /\ Cardinality(0 .. x - 1) = x /\ IsFiniteSet(0 .. x - 1)
      /\ Cardinality(x .. c - 1) = c - x /\ IsFiniteSet(x .. c - 1)
  <2>1. /\ 0 \in Int /\ x - 1 \in Int /\ x \in Int /\ c - 1 \in Int
    OBVIOUS
  <2>2. /\ IsFiniteSet(0 .. x - 1) /\ IsFiniteSet(x .. c - 1)
        /\ Cardinality(0 .. x - 1) = IF 0 > x - 1 THEN 0 ELSE (x - 1) - 0 + 1
        /\ Cardinality(x .. c - 1) = IF x > c - 1 THEN 0 ELSE (c - 1) - x + 1
    BY <2>1, FS_Interval
  <2>3. x \in 0 .. c /\ c \in Nat
    OBVIOUS
  <2> HIDE DEF x
  <2> QED BY <2>2, <2>3
<1>2. ASSUME NEW P, IsFiniteSet(P)
      PROVE  Cardinality({s} \X P) = Cardinality(P)
  <2>1. IsFiniteSet({s}) /\ Cardinality({s}) = 1
    BY FS_Singleton
  <2>2. Cardinality({s} \X P) = Cardinality({s}) * Cardinality(P)
    BY <1>2, <2>1, FS_Product
  <2>3. Cardinality(P) \in Nat
    BY <1>2, FS_CardinalityType
  <2>4. \A n \in Nat : 1 * n = n
    OBVIOUS
  <2> QED BY <2>1, <2>2, <2>3, <2>4
<1>3. CASE i = s
  <2>1. Outcomes(t, {s}, c, i) = {s} \X (0 .. x - 1)
    BY <1>3 DEF Outcomes, Drawn
  <2> QED BY <1>1, <1>2, <1>3, <2>1
<1>4. CASE i # s /\ i = l
  <2>1. Outcomes(t, {s}, c, i) = {s} \X (x .. c - 1)
    BY <1>4 DEF Outcomes, Drawn
  <2> QED BY <1>1, <1>2, <1>4, <2>1
<1>5. CASE i # s /\ i # l
  <2>1. Outcomes(t, {s}, c, i) = {}
    BY <1>5 DEF Outcomes, Drawn
  <2> QED BY <1>5, <2>1, FS_EmptySet
<1> QED BY <1>3, <1>4, <1>5

\* Columns that are left alone draw as before.
LEMMA SameOutcomes ==
  ASSUME NEW t, NEW b, NEW T, NEW c, NEW i,
         \A s \in T : t.threshold[s] = b.threshold[s] /\ t.alias[s] = b.alias[s]
  PROVE  Outcomes(t, T, c, i) = Outcomes(b, T, c, i)
BY DEF Outcomes, Drawn


-----------------------------------------------------------------------------
(* The alias table: how it is built.                                       *)

\* A table in the making, for k columns of c places: the columns on the stacks
\* are open, and as yet as they were.
Open(t) == Elems(t.small) \cup Elems(t.large)

HasShape(t, k) ==
  /\ t.scaled \in [1 .. k -> Nat] /\ t.threshold \in [1 .. k -> Nat]
  /\ t.alias \in [1 .. k -> 1 .. k]
  /\ t.small \in Seq(1 .. k) /\ t.large \in Seq(1 .. k)

HasStacks(t, c) ==
  /\ Once(t.small) /\ Once(t.large)
  /\ Elems(t.small) \cap Elems(t.large) = {}
  /\ \A i \in Elems(t.small) : t.scaled[i] < c
  /\ \A i \in Elems(t.large) : t.scaled[i] >= c
  /\ \A i \in Open(t) : t.threshold[i] = c /\ t.alias[i] = i

\* What the open columns hold fills them up, all taken together.
HasMass(t, c) ==
  /\ IsFiniteSet(Pile(t.scaled, Open(t)))
  /\ Mass(t.scaled, Open(t)) = Cardinality(Open(t)) * c

\* An index has its share: what closed columns give it, and what it still holds.
HasShares(t, w, k, c) ==
  \A i \in 1 .. k :
    w[i] * k = Cardinality(Outcomes(t, (1 .. k) \ Open(t), c, i))
                 + IF i \in Open(t) THEN t.scaled[i] ELSE 0

TableOK(t, w) ==
  /\ HasShape(t, Len(w)) /\ HasStacks(t, Total(w))
  /\ HasMass(t, Total(w)) /\ HasShares(t, w, Len(w), Total(w))

\* At first all columns are open.
LEMMA ClassifiedOK ==
  ASSUME NEW w \in Seq(Nat)
  PROVE  TableOK(Classified(w), w) /\ Open(Classified(w)) = 1 .. Len(w)
<1> DEFINE k      == Len(w)
           c      == Total(w)
           scaled == [i \in 1 .. k |-> w[i] * k]
           U      == {i \in 1 .. k : scaled[i] < c}
           L      == {i \in 1 .. k : scaled[i] >= c}
           t      == Classified(w)
<1>1. k \in Nat /\ \A i \in 1 .. k : w[i] \in Nat
  OBVIOUS
<1>2. \A i \in 1 .. k : scaled[i] = w[i] * k /\ scaled[i] \in Nat
  BY <1>1
<1>3. /\ t.scaled = scaled /\ t.small = Stack(U) /\ t.large = Stack(L)
      /\ t.threshold = [i \in 1 .. k |-> c] /\ t.alias = [i \in 1 .. k |-> i]
  BY DEF Classified
<1>4. /\ c \in Nat /\ IsFiniteSet(Pile(scaled, 1 .. k))
      /\ Mass(scaled, 1 .. k) = k * c
  <2> HIDE DEF scaled
  <2> QED BY <1>2, ScaledMass
<1>5. scaled \in [1 .. k -> Nat]
  BY <1>2
<1> HIDE DEF t, scaled
<1>6. /\ U \in SUBSET (1 .. k) /\ L \in SUBSET (1 .. k)
      /\ U \cap L = {} /\ U \cup L = 1 .. k
  BY <1>2, <1>4
<1>7. /\ \A i \in U : scaled[i] < c
      /\ \A i \in L : scaled[i] >= c
  OBVIOUS
<1> HIDE DEF U, L, c, k
<1>8. /\ t.small \in Seq(1 .. k) /\ Once(t.small) /\ Elems(t.small) = U
      /\ t.large \in Seq(1 .. k) /\ Once(t.large) /\ Elems(t.large) = L
  <2>1. /\ IsFiniteSet(U) /\ U \in SUBSET Nat
        /\ IsFiniteSet(L) /\ L \in SUBSET Nat
    <3>1. IsFiniteSet(1 .. k)
      BY <1>1, FS_Interval
    <3>2. 1 .. k \subseteq Nat
      OBVIOUS
    <3> QED BY <1>6, <3>1, <3>2, Fewer
  <2>2. /\ Stack(U) \in Seq(U) /\ Once(Stack(U)) /\ Elems(Stack(U)) = U
        /\ Stack(L) \in Seq(L) /\ Once(Stack(L)) /\ Elems(Stack(L)) = L
    BY <2>1, Stacked
  <2>3. Stack(U) \in Seq(1 .. k) /\ Stack(L) \in Seq(1 .. k)
    BY <1>6, <2>2, SeqOfMore
  <2> QED BY <1>3, <2>2, <2>3
<1>9. Open(t) = 1 .. k
  BY <1>6, <1>8 DEF Open
<1>10. HasShape(t, k)
  BY <1>3, <1>4, <1>5, <1>8 DEF HasShape
<1>11. HasStacks(t, c)
  <2>1. \A i \in 1 .. k : t.threshold[i] = c /\ t.alias[i] = i
    BY <1>3
  <2> QED BY <1>3, <1>6, <1>7, <1>8, <1>9, <2>1 DEF HasStacks
<1>12. HasMass(t, c)
  <2>1. Cardinality(1 .. k) = k
    BY <1>1, FS_Interval
  <2> QED BY <1>3, <1>4, <1>9, <2>1 DEF HasMass
<1>13. HasShares(t, w, k, c)
  <2>1. ASSUME NEW i \in 1 .. k
        PROVE  w[i] * k = Cardinality(Outcomes(t, (1 .. k) \ Open(t), c, i))
                 + IF i \in Open(t) THEN t.scaled[i] ELSE 0
    <3>1. (1 .. k) \ Open(t) = {} /\ i \in Open(t)
      BY <1>9
    <3>2. Cardinality(Outcomes(t, {}, c, i)) = 0
      BY OutcomesOfNone
    <3>3. t.scaled[i] \in Nat /\ t.scaled[i] = w[i] * k
      BY <1>2, <1>3
    <3>4. 0 + t.scaled[i] = t.scaled[i]
      BY <3>3
    <3> QED BY <3>1, <3>2, <3>3, <3>4
  <2> QED BY <2>1 DEF HasShares
<1> QED BY <1>9, <1>10, <1>11, <1>12, <1>13 DEF TableOK, k, c, t

\* What a pairing does to the stacks and to the columns.
LEMMA BorrowShape ==
  ASSUME NEW k \in Nat, NEW c \in Nat, NEW t, HasShape(t, k), HasStacks(t, c),
         t.small # <<>>, t.large # <<>>
  PROVE  \E s \in Elems(t.small), l \in Elems(t.large), rest \in Nat :
           /\ s \in 1 .. k /\ l \in 1 .. k /\ s # l
           /\ rest = t.scaled[l] - (c - t.scaled[s])
           /\ Borrow(t, c).scaled = [t.scaled EXCEPT ![l] = rest]
           /\ Borrow(t, c).threshold = [t.threshold EXCEPT ![s] = t.scaled[s]]
           /\ Borrow(t, c).alias = [t.alias EXCEPT ![s] = l]
           /\ Open(Borrow(t, c)) = Open(t) \ {s}
           /\ HasShape(Borrow(t, c), k) /\ HasStacks(Borrow(t, c), c)
<1> DEFINE s    == Last(t.small)
           l    == Last(t.large)
           rest == t.scaled[l] - (c - t.scaled[s])
           more == rest >= c
           b    == Borrow(t, c)
           U    == Elems(t.small)
           L    == Elems(t.large)
           F    == Front(t.small)
           G    == Front(t.large)
<1>1. /\ t.scaled \in [1 .. k -> Nat] /\ t.threshold \in [1 .. k -> Nat]
      /\ t.alias \in [1 .. k -> 1 .. k]
      /\ t.small \in Seq(1 .. k) /\ t.large \in Seq(1 .. k)
  BY DEF HasShape
<1>2. /\ Once(t.small) /\ Once(t.large) /\ U \cap L = {}
      /\ \A i \in U : t.scaled[i] < c
      /\ \A i \in L : t.scaled[i] >= c
      /\ \A i \in U \cup L : t.threshold[i] = c /\ t.alias[i] = i
  BY DEF HasStacks, Open
<1>3. /\ b.scaled = [t.scaled EXCEPT ![l] = rest]
      /\ b.small = IF more THEN F ELSE Append(F, l)
      /\ b.large = IF more THEN Append(G, l) ELSE G
      /\ b.threshold = [t.threshold EXCEPT ![s] = t.scaled[s]]
      /\ b.alias = [t.alias EXCEPT ![s] = l]
  BY DEF Borrow
<1> HIDE DEF b
<1>4. /\ s \in 1 .. k /\ s \in U /\ F \in Seq(1 .. k) /\ Once(F)
      /\ Elems(F) = U \ {s}
  BY <1>1, <1>2, Popped
<1>5. /\ l \in 1 .. k /\ l \in L /\ G \in Seq(1 .. k) /\ Once(G)
      /\ Elems(G) = L \ {l}
  BY <1>1, <1>2, Popped
<1> HIDE DEF s, l, F, G
<1>6. s # l /\ l \notin U /\ s \notin L
  BY <1>2, <1>4, <1>5
<1>7. rest \in Nat /\ rest < t.scaled[l]
  <2>1. t.scaled[s] \in Nat /\ t.scaled[l] \in Nat /\ t.scaled[s] < c /\ t.scaled[l] >= c
    BY <1>1, <1>2, <1>4, <1>5
  <2> QED BY <2>1
<1> HIDE DEF rest
<1>8. /\ Append(F, l) \in Seq(1 .. k) /\ Once(Append(F, l))
      /\ Elems(Append(F, l)) = (U \ {s}) \cup {l}
  <2>1. l \notin Elems(F)
    BY <1>4, <1>6
  <2> HIDE DEF U
  <2> QED BY <1>4, <1>5, <2>1, Pushed
<1>9. /\ Append(G, l) \in Seq(1 .. k) /\ Once(Append(G, l))
      /\ Elems(Append(G, l)) = L
  <2>1. l \notin Elems(G) /\ (L \ {l}) \cup {l} = L
    BY <1>5
  <2> HIDE DEF L
  <2>2. Elems(Append(G, l)) = (L \ {l}) \cup {l}
    BY <1>5, <2>1, Pushed
  <2> QED BY <1>5, <2>1, <2>2, Pushed
<1> HIDE DEF U, L
<1>10. /\ b.small \in Seq(1 .. k) /\ Once(b.small)
       /\ Elems(b.small) = IF more THEN U \ {s} ELSE (U \ {s}) \cup {l}
  BY <1>3, <1>4, <1>8
<1>11. /\ b.large \in Seq(1 .. k) /\ Once(b.large)
       /\ Elems(b.large) = IF more THEN L ELSE L \ {l}
  BY <1>3, <1>5, <1>9
<1>12. Open(b) = Open(t) \ {s}
  <2>1. Open(b) = (U \cup L) \ {s}
    BY <1>5, <1>6, <1>10, <1>11 DEF Open
  <2> QED BY <2>1 DEF Open, U, L
<1>13. HasShape(b, k)
  <2> HIDE DEF rest, more
  <2>1. b.scaled \in [1 .. k -> Nat]
    <3>1. t.scaled \in [1 .. k -> Nat] /\ rest \in Nat
      BY <1>1, <1>7
    <3>2. b.scaled = [t.scaled EXCEPT ![l] = rest]
      BY <1>3
    <3> QED BY <3>1, <3>2
  <2>2. b.threshold \in [1 .. k -> Nat]
    <3>1. t.threshold \in [1 .. k -> Nat] /\ t.scaled[s] \in Nat
      BY <1>1, <1>4
    <3>2. b.threshold = [t.threshold EXCEPT ![s] = t.scaled[s]]
      BY <1>3
    <3> QED BY <3>1, <3>2
  <2>3. b.alias \in [1 .. k -> 1 .. k]
    <3>1. t.alias \in [1 .. k -> 1 .. k] /\ l \in 1 .. k
      BY <1>1, <1>5
    <3>2. b.alias = [t.alias EXCEPT ![s] = l]
      BY <1>3
    <3> QED BY <3>1, <3>2
  <2> QED BY <1>10, <1>11, <2>1, <2>2, <2>3 DEF HasShape
<1>14. HasStacks(b, c)
  <2>1. U \subseteq 1 .. k /\ L \subseteq 1 .. k
    BY <1>1, SeqOfMore DEF U, L
  <2>2. \A i \in 1 .. k : b.scaled[i] = IF i = l THEN rest ELSE t.scaled[i]
    BY <1>1, <1>3
  <2>3. \A i \in 1 .. k : i # s => /\ b.threshold[i] = t.threshold[i]
                                   /\ b.alias[i] = t.alias[i]
    BY <1>1, <1>3
  <2>4. Elems(b.small) \cap Elems(b.large) = {}
    BY <1>2, <1>5, <1>6, <1>10, <1>11
  <2>5. \A i \in Elems(b.small) : b.scaled[i] < c
    <3>1. \A i \in U : i # l /\ i \in 1 .. k /\ b.scaled[i] = t.scaled[i]
      BY <1>6, <2>1, <2>2
    <3>2. b.scaled[l] = rest
      BY <1>5, <2>2
    <3>3. ~more => rest < c
      BY <1>7
    <3>4. \A i \in Elems(b.small) : i \in U \/ (~more /\ i = l)
      BY <1>10
    <3> HIDE DEF more
    <3> QED BY <1>2, <3>1, <3>2, <3>3, <3>4
  <2>6. \A i \in Elems(b.large) : b.scaled[i] >= c
    BY <1>2, <1>7, <1>11, <2>1, <2>2
  <2>7. \A i \in Open(b) : b.threshold[i] = c /\ b.alias[i] = i
    <3>1. Open(b) = (U \cup L) \ {s}
      BY <1>12 DEF Open, U, L
    <3> QED BY <1>2, <2>1, <2>3, <3>1
  <2> QED BY <1>10, <1>11, <2>4, <2>5, <2>6, <2>7 DEF HasStacks
<1> QED BY <1>3, <1>4, <1>5, <1>6, <1>7, <1>12, <1>13, <1>14 DEF U, L, b, rest


\* A pairing moves shares from the open columns to the one it closes.
LEMMA BorrowOK ==
  ASSUME NEW w \in Seq(Nat), NEW t, TableOK(t, w), t.small # <<>>, t.large # <<>>
  PROVE  /\ TableOK(Borrow(t, Total(w)), w)
         /\ Cardinality(Open(Borrow(t, Total(w)))) + 1 = Cardinality(Open(t))
<1> DEFINE k == Len(w)
           c == Total(w)
           b == Borrow(t, c)
           O == Open(t)
<1>1. k \in Nat /\ c \in Nat /\ \A i \in 1 .. k : w[i] \in Nat
  <2>1. \A i \in 1 .. Len(w) : [j \in 1 .. Len(w) |-> w[j] * Len(w)][i] = w[i] * Len(w)
    OBVIOUS
  <2>2. c \in Nat
    BY <2>1, ScaledMass
  <2> QED BY <2>2
<1>2. /\ HasShape(t, k) /\ HasStacks(t, c) /\ HasMass(t, c) /\ HasShares(t, w, k, c)
  BY DEF TableOK
<1> HIDE DEF k, c
<1>3. PICK s \in Elems(t.small), l \in Elems(t.large), rest \in Nat :
           /\ s \in 1 .. k /\ l \in 1 .. k /\ s # l
           /\ rest = t.scaled[l] - (c - t.scaled[s])
           /\ b.scaled = [t.scaled EXCEPT ![l] = rest]
           /\ b.threshold = [t.threshold EXCEPT ![s] = t.scaled[s]]
           /\ b.alias = [t.alias EXCEPT ![s] = l]
           /\ Open(b) = O \ {s}
           /\ HasShape(b, k) /\ HasStacks(b, c)
  BY <1>1, <1>2, BorrowShape
<1> HIDE DEF b
<1>4. s \in O /\ l \in O /\ O \in SUBSET (1 .. k)
  <2>1. t.small \in Seq(1 .. k) /\ t.large \in Seq(1 .. k)
    BY <1>2 DEF HasShape
  <2>2. Elems(t.small) \subseteq 1 .. k /\ Elems(t.large) \subseteq 1 .. k
    BY <2>1, SeqOfMore
  <2> QED BY <2>2 DEF Open
<1>5. /\ t.scaled \in [1 .. k -> Nat] /\ t.threshold \in [1 .. k -> Nat]
      /\ t.alias \in [1 .. k -> 1 .. k]
      /\ t.scaled[s] < c
  BY <1>2 DEF HasShape, HasStacks
<1> HIDE DEF O
<1>6. HasMass(b, c)
  <2> DEFINE f == t.scaled
             g == b.scaled
             P == O \ {s}
             Q == P \ {l}
  <2>0. IsFiniteSet(Pile(f, O)) /\ Mass(f, O) = Cardinality(O) * c
    BY <1>2 DEF HasMass, O
  <2>1. f[s] \in Nat /\ f[l] \in Nat /\ rest = f[l] - (c - f[s])
    BY <1>3, <1>5
  <2>2. /\ IsFiniteSet(Pile(f, P)) /\ Mass(f, P) \in Nat
        /\ Mass(f, O) = Mass(f, P) + f[s]
    BY <1>4, <2>0, <2>1, PileOfLess
  <2>3. l \in P
    BY <1>3, <1>4
  <2> HIDE DEF P
  <2>4. /\ IsFiniteSet(Pile(f, Q)) /\ Mass(f, Q) \in Nat
        /\ Mass(f, P) = Mass(f, Q) + f[l]
    BY <2>1, <2>2, <2>3, PileOfLess
  <2>5. \A i \in Q : f[i] = g[i]
    BY <1>3, <1>4, <1>5 DEF P
  <2>6. g[l] = rest /\ l \notin Q /\ Q \cup {l} = P
    <3>1. g[l] = rest
      BY <1>3, <1>5
    <3> QED BY <2>3, <3>1
  <2> HIDE DEF Q
  <2>7. Pile(f, Q) = Pile(g, Q)
    BY <2>5 DEF Pile
  <2>8. IsFiniteSet(Pile(g, Q)) /\ Mass(g, Q) = Mass(f, Q) /\ g[l] \in Nat
    BY <2>4, <2>6, <2>7 DEF Mass
  <2>9. IsFiniteSet(Pile(g, P)) /\ Mass(g, P) = Mass(g, Q) + g[l]
    <3>1. /\ IsFiniteSet(Pile(g, Q \cup {l}))
          /\ Mass(g, Q \cup {l}) = Mass(g, Q) + g[l]
      BY <2>6, <2>8, PileOfMore
    <3> QED BY <2>6, <3>1
  <2>10. Mass(f, O) = Mass(f, Q) + f[l] + f[s]
    BY <2>1, <2>2, <2>4
  <2>11. Mass(g, P) = Mass(f, Q) + rest
    BY <2>6, <2>8, <2>9
  <2>12. Mass(g, P) = Mass(f, O) - c
    BY <1>1, <2>1, <2>4, <2>10, <2>11
  <2>13. IsFiniteSet(O) /\ Cardinality(O) \in Nat
    <3>1. IsFiniteSet(1 .. k)
      BY <1>1, FS_Interval
    <3> QED BY <1>4, <3>1, Fewer
  <2>14. Cardinality(P) = Cardinality(O) - 1
    BY <1>4, <2>13, FS_RemoveElement DEF P
  <2>15. Mass(g, P) = Cardinality(P) * c
    <3>1. \A n, m \in Nat : n * m - m = (n - 1) * m
      OBVIOUS
    <3> QED BY <1>1, <2>0, <2>12, <2>13, <2>14, <3>1
  <2> QED BY <1>3, <2>9, <2>15 DEF P, HasMass
<1>7. IsFiniteSet(1 .. k)
  BY <1>1, FS_Interval
<1>8. Cardinality(Open(b)) + 1 = Cardinality(O)
  <2>1. IsFiniteSet(O) /\ Cardinality(O) \in Nat
    BY <1>4, <1>7, Fewer
  <2>2. Cardinality(O \ {s}) = Cardinality(O) - 1
    BY <1>4, <2>1, FS_RemoveElement
  <2> QED BY <1>3, <2>1, <2>2
<1>9. HasShares(b, w, k, c)
  <2>1. ASSUME NEW i \in 1 .. k
        PROVE  w[i] * k = Cardinality(Outcomes(b, (1 .. k) \ Open(b), c, i))
                            + IF i \in Open(b) THEN b.scaled[i] ELSE 0
    <3> DEFINE C == (1 .. k) \ O
               x == t.scaled[s]
    <3>1. (1 .. k) \ Open(b) = C \cup {s} /\ s \notin C
      BY <1>3, <1>4
    <3>2. IsFiniteSet(C)
      BY <1>7, Fewer
    <3>3. x \in 0 .. c /\ x \in Nat
      BY <1>1, <1>3, <1>5
    <3>4. b.threshold[s] = x /\ b.alias[s] = l /\ l # s
      BY <1>3, <1>5
    <3>5. \A j \in C : t.threshold[j] = b.threshold[j] /\ t.alias[j] = b.alias[j]
      BY <1>3, <1>4, <1>5
    <3>6. w[i] * k = Cardinality(Outcomes(t, C, c, i)) + IF i \in O THEN t.scaled[i] ELSE 0
      BY <1>2 DEF HasShares, O
    <3>7. i \in Open(b) <=> i \in O /\ i # s
      BY <1>3
    <3>8. b.scaled[i] = IF i = l THEN rest ELSE t.scaled[i]
      BY <1>3, <1>5
    <3>9. t.scaled[i] \in Nat /\ t.scaled[l] \in Nat
      BY <1>3, <1>5
    <3> HIDE DEF C, x
    <3>10. /\ i = s => Cardinality(Outcomes(b, {s}, c, i)) = x
           /\ i # s /\ i = l => Cardinality(Outcomes(b, {s}, c, i)) = c - x
           /\ i # s /\ i # l => Cardinality(Outcomes(b, {s}, c, i)) = 0
      <4>1. b.threshold[s] \in 0 .. c /\ b.alias[s] # s /\ c \in Nat
        BY <1>1, <3>3, <3>4
      <4>2. i = s => Cardinality(Outcomes(b, {s}, c, i)) = b.threshold[s]
        BY <4>1, OutcomesOfOne
      <4>3. ASSUME i # s, i = b.alias[s]
            PROVE  Cardinality(Outcomes(b, {s}, c, i)) = c - b.threshold[s]
        <5>1. b.threshold[s] \in 0 .. c /\ c \in Nat
              /\ (b.alias[s] # s \/ b.threshold[s] = c)
          BY <4>1
        <5> QED BY <4>3, <5>1, OutcomesOfOne
      <4>4. i # s /\ i # b.alias[s] => Cardinality(Outcomes(b, {s}, c, i)) = 0
        <5>1. i # s /\ i # b.alias[s] => Outcomes(b, {s}, c, i) = {}
          BY DEF Outcomes, Drawn
        <5> QED BY <5>1, FS_EmptySet
      <4> QED BY <3>4, <4>2, <4>3, <4>4
    <3>11. Outcomes(t, C, c, i) = Outcomes(b, C, c, i)
      BY <3>5, SameOutcomes
    <3>12. /\ Cardinality(Outcomes(b, C, c, i)) \in Nat
           /\ Cardinality(Outcomes(b, C \cup {s}, c, i))
                = Cardinality(Outcomes(b, C, c, i)) + Cardinality(Outcomes(b, {s}, c, i))
      BY <1>1, <3>1, <3>2, OutcomesOfMore
    <3> DEFINE n == Cardinality(Outcomes(b, C, c, i))
               m == Cardinality(Outcomes(b, {s}, c, i))
    <3>13. w[i] * k = n + IF i \in O THEN t.scaled[i] ELSE 0
      BY <3>6, <3>11
    <3>14. /\ n \in Nat
           /\ Cardinality(Outcomes(b, (1 .. k) \ Open(b), c, i)) = n + m
      BY <3>1, <3>12
    <3>15. m = IF i = s THEN x ELSE IF i = l THEN c - x ELSE 0
      BY <3>10
    <3> HIDE DEF n, m
    <3>16. CASE i = s
      <4>1. i \in O /\ i \notin Open(b) /\ t.scaled[i] = x
        BY <1>4, <3>7, <3>16 DEF x
      <4> QED BY <3>3, <3>13, <3>14, <3>15, <3>16, <4>1
    <3>17. CASE i = l
      <4>1. i \in O /\ i \in Open(b) /\ b.scaled[i] = t.scaled[i] - (c - x) /\ i # s
        BY <1>3, <1>4, <3>7, <3>8, <3>17 DEF x
      <4>2. m = c - x
        BY <3>15, <3>17, <4>1
      <4> QED BY <1>1, <3>3, <3>9, <3>13, <3>14, <4>1, <4>2
    <3>18. CASE i # s /\ i # l
      <4>1. m = 0 /\ b.scaled[i] = t.scaled[i] /\ (i \in Open(b) <=> i \in O)
        BY <3>7, <3>8, <3>15, <3>18
      <4> QED BY <3>9, <3>13, <3>14, <4>1
    <3> QED BY <3>16, <3>17, <3>18
  <2> QED BY <2>1 DEF HasShares
<1> QED BY <1>3, <1>6, <1>8, <1>9 DEF TableOK, k, c, b, O


\* The pairings one after another, n of them.
IsPairing(g, w, n) ==
  g = [m \in 0 .. n |-> IF m = 0 THEN Classified(w) ELSE Paired(g[m - 1], Total(w))]

\* The recursion of the table has a solution, built up one pairing at a time.
LEMMA PairingExists ==
  ASSUME NEW w
  PROVE  \A n \in Nat : \E g : IsPairing(g, w, n)
<1> DEFINE Bad == {n \in Nat : ~\E g : IsPairing(g, w, n)}
<1>1. ASSUME Bad # {}
      PROVE  FALSE
  <2>1. Bad \in SUBSET Nat
    OBVIOUS
  <2>2. PICK n \in Bad : \A m \in Bad : n <= m
    <3> HIDE DEF Bad
    <3> QED BY <1>1, <2>1, LeastNumber
  <2>3. n \in Nat /\ ~\E g : IsPairing(g, w, n)
    OBVIOUS
  <2>4. CASE n = 0
    <3> DEFINE h == [m \in 0 .. 0 |-> Classified(w)]
    <3>1. h = [m \in 0 .. 0 |-> IF m = 0 THEN Classified(w) ELSE Paired(h[m - 1], Total(w))]
      OBVIOUS
    <3>2. IsPairing(h, w, 0)
      <4> HIDE DEF h
      <4> QED BY <3>1 DEF IsPairing
    <3> QED BY <2>3, <2>4, <3>2
  <2>5. CASE n # 0
    <3>1. n - 1 \in Nat /\ ~(n <= n - 1) /\ n > 0
      BY <2>3, <2>5
    <3>2. n - 1 \notin Bad
      BY <2>2, <3>1
    <3>3. PICK g : IsPairing(g, w, n - 1)
      BY <3>1, <3>2
    <3>4. \A m \in 0 .. n - 1 :
            g[m] = IF m = 0 THEN Classified(w) ELSE Paired(g[m - 1], Total(w))
      BY <3>3 DEF IsPairing
    <3> DEFINE h == [m \in 0 .. n |-> IF m = n THEN Paired(g[n - 1], Total(w)) ELSE g[m]]
               Step(m) == IF m = 0 THEN Classified(w) ELSE Paired(h[m - 1], Total(w))
    <3>5. ASSUME NEW m \in 0 .. n
          PROVE  h[m] = Step(m)
      <4>1. CASE m = 0
        <5>1. h[m] = g[m] /\ m \in 0 .. n - 1
          BY <2>3, <3>1, <4>1
        <5>2. g[m] = Classified(w)
          BY <3>4, <4>1, <5>1
        <5> HIDE DEF h
        <5> QED BY <4>1, <5>1, <5>2
      <4>2. CASE m # 0 /\ m # n
        <5>1. m \in 0 .. n - 1 /\ m - 1 \in 0 .. n /\ m - 1 # n
          BY <2>3, <4>2
        <5>2. h[m] = g[m] /\ h[m - 1] = g[m - 1]
          BY <4>2, <5>1
        <5>3. g[m] = Paired(g[m - 1], Total(w))
          BY <3>4, <4>2, <5>1
        <5> HIDE DEF h
        <5> QED BY <4>2, <5>2, <5>3
      <4>3. CASE m # 0 /\ m = n
        <5>1. m - 1 \in 0 .. n /\ m - 1 # n /\ m - 1 = n - 1
          BY <2>3, <4>3
        <5>2. h[m] = Paired(g[n - 1], Total(w)) /\ h[m - 1] = g[n - 1]
          BY <4>3, <5>1
        <5> HIDE DEF h
        <5> QED BY <4>3, <5>2
      <4> QED BY <4>1, <4>2, <4>3
    <3>6. h = [m \in 0 .. n |-> h[m]]
      OBVIOUS
    <3> HIDE DEF h
    <3>7. h = [m \in 0 .. n |-> Step(m)]
      <4> HIDE DEF Step
      <4> QED BY <3>5, <3>6
    <3>8. IsPairing(h, w, n)
      BY <3>7 DEF IsPairing
    <3> QED BY <2>3, <3>8
  <2> QED BY <2>4, <2>5
<1> QED BY <1>1

\* After n pairings at most k - n columns are open, or a stack is empty.
LEMMA BuiltOK ==
  ASSUME NEW w \in Seq(Nat)
  PROVE  /\ TableOK(Built(w), w)
         /\ Built(w).small = <<>> \/ Built(w).large = <<>>
<1> DEFINE k == Len(w)
           c == Total(w)
           after == CHOOSE g : g = [m \in 0 .. k |-> IF m = 0 THEN Classified(w)
                                                     ELSE Paired(g[m - 1], c)]
           Ready(t)   == t.small = <<>> \/ t.large = <<>>
           Good(n)    == /\ TableOK(after[n], w)
                         /\ Ready(after[n]) \/ Cardinality(Open(after[n])) + n = k
<1>1. k \in Nat
  OBVIOUS
<1>2. after = [m \in 0 .. k |-> IF m = 0 THEN Classified(w) ELSE Paired(after[m - 1], c)]
  <2>1. \E g : g = [m \in 0 .. k |-> IF m = 0 THEN Classified(w) ELSE Paired(g[m - 1], c)]
    BY <1>1, PairingExists DEF IsPairing
  <2> QED BY <2>1
<1>3. Built(w) = after[k]
  BY DEF Built
<1> HIDE DEF after
<1>4. /\ after[0] = Classified(w)
      /\ \A n \in 1 .. k : after[n] = Paired(after[n - 1], c)
  <2>1. \A n \in 0 .. k : after[n] = IF n = 0 THEN Classified(w) ELSE Paired(after[n - 1], c)
    BY <1>2
  <2>2. 0 \in 0 .. k /\ \A n \in 1 .. k : n \in 0 .. k /\ n # 0
    BY <1>1
  <2> QED BY <2>1, <2>2
<1>5. Good(0)
  <2>1. TableOK(after[0], w) /\ Open(after[0]) = 1 .. k
    BY <1>4, ClassifiedOK
  <2>2. Cardinality(1 .. k) + 0 = k
    <3> HIDE DEF k
    <3>1. Cardinality(1 .. k) = k
      BY <1>1, FS_Interval
    <3> QED BY <1>1, <3>1
  <2> QED BY <2>1, <2>2
<1>6. ASSUME NEW n \in 1 .. k, Good(n - 1)
      PROVE  Good(n)
  <2> DEFINE t == after[n - 1]
  <2>1. after[n] = Paired(t, c)
    BY <1>4
  <2>2. TableOK(t, w)
    BY <1>6
  <2> HIDE DEF t
  <2>3. CASE Ready(t)
    <3>1. after[n] = t
      BY <2>1, <2>3 DEF Paired
    <3> QED BY <2>2, <2>3, <3>1
  <2>4. CASE ~Ready(t)
    <3>1. after[n] = Borrow(t, c)
      BY <2>1, <2>4 DEF Paired
    <3>2. /\ TableOK(Borrow(t, c), w)
          /\ Cardinality(Open(Borrow(t, c))) + 1 = Cardinality(Open(t))
      BY <2>2, <2>4, BorrowOK
    <3>3. Cardinality(Open(t)) + (n - 1) = k
      BY <1>6, <2>4 DEF t
    <3>4. Cardinality(Open(after[n])) \in Nat
      <4>1. HasShape(after[n], k)
        BY <3>1, <3>2 DEF TableOK
      <4>2. /\ after[n].small \in Seq(1 .. k) /\ after[n].large \in Seq(1 .. k)
        BY <4>1 DEF HasShape
      <4>3. Elems(after[n].small) \subseteq 1 .. k /\ Elems(after[n].large) \subseteq 1 .. k
        BY <4>2, SeqOfMore
      <4>4. Open(after[n]) \in SUBSET (1 .. k)
        BY <4>3 DEF Open
      <4>5. IsFiniteSet(1 .. k)
        BY <1>1, FS_Interval
      <4> QED BY <4>4, <4>5, Fewer
    <3>5. Cardinality(Open(after[n])) + 1 + (n - 1) = k
      BY <3>1, <3>2, <3>3
    <3>6. Cardinality(Open(after[n])) + n = k
      BY <1>1, <3>4, <3>5
    <3> QED BY <3>1, <3>2, <3>6
  <2> QED BY <2>3, <2>4
<1>7. Good(k)
  <2> DEFINE Bad == {n \in 0 .. k : ~Good(n)}
  <2>1. ASSUME Bad # {}
        PROVE  FALSE
    <3>1. Bad \in SUBSET Nat
      BY <1>1
    <3>2. PICK n \in Bad : \A m \in Bad : n <= m
      <4> HIDE DEF Bad
      <4> QED BY <2>1, <3>1, LeastNumber
    <3>3. n \in 0 .. k /\ ~Good(n)
      OBVIOUS
    <3> HIDE DEF Good
    <3>4. n # 0
      BY <1>5, <3>3
    <3>5. n \in 1 .. k /\ n - 1 \in 0 .. k /\ ~(n <= n - 1)
      BY <1>1, <3>3, <3>4
    <3>6. Good(n - 1)
      BY <3>2, <3>5
    <3> QED BY <1>6, <3>3, <3>5, <3>6
  <2>2. k \in 0 .. k
    BY <1>1
  <2> HIDE DEF Good
  <2> QED BY <2>1, <2>2
<1>8. Ready(after[k])
  <2>1. CASE Cardinality(Open(after[k])) + k = k
    <3>1. HasShape(after[k], k)
      BY <1>7 DEF TableOK
    <3>2. /\ after[k].small \in Seq(1 .. k) /\ after[k].large \in Seq(1 .. k)
      BY <3>1 DEF HasShape
    <3>3. Elems(after[k].small) \subseteq 1 .. k /\ Elems(after[k].large) \subseteq 1 .. k
      BY <3>2, SeqOfMore
    <3>4. Open(after[k]) \in SUBSET (1 .. k)
      BY <3>3 DEF Open
    <3>5. IsFiniteSet(1 .. k)
      BY <1>1, FS_Interval
    <3>6. IsFiniteSet(Open(after[k])) /\ Cardinality(Open(after[k])) \in Nat
      BY <3>4, <3>5, Fewer
    <3>7. Cardinality(Open(after[k])) = 0
      BY <1>1, <2>1, <3>6
    <3>8. Open(after[k]) = {}
      BY <3>6, <3>7, FS_EmptySet
    <3>9. Elems(after[k].small) = {}
      BY <3>8 DEF Open
    <3>10. Once(after[k].small)
      BY <1>7 DEF TableOK, HasStacks
    <3>11. after[k].small = <<>>
      BY <3>2, <3>9, <3>10, Popped
    <3> QED BY <3>11
  <2> QED BY <1>7, <2>1
<1> QED BY <1>3, <1>7, <1>8

\* Whatever the weights, of all equally likely draws each index gets its share:
\* IntegerAlias::build and sample.
THEOREM AliasIsProportional ==
  ASSUME NEW w \in Seq(Nat)
  PROVE  Proportional(w)
<1> DEFINE k == Len(w)
           c == Total(w)
           t == Built(w)
           O == Open(t)
<1>1. k \in Nat /\ c \in Nat
  <2>1. \A i \in 1 .. Len(w) : [j \in 1 .. Len(w) |-> w[j] * Len(w)][i] = w[i] * Len(w)
    OBVIOUS
  <2>2. c \in Nat
    BY <2>1, ScaledMass
  <2> QED BY <2>2
<1>2. /\ HasShape(t, k) /\ HasStacks(t, c) /\ HasMass(t, c) /\ HasShares(t, w, k, c)
  BY BuiltOK DEF TableOK
<1>3. t.small = <<>> \/ t.large = <<>>
  BY BuiltOK
<1> HIDE DEF t, c
<1>4. t.scaled \in [1 .. k -> Nat] /\ O \in SUBSET (1 .. k)
  <2>1. t.small \in Seq(1 .. k) /\ t.large \in Seq(1 .. k)
    BY <1>2 DEF HasShape
  <2>2. Elems(t.small) \subseteq 1 .. k /\ Elems(t.large) \subseteq 1 .. k
    BY <2>1, SeqOfMore
  <2>3. t.scaled \in [1 .. k -> Nat]
    BY <1>2 DEF HasShape
  <2> QED BY <2>2, <2>3 DEF Open
<1>5. IsFiniteSet(1 .. k)
  BY <1>1, FS_Interval
<1>6. \A i \in O : t.scaled[i] = c
  <2>1. (\A i \in O : t.scaled[i] >= c) \/ (\A i \in O : t.scaled[i] <= c)
    <3>1. CASE t.small = <<>>
      <4>1. Elems(t.small) = {}
        BY <3>1 DEF Elems
      <4> QED BY <1>2, <4>1 DEF Open, HasStacks
    <3>2. CASE t.large = <<>>
      <4>1. Elems(t.large) = {}
        BY <3>2 DEF Elems
      <4>2. O = Elems(t.small)
        BY <4>1 DEF Open
      <4>3. \A i \in O : t.scaled[i] < c
        BY <1>2, <4>2 DEF HasStacks
      <4>4. \A i \in O : t.scaled[i] \in Nat
        BY <1>4
      <4>5. \A i \in O : t.scaled[i] <= c
        BY <1>1, <4>3, <4>4
      <4> QED BY <4>5
    <3> QED BY <1>3, <3>1, <3>2
  <2>2. \A i \in O : t.scaled[i] \in Nat
    BY <1>4
  <2>3. IsFiniteSet(O)
    BY <1>4, <1>5, Fewer
  <2>4. IsFiniteSet(Pile(t.scaled, O)) /\ Mass(t.scaled, O) = Cardinality(O) * c
    BY <1>2 DEF HasMass
  <2> HIDE DEF O
  <2> QED BY <1>1, <2>1, <2>2, <2>3, <2>4, PileIsLevel
<1>7. ASSUME NEW i \in 1 .. k
      PROVE  Cardinality(Outcomes(t, 1 .. k, c, i)) = w[i] * k
  <2> DEFINE C == (1 .. k) \ O
  <2>1. IsFiniteSet(C) /\ IsFiniteSet(O)
    BY <1>4, <1>5, Fewer
  <2>2. w[i] * k = Cardinality(Outcomes(t, C, c, i)) + IF i \in O THEN c ELSE 0
    BY <1>2, <1>6 DEF HasShares
  <2> DEFINE places == 0 .. c - 1
             A == Outcomes(t, C, c, i)
             B == IF i \in O THEN {i} \X places ELSE {}
  <2>3. \A j \in O : t.threshold[j] = c /\ t.alias[j] = j
    BY <1>2 DEF HasStacks
  <2>4. Outcomes(t, 1 .. k, c, i) = A \cup B
    BY <1>1, <1>4, <2>3 DEF Outcomes, Drawn
  <2>5. A \cap B = {}
    BY DEF Outcomes
  <2>6. IsFiniteSet(places) /\ Cardinality(places) = c
    <3>1. 0 \in Int /\ c - 1 \in Int
      BY <1>1
    <3>2. /\ IsFiniteSet(places)
          /\ Cardinality(places) = IF 0 > c - 1 THEN 0 ELSE (c - 1) - 0 + 1
      BY <3>1, FS_Interval
    <3> QED BY <1>1, <3>2
  <2>7. IsFiniteSet(A)
    <3>1. A \in SUBSET (C \X places)
      BY DEF Outcomes
    <3> HIDE DEF A, C, places
    <3>2. IsFiniteSet(C \X places)
      BY <2>1, <2>6, FS_Product
    <3> QED BY <3>1, <3>2, Fewer
  <2>8. IsFiniteSet(B) /\ Cardinality(B) = IF i \in O THEN c ELSE 0
    <3>1. CASE i \in O
      <4> HIDE DEF places, O
      <4>1. IsFiniteSet({i}) /\ Cardinality({i}) = 1
        BY FS_Singleton
      <4>2. IsFiniteSet({i} \X places) /\ Cardinality({i} \X places) = 1 * c
        BY <2>6, <4>1, FS_Product
      <4>3. 1 * c = c
        BY <1>1
      <4> QED BY <3>1, <4>2, <4>3
    <3>2. CASE i \notin O
      BY <3>2, FS_EmptySet
    <3> QED BY <3>1, <3>2
  <2> HIDE DEF A, B
  <2>9. Cardinality(A \cup B) = Cardinality(A) + Cardinality(B) - Cardinality(A \cap B)
    BY <2>7, <2>8, FS_Union
  <2>10. Cardinality(A \cap B) = 0 /\ Cardinality(A) \in Nat /\ Cardinality(B) \in Nat
    BY <2>5, <2>7, <2>8, FS_EmptySet, FS_CardinalityType
  <2>11. Cardinality(A \cup B) = Cardinality(A) + Cardinality(B)
    BY <2>9, <2>10
  <2>12. w[i] * k = Cardinality(A) + Cardinality(B)
    BY <2>2, <2>8 DEF A
  <2> QED BY <2>4, <2>11, <2>12
<1> QED BY <1>7 DEF Proportional, Outcomes, k, c, t

-----------------------------------------------------------------------------
(* The sweep.                                                               *)

Ended(b) == [box |-> b, end |-> TRUE]

\* The sweep is a prefix of the order.
Swept == \A e \in Events(geo) \ pending, f \in pending : Before(geo, e, f)

\* A point is active between its START and its END.
IsLive(b)    == Started(b) \notin pending /\ Ended(b) \in pending
ActiveIsLive == /\ activeR = {b \in Valid(geo) \cap R : IsLive(b)}
                /\ activeS = {b \in Valid(geo) \cap S : IsLive(b)}

\* The pairs both of whose boxes have started.
Counted == {p \in Join(geo) : /\ Started(p[1]) \notin pending
                              /\ Started(p[2]) \notin pending}

Pass1Inv ==
  phase = "pass1" =>
    /\ total = Cardinality(Counted)
    /\ \A b \in Valid(geo) : Started(b) \notin pending =>
                               weights[b] = Cardinality(Block(b))
BuiltInv ==
  phase # "pass1" =>
    /\ total = Cardinality(Join(geo))
    /\ \A b \in Valid(geo) : weights[b] = Cardinality(Block(b))
IdleInv == phase = "idle" => pending = {}
PlacesInv ==
  /\ phase = "pass2" =>
       \A i \in DOMAIN positions :
         /\ weights[positions[i]] > 0
         /\ Started(positions[i]) \notin pending => output[i] \in Join(geo)
  /\ phase = "pass2" => buildIndex /\ DOMAIN positions # {}

IInv == /\ TypeOK /\ Swept /\ ActiveIsLive
        /\ Pass1Inv /\ BuiltInv /\ IdleInv /\ PlacesInv

-----------------------------------------------------------------------------
(* The order of events.                                                    *)

\* A box number is a natural number, and a coordinate an integer.
LEMMA BoxFacts ==
  ASSUME NEW g \in Geometry
  PROVE  /\ Box \subseteq Nat /\ R \cap S = {}
         /\ \A b \in Valid(g) :
              /\ b \in Box /\ Started(b) \in Events(g) /\ Ended(b) \in Events(g)
              /\ g[b].lo[1] \in Int /\ g[b].hi[1] \in Int
              /\ g[b].lo[1] < g[b].hi[1]
<1>1. Box \subseteq Nat /\ R \cap S = {}
  BY SidesAssumption DEF Box
<1>2. 1 \in Dims
  BY ShapesAssumption DEF Dims
<1>3. ASSUME NEW b \in Valid(g)
      PROVE  /\ b \in Box /\ Started(b) \in Events(g) /\ Ended(b) \in Events(g)
             /\ g[b].lo[1] \in Int /\ g[b].hi[1] \in Int
             /\ g[b].lo[1] < g[b].hi[1]
  <2>1. b \in Box /\ NonEmpty(g[b])
    BY DEF Valid
  <2>2. g[b] \in [lo : [Dims -> Int], hi : [Dims -> Int]]
    BY <2>1, ShapesAssumption DEF Geometry
  <2>3. Started(b) \in Events(g) /\ Ended(b) \in Events(g)
    BY DEF Events, Started, Ended
  <2> QED BY <1>2, <2>1, <2>2, <2>3 DEF NonEmpty
<1> QED BY <1>1, <1>3

\* The events of a geometry are the START and the END of its valid boxes.
LEMMA EventForms ==
  ASSUME NEW g, NEW e \in Events(g)
  PROVE  /\ e.box \in Valid(g) /\ e.end \in BOOLEAN
         /\ e.end => e = Ended(e.box)
         /\ ~e.end => e = Started(e.box)
BY DEF Events, Started, Ended

\* END before START at one coordinate makes touching boxes miss each other.
LEMMA OrderFacts ==
  ASSUME NEW g \in Geometry, NEW a \in Valid(g), NEW b \in Valid(g)
  PROVE  /\ Before(g, Started(a), Started(b)) => g[a].lo[1] <= g[b].lo[1]
         /\ Before(g, Started(b), Ended(a)) <=> g[b].lo[1] < g[a].hi[1]
         /\ Before(g, Ended(a), Started(b)) <=> g[a].hi[1] <= g[b].lo[1]
         /\ ~Before(g, Ended(a), Started(a))
         /\ ~(Before(g, Started(a), Started(b)) /\ Before(g, Started(b), Started(a)))
         /\ Started(a) # Ended(b)
<1>1. /\ a \in Nat /\ b \in Nat
      /\ g[a].lo[1] \in Int /\ g[a].hi[1] \in Int /\ g[a].lo[1] < g[a].hi[1]
      /\ g[b].lo[1] \in Int /\ g[b].hi[1] \in Int
  BY BoxFacts
<1>2. /\ Coordinate(g, Started(a)) = g[a].lo[1]
      /\ Coordinate(g, Started(b)) = g[b].lo[1]
      /\ Coordinate(g, Ended(a)) = g[a].hi[1]
  BY DEF Coordinate, Started, Ended
<1>3. /\ Started(a).box = a /\ Started(b).box = b /\ Ended(a).box = a
      /\ ~Started(a).end /\ ~Started(b).end /\ Ended(a).end /\ Ended(b).end
      /\ Started(a).end = Started(b).end /\ Started(b).end = Started(a).end
      /\ Started(b).end # Ended(a).end /\ Started(a).end # Ended(a).end
  BY DEF Started, Ended
<1>4. Started(a) # Ended(b)
  BY <1>3
<1>5. /\ Before(g, Started(a), Started(b)) <=>
           g[a].lo[1] < g[b].lo[1] \/ (g[a].lo[1] = g[b].lo[1] /\ a < b)
      /\ Before(g, Started(b), Started(a)) <=>
           g[b].lo[1] < g[a].lo[1] \/ (g[b].lo[1] = g[a].lo[1] /\ b < a)
  BY <1>2, <1>3 DEF Before
<1>6. /\ Before(g, Started(b), Ended(a)) <=> g[b].lo[1] < g[a].hi[1]
      /\ Before(g, Ended(a), Started(b)) <=>
           g[a].hi[1] < g[b].lo[1] \/ g[a].hi[1] = g[b].lo[1]
      /\ Before(g, Ended(a), Started(a)) <=>
           g[a].hi[1] < g[a].lo[1] \/ g[a].hi[1] = g[a].lo[1]
  BY <1>2, <1>3 DEF Before
<1> QED BY <1>1, <1>4, <1>5, <1>6

-----------------------------------------------------------------------------
(* One START event: its partners are its block.                            *)

\* The partners that an event finds, once paired with its box, are exactly the
\* pairs it owns (partner_count and pass 1, 738-761).
LEMMA PartnersAreBlock ==
  ASSUME TypeOK, Swept, ActiveIsLive,
         NEW b \in Valid(geo), IsNext(Started(b))
  PROVE  {PairOf(b, p) : p \in Partners(b)} = Block(b)
<1> geo \in Geometry
  BY DEF TypeOK
<1>1. b \in Box /\ Box = R \cup S /\ R \cap S = {}
  BY BoxFacts DEF Box
<1>2. ASSUME NEW p \in Partners(b)
      PROVE  PairOf(b, p) \in Block(b)
  <2>1. /\ p \in Other(b) /\ p \in Valid(geo) /\ IsLive(p) /\ p # b
        /\ Meets(geo, b, p, 2 .. Dim)
    BY <1>1 DEF Partners, Other, ActiveIsLive
  <2>2. Before(geo, Started(p), Started(b))
    BY <2>1, BoxFacts DEF Swept, IsLive, IsNext
  <2>3. Before(geo, Started(b), Ended(p))
    BY <2>1, OrderFacts DEF IsLive, IsNext
  <2>4. geo[b].lo[1] < geo[p].hi[1] /\ geo[p].lo[1] < geo[b].hi[1]
    BY <2>1, <2>2, <2>3, OrderFacts, BoxFacts
  <2>5. Meets(geo, b, p, Dims) /\ Meets(geo, p, b, Dims)
    BY <2>1, <2>4, ShapesAssumption DEF Meets, Dims
  <2>6. ~Before(geo, Started(b), Started(p))
    BY <2>1, <2>2, OrderFacts
  <2>7. CASE b \in R
    <3>1. p \in S /\ PairOf(b, p) = <<b, p>>
      BY <2>1, <2>7 DEF PairOf, Other, ActiveIsLive
    <3> QED BY <2>1, <2>5, <2>6, <2>7, <3>1
            DEF Block, Owner, Join, Pair, Intersect
  <2>8. CASE b \in S
    <3>1. p \in R /\ PairOf(b, p) = <<p, b>>
      BY <1>1, <2>1, <2>8 DEF PairOf, Other, ActiveIsLive
    <3> QED BY <2>1, <2>2, <2>5, <2>8, <3>1
            DEF Block, Owner, Join, Pair, Intersect
  <2> QED BY <1>1, <2>7, <2>8
<1>3. ASSUME NEW q \in Block(b)
      PROVE  \E p \in Partners(b) : q = PairOf(b, p)
  <2> DEFINE p == IF b \in R THEN q[2] ELSE q[1]
  <2>1. q \in R \X S /\ Intersect(geo, q[1], q[2]) /\ Owner(q) = b
    BY DEF Block, Join, Pair
  <2>2. /\ q = PairOf(b, p) /\ p \in Valid(geo) /\ p # b
        /\ p \in IF b \in R THEN S ELSE R
        /\ Meets(geo, b, p, Dims)
    BY <1>1, <2>1 DEF Owner, PairOf, Intersect, Meets
  <2>3. ~Before(geo, Started(b), Started(p))
    <3>1. CASE b \in R
      BY <1>1, <2>1, <3>1 DEF Owner
    <3>2. CASE b \in S
      <4>1. Before(geo, Started(p), Started(b))
        BY <1>1, <2>1, <3>2 DEF Owner
      <4> QED BY <2>2, <4>1, OrderFacts
    <3> QED BY <1>1, <3>1, <3>2
  <2>4. Started(p) \notin pending
    BY <2>2, <2>3 DEF IsNext, Started
  <2>5. geo[b].lo[1] < geo[p].hi[1]
    BY <2>2, ShapesAssumption DEF Meets, Dims
  <2>6. ~Before(geo, Ended(p), Started(b))
    BY <2>2, <2>5, OrderFacts, BoxFacts
  <2>7. Ended(p) \in pending
    BY <2>2, <2>6, BoxFacts DEF Swept, IsNext
  <2>8. p \in Other(b)
    BY <1>1, <2>2, <2>4, <2>7 DEF Other, ActiveIsLive, IsLive
  <2>9. Meets(geo, b, p, 2 .. Dim)
    BY <2>2, ShapesAssumption DEF Meets, Dims
  <2> QED BY <2>2, <2>8, <2>9 DEF Partners
<1> QED BY <1>2, <1>3

\* What a START event weighs: its partners are as many as its block.
LEMMA WeightIsBlock ==
  ASSUME TypeOK, Swept, ActiveIsLive,
         NEW b \in Valid(geo), IsNext(Started(b))
  PROVE  /\ IsFiniteSet(Partners(b)) /\ IsFiniteSet(Block(b))
         /\ Cardinality(Partners(b)) = Cardinality(Block(b))
<1>1. IsFiniteSet(Partners(b))
  <2>1. Partners(b) \subseteq R \/ Partners(b) \subseteq S
    BY DEF Partners, Other, ActiveIsLive
  <2> QED BY <2>1, FS_Subset, SidesAssumption
<1>2. ExistsBijection(Partners(b), Block(b))
  <2> DEFINE f == [p \in Partners(b) |-> PairOf(b, p)]
  <2>1. f \in [Partners(b) -> Block(b)]
    BY PartnersAreBlock
  <2>2. \A q \in Block(b) : \E p \in Partners(b) : f[p] = q
    BY PartnersAreBlock
  <2>3. \A p, q \in Partners(b) : f[p] = f[q] => p = q
    BY DEF PairOf
  <2>4. f \in Bijection(Partners(b), Block(b))
    BY <2>1, <2>2, <2>3 DEF Bijection, Injection, Surjection, IsInjective
  <2> QED BY <2>4 DEF ExistsBijection
<1> QED BY <1>1, <1>2, FS_Bijection

\* The join and the part of it already swept are finite, so they have sizes.
LEMMA FiniteJoin == IsFiniteSet(Join(geo)) /\ IsFiniteSet(Counted)
<1>1. IsFiniteSet(Pair)
  BY FS_Product, SidesAssumption DEF Pair
<1>2. Join(geo) \subseteq Pair /\ Counted \subseteq Join(geo)
  BY DEF Join, Counted
<1> QED BY <1>1, <1>2, FS_Subset

\* Sweeping a START event adds its block to the pairs that are counted.
LEMMA StartCounts ==
  ASSUME TypeOK, Swept, ActiveIsLive, NEW b \in Valid(geo),
         IsNext(Started(b)), UNCHANGED geo, pending' = pending \ {Started(b)}
  PROVE  Cardinality(Counted') = Cardinality(Counted) + Cardinality(Block(b))
<1> geo \in Geometry
  BY DEF TypeOK
<1>1. Started(b) \in pending
  BY DEF IsNext
<1>2. \A p \in Valid(geo) : Started(p) = Started(b) <=> p = b
  BY DEF Started
<1>3. Counted \cap Block(b) = {}
  BY <1>1 DEF Block, Counted, Owner
<1>4. Block(b) \subseteq Counted'
  <2> SUFFICES ASSUME NEW q \in Block(b) PROVE q \in Counted'
    OBVIOUS
  <2>1. q \in Join(geo) /\ Owner(q) = b
    BY DEF Block
  <2>2. PICK p \in Partners(b) : q = PairOf(b, p)
    BY PartnersAreBlock
  <2>3. Started(p) \notin pending
    BY DEF Partners, Other, ActiveIsLive, IsLive
  <2> QED BY <2>1, <2>2, <2>3 DEF Counted, PairOf, Join
<1>5. Counted' \subseteq Counted \cup Block(b)
  <2> SUFFICES ASSUME NEW q \in Counted', q \notin Counted
               PROVE  q \in Block(b)
    OBVIOUS
  <2>1. /\ q \in Join(geo) /\ q[1] \in R /\ q[2] \in S
        /\ q[1] \in Valid(geo) /\ q[2] \in Valid(geo)
        /\ Started(q[1]) \notin pending \ {Started(b)}
        /\ Started(q[2]) \notin pending \ {Started(b)}
    BY DEF Counted, Join, Pair, Intersect
  <2>2. q[1] # q[2]
    BY <2>1, BoxFacts
  <2>3. CASE q[2] = b
    <3>1. Started(q[1]) \notin pending
      BY <1>2, <2>1, <2>2, <2>3
    <3>2. Before(geo, Started(q[1]), Started(b))
      BY <1>1, <2>1, <3>1, BoxFacts DEF Swept
    <3> QED BY <2>1, <2>3, <3>2 DEF Block, Owner
  <2>4. CASE q[1] = b
    <3>1. Started(q[2]) \notin pending
      BY <1>2, <2>1, <2>2, <2>4
    <3>2. Before(geo, Started(q[2]), Started(b))
      BY <1>1, <2>1, <3>1, BoxFacts DEF Swept
    <3>3. ~Before(geo, Started(b), Started(q[2]))
      BY <2>1, <3>2, OrderFacts
    <3> QED BY <2>1, <2>4, <3>3 DEF Block, Owner
  <2> QED BY <1>2, <2>1, <2>3, <2>4 DEF Counted
<1>6. Counted \subseteq Counted'
  BY DEF Counted
<1>7. Counted' = Counted \cup Block(b)
  BY <1>4, <1>5, <1>6
<1>8. Cardinality(Counted \cap Block(b)) = 0
  BY <1>3, FS_EmptySet
<1>9. IsFiniteSet(Counted) /\ IsFiniteSet(Block(b))
  BY FiniteJoin, WeightIsBlock
<1>10. Cardinality(Counted') = Cardinality(Counted) + Cardinality(Block(b))
                               - Cardinality(Counted \cap Block(b))
  BY <1>7, <1>9, FS_Union
<1> QED BY <1>8, <1>9, <1>10, FS_CardinalityType

-----------------------------------------------------------------------------
(* The inductive invariant of the sweep.                                   *)

\* Without two nonempty sides there is nothing to sweep, and no pair.
LEMMA NoSweepNoJoin ==
  ASSUME ~Sweeps(geo)
  PROVE  Join(geo) = {} /\ \A b : Block(b) = {}
BY DEF Sweeps, Join, Pair, Intersect, Block

\* An object starts with nothing counted and, if a side is empty, nothing to
\* count (523-567).
LEMMA InitInv == Init => IInv
<1> SUFFICES ASSUME Init PROVE IInv
  OBVIOUS
<1>1. TypeOK
  <2>1. positions \in [1 .. 0 -> Valid(geo)] /\ output \in [1 .. 0 -> Pair \cup {NoPair}]
    BY DEF Init
  <2>2. 0 \in 0 .. MaxOutput
    BY OutputAssumption
  <2>3. weights \in [Valid(geo) -> Nat] /\ total \in Nat
    BY DEF Init
  <2> QED BY <2>1, <2>2, <2>3 DEF Init, TypeOK, Phases
<1>2. Swept /\ ActiveIsLive
  <2>1. \A b \in Valid(geo) : pending # {} => Started(b) \in pending
    BY DEF Init, Started, Events
  <2>2. \A e \in Events(geo) : pending # {} => e \in pending
    BY DEF Init
  <2> QED BY <2>1, <2>2 DEF Init, Swept, ActiveIsLive, IsLive
<1>3. Pass1Inv
  <2>1. Sweeps(geo) => \A b \in Valid(geo) : Started(b) \in pending
    BY DEF Init, Started, Events
  <2>2. Sweeps(geo) => Counted = {}
    BY <2>1 DEF Counted, Join, Intersect
  <2> QED BY <2>1, <2>2, FS_EmptySet DEF Init, Pass1Inv
<1>4. BuiltInv
  BY NoSweepNoJoin, FS_EmptySet DEF Init, BuiltInv
<1>5. IdleInv /\ PlacesInv
  BY DEF Init, IdleInv, PlacesInv
<1> QED BY <1>1, <1>2, <1>3, <1>4, <1>5 DEF IInv

\* The sweep of one event keeps the order and the active points right,
\* whichever pass it belongs to.
LEMMA SweepStep ==
  ASSUME IInv, NEW e \in Event, IsNext(e), ~Repeats(e),
         UNCHANGED geo, pending' = pending \ {e},
         IF e.end THEN Deactivate(e.box) ELSE Activate(e.box)
  PROVE  /\ Swept' /\ ActiveIsLive' /\ e.box \in Valid(geo)
         /\ activeR' \subseteq R /\ activeS' \subseteq S
         /\ pending' \subseteq Events(geo)
<1> geo \in Geometry /\ pending \subseteq Events(geo)
  BY DEF IInv, TypeOK
<1> DEFINE b == e.box
<1>1. /\ e \in pending /\ b \in Valid(geo)
      /\ e = IF e.end THEN Ended(b) ELSE Started(b)
  BY EventForms DEF IsNext
<1>2. Swept'
  BY DEF IInv, Swept, IsNext
<1>3. \A p \in Valid(geo) : /\ Started(p) # Ended(b) /\ Ended(p) # Started(b)
                            /\ Started(p) = Started(b) <=> p = b
                            /\ Ended(p) = Ended(b) <=> p = b
  BY DEF Started, Ended
<1>4. \A p \in Valid(geo) : p # b => (IsLive(p)' <=> IsLive(p))
  BY <1>1, <1>3 DEF IsLive, Started, Ended
<1>5. IsLive(b)' <=> ~e.end
  <2>1. CASE e.end
    BY <1>1, <2>1 DEF IsLive, Started, Ended
  <2>2. CASE ~e.end
    <3>1. Ended(b) \in pending
      BY <1>1, <2>2, OrderFacts, BoxFacts DEF IInv, Swept
    <3> QED BY <1>1, <1>3, <2>2, <3>1 DEF IsLive, Started, Ended
  <2> QED BY <2>1, <2>2
<1>6. R \cap S = {} /\ b \in R \cup S
  BY <1>1, BoxFacts DEF Box
<1>7. /\ activeR' = {p \in Valid(geo) \cap R : IF p = b THEN ~e.end ELSE p \in activeR}
      /\ activeS' = {p \in Valid(geo) \cap S : IF p = b THEN ~e.end ELSE p \in activeS}
  BY <1>1, <1>6 DEF IInv, ActiveIsLive, Activate, Deactivate,
       IndexR!Insert, IndexR!Erase, IndexS!Insert, IndexS!Erase
<1>8. ActiveIsLive'
  BY <1>4, <1>5, <1>7 DEF IInv, ActiveIsLive
<1> QED BY <1>1, <1>2, <1>7, <1>8

\* The blocks depend on the input alone.
LEMMA BlockFixed ==
  ASSUME UNCHANGED geo
  PROVE  /\ Join(geo)' = Join(geo) /\ Valid(geo)' = Valid(geo)
         /\ \A b : Block(b)' = Block(b)
BY DEF Block, Owner, Join, Valid, Intersect, Meets

\* Weighing an event adds its block to what has been counted.
LEMMA WeighStartInv ==
  ASSUME IInv, NEW e \in Event, WeighStart(e)
  PROVE  IInv'
<1> DEFINE b == e.box
<1> UNCHANGED geo
  BY DEF WeighStart, input
<1>1. /\ Swept' /\ ActiveIsLive' /\ b \in Valid(geo)
      /\ activeR' \subseteq R /\ activeS' \subseteq S
      /\ pending' \subseteq Events(geo)
  BY SweepStep DEF WeighStart
<1>2. e = Started(b) /\ IsNext(Started(b)) /\ pending' = pending \ {Started(b)}
  BY EventForms DEF WeighStart, IInv, TypeOK, IsNext
<1>3. /\ Cardinality(Partners(b)) = Cardinality(Block(b))
      /\ Cardinality(Partners(b)) \in Nat
  BY <1>1, <1>2, WeightIsBlock, FS_CardinalityType DEF IInv
<1>4. Cardinality(Counted') = Cardinality(Counted) + Cardinality(Block(b))
  BY <1>1, <1>2, StartCounts DEF IInv
<1>5. /\ total' = total + Cardinality(Partners(b))
      /\ weights' = [weights EXCEPT ![b] = Cardinality(Partners(b))]
      /\ phase' = "pass1" /\ phase = "pass1"
      /\ UNCHANGED <<buildIndex, positions, output>>
  BY DEF WeighStart, input
<1>6. TypeOK'
  <2> DEFINE w == Cardinality(Partners(b))
  <2> HIDE DEF w
  <2>1. weights' \in [Valid(geo) -> Nat] /\ total' \in Nat
    BY <1>1, <1>3, <1>5 DEF IInv, TypeOK, w
  <2>2. geo' \in Geometry /\ Valid(geo') = Valid(geo) /\ Events(geo') = Events(geo)
    BY DEF IInv, TypeOK
  <2> QED BY <1>1, <1>5, <2>1, <2>2 DEF IInv, TypeOK
<1>7. Pass1Inv'
  <2>1. total' = Cardinality(Counted')
    BY <1>3, <1>4, <1>5 DEF IInv, Pass1Inv
  <2>2. ASSUME NEW p \in Valid(geo), Started(p) \notin pending'
        PROVE  weights'[p] = Cardinality(Block(p))
    <3>1. CASE p = b
      BY <1>3, <1>5, <3>1 DEF IInv, TypeOK
    <3>2. CASE p # b
      <4>1. Started(p) \notin pending
        BY <1>2, <2>2, <3>2 DEF Started
      <4> QED BY <1>5, <3>2, <4>1 DEF IInv, TypeOK, Pass1Inv
    <3> QED BY <3>1, <3>2
  <2> QED BY <2>1, <2>2, BlockFixed DEF Pass1Inv
<1>8. BuiltInv' /\ IdleInv' /\ PlacesInv'
  BY <1>5 DEF BuiltInv, IdleInv, PlacesInv
<1> QED BY <1>1, <1>6, <1>7, <1>8 DEF IInv

\* An END event takes its point out and disturbs no sum.
LEMMA PassEndInv ==
  ASSUME IInv, NEW e \in Event, PassEnd(e)
  PROVE  IInv'
<1> UNCHANGED geo
  BY DEF PassEnd, input
<1>1. /\ Swept' /\ ActiveIsLive'
      /\ activeR' \subseteq R /\ activeS' \subseteq S
      /\ pending' \subseteq Events(geo)
  BY SweepStep DEF PassEnd
<1>2. \A p : Started(p) \in pending' <=> Started(p) \in pending
  BY DEF PassEnd, Started
<1>3. UNCHANGED <<buildIndex, phase, weights, total, positions, output>>
  BY DEF PassEnd, input
<1>4. TypeOK'
  BY <1>1, <1>3 DEF IInv, TypeOK, Valid, Events
<1>5. Counted' = Counted
  BY <1>2, BlockFixed DEF Counted
<1>6. Pass1Inv'
  BY <1>2, <1>3, <1>5, BlockFixed DEF IInv, Pass1Inv
<1>7. BuiltInv' /\ PlacesInv'
  BY <1>2, <1>3, BlockFixed DEF IInv, BuiltInv, PlacesInv
<1>8. IdleInv'
  BY DEF IdleInv, PassEnd
<1> QED BY <1>1, <1>4, <1>6, <1>7, <1>8 DEF IInv

\* A completed pass has counted every pair and left every point inactive.
LEMMA PassComplete ==
  ASSUME IInv, pending = {}
  PROVE  Counted = Join(geo) /\ Active = {}
BY DEF IInv, Counted, ActiveIsLive, IsLive, Active

\* When no event is left, all of the join has been counted.
LEMMA ConstructedInv ==
  ASSUME IInv, Constructed
  PROVE  IInv'
<1>2. /\ UNCHANGED <<geo, buildIndex, pending, activeR, activeS, weights, total,
                     positions, output>>
      /\ phase = "pass1" /\ phase' = "idle" /\ pending = {}
  BY DEF Constructed, input, index
<1>3. TypeOK' /\ Swept' /\ ActiveIsLive'
  BY <1>2 DEF IInv, TypeOK, Phases, Swept, ActiveIsLive, IsLive, Valid, Events,
              NonEmpty, Before, Coordinate
<1>4. BuiltInv'
  BY <1>2, PassComplete, BlockFixed DEF IInv, Pass1Inv, BuiltInv
<1>5. Pass1Inv' /\ IdleInv' /\ PlacesInv'
  BY <1>2 DEF Pass1Inv, IdleInv, PlacesInv
<1> QED BY <1>3, <1>4, <1>5 DEF IInv

\* A call of sample starts from an inactive index, with only places that have
\* a pair to receive.
LEMMA BeginSampleInv ==
  ASSUME IInv, NEW k \in 0 .. MaxOutput, BeginSample(k)
  PROVE  IInv'
<1>1. /\ UNCHANGED <<geo, buildIndex, activeR, activeS, weights, total>>
      /\ phase = "idle" /\ phase' = "pass2" /\ pending' = Events(geo)
      /\ k > 0 /\ buildIndex' /\ activeR = {} /\ activeS = {}
      /\ positions' \in [1 .. k -> {b \in Valid(geo) : weights[b] > 0}]
      /\ output' = [i \in 1 .. k |-> NoPair]
  BY DEF BeginSample, input, index, Active
<1>2. TypeOK'
  BY <1>1 DEF IInv, TypeOK, Phases, Valid, Events
<1>3. Swept' /\ ActiveIsLive'
  <2>1. \A b \in Valid(geo) : Started(b) \in pending'
    BY <1>1 DEF Started, Events
  <2> QED BY <1>1, <2>1 DEF Swept, ActiveIsLive, IsLive, Valid, Events
<1>4. BuiltInv'
  BY <1>1, BlockFixed DEF IInv, BuiltInv
<1>5. PlacesInv'
  <2>1. \A i \in DOMAIN positions' : Started(positions'[i]) \in pending'
    BY <1>1 DEF Started, Events
  <2>2. DOMAIN positions' # {}
    BY <1>1
  <2> QED BY <1>1, <2>1, <2>2 DEF PlacesInv
<1> QED BY <1>1, <1>2, <1>3, <1>4, <1>5 DEF IInv, Pass1Inv, IdleInv

\* Drawing at an event fills its places with pairs of its block.
LEMMA DrawStartInv ==
  ASSUME IInv, NEW e \in Event, DrawStart(e)
  PROVE  IInv'
<1> DEFINE b == e.box
<1> UNCHANGED geo
  BY DEF DrawStart, input
<1>1. /\ Swept' /\ ActiveIsLive' /\ b \in Valid(geo)
      /\ activeR' \subseteq R /\ activeS' \subseteq S
      /\ pending' \subseteq Events(geo)
  BY SweepStep DEF DrawStart
<1>2. e = Started(b) /\ IsNext(Started(b)) /\ pending' = pending \ {Started(b)}
  BY EventForms DEF DrawStart, IInv, TypeOK, IsNext
<1>3. UNCHANGED <<buildIndex, weights, total, positions>> /\ phase = "pass2" /\ phase' = "pass2"
  BY DEF DrawStart, input
<1>4. PICK partner \in [Places(b) -> Partners(b)] :
        output' = [i \in DOMAIN output |->
                     IF i \in Places(b) THEN PairOf(b, partner[i]) ELSE output[i]]
  BY DEF DrawStart
<1>5. \A i \in Places(b) : PairOf(b, partner[i]) \in Join(geo)
  BY <1>1, <1>2, PartnersAreBlock DEF IInv, Block
<1>6. PICK k \in 0 .. MaxOutput : /\ positions \in [1 .. k -> Valid(geo)]
                                 /\ output \in [1 .. k -> Pair \cup {NoPair}]
  BY DEF IInv, TypeOK
<1>7. output' \in [1 .. k -> Pair \cup {NoPair}]
  BY <1>4, <1>5, <1>6 DEF Join
<1>8. TypeOK'
  BY <1>1, <1>3, <1>6, <1>7 DEF IInv, TypeOK, Valid, Events
<1>9. BuiltInv'
  BY <1>3, BlockFixed DEF IInv, BuiltInv
<1>10. PlacesInv'
  <2>1. ASSUME NEW i \in DOMAIN positions, Started(positions[i]) \notin pending'
        PROVE  output'[i] \in Join(geo)
    <3>1. CASE positions[i] = b
      BY <1>4, <1>5, <1>6, <3>1 DEF Places
    <3>2. CASE positions[i] # b
      <4>1. Started(positions[i]) \notin pending
        BY <1>2, <2>1, <3>2 DEF Started
      <4> QED BY <1>3, <1>4, <1>6, <3>2, <4>1 DEF IInv, PlacesInv, Places
    <3> QED BY <3>1, <3>2
  <2> QED BY <1>3, <2>1, BlockFixed DEF IInv, PlacesInv
<1> QED BY <1>1, <1>3, <1>8, <1>9, <1>10 DEF IInv, Pass1Inv, IdleInv

\* A call leaves the object as it found it, ready for the next.
LEMMA EndSampleInv ==
  ASSUME IInv, EndSample
  PROVE  IInv'
<1>1. /\ UNCHANGED <<geo, buildIndex, pending, activeR, activeS, weights, total>>
      /\ phase' = "idle" /\ phase = "pass2" /\ pending = {}
      /\ positions' = <<>> /\ output' = <<>>
  BY DEF EndSample, input, index
<1>2. TypeOK'
  <2>1. /\ positions' \in [1 .. 0 -> Valid(geo)]
        /\ output' \in [1 .. 0 -> Pair \cup {NoPair}] /\ 0 \in 0 .. MaxOutput
    BY <1>1, OutputAssumption
  <2> QED BY <1>1, <2>1 DEF IInv, TypeOK, Phases, Valid, Events
<1>3. Swept' /\ ActiveIsLive'
  BY <1>1 DEF IInv, Swept, ActiveIsLive, IsLive, Valid, Events
<1>4. BuiltInv'
  BY <1>1, BlockFixed DEF IInv, BuiltInv
<1> QED BY <1>1, <1>2, <1>3, <1>4 DEF IInv, Pass1Inv, IdleInv, PlacesInv

\* Calls that only answer leave everything but the answer alone.
LEMMA AnswerInv ==
  ASSUME IInv, UNCHANGED <<input, phase, pending, index, weights, total,
                           positions, output>>
  PROVE  IInv'
<1>1. UNCHANGED <<geo, buildIndex, phase, pending, activeR, activeS, weights,
                  total, positions, output>>
  BY DEF input, index
<1>2. TypeOK' /\ Swept' /\ ActiveIsLive'
  BY <1>1 DEF IInv, TypeOK, Swept, ActiveIsLive, IsLive
<1>3. Counted' = Counted
  BY <1>1, BlockFixed DEF Counted
<1>4. Pass1Inv' /\ BuiltInv'
  BY <1>1, <1>3, BlockFixed DEF IInv, Pass1Inv, BuiltInv
<1>5. IdleInv' /\ PlacesInv'
  BY <1>1 DEF IInv, IdleInv, PlacesInv
<1> QED BY <1>2, <1>4, <1>5 DEF IInv

\* Each step of the constructor and of the calls preserves the invariant.
LEMMA StepInv == IInv /\ [Next]_vars => IInv'
<1> SUFFICES ASSUME IInv, [Next]_vars PROVE IInv'
  OBVIOUS
<1>1. CASE Constructed \/ \E e \in Event : WeighStart(e)
  BY <1>1, ConstructedInv, WeighStartInv
<1>2. CASE Count \/ \E k \in 0 .. MaxOutput : SampleNothing(k)
  BY <1>2, AnswerInv DEF Count, SampleNothing
<1>3. CASE (\E k \in 0 .. MaxOutput : BeginSample(k)) \/ EndSample
  BY <1>3, BeginSampleInv, EndSampleInv
<1>4. CASE \E e \in Event : DrawStart(e) \/ PassEnd(e)
  BY <1>4, DrawStartInv, PassEndInv
<1>5. CASE UNCHANGED vars
  BY <1>5, AnswerInv DEF vars
<1> QED BY <1>1, <1>2, <1>3, <1>4, <1>5 DEF Next, Construct, Sample

\* The strengthened invariant holds throughout.
LEMMA Inductive == Spec => []IInv
BY InitInv, StepInv, PTL DEF Spec

-----------------------------------------------------------------------------
(* The theorems about the sweep.                                           *)

\* Every variable keeps its type; in particular a finished output holds pairs.
THEOREM TypeCorrect == Spec => []TypeOK
BY Inductive, PTL DEF IInv

\* count() is exact on every input: each pair of the join is weighed at one
\* START event, the later of its two (pass1, 747-761).
THEOREM CountIsAlwaysExact == Spec => []CountIsExact
<1>1. IInv => CountIsExact
  BY DEF IInv, BuiltInv, CountIsExact
<1> QED BY <1>1, Inductive, PTL

\* The weights of the events are the sizes of a partition of the join.
THEOREM WeightsAreAlwaysBlocks == Spec => []WeightsAreBlocks
<1>1. IInv => WeightsAreBlocks
  BY DEF IInv, BuiltInv, WeightsAreBlocks
<1> QED BY <1>1, Inductive, PTL

\* Pass 2 finds at each event what pass 1 weighed there, so that every pair is
\* drawn with the same probability (sample, 581-635).
LEMMA SweepIsUniform == IInv => DrawIsUniform
<1>1. ASSUME IInv, phase = "pass2", NEW e \in pending, IsNext(e), ~e.end
      PROVE  /\ {PairOf(e.box, p) : p \in Partners(e.box)} = Block(e.box)
             /\ Cardinality(Partners(e.box)) = weights[e.box]
  <2>1. e = Started(e.box) /\ e.box \in Valid(geo)
    BY <1>1, EventForms DEF IInv, TypeOK
  <2>2. {PairOf(e.box, p) : p \in Partners(e.box)} = Block(e.box)
    BY <1>1, <2>1, PartnersAreBlock DEF IInv
  <2>3. Cardinality(Partners(e.box)) = Cardinality(Block(e.box))
    BY <1>1, <2>1, WeightIsBlock DEF IInv
  <2> QED BY <1>1, <2>1, <2>2, <2>3 DEF IInv, BuiltInv
<1> QED BY <1>1 DEF DrawIsUniform

\* The code's own assertions hold: no index is asked to repeat itself, no
\* chosen event is without a partner, and every pass ends all-inactive.
THEOREM NeverLogicError == Spec => []NoLogicError
<1>1. ASSUME IInv, NEW e \in pending, IsNext(e) PROVE ~Repeats(e)
  <2> geo \in Geometry /\ e \in Events(geo)
    BY <1>1 DEF IInv, TypeOK
  <2> DEFINE b == e.box
  <2>1. /\ b \in Valid(geo) /\ b \in R \cup S /\ R \cap S = {}
        /\ e = IF e.end THEN Ended(b) ELSE Started(b)
    BY EventForms, BoxFacts DEF Box
  <2>2. b \in Active <=> IsLive(b)
    BY <1>1, <2>1 DEF IInv, ActiveIsLive, Active
  <2>3. CASE e.end
    <3>1. Started(b) \notin pending
      BY <1>1, <2>1, <2>3, OrderFacts DEF IsNext
    <3> QED BY <1>1, <2>1, <2>2, <2>3, <3>1 DEF Repeats, IsLive
  <2>4. CASE ~e.end
    BY <1>1, <2>1, <2>2, <2>4 DEF Repeats, IsLive
  <2> QED BY <2>3, <2>4
<1>2. ASSUME IInv, phase = "pass2", NEW e \in pending, IsNext(e), ~e.end,
             Places(e.box) # {}, Partners(e.box) = {}
      PROVE  FALSE
  <2>1. e = Started(e.box) /\ e.box \in Valid(geo)
    BY <1>2, EventForms DEF IInv, TypeOK
  <2>2. weights[e.box] > 0
    BY <1>2 DEF Places, IInv, PlacesInv
  <2>3. weights[e.box] = 0
    BY <1>2, <2>1, WeightIsBlock, FS_EmptySet DEF IInv, BuiltInv
  <2> QED BY <2>2, <2>3
<1>3. IInv => NoLogicError
  BY <1>1, <1>2, PassComplete DEF NoLogicError, Throws
<1> QED BY <1>3, Inductive, PTL

\* A step of the sweep is a step of the abstract sampler, or leaves what the
\* caller sees alone.
LEMMA SweepStepSamples ==
  ASSUME IInv, [Next]_vars
  PROVE  [Sampler!Next]_<<Join(geo), buildIndex, reply>>
<1>1. UNCHANGED <<geo, buildIndex>>
  BY DEF Next, vars, input, Construct, Constructed, WeighStart, Count, Sample,
       SampleNothing, BeginSample, DrawStart, EndSample, PassEnd
<1>2. UNCHANGED <<Join(geo), buildIndex>>
  BY <1>1, BlockFixed
<1>3. phase # "pass1" => (total = Cardinality(Join(geo)) /\ (total = 0 <=> Join(geo) = {}))
  BY FiniteJoin, FS_EmptySet DEF IInv, BuiltInv
<1>4. CASE Construct \/ (\E e \in Event : DrawStart(e) \/ PassEnd(e)) \/ UNCHANGED vars
  <2>1. UNCHANGED reply
    BY <1>4 DEF Construct, Constructed, WeighStart, DrawStart, PassEnd, vars
  <2> QED BY <1>2, <2>1
<1>5. CASE Count
  <2>1. Cardinality(Join(geo)) = Sampler!Cardinality(Join(geo))
    BY Zenon DEF Cardinality, Sampler!Cardinality
  <2> QED BY <1>5, <1>2, <1>3, <2>1 DEF Count, Sampler!Next, Sampler!Count
<1>6. ASSUME NEW k \in 0 .. MaxOutput, SampleNothing(k)
      PROVE  Sampler!Next
  <2>1. CASE k = 0 /\ reply' = Sampler!SampleReply(<<>>)
    <3>1. <<>> \in [1 .. 0 -> Join(geo)]
      OBVIOUS
    <3>2. Sampler!Fill(0)
      BY <1>2, <2>1, <3>1 DEF Sampler!Fill
    <3> QED BY <2>1, <3>2 DEF Sampler!Next
  <2>2. CASE k > 0 /\ total = 0 /\ reply' = Sampler!EmptyReply
    BY <1>6, <1>2, <1>3, <2>2 DEF SampleNothing, Sampler!Next, Sampler!Empty
  <2>3. CASE k > 0 /\ total # 0 /\ ~buildIndex /\ reply' = Sampler!NoIndexReply
    BY <1>6, <1>2, <1>3, <2>3 DEF SampleNothing, Sampler!Next, Sampler!Refuse
  <2> QED BY <1>6, <2>1, <2>2, <2>3 DEF SampleNothing
<1>7. ASSUME NEW k \in 0 .. MaxOutput, BeginSample(k)
      PROVE  Sampler!Next
  BY <1>7, <1>2 DEF BeginSample, Sampler!Next, Sampler!Begin
<1>8. CASE EndSample
  <2>1. PICK k \in 0 .. MaxOutput : /\ positions \in [1 .. k -> Valid(geo)]
                                   /\ output \in [1 .. k -> Pair \cup {NoPair}]
    BY DEF IInv, TypeOK
  <2>2. output \in [1 .. k -> Join(geo)]
    BY <1>8, <2>1 DEF EndSample, IInv, PlacesInv
  <2>3. Join(geo) # {} /\ buildIndex
    BY <1>8, <2>1, <2>2 DEF EndSample, IInv, PlacesInv
  <2> QED BY <1>8, <1>2, <2>2, <2>3 DEF EndSample, Sampler!Next, Sampler!Fill
<1> QED BY <1>4, <1>5, <1>6, <1>7, <1>8 DEF Next, Sample

\* The sweep is a join sampler: it answers every call as the abstract one may.
THEOREM SweepImplementsSampler == Spec => IsJoinSampler
<1>1. Init => Sampler!Init
  BY DEF Init, Sampler!Init
<1>2. IInv /\ [Next]_vars => [Sampler!Next]_<<Join(geo), buildIndex, reply>>
  BY SweepStepSamples
<1> QED BY <1>1, <1>2, Inductive, PTL DEF Spec, IsJoinSampler, Sampler!Spec

-----------------------------------------------------------------------------
\* The pairs whose box of R the constructor has taken.
RowsCounted == {p \in Lifted!Join(geo) : p[1] \notin rows}

DegreesInv ==
  phase = "degrees" =>
    /\ total = Cardinality(RowsCounted)
    /\ \A a \in Lifted!ValidR(geo) \ rows : degrees[a] = Cardinality(Lifted!Row(a))
DegreesBuilt ==
  phase # "degrees" =>
    /\ total = Cardinality(Lifted!Join(geo))
    /\ \A a \in Lifted!ValidR(geo) : degrees[a] = Cardinality(Lifted!Row(a))
RowPlaces ==
  phase = "draw" =>
    /\ buildIndex /\ DOMAIN positions # {}
    /\ \A a \in rows : degrees[a] > 0
    /\ \A i \in DOMAIN positions : positions[i] \notin rows => output[i] \in Lifted!Join(geo)

LiftedInv == Lifted!TypeOK /\ DegreesInv /\ DegreesBuilt /\ RowPlaces

-----------------------------------------------------------------------------
(* Lifting.                                                                *)

\* The two axes of a dimension, and the dimension of an axis.
LEMMA AxisFacts ==
  /\ \A j \in Lifted!Dims :
       /\ 2 * j - 1 \in Lifted!Axis
       /\ Lifted!IsLower(2 * j - 1) /\ Lifted!DimOf(2 * j - 1) = j
       /\ 2 * j \in Lifted!Axis
       /\ ~Lifted!IsLower(2 * j) /\ Lifted!DimOf(2 * j) = j
  /\ \A axis \in Lifted!Axis : Lifted!DimOf(axis) \in Lifted!Dims
<1>1. Dim \in Nat
  BY ShapesAssumption
<1>2. ASSUME NEW j \in Lifted!Dims
      PROVE  /\ 2 * j - 1 \in Lifted!Axis
             /\ Lifted!IsLower(2 * j - 1) /\ Lifted!DimOf(2 * j - 1) = j
             /\ 2 * j \in Lifted!Axis /\ ~Lifted!IsLower(2 * j) /\ Lifted!DimOf(2 * j) = j
  <2>1. j \in Int /\ 1 <= j /\ j <= Dim
    BY <1>1 DEF Lifted!Dims
  <2>2. 2 * j - 1 \in Lifted!Axis /\ 2 * j \in Lifted!Axis
    BY <1>1, <2>1 DEF Lifted!Axis
  <2>3. (2 * j - 1) % 2 = 1 /\ (2 * j) % 2 = 0
    BY <2>1
  <2>4. (2 * j - 1 + 1) \div 2 = j /\ (2 * j + 1) \div 2 = j
    BY <2>1
  <2> QED BY <2>2, <2>3, <2>4 DEF Lifted!IsLower, Lifted!DimOf
<1>3. ASSUME NEW axis \in Lifted!Axis
      PROVE  Lifted!DimOf(axis) \in Lifted!Dims
  BY <1>1 DEF Lifted!Axis, Lifted!DimOf, Lifted!Dims
<1> QED BY <1>2, <1>3

\* The points in the range of a box are its partners in the join
\* (make_query, 927-939, and the lifting of the constructor).
LEMMA PartnersAreRow ==
  ASSUME NEW a \in Lifted!ValidR(geo)
  PROVE  {<<a, s>> : s \in Lifted!Partners(a)} = Lifted!Row(a)
<1>1. a \in R /\ a \in Lifted!Valid(geo)
  BY DEF Lifted!ValidR
<1>2. ASSUME NEW s \in Lifted!Partners(a)
      PROVE  <<a, s>> \in Lifted!Row(a)
  <2>1. /\ s \in S /\ s \in Lifted!Valid(geo)
        /\ \A axis \in Lifted!Axis : Lifted!InRange(a, s, axis)
    BY DEF Lifted!Partners, Lifted!ValidS
  <2>2. ASSUME NEW j \in Lifted!Dims
        PROVE  geo[a].lo[j] < geo[s].hi[j] /\ geo[s].lo[j] < geo[a].hi[j]
    <3>1. Lifted!InRange(a, s, 2 * j - 1) /\ Lifted!InRange(a, s, 2 * j)
      BY <2>1, AxisFacts
    <3> QED BY <3>1, AxisFacts DEF Lifted!InRange, Lifted!Lifted
  <2>3. Lifted!Intersect(geo, a, s)
    BY <1>1, <2>1, <2>2 DEF Lifted!Intersect, Lifted!Meets
  <2> QED BY <1>1, <2>1, <2>3 DEF Lifted!Row, Lifted!Join, Lifted!Pair
<1>3. ASSUME NEW p \in Lifted!Row(a)
      PROVE  \E s \in Lifted!Partners(a) : p = <<a, s>>
  <2>1. p = <<a, p[2]>> /\ p[2] \in S /\ Lifted!Intersect(geo, a, p[2])
    BY DEF Lifted!Row, Lifted!Join, Lifted!Pair
  <2>2. p[2] \in Lifted!ValidS(geo)
    BY <2>1 DEF Lifted!Intersect, Lifted!ValidS
  <2>3. ASSUME NEW axis \in Lifted!Axis
        PROVE  Lifted!InRange(a, p[2], axis)
    <3>1. /\ geo[a].lo[Lifted!DimOf(axis)] < geo[p[2]].hi[Lifted!DimOf(axis)]
          /\ geo[p[2]].lo[Lifted!DimOf(axis)] < geo[a].hi[Lifted!DimOf(axis)]
      BY <2>1, AxisFacts DEF Lifted!Intersect, Lifted!Meets
    <3> QED BY <3>1 DEF Lifted!InRange, Lifted!Lifted
  <2> QED BY <2>1, <2>2, <2>3 DEF Lifted!Partners
<1> QED BY <1>2, <1>3

\* The join, its rows and the part already counted are finite.
LEMMA FiniteRows ==
  IsFiniteSet(Lifted!Join(geo)) /\ IsFiniteSet(RowsCounted) /\ \A a : IsFiniteSet(Lifted!Row(a))
<1>1. IsFiniteSet(Lifted!Pair)
  BY FS_Product, SidesAssumption DEF Lifted!Pair
<1>2. IsFiniteSet(Lifted!Join(geo))
  <2>1. Lifted!Join(geo) \subseteq Lifted!Pair
    BY DEF Lifted!Join
  <2> QED BY <1>1, <2>1, FS_Subset
<1>3. RowsCounted \subseteq Lifted!Join(geo) /\ \A a : Lifted!Row(a) \subseteq Lifted!Join(geo)
  BY DEF RowsCounted, Lifted!Row
<1> QED BY <1>2, <1>3, FS_Subset

\* LiftedRT counts with the Cardinality of its own instance, which is the same.
LEMMA LiftedCardinality == \A set : Lifted!Cardinality(set) = Cardinality(set)
BY Zenon DEF Cardinality, Lifted!Cardinality

\* A degree is the size of a row.
LEMMA DegreeIsRow ==
  ASSUME NEW a \in Lifted!ValidR(geo)
  PROVE  /\ Cardinality(Lifted!Partners(a)) = Cardinality(Lifted!Row(a))
         /\ Cardinality(Lifted!Partners(a)) \in Nat
         /\ Lifted!Partners(a) = {} <=> Cardinality(Lifted!Row(a)) = 0
<1>1. IsFiniteSet(Lifted!Partners(a))
  <2>1. Lifted!Partners(a) \subseteq S
    BY DEF Lifted!Partners, Lifted!ValidS
  <2> QED BY <2>1, FS_Subset, SidesAssumption
<1>2. ExistsBijection(Lifted!Partners(a), Lifted!Row(a))
  <2> DEFINE f == [s \in Lifted!Partners(a) |-> <<a, s>>]
  <2>1. f \in [Lifted!Partners(a) -> Lifted!Row(a)]
    BY PartnersAreRow
  <2>2. \A p \in Lifted!Row(a) : \E s \in Lifted!Partners(a) : f[s] = p
    BY PartnersAreRow
  <2>3. f \in Bijection(Lifted!Partners(a), Lifted!Row(a))
    BY <2>1, <2>2 DEF Bijection, Injection, Surjection, IsInjective
  <2> QED BY <2>3 DEF ExistsBijection
<1>3. Cardinality(Lifted!Partners(a)) = Cardinality(Lifted!Row(a))
  BY <1>1, <1>2, FS_Bijection
<1> QED BY <1>1, <1>3, FS_CardinalityType, FS_EmptySet

\* Taking a box adds its row to the pairs that are counted.
LEMMA RowIsCounted ==
  ASSUME NEW a \in rows, UNCHANGED geo, rows' = rows \ {a}
  PROVE  Cardinality(RowsCounted') = Cardinality(RowsCounted) + Cardinality(Lifted!Row(a))
<1>1. RowsCounted' = RowsCounted \cup Lifted!Row(a)
  BY DEF RowsCounted, Lifted!Row
<1>2. Cardinality(RowsCounted \cap Lifted!Row(a)) = 0
  <2>1. RowsCounted \cap Lifted!Row(a) = {}
    BY DEF RowsCounted, Lifted!Row
  <2> QED BY <2>1, FS_EmptySet
<1>3. IsFiniteSet(RowsCounted) /\ IsFiniteSet(Lifted!Row(a))
  BY FiniteRows
<1>4. Cardinality(RowsCounted \cup Lifted!Row(a)) =
        Cardinality(RowsCounted) + Cardinality(Lifted!Row(a))
          - Cardinality(RowsCounted \cap Lifted!Row(a))
  BY <1>3, FS_Union
<1> QED BY <1>1, <1>2, <1>3, <1>4, FS_CardinalityType

-----------------------------------------------------------------------------
(* The inductive invariant of the lifted sampler.                          *)

\* What depends on the input alone.
LEMMA RowFixed ==
  ASSUME UNCHANGED geo
  PROVE  /\ Lifted!Join(geo)' = Lifted!Join(geo) /\ Lifted!ValidR(geo)' = Lifted!ValidR(geo)
         /\ \A a : Lifted!Row(a)' = Lifted!Row(a)
BY DEF Lifted!Row, Lifted!Join, Lifted!ValidR, Lifted!Valid, Lifted!Intersect, Lifted!Meets

\* Without two nonempty sides there is no tree, and no pair.
LEMMA NoTreeNoJoin ==
  ASSUME ~Lifted!Builds(geo)
  PROVE  Lifted!Join(geo) = {} /\ \A a : Lifted!Row(a) = {}
BY DEF Lifted!Builds, Lifted!ValidR, Lifted!ValidS, Lifted!Join, Lifted!Pair,
       Lifted!Intersect, Lifted!Row

\* An object starts with nothing counted and, without a tree, nothing to count.
LEMMA LiftedInit == Lifted!Init => LiftedInv
<1> SUFFICES ASSUME Lifted!Init PROVE LiftedInv
  OBVIOUS
<1>1. Lifted!TypeOK
  <2>1. /\ positions \in [1 .. 0 -> Lifted!ValidR(geo)]
        /\ output \in [1 .. 0 -> Lifted!Pair \cup {Lifted!NoPair}]
    BY DEF Lifted!Init
  <2>2. 0 \in 0 .. MaxOutput
    BY OutputAssumption
  <2>3. degrees \in [Lifted!ValidR(geo) -> Nat] /\ total \in Nat
    BY DEF Lifted!Init
  <2>4. rows \subseteq Lifted!ValidR(geo) /\ phase \in {"degrees", "idle", "draw"}
    BY DEF Lifted!Init
  <2> QED BY <2>1, <2>2, <2>3, <2>4 DEF Lifted!Init, Lifted!TypeOK
<1>2. DegreesInv
  <2>1. Lifted!Builds(geo) => RowsCounted = {} /\ Lifted!ValidR(geo) \ rows = {}
    BY DEF Lifted!Init, RowsCounted, Lifted!ValidR, Lifted!Join, Lifted!Pair, Lifted!Intersect
  <2> QED BY <2>1, FS_EmptySet DEF Lifted!Init, DegreesInv
<1>3. DegreesBuilt
  BY NoTreeNoJoin, FS_EmptySet DEF Lifted!Init, DegreesBuilt
<1>4. RowPlaces
  BY DEF Lifted!Init, RowPlaces
<1> QED BY <1>1, <1>2, <1>3, <1>4 DEF LiftedInv

\* The degree of a box is counted once, and is the size of its row.
LEMMA CountDegreeInv ==
  ASSUME LiftedInv, NEW a \in R, Lifted!CountDegree(a)
  PROVE  LiftedInv'
<1> DEFINE d == Cardinality(Lifted!Partners(a))
<1>1. /\ UNCHANGED <<geo, buildIndex, phase, positions, output>>
      /\ phase = "degrees" /\ a \in rows /\ rows' = rows \ {a}
      /\ degrees' = [degrees EXCEPT ![a] = d] /\ total' = total + d
  BY LiftedCardinality DEF Lifted!CountDegree, Lifted!IsFirst, Lifted!input
<1>2. a \in Lifted!ValidR(geo)
  BY <1>1 DEF LiftedInv, Lifted!TypeOK
<1>3. d = Cardinality(Lifted!Row(a)) /\ d \in Nat
  BY <1>2, DegreeIsRow
<1>4. Cardinality(RowsCounted') = Cardinality(RowsCounted) + d
  BY <1>1, <1>3, RowIsCounted
<1> HIDE DEF d
<1>5. degrees' \in [Lifted!ValidR(geo) -> Nat] /\ total' \in Nat
  BY <1>1, <1>2, <1>3 DEF LiftedInv, Lifted!TypeOK
<1>6. Lifted!TypeOK'
  BY <1>1, <1>5, RowFixed DEF LiftedInv, Lifted!TypeOK
<1>7. DegreesInv'
  <2>1. total' = Cardinality(RowsCounted')
    BY <1>1, <1>4 DEF LiftedInv, DegreesInv
  <2>2. ASSUME NEW b \in Lifted!ValidR(geo) \ rows'
        PROVE  degrees'[b] = Cardinality(Lifted!Row(b))
    BY <1>1, <1>2, <1>3 DEF LiftedInv, Lifted!TypeOK, DegreesInv
  <2> QED BY <1>1, <2>1, <2>2, RowFixed DEF DegreesInv
<1> QED BY <1>1, <1>6, <1>7 DEF LiftedInv, DegreesBuilt, RowPlaces

\* When every box is taken, all of the join has been counted.
LEMMA LiftedConstructed ==
  ASSUME LiftedInv, Lifted!Constructed
  PROVE  LiftedInv'
<1>1. /\ UNCHANGED <<geo, buildIndex, rows, degrees, total, positions, output>>
      /\ phase = "degrees" /\ phase' = "idle" /\ rows = {}
  BY DEF Lifted!Constructed, Lifted!input
<1>2. Lifted!TypeOK'
  BY <1>1, RowFixed DEF LiftedInv, Lifted!TypeOK
<1>3. DegreesBuilt'
  <2>1. RowsCounted = Lifted!Join(geo)
    BY <1>1 DEF RowsCounted
  <2> QED BY <1>1, <2>1, RowFixed DEF LiftedInv, DegreesInv, DegreesBuilt
<1> QED BY <1>1, <1>2, <1>3 DEF LiftedInv, DegreesInv, RowPlaces

\* Only boxes that have a partner receive a place.
LEMMA LiftedBeginSample ==
  ASSUME LiftedInv, NEW k \in 0 .. MaxOutput, Lifted!BeginSample(k)
  PROVE  LiftedInv'
<1>1. /\ UNCHANGED <<geo, buildIndex, degrees, total>>
      /\ phase = "idle" /\ phase' = "draw" /\ k > 0 /\ buildIndex'
      /\ positions' \in [1 .. k -> {a \in Lifted!ValidR(geo) : degrees[a] > 0}]
      /\ output' = [i \in 1 .. k |-> Lifted!NoPair]
      /\ rows' = {positions'[i] : i \in 1 .. k}
  BY DEF Lifted!BeginSample, Lifted!input
<1>2. Lifted!TypeOK'
  <2>1. /\ positions' \in [1 .. k -> Lifted!ValidR(geo)]
        /\ output' \in [1 .. k -> Lifted!Pair \cup {Lifted!NoPair}]
        /\ rows' \subseteq Lifted!ValidR(geo)
    BY <1>1
  <2> QED BY <1>1, <2>1, RowFixed DEF LiftedInv, Lifted!TypeOK
<1>3. DegreesBuilt'
  BY <1>1, RowFixed DEF LiftedInv, DegreesBuilt
<1>4. RowPlaces'
  <2>1. DOMAIN positions' = 1 .. k /\ 1 .. k # {}
    <3>1. DOMAIN positions' = 1 .. k
      BY <1>1
    <3>2. 1 \in 1 .. k
      BY <1>1, OutputAssumption
    <3> QED BY <3>1, <3>2
  <2>2. \A a \in rows' : degrees'[a] > 0
    BY <1>1
  <2> QED BY <1>1, <2>1, <2>2 DEF RowPlaces
<1> QED BY <1>1, <1>2, <1>3, <1>4 DEF LiftedInv, DegreesInv

\* Drawing a group fills its places with pairs of its row.
LEMMA DrawGroupInv ==
  ASSUME LiftedInv, NEW a \in R, Lifted!DrawGroup(a)
  PROVE  LiftedInv'
<1>1. /\ UNCHANGED <<geo, buildIndex, phase, degrees, total, positions>>
      /\ phase = "draw" /\ a \in rows /\ rows' = rows \ {a}
  BY DEF Lifted!DrawGroup, Lifted!IsFirst, Lifted!input
<1>2. a \in Lifted!ValidR(geo)
  BY <1>1 DEF LiftedInv, Lifted!TypeOK
<1>3. PICK partner \in [Lifted!Places(a) -> Lifted!Partners(a)] :
        output' = [i \in DOMAIN output |->
                     IF i \in Lifted!Places(a) THEN <<a, partner[i]>> ELSE output[i]]
  BY DEF Lifted!DrawGroup
<1>4. \A i \in Lifted!Places(a) : <<a, partner[i]>> \in Lifted!Join(geo)
  BY <1>2, PartnersAreRow DEF Lifted!Row
<1>5. PICK k \in 0 .. MaxOutput : /\ positions \in [1 .. k -> Lifted!ValidR(geo)]
                                 /\ output \in [1 .. k -> Lifted!Pair \cup {Lifted!NoPair}]
  BY DEF LiftedInv, Lifted!TypeOK
<1>6. output' \in [1 .. k -> Lifted!Pair \cup {Lifted!NoPair}]
  BY <1>3, <1>4, <1>5 DEF Lifted!Join
<1>7. Lifted!TypeOK'
  BY <1>1, <1>5, <1>6, RowFixed DEF LiftedInv, Lifted!TypeOK
<1>8. DegreesBuilt'
  BY <1>1, RowFixed DEF LiftedInv, DegreesBuilt
<1>9. RowPlaces'
  <2>1. ASSUME NEW i \in DOMAIN positions, positions[i] \notin rows'
        PROVE  output'[i] \in Lifted!Join(geo)
    <3>1. CASE positions[i] = a
      BY <1>3, <1>4, <1>5, <3>1 DEF Lifted!Places
    <3>2. CASE positions[i] # a
      BY <1>1, <1>3, <1>5, <2>1, <3>2 DEF LiftedInv, RowPlaces, Lifted!Places
    <3> QED BY <3>1, <3>2
  <2> QED BY <1>1, <2>1, RowFixed DEF LiftedInv, RowPlaces
<1> QED BY <1>1, <1>7, <1>8, <1>9 DEF LiftedInv, DegreesInv

\* A call leaves the object as it found it.
LEMMA LiftedEndSample ==
  ASSUME LiftedInv, Lifted!EndSample
  PROVE  LiftedInv'
<1>1. /\ UNCHANGED <<geo, buildIndex, rows, degrees, total>>
      /\ phase = "draw" /\ phase' = "idle"
      /\ positions' = <<>> /\ output' = <<>>
  BY DEF Lifted!EndSample, Lifted!input
<1>2. Lifted!TypeOK'
  <2>1. /\ positions' \in [1 .. 0 -> Lifted!ValidR(geo)]
        /\ output' \in [1 .. 0 -> Lifted!Pair \cup {Lifted!NoPair}] /\ 0 \in 0 .. MaxOutput
    BY <1>1, OutputAssumption
  <2> QED BY <1>1, <2>1, RowFixed DEF LiftedInv, Lifted!TypeOK
<1>3. DegreesBuilt'
  BY <1>1, RowFixed DEF LiftedInv, DegreesBuilt
<1> QED BY <1>1, <1>2, <1>3 DEF LiftedInv, DegreesInv, RowPlaces

\* Calls that only answer leave everything but the answer alone.
LEMMA LiftedAnswer ==
  ASSUME LiftedInv, UNCHANGED <<Lifted!input, phase, rows, degrees, total, positions, output>>
  PROVE  LiftedInv'
<1>1. UNCHANGED <<geo, buildIndex, phase, rows, degrees, total, positions, output>>
  BY DEF Lifted!input
<1>2. Lifted!TypeOK'
  BY <1>1, RowFixed DEF LiftedInv, Lifted!TypeOK
<1>3. RowsCounted' = RowsCounted
  BY <1>1, RowFixed DEF RowsCounted
<1>4. DegreesInv' /\ DegreesBuilt'
  BY <1>1, <1>3, RowFixed DEF LiftedInv, DegreesInv, DegreesBuilt
<1>5. RowPlaces'
  BY <1>1, RowFixed DEF LiftedInv, RowPlaces
<1> QED BY <1>2, <1>4, <1>5 DEF LiftedInv

\* Each step of the constructor and of the calls preserves the invariant.
LEMMA LiftedStep == LiftedInv /\ [Lifted!Next]_Lifted!vars => LiftedInv'
<1> SUFFICES ASSUME LiftedInv, [Lifted!Next]_Lifted!vars PROVE LiftedInv'
  OBVIOUS
<1>1. CASE \E a \in R : Lifted!CountDegree(a) \/ Lifted!DrawGroup(a)
  BY <1>1, CountDegreeInv, DrawGroupInv
<1>2. CASE Lifted!Constructed \/ Lifted!EndSample
  BY <1>2, LiftedConstructed, LiftedEndSample
<1>3. CASE Lifted!Count \/ \E k \in 0 .. MaxOutput : Lifted!SampleNothing(k)
  BY <1>3, LiftedAnswer DEF Lifted!Count, Lifted!SampleNothing
<1>4. CASE \E k \in 0 .. MaxOutput : Lifted!BeginSample(k)
  BY <1>4, LiftedBeginSample
<1>5. CASE UNCHANGED Lifted!vars
  BY <1>5, LiftedAnswer DEF Lifted!vars
<1> QED BY <1>1, <1>2, <1>3, <1>4, <1>5 DEF Lifted!Next

\* The strengthened invariant holds throughout.
LEMMA LiftedInductive == Lifted!Spec => []LiftedInv
BY LiftedInit, LiftedStep, PTL DEF Lifted!Spec

-----------------------------------------------------------------------------
(* The theorems about the lifted sampler.                                  *)

\* count() is exact on every input: the degrees are the sizes of disjoint rows
\* that make up the join.
THEOREM DegreesAddUp == Lifted!Spec => []Lifted!CountIsExact
<1>1. LiftedInv => Lifted!CountIsExact
  BY LiftedCardinality DEF LiftedInv, DegreesBuilt, Lifted!CountIsExact
<1> QED BY <1>1, LiftedInductive, PTL

\* A group draws from exactly the partners that its degree has counted, the
\* boxes of S that meet it (make_query, 927-939).
LEMMA LiftedIsUniform == LiftedInv => Lifted!RowIsUniform
<1>1. ASSUME LiftedInv, phase = "draw", NEW a \in rows
      PROVE  /\ {<<a, s>> : s \in Lifted!Partners(a)} = Lifted!Row(a)
             /\ degrees[a] = Cardinality(Lifted!Row(a))
  <2>1. a \in Lifted!ValidR(geo)
    BY <1>1 DEF LiftedInv, Lifted!TypeOK
  <2> QED BY <1>1, <2>1, PartnersAreRow DEF LiftedInv, DegreesBuilt
<1> QED BY <1>1, LiftedCardinality DEF Lifted!RowIsUniform

\* sample never meets a box of positive degree whose range is empty.
THEOREM LiftedNeverThrows == Lifted!Spec => []Lifted!NeverThrows
<1>1. ASSUME LiftedInv, Lifted!Throws PROVE FALSE
  <2>1. PICK a \in rows : phase = "draw" /\ Lifted!Partners(a) = {}
    BY <1>1 DEF Lifted!Throws
  <2>2. a \in Lifted!ValidR(geo)
    BY <1>1 DEF LiftedInv, Lifted!TypeOK
  <2> QED BY <1>1, <2>1, <2>2, DegreeIsRow DEF LiftedInv, DegreesBuilt, RowPlaces
<1>2. LiftedInv => Lifted!NeverThrows
  BY <1>1 DEF Lifted!NeverThrows
<1> QED BY <1>2, LiftedInductive, PTL

\* So is a step of the lifted sampler.
LEMMA LiftedStepSamples ==
  ASSUME LiftedInv, [Lifted!Next]_Lifted!vars
  PROVE  [Lifted!Sampler!Next]_<<Lifted!Join(geo), buildIndex, reply>>
<1>1. UNCHANGED <<geo, buildIndex>>
  BY DEF Lifted!Next, Lifted!vars, Lifted!input, Lifted!CountDegree, Lifted!Constructed,
       Lifted!Count, Lifted!SampleNothing,
       Lifted!BeginSample, Lifted!DrawGroup, Lifted!EndSample
<1>2. UNCHANGED <<Lifted!Join(geo), buildIndex>>
  BY <1>1, RowFixed
<1>3. phase # "degrees" =>
        total = Cardinality(Lifted!Join(geo)) /\ (total = 0 <=> Lifted!Join(geo) = {})
  BY FiniteRows, FS_EmptySet DEF LiftedInv, DegreesBuilt
<1>4. CASE \/ \E a \in R : Lifted!CountDegree(a) \/ Lifted!DrawGroup(a)
           \/ Lifted!Constructed \/ UNCHANGED Lifted!vars
  <2>1. UNCHANGED reply
    BY <1>4 DEF Lifted!CountDegree, Lifted!DrawGroup, Lifted!Constructed, Lifted!vars
  <2> QED BY <1>2, <2>1
<1>5. CASE Lifted!Count
  <2>1. Cardinality(Lifted!Join(geo)) = Lifted!Sampler!Cardinality(Lifted!Join(geo))
    BY Zenon DEF Cardinality, Lifted!Sampler!Cardinality
  <2> QED BY <1>5, <1>2, <1>3, <2>1 DEF Lifted!Count, Lifted!Sampler!Next, Lifted!Sampler!Count
<1>6. ASSUME NEW k \in 0 .. MaxOutput, Lifted!SampleNothing(k)
      PROVE  Lifted!Sampler!Next
  <2>1. CASE k = 0 /\ reply' = Lifted!Sampler!SampleReply(<<>>)
    <3>1. <<>> \in [1 .. 0 -> Lifted!Join(geo)]
      OBVIOUS
    <3>2. Lifted!Sampler!Fill(0)
      BY <1>2, <2>1, <3>1 DEF Lifted!Sampler!Fill
    <3> QED BY <2>1, <3>2 DEF Lifted!Sampler!Next
  <2>2. CASE k > 0 /\ total = 0 /\ reply' = Lifted!Sampler!EmptyReply
    BY <1>6, <1>2, <1>3, <2>2 DEF Lifted!SampleNothing, Lifted!Sampler!Next,
         Lifted!Sampler!Empty
  <2>3. CASE k > 0 /\ total # 0 /\ ~buildIndex /\ reply' = Lifted!Sampler!NoIndexReply
    BY <1>6, <1>2, <1>3, <2>3 DEF Lifted!SampleNothing, Lifted!Sampler!Next,
         Lifted!Sampler!Refuse
  <2> QED BY <1>6, <2>1, <2>2, <2>3 DEF Lifted!SampleNothing
<1>7. ASSUME NEW k \in 0 .. MaxOutput, Lifted!BeginSample(k)
      PROVE  Lifted!Sampler!Next
  BY <1>7, <1>2 DEF Lifted!BeginSample, Lifted!Sampler!Next, Lifted!Sampler!Begin
<1>8. CASE Lifted!EndSample
  <2>1. PICK k \in 0 .. MaxOutput : /\ positions \in [1 .. k -> Lifted!ValidR(geo)]
                                   /\ output \in [1 .. k -> Lifted!Pair \cup {Lifted!NoPair}]
    BY DEF LiftedInv, Lifted!TypeOK
  <2>2. output \in [1 .. k -> Lifted!Join(geo)]
    BY <1>8, <2>1 DEF Lifted!EndSample, LiftedInv, RowPlaces
  <2>3. Lifted!Join(geo) # {} /\ buildIndex
    BY <1>8, <2>1, <2>2 DEF Lifted!EndSample, LiftedInv, RowPlaces
  <2> QED BY <1>8, <1>2, <2>2, <2>3 DEF Lifted!EndSample, Lifted!Sampler!Next,
       Lifted!Sampler!Fill
<1> QED BY <1>4, <1>5, <1>6, <1>7, <1>8 DEF Lifted!Next

-----------------------------------------------------------------------------
(* The object that make_sampler returns.                                   *)

\* The invariant of the algorithm that was asked for.
MadeInv ==
  \/ kind = "SweepRT" /\ IInv
  \/ kind = "LiftedRT" /\ LiftedInv

\* The two modules mean the same by the join of an input.
LEMMA SameJoin == \A g : Lifted!Join(g) = Join(g)
BY DEF Join, Pair, Intersect, Valid, Box, NonEmpty, Meets, Dims, Lifted!Join, Lifted!Pair,
     Lifted!Intersect, Lifted!Valid, Lifted!Box, Lifted!NonEmpty, Lifted!Meets, Lifted!Dims

\* And the same by what a sampler promises.
LEMMA SameSampler == Lifted!Sampler!Next => Sampler!Next
<1>1. /\ Lifted!Join(geo) = Join(geo) /\ Lifted!Join(geo)' = Join(geo)'
      /\ Lifted!Sampler!Cardinality(Join(geo)) = Sampler!Cardinality(Join(geo))
  BY SameJoin, Zenon DEF Lifted!Sampler!Cardinality, Sampler!Cardinality
<1>2. Lifted!Sampler!Begin => Sampler!Begin
  BY <1>1 DEF Lifted!Sampler!Begin, Lifted!Sampler!NoReply, Sampler!Begin, Sampler!NoReply
<1>3. Lifted!Sampler!Count => Sampler!Count
  BY <1>1 DEF Lifted!Sampler!Count, Lifted!Sampler!CountReply, Sampler!Count, Sampler!CountReply
<1>4. Lifted!Sampler!Empty => Sampler!Empty
  BY <1>1 DEF Lifted!Sampler!Empty, Lifted!Sampler!EmptyReply, Sampler!Empty, Sampler!EmptyReply
<1>5. Lifted!Sampler!Refuse => Sampler!Refuse
  BY <1>1 DEF Lifted!Sampler!Refuse, Lifted!Sampler!NoIndexReply, Sampler!Refuse,
       Sampler!NoIndexReply
<1>6. ASSUME NEW k \in 0 .. MaxOutput
      PROVE  Lifted!Sampler!Fill(k) => Sampler!Fill(k)
  BY <1>1 DEF Lifted!Sampler!Fill, Lifted!Sampler!SampleReply, Sampler!Fill, Sampler!SampleReply
<1> QED BY <1>2, <1>3, <1>4, <1>5, <1>6 DEF Lifted!Sampler!Next, Sampler!Next

\* Either object starts in its invariant, and keeps it.
LEMMA MadeInductive == MakeSpec => []MadeInv
<1>1. MakeSweep \/ MakeLifted => MadeInv
  BY InitInv, LiftedInit DEF MakeSweep, MakeLifted, MadeInv
<1>2. ASSUME MadeInv, [UseSweep \/ UseLifted]_<<vars, kind, ofLifted>>
      PROVE  MadeInv'
  <2>1. CASE UseSweep
    BY <1>2, <2>1, StepInv DEF UseSweep, MadeInv
  <2>2. CASE UseLifted
    BY <1>2, <2>2, LiftedStep DEF UseLifted, MadeInv
  <2>3. CASE UNCHANGED <<vars, kind, ofLifted>>
    <3>1. UNCHANGED vars /\ UNCHANGED kind
      BY <2>3
    <3>2. UNCHANGED Lifted!vars
      BY <2>3 DEF vars, input, ofLifted, Lifted!vars, Lifted!input
    <3> QED BY <1>2, <3>1, <3>2, StepInv, LiftedStep DEF MadeInv
  <2> QED BY <1>2, <2>1, <2>2, <2>3
<1> QED BY <1>1, <1>2, PTL DEF MakeSpec

\* Whichever object the caller was given, if it sweeps, then pass 2 finds at
\* each event the partners that pass 1 weighed there, which are the block of
\* the event: the two passes cannot disagree (sample, 581-635).
THEOREM MadeDrawIsUniform == MakeSpec => []DrawIsUniform
<1>1. IInv => DrawIsUniform
  BY SweepIsUniform
<1>2. LiftedInv => DrawIsUniform
  BY DEF LiftedInv, Lifted!TypeOK, DrawIsUniform
<1>3. MadeInv => DrawIsUniform
  BY <1>1, <1>2 DEF MadeInv
<1> QED BY <1>3, MadeInductive, PTL

\* And if it is the lifted sampler, each group draws from exactly the partners
\* that its degree has counted, a row of the join (make_query, 927-939).
THEOREM MadeRowIsUniform == MakeSpec => []RowIsUniform
<1>1. MadeInv => RowIsUniform
  BY LiftedIsUniform DEF MadeInv, RowIsUniform
<1> QED BY <1>1, MadeInductive, PTL

\* The START events of an input in their order, and their weights.
LEMMA EventsInOrder ==
  ASSUME TypeOK
  PROVE  EventWeights \in Seq(Nat)
<1> DEFINE starts == {Started(b) : b \in Valid(geo)}
           before == {p \in starts \X starts : Before(geo, p[1], p[2])}
           order  == InOrder(starts, before)
<1>1. geo \in Geometry /\ weights \in [Valid(geo) -> Nat]
  BY DEF TypeOK
<1>2. IsFiniteSet(starts)
  <2> DEFINE f == [b \in Valid(geo) |-> Started(b)]
  <2>1. IsFiniteSet(Valid(geo))
    <3>1. IsFiniteSet(Box)
      BY SidesAssumption, FS_Union DEF Box
    <3>2. Valid(geo) \in SUBSET Box
      BY DEF Valid
    <3> QED BY <3>1, <3>2, Fewer
  <2>2. f \in Surjection(Valid(geo), starts)
    BY DEF Surjection
  <2> HIDE DEF f, starts
  <2> QED BY <2>1, <2>2, FS_Surjection
<1>3. ASSUME NEW a \in Valid(geo), NEW b \in Valid(geo)
      PROVE  /\ a \in Nat /\ b \in Nat /\ geo[a].lo[1] \in Int /\ geo[b].lo[1] \in Int
             /\ <<Started(a), Started(b)>> \in before <=>
                  geo[a].lo[1] < geo[b].lo[1]
                    \/ (geo[a].lo[1] = geo[b].lo[1] /\ a < b)
  <2>1. /\ a \in Nat /\ b \in Nat /\ geo[a].lo[1] \in Int /\ geo[b].lo[1] \in Int
    BY <1>1, BoxFacts
  <2>2. /\ Started(a).box = a /\ Started(b).box = b
        /\ Started(a).end = FALSE /\ Started(b).end = FALSE
    BY DEF Started
  <2>3. Before(geo, Started(a), Started(b)) <=>
          geo[a].lo[1] < geo[b].lo[1] \/ (geo[a].lo[1] = geo[b].lo[1] /\ a < b)
    BY <2>2 DEF Before, Coordinate
  <2>4. <<Started(a), Started(b)>> \in before <=> Before(geo, Started(a), Started(b))
    OBVIOUS
  <2> QED BY <2>1, <2>3, <2>4
<1> HIDE DEF before
<1>4. IsOrder(starts, before)
  <2>1. \A e \in starts : \E b \in Valid(geo) : e = Started(b)
    OBVIOUS
  <2> HIDE DEF starts
  <2>2. ASSUME NEW e \in starts
        PROVE  <<e, e>> \notin before
    <3>1. PICK b \in Valid(geo) : e = Started(b)
      BY <2>1
    <3> QED BY <1>3, <3>1
  <2>3. ASSUME NEW e \in starts, NEW f \in starts, NEW h \in starts,
               <<e, f>> \in before, <<f, h>> \in before
        PROVE  <<e, h>> \in before
    <3>1. PICK b \in Valid(geo) : e = Started(b)
      BY <2>1
    <3>2. PICK c \in Valid(geo) : f = Started(c)
      BY <2>1
    <3>3. PICK d \in Valid(geo) : h = Started(d)
      BY <2>1
    <3>4. /\ geo[b].lo[1] < geo[c].lo[1] \/ (geo[b].lo[1] = geo[c].lo[1] /\ b < c)
          /\ geo[c].lo[1] < geo[d].lo[1] \/ (geo[c].lo[1] = geo[d].lo[1] /\ c < d)
      BY <1>3, <2>3, <3>1, <3>2, <3>3
    <3>5. /\ b \in Nat /\ c \in Nat /\ d \in Nat
          /\ geo[b].lo[1] \in Int /\ geo[c].lo[1] \in Int /\ geo[d].lo[1] \in Int
      BY <1>3
    <3>6. geo[b].lo[1] < geo[d].lo[1] \/ (geo[b].lo[1] = geo[d].lo[1] /\ b < d)
      BY <3>4, <3>5
    <3> QED BY <1>3, <3>1, <3>3, <3>6
  <2>4. ASSUME NEW e \in starts, NEW f \in starts, e # f
        PROVE  <<e, f>> \in before \/ <<f, e>> \in before
    <3>1. PICK b \in Valid(geo) : e = Started(b)
      BY <2>1
    <3>2. PICK c \in Valid(geo) : f = Started(c)
      BY <2>1
    <3>3. b # c
      BY <2>4, <3>1, <3>2
    <3>4. /\ b \in Nat /\ c \in Nat
          /\ geo[b].lo[1] \in Int /\ geo[c].lo[1] \in Int
      BY <1>3
    <3>5. \/ geo[b].lo[1] < geo[c].lo[1] \/ (geo[b].lo[1] = geo[c].lo[1] /\ b < c)
          \/ geo[c].lo[1] < geo[b].lo[1] \/ (geo[c].lo[1] = geo[b].lo[1] /\ c < b)
      BY <3>3, <3>4
    <3> QED BY <1>3, <3>1, <3>2, <3>5
  <2> QED BY <2>2, <2>3, <2>4 DEF IsOrder
<1>5. order \in Seq(starts)
  <2> HIDE DEF starts
  <2> QED BY <1>2, <1>4, Listed
<1>6. EventWeights = [i \in DOMAIN order |-> weights[order[i].box]]
  BY DEF EventWeights, before
<1> HIDE DEF order
<1>7. Len(order) \in Nat /\ DOMAIN order = 1 .. Len(order)
  <2> HIDE DEF starts
  <2> QED BY <1>5
<1>8. \A i \in 1 .. Len(order) : weights[order[i].box] \in Nat
  <2>1. \A i \in 1 .. Len(order) : order[i] \in starts
    <3> HIDE DEF starts
    <3> QED BY <1>5
  <2>2. \A e \in starts : e.box \in Valid(geo)
    BY DEF Started
  <2> HIDE DEF starts
  <2> QED BY <1>1, <2>1, <2>2
<1> QED BY <1>6, <1>7, <1>8

\* The positive degrees in the order of the boxes.
LEMMA AnchorsInOrder ==
  ASSUME LiftedInv
  PROVE  AnchorDegrees \in Seq(Nat)
<1> DEFINE positive == {a \in DOMAIN degrees : degrees[a] > 0}
           anchors  == Stack(positive)
<1>1. degrees \in [Lifted!ValidR(geo) -> Nat]
  BY DEF LiftedInv, Lifted!TypeOK
<1>2. positive \in SUBSET R /\ \A a \in positive : degrees[a] \in Nat
  BY <1>1 DEF Lifted!ValidR
<1> HIDE DEF positive
<1>3. positive \in SUBSET Nat /\ IsFiniteSet(positive)
  BY <1>2, SidesAssumption, Fewer
<1>4. anchors \in Seq(positive)
  BY <1>3, Stacked
<1>5. AnchorDegrees = [i \in DOMAIN anchors |-> degrees[anchors[i]]]
  BY DEF AnchorDegrees, positive
<1> HIDE DEF anchors
<1>6. /\ Len(anchors) \in Nat /\ DOMAIN anchors = 1 .. Len(anchors)
      /\ \A i \in 1 .. Len(anchors) : anchors[i] \in positive
  BY <1>4
<1>7. \A i \in 1 .. Len(anchors) : degrees[anchors[i]] \in Nat
  BY <1>2, <1>6
<1> QED BY <1>5, <1>6, <1>7

\* Whichever object it is, the alias table that the constructor builds draws
\* each START event, or each box of R, by exactly its share of the join.
THEOREM DrawIsAlwaysProportional == MakeSpec => []DrawIsProportional
<1>1. ASSUME MadeInv
      PROVE  DrawIsProportional
  <2>1. CASE kind = "SweepRT" /\ IInv
    <3>1. EventWeights \in Seq(Nat)
      BY <2>1, EventsInOrder DEF IInv
    <3> QED BY <2>1, <3>1, AliasIsProportional DEF DrawIsProportional
  <2>2. CASE kind = "LiftedRT" /\ LiftedInv
    <3>1. AnchorDegrees \in Seq(Nat) /\ kind # "SweepRT"
      BY <2>2, AnchorsInOrder
    <3> QED BY <3>1, AliasIsProportional DEF DrawIsProportional
  <2> QED BY <1>1, <2>1, <2>2 DEF MadeInv
<1> QED BY <1>1, MadeInductive, PTL

\* Both objects keep the one promise the caller was made: every call answers as
\* the abstract sampler may, on the join of the input.
THEOREM MadeImplementsSampler == MakeSpec => IsJoinSampler
<1>1. MakeSweep \/ MakeLifted => Sampler!Init
  BY DEF MakeSweep, MakeLifted, Init, Sampler!Init, Sampler!NoReply, Lifted!Init,
       Lifted!Sampler!NoReply
<1>2. ASSUME MadeInv, [UseSweep \/ UseLifted]_<<vars, kind, ofLifted>>
      PROVE  [Sampler!Next]_<<Join(geo), buildIndex, reply>>
  <2>1. CASE UseSweep
    BY <1>2, <2>1, SweepStepSamples DEF UseSweep, MadeInv
  <2>2. CASE UseLifted
    <3>1. [Lifted!Sampler!Next]_<<Lifted!Join(geo), buildIndex, reply>>
      BY <1>2, <2>2, LiftedStepSamples DEF UseLifted, MadeInv
    <3> QED BY <3>1, SameSampler, SameJoin
  <2>3. CASE UNCHANGED <<vars, kind, ofLifted>>
    BY <2>3, BlockFixed DEF vars, input
  <2> QED BY <1>2, <2>1, <2>2, <2>3
<1> QED BY <1>1, <1>2, MadeInductive, PTL DEF MakeSpec, IsJoinSampler, Sampler!Spec
=============================================================================
