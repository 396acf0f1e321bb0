----------------------- MODULE AnchorStreaming_proofs -----------------------
(***************************************************************************)
(* Proofs about the streaming ANCHOR sampler, for any finite sets of       *)
(* boxes, any corners, any number of dimensions and any padding that holds *)
(* the points.                                                             *)
(*                                                                         *)
(* The first part shows what the two recursive functions of the model      *)
(* compute: NodesFrom the nodes that a tree can be routed to, SizeOf the   *)
(* number of pairs of a view.  The second part is the invariant of the     *)
(* calls that are active: a call that routes has filled a place for each   *)
(* of its draws whose node it has left behind.                             *)
(***************************************************************************)
EXTENDS AnchorStreaming, AnchorRoute_proofs, FunctionTheorems, SequenceTheorems

-----------------------------------------------------------------------------
(* Numbers.                                                                *)

\* A set of natural numbers that is not empty has a least one.
LEMMA LeastNumber ==
  ASSUME NEW T \in SUBSET Nat, T # {}
  PROVE  \E x \in T : \A y \in T : x <= y
<1> DEFINE less == OpToRel(<, Nat)
<1>1. IsWellFoundedOn(less, Nat)
  BY NatLessThanWellFounded
<1>2. PICK x \in T : \A y \in T : <<y, x>> \notin less
  BY <1>1, WFMin
<1>3. \A y \in T : ~(y < x)
  BY <1>2 DEF OpToRel
<1>4. \A y \in T : x <= y
  BY <1>3
<1> QED BY <1>4

\* Of things with a number, one has the least.
LEMMA LeastThing ==
  ASSUME NEW X, X # {}, NEW size \in [X -> Nat]
  PROVE  \E x \in X : \A y \in X : size[x] <= size[y]
<1> DEFINE T == {size[x] : x \in X}
<1>1. PICK n \in T : \A m \in T : n <= m
  BY ZenonT(30), LeastNumber
<1> QED BY <1>1

-----------------------------------------------------------------------------
(* Nodes of a tree.                                                        *)

Span(t)     == t.end - t.begin
Below(u, t) == u.tree = t.tree /\ t.begin <= u.begin /\ u.end <= t.end
Apart(t, u) == t.end <= u.begin \/ u.end <= t.begin

\* The nodes that can be reached from t, as the least set with t and the
\* children of its elements.
Reached(t) ==
  {u \in Node : \A X \in SUBSET Node :
                  (t \in X /\ \A x \in X : Children(x) \subseteq X) => u \in X}

\* A child is a node of the same tree over a part of the range, which is not
\* empty; the other child's range is apart.
LEMMA ChildShape ==
  ASSUME NEW t \in Node, NEW c \in Children(t)
  PROVE  /\ c \in Node /\ c.view = t.view
         /\ Below(c, t) /\ c.begin < c.end
         /\ Span(t) \in Nat /\ Span(c) \in Nat /\ Span(c) < Span(t)
         /\ \A d \in Children(t) : d # c => Apart(c, d)
<1>1. /\ c = Left(t) \/ c = Right(t)
      /\ t.end - t.begin > 1
      /\ \A d \in Children(t) : d = Left(t) \/ d = Right(t)
  BY DEF Children
<1>2. /\ t.begin \in Nat /\ t.end \in Nat
      /\ t = [view |-> t.view, tree |-> t.tree, begin |-> t.begin, end |-> t.end,
              source |-> t.source, lattice |-> t.lattice]
      /\ t.view \in View /\ t.tree \in {"B", "A"}
      /\ t.source \subseteq Box /\ t.lattice \subseteq Box
  BY DEF Node
<1>3. Middle(t) \in Nat /\ t.begin < Middle(t) /\ Middle(t) < t.end
  BY <1>1, <1>2, MiddleFacts DEF Middle
<1>4. ASSUME NEW from \in Nat, NEW to \in Nat, NEW points \in SUBSET t.lattice
      PROVE  /\ Child(t, from, to, points) \in Node
             /\ Child(t, from, to, points).view = t.view
             /\ Child(t, from, to, points).tree = t.tree
             /\ Child(t, from, to, points).begin = from
             /\ Child(t, from, to, points).end = to
  <2> DEFINE c1  == Child(t, from, to, points)
             src == {p \in t.source \ Stop(t) :
                       Greatest(Reach(t, p).lo, from)
                         < Least(Reach(t, p).hi, Least(to, Leaves(t)))}
  <2>1. c1 = [t EXCEPT !.begin = from, !.end = to, !.lattice = points, !.source = src]
    BY DEF Child
  <2>2. src \subseteq t.source
    OBVIOUS
  <2> HIDE DEF c1, src
  <2>3. c1 = [view |-> t.view, tree |-> t.tree, begin |-> from, end |-> to,
              source |-> src, lattice |-> points]
    BY <1>2, <2>1
  <2>4. c1 \in Node
    BY <1>2, <2>2, <2>3 DEF Node
  <2> QED BY <2>3, <2>4 DEF c1
<1>5. /\ Left(t) \in Node /\ Left(t).view = t.view /\ Left(t).tree = t.tree
      /\ Left(t).begin = t.begin /\ Left(t).end = Middle(t)
  BY <1>2, <1>3, <1>4 DEF Left
<1>6. /\ Right(t) \in Node /\ Right(t).view = t.view /\ Right(t).tree = t.tree
      /\ Right(t).begin = Middle(t) /\ Right(t).end = t.end
  BY <1>2, <1>3, <1>4 DEF Right
<1>7. c \in Node /\ c.view = t.view /\ Below(c, t) /\ c.begin < c.end
  BY <1>1, <1>2, <1>3, <1>5, <1>6 DEF Below
<1>8. Span(t) \in Nat /\ Span(c) \in Nat /\ Span(c) < Span(t)
  BY <1>1, <1>2, <1>3, <1>5, <1>6 DEF Span
<1>9. \A d \in Children(t) : d # c => Apart(c, d)
  BY <1>1, <1>2, <1>3, <1>5, <1>6 DEF Apart
<1> QED BY <1>7, <1>8, <1>9

\* Reached(t) holds t and the children of its nodes, and is the least such set.
LEMMA ReachedIsLeast ==
  ASSUME NEW t \in Node
  PROVE  /\ t \in Reached(t) /\ Reached(t) \subseteq Node
         /\ \A u \in Reached(t) : Children(u) \subseteq Reached(t)
         /\ \A X \in SUBSET Node :
              (t \in X /\ \A x \in X : Children(x) \subseteq X) => Reached(t) \subseteq X
<1>1. \A x \in Node : Children(x) \subseteq Node
  BY ChildShape
<1>2. t \in Reached(t) /\ Reached(t) \subseteq Node
  BY DEF Reached
<1>3. ASSUME NEW u \in Reached(t), NEW c \in Children(u)
      PROVE  c \in Reached(t)
  BY <1>1 DEF Reached
<1>4. ASSUME NEW X \in SUBSET Node, t \in X, \A x \in X : Children(x) \subseteq X
      PROVE  Reached(t) \subseteq X
  BY <1>4 DEF Reached
<1> QED BY <1>2, <1>3, <1>4

\* What is reached from a node that is reached is reached.
LEMMA ReachedOn ==
  ASSUME NEW t \in Node, NEW u \in Reached(t)
  PROVE  u \in Node /\ Reached(u) \subseteq Reached(t)
<1>1. u \in Node /\ Reached(t) \in SUBSET Node
  BY ReachedIsLeast
<1>2. \A x \in Reached(t) : Children(x) \subseteq Reached(t)
  BY ReachedIsLeast
<1> QED BY <1>1, <1>2, ReachedIsLeast

\* What is reached is the node itself and what is reached from its children.
LEMMA ReachedUnfolds ==
  ASSUME NEW t \in Node
  PROVE  Reached(t) = {t} \cup UNION {Reached(c) : c \in Children(t)}
<1> DEFINE X == {t} \cup UNION {Reached(c) : c \in Children(t)}
<1>1. \A c \in Children(t) : c \in Node /\ c \in Reached(c) /\ Reached(c) \subseteq Node
  BY ChildShape, ReachedIsLeast
<1>2. X \subseteq Node
  BY <1>1
<1>3. ASSUME NEW x \in X, NEW d \in Children(x)
      PROVE  d \in X
  <2>1. CASE x = t
    BY <1>1, <2>1
  <2>2. CASE \E c \in Children(t) : x \in Reached(c)
    <3>1. PICK c \in Children(t) : x \in Reached(c)
      BY <2>2
    <3>2. d \in Reached(c)
      BY <1>1, <3>1, ReachedIsLeast
    <3> QED BY <3>2
  <2> QED BY <2>1, <2>2
<1>4. Reached(t) \subseteq X
  <2> HIDE DEF X
  <2>1. t \in X
    BY DEF X
  <2> QED BY <1>2, <1>3, <2>1, ReachedIsLeast
<1>5. X \subseteq Reached(t)
  <2>1. \A c \in Children(t) : c \in Reached(t)
    BY ReachedIsLeast
  <2> QED BY <2>1, ReachedIsLeast, ReachedOn
<1> QED BY <1>4, <1>5

\* The recursive function of the model computes what is reached.
LEMMA NodesFromIsReached ==
  \A t \in Node : NodesFrom[t] = Reached(t)
<1> DEFINE Body(f, t) == {t} \cup UNION {f[c] : c \in Children(t)}
           all        == [t \in Node |-> Reached(t)]
<1>1. ASSUME NEW t \in Node
      PROVE  Body(all, t) = Reached(t)
  <2>1. \A c \in Children(t) : all[c] = Reached(c)
    BY ChildShape
  <2>2. Reached(t) = {t} \cup UNION {Reached(c) : c \in Children(t)}
    BY ReachedUnfolds
  <2>3. {all[c] : c \in Children(t)} = {Reached(c) : c \in Children(t)}
    BY <2>1
  <2> HIDE DEF all
  <2> QED BY <2>2, <2>3
<1>2. all = [t \in Node |-> Body(all, t)]
  BY <1>1
<1>3. NodesFrom = [t \in Node |-> Body(NodesFrom, t)]
  <2> HIDE DEF all
  <2> QED BY <1>2 DEF NodesFrom
<1> DEFINE Wrong == {t \in Node : NodesFrom[t] # Reached(t)}
           size  == [t \in Wrong |-> IF Span(t) \in Nat THEN Span(t) ELSE 0]
<1>4. ASSUME Wrong # {}
      PROVE  FALSE
  <2>1. size \in [Wrong -> Nat]
    OBVIOUS
  <2>2. PICK t \in Wrong : \A u \in Wrong : size[t] <= size[u]
    <3> HIDE DEF Wrong, size
    <3> QED BY <1>4, <2>1, LeastThing
  <2>3. ASSUME NEW c \in Children(t)
        PROVE  NodesFrom[c] = Reached(c)
    <3>1. /\ c \in Node /\ Span(t) \in Nat /\ Span(c) \in Nat /\ Span(c) < Span(t)
      BY ChildShape
    <3>2. ~(size[t] <= Span(c))
      BY <3>1
    <3> QED BY <2>2, <3>1, <3>2
  <2>4. {NodesFrom[c] : c \in Children(t)} = {Reached(c) : c \in Children(t)}
    BY <2>3
  <2>5. NodesFrom[t] = Body(NodesFrom, t)
    BY <1>3
  <2>6. NodesFrom[t] = Reached(t)
    BY <2>4, <2>5, ReachedUnfolds
  <2> QED BY <2>6
<1> QED BY <1>4

-----------------------------------------------------------------------------
(* Who hands a pair on.                                                    *)

\* The pair z is below exactly one view that a node of X hands on.
HandedOnce(X, z) ==
  \E t \in X : /\ z \in ViewPairs(NextView(t))
               /\ \A u \in X \ {t} : z \notin ViewPairs(NextView(u))

\* What is reached from a node that can be routed can be routed, in the same
\* view, and has no pair but those of the node.
LEMMA ReachedFacts ==
  ASSUME geo \in Geometry, NEW t \in Node, NodeOK(t), NEW u \in Reached(t)
  PROVE  /\ u \in Node /\ NodeOK(u) /\ u.view = t.view
         /\ NodePairs(u) \subseteq NodePairs(t)
         /\ NextView(u) \in View /\ ViewPairs(NextView(u)) \subseteq NodePairs(t)
<1> DEFINE X == {x \in Node : /\ NodeOK(x) /\ x.view = t.view
                              /\ NodePairs(x) \subseteq NodePairs(t)}
<1>1. ASSUME NEW x \in X, NEW c \in Children(x)
      PROVE  c \in X
  <2>1. x.end - x.begin > 1 /\ c \in {Left(x), Right(x)}
    BY DEF Children
  <2>2. c \in Node /\ NodeOK(c) /\ c.view = x.view
    BY <2>1, ChildFacts
  <2>3. PairsOf(<<"node", c>>) \subseteq PairsOf(<<"node", x>>)
    BY RouteNodePartitions DEF Partitions
  <2>4. NodePairs(c) \subseteq NodePairs(x)
    BY <2>3, PairsOfTag
  <2> QED BY <2>2, <2>4
<1>2. Reached(t) \subseteq X
  <2>1. t \in X /\ X \subseteq Node
    OBVIOUS
  <2> HIDE DEF X
  <2> QED BY <1>1, <2>1, ReachedIsLeast
<1>3. u \in Node /\ NodeOK(u) /\ u.view = t.view /\ NodePairs(u) \subseteq NodePairs(t)
  BY <1>2
<1>4. NextView(u) \in View /\ ViewPairs(NextView(u)) \subseteq NodePairs(u)
  BY <1>3, NextViewFacts
<1> QED BY <1>3, <1>4

\* Each pair of a node is handed on once by what is reached from the node.
LEMMA NodeHandsOnce ==
  ASSUME geo \in Geometry, NEW t \in Node, NodeOK(t), NEW z \in NodePairs(t)
  PROVE  HandedOnce(Reached(t), z)
<1> DEFINE Wrong == {x \in Node : /\ NodeOK(x) /\ z \in NodePairs(x)
                                  /\ ~HandedOnce(Reached(x), z)}
           size  == [x \in Wrong |-> IF Span(x) \in Nat THEN Span(x) ELSE 0]
<1>1. ASSUME Wrong # {}
      PROVE  FALSE
  <2>1. size \in [Wrong -> Nat]
    OBVIOUS
  <2>2. PICK x \in Wrong : \A y \in Wrong : size[x] <= size[y]
    <3> HIDE DEF Wrong, size
    <3> QED BY <1>1, <2>1, LeastThing
  <2> DEFINE v   == NextView(x)
             new == {<<"node", c>> : c \in Children(x)}
                      \cup (IF EmptyView(v) THEN {} ELSE {<<"view", v>>})
  <2>3. x \in Node /\ NodeOK(x) /\ z \in NodePairs(x) /\ ~HandedOnce(Reached(x), z)
    OBVIOUS
  <2>4. ASSUME NEW c \in Children(x)
        PROVE  /\ c \in Node /\ NodeOK(c) /\ Reached(c) \subseteq Reached(x)
               /\ z \in NodePairs(c) => HandedOnce(Reached(c), z)
               /\ z \notin NodePairs(c) =>
                    \A u \in Reached(c) : z \notin ViewPairs(NextView(u))
    <3>1. /\ c \in Node /\ Span(x) \in Nat /\ Span(c) \in Nat /\ Span(c) < Span(x)
      BY ChildShape
    <3>2. c \in Reached(x)
      BY <2>3, ReachedIsLeast
    <3>3. NodeOK(c) /\ Reached(c) \subseteq Reached(x)
      BY <2>3, <3>2, ReachedFacts, ReachedOn
    <3>4. ~(size[x] <= Span(c))
      BY <3>1
    <3>5. z \in NodePairs(c) => HandedOnce(Reached(c), z)
      BY <2>2, <3>1, <3>3, <3>4
    <3>6. \A u \in Reached(c) : ViewPairs(NextView(u)) \subseteq NodePairs(c)
      BY <3>1, <3>3, ReachedFacts
    <3> QED BY <3>1, <3>3, <3>5, <3>6
  <2> HIDE DEF Wrong, size
  <2>5. PICK n \in new : z \in PairsOf(n) /\ \A m \in new \ {n} : z \notin PairsOf(m)
    <3>1. Partitions(new, <<"node", x>>)
      BY <2>3, RouteNodePartitions
    <3>2. z \in PairsOf(<<"node", x>>)
      BY <2>3, PairsOfTag
    <3> QED BY <3>1, <3>2 DEF Partitions
  <2>6. \A c \in Children(x) : <<"node", c>> \in new /\ PairsOf(<<"node", c>>) = NodePairs(c)
    BY PairsOfTag
  <2>7. ~EmptyView(v) => <<"view", v>> \in new /\ PairsOf(<<"view", v>>) = ViewPairs(v)
    BY PairsOfTag
  <2>8. EmptyView(v) => ViewPairs(v) = {}
    BY DEF EmptyView, ViewPairs
  <2>9. /\ x \in Reached(x)
        /\ \A u \in Reached(x) : u = x \/ \E c \in Children(x) : u \in Reached(c)
    BY <2>3, ReachedIsLeast, ReachedUnfolds
  <2>10. CASE n = <<"view", v>>
    <3>1. z \in ViewPairs(v)
      BY <2>5, <2>10, PairsOfTag
    <3>2. \A c \in Children(x) : <<"node", c>> # n
      BY <2>10
    <3>3. \A c \in Children(x) : z \notin NodePairs(c)
      BY <2>5, <2>6, <3>2
    <3>4. \A u \in Reached(x) \ {x} : z \notin ViewPairs(NextView(u))
      BY <2>4, <2>9, <3>3
    <3> QED BY <2>3, <2>9, <3>1, <3>4 DEF HandedOnce
  <2>11. ASSUME NEW c \in Children(x), n = <<"node", c>>
         PROVE  FALSE
    <3>1. z \in NodePairs(c)
      BY <2>5, <2>6, <2>11
    <3>2. \A d \in Children(x) : d # c => z \notin NodePairs(d)
      BY <2>5, <2>6, <2>11
    <3>3. z \notin ViewPairs(v)
      BY <2>5, <2>7, <2>8, <2>11
    <3>4. PICK t1 \in Reached(c) : /\ z \in ViewPairs(NextView(t1))
                                   /\ \A u \in Reached(c) \ {t1} : z \notin ViewPairs(NextView(u))
      BY <2>4, <3>1 DEF HandedOnce
    <3>5. t1 \in Reached(x)
      BY <2>4
    <3>6. \A u \in Reached(x) \ {t1} : z \notin ViewPairs(NextView(u))
      BY <2>4, <2>9, <3>2, <3>3, <3>4
    <3> QED BY <2>3, <3>4, <3>5, <3>6 DEF HandedOnce
  <2>12. n = <<"view", v>> \/ \E c \in Children(x) : n = <<"node", c>>
    BY <2>5
  <2> QED BY <2>10, <2>11, <2>12
<1> QED BY <1>1

\* The nodes of both trees of a view.
NodesOf(v) == Reached(Root(v, "B")) \cup Reached(Root(v, "A"))

\* The nodes of a view above the last level hand on each of its pairs once, and
\* no others; the model's enumeration lists them.
LEMMA NodesHandOnce ==
  ASSUME geo \in Geometry, NEW v \in View, v.level < Dim, ~EmptyView(v)
  PROVE  /\ Nodes(v) = NodesOf(v)
         /\ \A t \in NodesOf(v) : /\ t \in Node /\ NodeOK(t) /\ t.view = v
                                  /\ NextView(t) \in View
                                  /\ ViewPairs(NextView(t)) \subseteq ViewPairs(v)
         /\ \A z \in ViewPairs(v) : HandedOnce(NodesOf(v), z)
<1> DEFINE b == Root(v, "B")
           a == Root(v, "A")
<1>1. /\ b \in Node /\ NodeOK(b) /\ a \in Node /\ NodeOK(a)
      /\ NodePairs(b) \subseteq ViewPairs(v) /\ NodePairs(a) \subseteq ViewPairs(v)
  BY RootFacts
<1>2. b.view = v /\ a.view = v
  BY DEF Root
<1>3. Nodes(v) = Reached(b) \cup Reached(a)
  BY <1>1, NodesFromIsReached DEF Nodes
<1>4. Partitions({<<"node", b>>, <<"node", a>>}, <<"view", v>>)
  BY OpenViewPartitions
<1>5. NodesOf(v) = Reached(b) \cup Reached(a)
  BY DEF NodesOf
<1> HIDE DEF a, b
<1>6. ASSUME NEW t \in NodesOf(v)
      PROVE  /\ t \in Node /\ NodeOK(t) /\ t.view = v /\ NextView(t) \in View
             /\ ViewPairs(NextView(t)) \subseteq ViewPairs(v)
  <2>1. CASE t \in Reached(b)
    BY <1>1, <1>2, <2>1, ReachedFacts
  <2>2. CASE t \in Reached(a)
    BY <1>1, <1>2, <2>2, ReachedFacts
  <2> QED BY <1>5, <2>1, <2>2
<1>7. ASSUME NEW x \in {a, b}, NEW y \in {a, b}, NEW z, {x, y} = {a, b},
             z \in NodePairs(x), y # x => z \notin NodePairs(y)
      PROVE  HandedOnce(NodesOf(v), z)
  <2>1. NodesOf(v) = Reached(x) \cup Reached(y)
    BY <1>5, <1>7
  <2>2. HandedOnce(Reached(x), z)
    BY <1>1, <1>7, NodeHandsOnce
  <2>3. PICK t \in Reached(x) : /\ z \in ViewPairs(NextView(t))
                                /\ \A u \in Reached(x) \ {t} : z \notin ViewPairs(NextView(u))
    BY <2>2 DEF HandedOnce
  <2>4. y # x => \A u \in Reached(y) : z \notin ViewPairs(NextView(u))
    BY <1>1, <1>7, ReachedFacts
  <2>5. \A u \in NodesOf(v) \ {t} : z \notin ViewPairs(NextView(u))
    BY <2>1, <2>3, <2>4
  <2> QED BY <2>1, <2>3, <2>5 DEF HandedOnce
<1>8. ASSUME NEW z \in ViewPairs(v)
      PROVE  HandedOnce(NodesOf(v), z)
  <2>1. /\ PairsOf(<<"node", b>>) = NodePairs(b) /\ PairsOf(<<"node", a>>) = NodePairs(a)
        /\ PairsOf(<<"view", v>>) = ViewPairs(v)
    BY PairsOfTag
  <2>2. PICK n \in {<<"node", b>>, <<"node", a>>} :
          /\ z \in PairsOf(n)
          /\ \A m \in {<<"node", b>>, <<"node", a>>} \ {n} : z \notin PairsOf(m)
    BY <1>4, <2>1 DEF Partitions
  <2>3. CASE n = <<"node", b>>
    <3>1. z \in NodePairs(b) /\ (a # b => z \notin NodePairs(a))
      BY <2>1, <2>2, <2>3
    <3> QED BY <1>7, <3>1
  <2>4. CASE n = <<"node", a>>
    <3>1. z \in NodePairs(a) /\ (b # a => z \notin NodePairs(b))
      BY <2>1, <2>2, <2>4
    <3> QED BY <1>7, <3>1
  <2> QED BY <2>2, <2>3, <2>4
<1> QED BY <1>3, <1>5, <1>6, <1>8

-----------------------------------------------------------------------------
(* Counting.                                                               *)

\* What a bijection is.
LEMMA BijectionFacts ==
  ASSUME NEW A, NEW B, NEW f \in Bijection(A, B)
  PROVE  /\ \A x \in A : f[x] \in B
         /\ \A x, y \in A : f[x] = f[y] => x = y
         /\ \A z \in B : \E x \in A : f[x] = z
BY DEF Bijection, Injection, Surjection, IsInjective

\* The sizes of the parts of a finite set sum up to its size.
LEMMA SumOfParts ==
  ASSUME NEW P, IsFiniteSet(P), NEW T, NEW part \in [T -> SUBSET P],
         \A z \in P : \E t \in T : z \in part[t] /\ \A u \in T \ {t} : z \notin part[u],
         NEW w, w = [t \in T |-> Cardinality(part[t])]
  PROVE  SumOf(w) = Cardinality(P)
<1> DEFINE Places == UNION {{t} \X (1 .. w[t]) : t \in DOMAIN w}
           num(t) == CHOOSE f : f \in Bijection(1 .. Cardinality(part[t]), part[t])
           at     == [y \in Places |-> num(y[1])[y[2]]]
<1>1. ASSUME NEW t \in T
      PROVE  num(t) \in Bijection(1 .. w[t], part[t])
  <2>1. IsFiniteSet(part[t])
    BY FS_Subset
  <2>2. \E f : f \in Bijection(1 .. Cardinality(part[t]), part[t])
    BY <2>1, FS_CardinalityType DEF ExistsBijection
  <2> QED BY <2>2
<1>2. \A y \in Places : /\ y[1] \in T /\ y[2] \in 1 .. w[y[1]] /\ y = <<y[1], y[2]>>
  OBVIOUS
<1>3. \A t \in T : \A i \in 1 .. w[t] : <<t, i>> \in Places
  OBVIOUS
<1> HIDE DEF Places, num
<1>4. ASSUME NEW t \in T
      PROVE  /\ \A i \in 1 .. w[t] : num(t)[i] \in part[t]
             /\ \A i, j \in 1 .. w[t] : num(t)[i] = num(t)[j] => i = j
             /\ \A z \in part[t] : \E i \in 1 .. w[t] : num(t)[i] = z
  <2>1. num(t) \in Bijection(1 .. w[t], part[t])
    BY <1>1
  <2> DEFINE A == 1 .. w[t]
             B == part[t]
             g == num(t)
  <2> HIDE DEF A, B, g
  <2>2. g \in Bijection(A, B)
    BY <2>1 DEF A, B, g
  <2>3. /\ \A i \in A : g[i] \in B
        /\ \A i, j \in A : g[i] = g[j] => i = j
        /\ \A z \in B : \E i \in A : g[i] = z
    BY <2>2, BijectionFacts
  <2> QED BY <2>3 DEF A, B, g
<1>5. at \in [Places -> P]
  <2>1. \A y \in Places : num(y[1])[y[2]] \in P
    BY <1>2, <1>4
  <2> QED BY <2>1
<1>6. ASSUME NEW x \in Places, NEW y \in Places, at[x] = at[y]
      PROVE  x = y
  <2>1. at[x] \in part[x[1]] /\ at[y] \in part[y[1]]
    BY <1>2, <1>4
  <2>2. x[1] = y[1]
    BY <1>2, <1>5, <1>6, <2>1
  <2>3. x[2] = y[2]
    BY <1>2, <1>4, <1>6, <2>2
  <2> QED BY <1>2, <2>2, <2>3
<1>7. ASSUME NEW z \in P
      PROVE  \E y \in Places : at[y] = z
  <2>1. PICK t \in T : z \in part[t]
    OBVIOUS
  <2>2. PICK i \in 1 .. w[t] : num(t)[i] = z
    BY <1>4, <2>1
  <2>3. <<t, i>> \in Places
    BY <1>3
  <2>4. at[<<t, i>>] = z
    BY <2>2, <2>3
  <2> QED BY <2>3, <2>4
<1>8. ExistsBijection(Places, P)
  <2> HIDE DEF at
  <2>1. at \in Bijection(Places, P)
    BY <1>5, <1>6, <1>7 DEF Bijection, Injection, Surjection, IsInjective
  <2> QED BY <2>1 DEF ExistsBijection
<1>9. ExistsBijection(P, Places)
  BY <1>8, Fun_ExistsBijSymmetric
<1>10. Cardinality(Places) = Cardinality(P)
  BY <1>9, FS_Bijection
<1> QED BY <1>10 DEF SumOf, Places

\* The atoms of a last view are apart, and hold all of its pairs.
LEMMA AtomsPartition ==
  ASSUME geo \in Geometry, NEW v \in View, v.level = Dim
  PROVE  /\ \A x \in Atoms(v) : /\ x.weight = Cardinality(AtomPairs(x))
                                /\ AtomPairs(x) \subseteq ViewPairs(v)
         /\ \A z \in ViewPairs(v) : \E x \in Atoms(v) :
              z \in AtomPairs(x) /\ \A y \in Atoms(v) \ {x} : z \notin AtomPairs(y)
<1> DEFINE on(p) == [view |-> v, box |-> p]
           all   == [view : {v}, box : v.a \cup v.b]
           new   == {<<"anchor", w>> : w \in all}
<1>1. \A x : x \in Atoms(v) <=> \E p \in v.a \cup v.b : x = AtomOf(on(p)) /\ x.lo # x.hi
  BY DEF Atoms
<1>2. ASSUME NEW p \in v.a \cup v.b
      PROVE  /\ on(p) \in all /\ <<"anchor", on(p)>> \in new
             /\ PairsOf(<<"anchor", on(p)>>) = AtomPairs(AtomOf(on(p)))
             /\ AtomOf(on(p)).weight = Cardinality(AtomPairs(AtomOf(on(p))))
             /\ AtomOf(on(p)).lo = AtomOf(on(p)).hi => AtomPairs(AtomOf(on(p))) = {}
  <2>1. on(p) \in Anchor /\ on(p).view = v /\ on(p).box = p
    BY ViewFacts DEF Anchor
  <2>2. IsAnchor(v, p)
    BY DEF IsAnchor
  <2> HIDE DEF on
  <2>3. /\ AtomPairs(AtomOf(on(p))) = AnchorPairs(on(p))
        /\ AtomOf(on(p)).weight = Cardinality(AtomPairs(AtomOf(on(p))))
        /\ AtomOf(on(p)).lo = AtomOf(on(p)).hi => AnchorPairs(on(p)) = {}
    BY <2>1, <2>2, AtomFacts
  <2>4. PairsOf(<<"anchor", on(p)>>) = AnchorPairs(on(p))
    BY PairsOfTag
  <2>5. on(p) \in all /\ <<"anchor", on(p)>> \in new
    BY DEF on
  <2> QED BY <2>3, <2>4, <2>5
<1>3. Partitions(new, <<"view", v>>) /\ PairsOf(<<"view", v>>) = ViewPairs(v)
  BY OpenLastPartitions, PairsOfTag
<1>4. \A n \in new : \E p \in v.a \cup v.b : n = <<"anchor", on(p)>>
  OBVIOUS
<1> HIDE DEF new, on, all
<1>5. ASSUME NEW x \in Atoms(v)
      PROVE  x.weight = Cardinality(AtomPairs(x)) /\ AtomPairs(x) \subseteq ViewPairs(v)
  <2>1. PICK p \in v.a \cup v.b : x = AtomOf(on(p))
    BY <1>1
  <2>2. /\ <<"anchor", on(p)>> \in new /\ x.weight = Cardinality(AtomPairs(x))
        /\ PairsOf(<<"anchor", on(p)>>) = AtomPairs(x)
    BY <1>2, <2>1
  <2>3. PairsOf(<<"anchor", on(p)>>) \subseteq PairsOf(<<"view", v>>)
    BY <1>3, <2>2 DEF Partitions
  <2> QED BY <1>3, <2>2, <2>3
<1>6. ASSUME NEW z \in ViewPairs(v)
      PROVE  \E x \in Atoms(v) :
               z \in AtomPairs(x) /\ \A y \in Atoms(v) \ {x} : z \notin AtomPairs(y)
  <2>1. PICK n \in new : z \in PairsOf(n) /\ \A m \in new \ {n} : z \notin PairsOf(m)
    BY <1>3 DEF Partitions
  <2>2. PICK p \in v.a \cup v.b : n = <<"anchor", on(p)>>
    BY <1>4
  <2>3. z \in AtomPairs(AtomOf(on(p))) /\ AtomOf(on(p)) \in Atoms(v)
    BY <1>1, <1>2, <2>1, <2>2
  <2>4. ASSUME NEW y \in Atoms(v), z \in AtomPairs(y)
        PROVE  y = AtomOf(on(p))
    <3>1. PICK q \in v.a \cup v.b : y = AtomOf(on(q))
      BY <1>1
    <3>2. z \in PairsOf(<<"anchor", on(q)>>) /\ <<"anchor", on(q)>> \in new
      BY <1>2, <2>4, <3>1
    <3>3. <<"anchor", on(q)>> = n
      BY <2>1, <3>2
    <3> QED BY <2>2, <3>1, <3>3
  <2> QED BY <2>3, <2>4
<1> QED BY <1>5, <1>6

\* A view has finitely many pairs.
LEMMA ViewPairsFinite ==
  ASSUME geo \in Geometry, NEW v \in View
  PROVE  IsFiniteSet(ViewPairs(v)) /\ Cardinality(ViewPairs(v)) \in Nat
<1>1. IsFiniteSet(v.a \X v.b)
  BY ViewFacts, FS_Product
<1>2. ViewPairs(v) \subseteq v.a \X v.b
  BY DEF ViewPairs
<1> QED BY <1>1, <1>2, FS_Subset, FS_CardinalityType

\* One step of counting is right if the views below are counted right.
LEMMA CountStep ==
  ASSUME geo \in Geometry, NEW v \in View, NEW f,
         v.level < Dim => \A u \in View : u.level = v.level + 1 =>
                            f[u] = Cardinality(ViewPairs(u))
  PROVE  (IF EmptyView(v) THEN 0
          ELSE IF v.level = Dim THEN SumOf([x \in Atoms(v) |-> x.weight])
          ELSE SumOf([t \in Nodes(v) |-> f[NextView(t)]])) = Cardinality(ViewPairs(v))
<1>1. IsFiniteSet(ViewPairs(v)) /\ v.level \in Dims
  BY ViewPairsFinite, ViewFacts
<1>2. CASE EmptyView(v)
  <2>1. ViewPairs(v) = {}
    BY <1>2 DEF EmptyView, ViewPairs
  <2> QED BY <1>2, <2>1, FS_EmptySet
<1>3. CASE ~EmptyView(v) /\ v.level = Dim
  <2> DEFINE w    == [x \in Atoms(v) |-> x.weight]
             part == [x \in Atoms(v) |-> AtomPairs(x)]
  <2>1. part \in [Atoms(v) -> SUBSET ViewPairs(v)]
    BY <1>3, AtomsPartition
  <2>2. w = [x \in Atoms(v) |-> Cardinality(part[x])]
    BY <1>3, AtomsPartition
  <2>3. \A z \in ViewPairs(v) : \E x \in Atoms(v) :
          z \in part[x] /\ \A y \in Atoms(v) \ {x} : z \notin part[y]
    BY <1>3, AtomsPartition
  <2> HIDE DEF w, part
  <2>4. SumOf(w) = Cardinality(ViewPairs(v))
    BY <1>1, <2>1, <2>2, <2>3, SumOfParts
  <2> QED BY <1>3, <2>4 DEF w
<1>4. CASE ~EmptyView(v) /\ v.level # Dim
  <2> DEFINE T    == Nodes(v)
             w    == [t \in T |-> f[NextView(t)]]
             part == [t \in T |-> ViewPairs(NextView(t))]
  <2>1. v.level < Dim
    BY <1>1, <1>4, ShapesAssumption DEF Dims
  <2>2. T = NodesOf(v)
    BY <1>4, <2>1, NodesHandOnce
  <2>3. \A t \in T : /\ NextView(t) \in View /\ NextView(t).level = v.level + 1
                     /\ ViewPairs(NextView(t)) \subseteq ViewPairs(v)
    BY <1>4, <2>1, <2>2, NodesHandOnce DEF NextView
  <2>4. \A z \in ViewPairs(v) : \E t \in T :
          z \in ViewPairs(NextView(t)) /\ \A u \in T \ {t} : z \notin ViewPairs(NextView(u))
    BY <1>4, <2>1, <2>2, NodesHandOnce DEF HandedOnce
  <2> HIDE DEF T
  <2>5. part \in [T -> SUBSET ViewPairs(v)]
    BY <2>3
  <2>6. w = [t \in T |-> Cardinality(part[t])]
    <3>1. \A t \in T : f[NextView(t)] = Cardinality(ViewPairs(NextView(t)))
      BY <2>1, <2>3
    <3> QED BY <3>1
  <2>7. \A z \in ViewPairs(v) : \E t \in T :
          z \in part[t] /\ \A u \in T \ {t} : z \notin part[u]
    BY <2>4
  <2> HIDE DEF w, part
  <2>8. SumOf(w) = Cardinality(ViewPairs(v))
    BY <1>1, <2>5, <2>6, <2>7, SumOfParts
  <2> QED BY <1>4, <2>8 DEF w, T
<1> QED BY <1>2, <1>3, <1>4

\* The recursive count of the model is the number of pairs of a view
\* (anchor_count_recursive).
LEMMA SizeOfIsExact ==
  ASSUME geo \in Geometry
  PROVE  \A v \in View : SizeOf[v] = Cardinality(ViewPairs(v))
<1> DEFINE Body(f, v) == IF EmptyView(v) THEN 0
                         ELSE IF v.level = Dim THEN SumOf([x \in Atoms(v) |-> x.weight])
                         ELSE SumOf([t \in Nodes(v) |-> f[NextView(t)]])
           all == [v \in View |-> Cardinality(ViewPairs(v))]
<1>1. ASSUME NEW v \in View
      PROVE  Body(all, v) = Cardinality(ViewPairs(v))
  <2>1. \A u \in View : all[u] = Cardinality(ViewPairs(u))
    OBVIOUS
  <2> HIDE DEF all
  <2> QED BY <2>1, CountStep
<1>2. all = [v \in View |-> Body(all, v)]
  <2> HIDE DEF Body
  <2> QED BY <1>1
<1>3. SizeOf = [v \in View |-> Body(SizeOf, v)]
  <2> HIDE DEF all
  <2> QED BY <1>2 DEF SizeOf
<1> HIDE DEF all
<1> DEFINE Wrong == {v \in View : SizeOf[v] # Cardinality(ViewPairs(v))}
           left  == [v \in Wrong |-> Dim - v.level]
<1>4. ASSUME Wrong # {}
      PROVE  FALSE
  <2>1. left \in [Wrong -> Nat]
    BY ViewFacts, ShapesAssumption DEF Dims
  <2>2. PICK v \in Wrong : \A u \in Wrong : left[v] <= left[u]
    <3> HIDE DEF Wrong, left
    <3> QED BY <1>4, <2>1, LeastThing
  <2>3. ASSUME NEW u \in View, u.level = v.level + 1
        PROVE  SizeOf[u] = Cardinality(ViewPairs(u))
    <3>1. v.level \in Int /\ Dim \in Int
      BY ViewFacts, ShapesAssumption DEF Dims
    <3>2. ~(Dim - v.level <= Dim - u.level)
      BY <2>3, <3>1
    <3> QED BY <2>2, <3>2
  <2>4. Body(SizeOf, v) = Cardinality(ViewPairs(v))
    <3> HIDE DEF Wrong, left
    <3>1. v \in View
      BY DEF Wrong
    <3> QED BY <2>3, <3>1, CountStep
  <2>5. SizeOf[v] = Body(SizeOf, v)
    <3> HIDE DEF Body
    <3> QED BY <1>3
  <2> QED BY <2>4, <2>5
<1> QED BY <1>4

-----------------------------------------------------------------------------
(* A node is known by its tree and its range.                              *)

\* What is reached from a node lies in its range, and what is not the node
\* itself is smaller.
LEMMA ReachedRange ==
  ASSUME NEW t \in Node, t.begin < t.end, NEW u \in Reached(t)
  PROVE  /\ u \in Node /\ Below(u, t) /\ u.begin < u.end
         /\ u # t => Span(u) < Span(t)
<1> DEFINE X == {x \in Node : Below(x, t) /\ x.begin < x.end}
<1>1. t \in X /\ X \subseteq Node
  BY DEF Below, Node
<1>2. ASSUME NEW x \in X, NEW c \in Children(x)
      PROVE  c \in X
  <2>1. c \in Node /\ Below(c, x) /\ c.begin < c.end
    BY ChildShape
  <2>2. /\ t.begin \in Nat /\ t.end \in Nat /\ x.begin \in Nat /\ x.end \in Nat
        /\ c.begin \in Nat /\ c.end \in Nat
    BY <2>1 DEF Node
  <2>3. Below(c, t)
    BY <2>1, <2>2 DEF Below
  <2> QED BY <2>1, <2>3
<1>3. Reached(t) \subseteq X
  <2> HIDE DEF X
  <2> QED BY <1>1, <1>2, ReachedIsLeast
<1>4. ASSUME u # t
      PROVE  Span(u) < Span(t)
  <2>1. PICK c \in Children(t) : u \in Reached(c)
    BY <1>4, ReachedUnfolds
  <2>2. /\ c \in Node /\ Below(c, t) /\ c.begin < c.end
        /\ Span(t) \in Nat /\ Span(c) \in Nat /\ Span(c) < Span(t)
    BY ChildShape
  <2> DEFINE Y == {x \in Node : Below(x, c)}
  <2>3. c \in Y /\ Y \subseteq Node
    BY <2>2 DEF Below, Node
  <2>4. ASSUME NEW x \in Y, NEW d \in Children(x)
        PROVE  d \in Y
    <3>1. d \in Node /\ Below(d, x)
      BY ChildShape
    <3>2. /\ x.begin \in Nat /\ x.end \in Nat /\ d.begin \in Nat /\ d.end \in Nat
          /\ c.begin \in Nat /\ c.end \in Nat
      BY <2>2, <3>1 DEF Node
    <3> QED BY <3>1, <3>2 DEF Below
  <2>5. Reached(c) \subseteq Y
    <3> HIDE DEF Y
    <3> QED BY <2>2, <2>3, <2>4, ReachedIsLeast
  <2>6. u \in Node /\ Below(u, c)
    BY <2>1, <2>5
  <2>7. /\ u.begin \in Nat /\ u.end \in Nat /\ c.begin \in Nat /\ c.end \in Nat
        /\ t.begin \in Nat /\ t.end \in Nat
    BY <2>2, <2>6 DEF Node
  <2> QED BY <2>2, <2>6, <2>7 DEF Below, Span
<1> QED BY <1>3, <1>4

\* Of two nodes reached, one whose range lies in the other's is reached from it.
LEMMA Nested ==
  ASSUME NEW r \in Node, r.begin < r.end, NEW u \in Reached(r), NEW w \in Reached(r),
         Below(w, u)
  PROVE  w \in Reached(u)
<1> DEFINE X == {x \in Reached(r) : Below(w, x) => w \in Reached(x)}
<1>1. r \in X /\ X \subseteq Node
  BY ReachedIsLeast
<1>2. ASSUME NEW x \in X, NEW c \in Children(x)
      PROVE  c \in X
  <2>1. x \in Node /\ w \in Node /\ x \in Reached(r) /\ w.begin < w.end /\ x.begin < x.end
    BY ReachedRange
  <2>2. /\ c \in Node /\ Below(c, x) /\ c.begin < c.end
        /\ Span(x) \in Nat /\ Span(c) \in Nat /\ Span(c) < Span(x)
        /\ \A d \in Children(x) : d # c => Apart(c, d)
    BY <2>1, ChildShape
  <2>3. c \in Reached(r)
    BY <2>1, ReachedIsLeast
  <2>4. /\ x.begin \in Nat /\ x.end \in Nat /\ c.begin \in Nat /\ c.end \in Nat
        /\ w.begin \in Nat /\ w.end \in Nat
    BY <2>1, <2>2 DEF Node
  <2>5. ASSUME Below(w, c)
        PROVE  w \in Reached(c)
    <3>1. Below(w, x)
      BY <2>2, <2>4, <2>5 DEF Below
    <3>2. w \in Reached(x)
      BY <3>1
    <3>3. w # x
      BY <2>2, <2>4, <2>5 DEF Below, Span
    <3>4. PICK d \in Children(x) : w \in Reached(d)
      BY <2>1, <3>2, <3>3, ReachedUnfolds
    <3>5. d \in Node /\ d.begin < d.end
      BY <2>1, ChildShape
    <3>6. Below(w, d)
      BY <3>4, <3>5, ReachedRange
    <3>7. d.begin \in Nat /\ d.end \in Nat
      BY <3>5 DEF Node
    <3>8. ~Apart(c, d)
      BY <2>1, <2>4, <2>5, <3>6, <3>7 DEF Below, Apart
    <3> QED BY <2>2, <3>4, <3>8
  <2> QED BY <2>3, <2>5
<1>3. Reached(r) \subseteq X
  <2> HIDE DEF X
  <2> QED BY <1>1, <1>2, ReachedIsLeast
<1> QED BY <1>3

\* A root has leaves, so its range is not empty.
LEMMA RootShape ==
  ASSUME geo \in Geometry, NEW v \in View, v.level < Dim, ~EmptyView(v), NEW tree \in Tree
  PROVE  /\ Root(v, tree) \in Node /\ Root(v, tree).tree = tree
         /\ Root(v, tree).begin < Root(v, tree).end
<1> DEFINE r == Root(v, tree)
<1>1. r \in Node /\ NodeOK(r)
  BY RootFacts DEF Tree
<1>2. /\ r.tree = tree /\ r.lattice = IF tree = "B" THEN v.b ELSE v.a
  BY DEF Root
<1>3. r.lattice # {}
  BY <1>2 DEF EmptyView
<1> HIDE DEF r
<1>4. PICK q \in r.lattice : r.begin <= Rank(r, q) /\ Rank(r, q) < r.end
  BY <1>1, <1>3 DEF NodeOK
<1>5. Rank(r, q) \in Nat /\ r.begin \in Nat /\ r.end \in Nat
  <2>1. IsFiniteSet(Whole(r))
    BY <1>1, ViewFacts DEF Whole, Node
  <2> QED BY <1>1, <2>1, RankTypes DEF Rank, Node
<1>6. r.begin < r.end
  BY <1>4, <1>5
<1> QED BY <1>1, <1>2, <1>6 DEF r

\* Two nodes of a view with the same tree and range are one.
LEMMA KeyTells ==
  ASSUME geo \in Geometry, NEW v \in View, v.level < Dim, ~EmptyView(v),
         NEW u \in NodesOf(v), NEW w \in NodesOf(v), KeyOf(u) = KeyOf(w)
  PROVE  u = w
<1>1. ASSUME NEW tree \in Tree, NEW x \in Reached(Root(v, tree))
      PROVE  /\ x \in Node /\ x.tree = tree /\ x.begin < x.end
  BY RootShape, ReachedRange DEF Below
<1>2. u.tree = w.tree /\ u.begin = w.begin /\ u.end = w.end
  BY DEF KeyOf
<1>3. PICK tree \in Tree : u \in Reached(Root(v, tree))
  BY DEF NodesOf, Tree
<1>4. w \in Reached(Root(v, tree))
  <2>1. PICK other \in Tree : w \in Reached(Root(v, other))
    BY DEF NodesOf, Tree
  <2> QED BY <1>1, <1>2, <1>3, <2>1
<1>5. u \in Node /\ w \in Node /\ u.begin < u.end
  BY <1>1, <1>3, <1>4
<1>6. Below(w, u) /\ Span(w) = Span(u) /\ Span(u) \in Int
  BY <1>2, <1>5 DEF Below, Span, Node
<1>7. w \in Reached(u)
  BY <1>3, <1>4, <1>6, RootShape, Nested
<1> QED BY <1>5, <1>6, <1>7, ReachedRange

-----------------------------------------------------------------------------
(* What is known of one frame.                                             *)

Quota == UNION {[K -> 1 .. MaxOutput] : K \in SUBSET NodeKey}
Frame == [view : View, step : {"open", "route"}, first : Nat, size : 1 .. MaxOutput,
          cursor : Nat, quota : Quota, queue : [Tree -> Seq(Node)]]

\* The keys with a quota that the nodes in the queues still lead to.
Pending(f) ==
  {k \in DOMAIN f.quota : \E tree \in Tree : \E j \in DOMAIN f.queue[tree] :
                            \E u \in Reached(f.queue[tree][j]) : k = KeyOf(u)}

\* The nodes in a queue belong to its tree, and their ranges are apart.
QueueOK(f, tree) ==
  \A j \in DOMAIN f.queue[tree] :
    /\ f.queue[tree][j] \in Reached(Root(f.view, tree))
    /\ \A k \in DOMAIN f.queue[tree] : j # k => Apart(f.queue[tree][j], f.queue[tree][k])

\* What a place can be given to: a node whose view has a pair.
DrawKeys(v) == {KeyOf(t) : t \in {t \in NodesOf(v) : ViewPairs(NextView(t)) # {}}}

\* The quotas come from a draw for each place, and the places filled are as
\* many as the draws whose node is no longer pending.
DrawsOK(f, filled) ==
  \E draws \in [1 .. f.size -> DrawKeys(f.view)] :
    /\ f.quota = Quotas(draws)
    /\ filled = Cardinality({i \in 1 .. f.size : draws[i] \notin Pending(f)})

CallOK(f) ==
  /\ ~EmptyView(f.view) /\ ViewPairs(f.view) \subseteq Join(geo)
  /\ f.view.path = <<>> => f.view = TopView
  /\ f.view.path # <<>> \/ f.step = "route" => ViewPairs(f.view) # {}
  /\ f.step = "open" => f.cursor = 0 /\ f.quota = <<>>
  /\ f.step = "route" => f.view.level < Dim /\ \A tree \in Tree : QueueOK(f, tree)

\* The queue of a node's children holds those that are active, once each.
LEMMA QueuedFacts ==
  ASSUME NEW quota, NEW h \in Node
  PROVE  /\ QueuedChildren(quota, h) \in Seq(Node)
         /\ \A j \in DOMAIN QueuedChildren(quota, h) :
              /\ QueuedChildren(quota, h)[j] \in Children(h)
              /\ \A k \in DOMAIN QueuedChildren(quota, h) :
                   j # k => QueuedChildren(quota, h)[j] # QueuedChildren(quota, h)[k]
         /\ \A c \in Children(h) : Active(quota, c) =>
              \E j \in DOMAIN QueuedChildren(quota, h) : QueuedChildren(quota, h)[j] = c
<1> DEFINE child(c) == IF c \in Children(h) THEN Queued(quota, c) ELSE <<>>
           s        == QueuedChildren(quota, h)
<1>1. \A c \in Children(h) : c \in Node /\ (c = Left(h) \/ c = Right(h))
  BY ChildShape DEF Children
<1>2. s = child(Left(h)) \o child(Right(h))
  BY DEF QueuedChildren
<1>3. \A c : /\ child(c) = <<c>> \/ child(c) = <<>>
             /\ child(c) = <<c>> => c \in Children(h)
             /\ c \in Children(h) /\ Active(quota, c) => child(c) = <<c>>
  BY DEF Queued
<1>4. Left(h) \in Children(h) /\ Right(h) \in Children(h) => Left(h) # Right(h)
  <2> SUFFICES ASSUME Left(h) \in Children(h), Left(h) = Right(h)
               PROVE  FALSE
    OBVIOUS
  <2>1. h.end - h.begin > 1 /\ h.begin \in Nat /\ h.end \in Nat
    BY DEF Children, Node
  <2>2. Middle(h) \in Nat /\ h.begin < Middle(h)
    BY <2>1, MiddleFacts DEF Middle
  <2>3. /\ h = [view |-> h.view, tree |-> h.tree, begin |-> h.begin, end |-> h.end,
                source |-> h.source, lattice |-> h.lattice]
    BY DEF Node
  <2>4. Left(h).begin = h.begin /\ Right(h).begin = Middle(h)
    BY <2>3 DEF Left, Right, Child
  <2> QED BY <2>1, <2>2, <2>4
<1> HIDE DEF child, s
<1>5. CASE child(Left(h)) = <<>> /\ child(Right(h)) = <<>>
  <2>1. s = <<>>
    BY <1>2, <1>5
  <2>2. DOMAIN s = {}
    BY <2>1
  <2>3. \A c \in Children(h) : ~Active(quota, c)
    BY <1>1, <1>3, <1>5
  <2>4. s \in Seq(Node)
    BY <2>1
  <2> QED BY <2>2, <2>3, <2>4 DEF s
<1>6. ASSUME NEW c, child(c) = <<c>>, s = <<c>>,
             \A d \in Children(h) : Active(quota, d) => d = c
      PROVE  /\ s \in Seq(Node)
             /\ \A j \in DOMAIN s : /\ s[j] \in Children(h)
                                    /\ \A k \in DOMAIN s : j # k => s[j] # s[k]
             /\ \A d \in Children(h) : Active(quota, d) => \E j \in DOMAIN s : s[j] = d
  <2>1. c \in Children(h) /\ c \in Node
    BY <1>1, <1>3, <1>6
  <2>2. DOMAIN s = {1} /\ s[1] = c
    BY <1>6
  <2>3. s \in Seq(Node)
    BY <1>6, <2>1
  <2> QED BY <1>6, <2>1, <2>2, <2>3
<1>7. CASE child(Left(h)) = <<Left(h)>> /\ child(Right(h)) = <<>>
  <2>1. s = <<Left(h)>>
    BY <1>2, <1>7
  <2>2. \A d \in Children(h) : Active(quota, d) => d = Left(h)
    BY <1>1, <1>3, <1>7
  <2> QED BY <1>6, <1>7, <2>1, <2>2 DEF s
<1>8. CASE child(Left(h)) = <<>> /\ child(Right(h)) = <<Right(h)>>
  <2>1. s = <<Right(h)>>
    BY <1>2, <1>8
  <2>2. \A d \in Children(h) : Active(quota, d) => d = Right(h)
    BY <1>1, <1>3, <1>8
  <2> QED BY <1>6, <1>8, <2>1, <2>2 DEF s
<1>9. CASE child(Left(h)) = <<Left(h)>> /\ child(Right(h)) = <<Right(h)>>
  <2>1. Left(h) \in Children(h) /\ Right(h) \in Children(h)
    BY <1>3, <1>9
  <2>2. <<Left(h)>> \in Seq(Node) /\ <<Right(h)>> \in Seq(Node)
    BY <1>1, <2>1
  <2>3. s = <<Left(h)>> \o <<Right(h)>>
    BY <1>2, <1>9
  <2>4. s \in Seq(Node) /\ Len(s) = 2 /\ s[1] = Left(h) /\ s[2] = Right(h)
    <3> DEFINE x == <<Left(h)>>
               y == <<Right(h)>>
    <3>1. Len(x) = 1 /\ Len(y) = 1 /\ x[1] = Left(h) /\ y[1] = Right(h)
      OBVIOUS
    <3>2. x \in Seq(Node) /\ y \in Seq(Node) /\ s = x \o y
      BY <2>2, <2>3
    <3> HIDE DEF x, y
    <3>3. s \in Seq(Node) /\ Len(s) = 2
      BY <3>1, <3>2, ConcatProperties
    <3>4. \A i \in 1 .. 2 : s[i] = IF i <= 1 THEN x[i] ELSE y[i - 1]
      BY SMTT(20), <3>1, <3>2, ConcatProperties
    <3> QED BY <3>1, <3>3, <3>4
  <2>5. DOMAIN s = {1, 2}
    BY <2>4
  <2>6. \A d \in Children(h) : \E j \in DOMAIN s : s[j] = d
    BY <1>1, <2>4, <2>5
  <2>7. \A j \in DOMAIN s : /\ s[j] \in Children(h)
                            /\ \A k \in DOMAIN s : j # k => s[j] # s[k]
    BY <1>4, <2>1, <2>4, <2>5
  <2> QED BY <2>4, <2>6, <2>7 DEF s
<1> QED BY <1>3, <1>5, <1>7, <1>8, <1>9

\* A sequence without its head, with another behind it.
LEMMA TailConcat ==
  ASSUME NEW A, NEW q \in Seq(A), q # <<>>, NEW s \in Seq(A), NEW new, new = Tail(q) \o s
  PROVE  /\ Len(q) \in Nat /\ Len(s) \in Nat /\ Len(q) > 0
         /\ DOMAIN q = 1 .. Len(q) /\ DOMAIN s = 1 .. Len(s)
         /\ new \in Seq(A) /\ DOMAIN new = 1 .. Len(q) - 1 + Len(s)
         /\ \A i \in 1 .. Len(q) - 1 : new[i] = q[i + 1]
         /\ \A i \in 1 .. Len(s) : new[Len(q) - 1 + i] = s[i]
<1> DEFINE t == Tail(q)
<1>1. t \in Seq(A) /\ Len(t) = Len(q) - 1 /\ \A i \in 1 .. Len(t) : t[i] = q[i + 1]
  BY HeadTailProperties
<1>2. /\ Len(q) \in Nat /\ Len(s) \in Nat /\ Len(q) > 0
      /\ DOMAIN q = 1 .. Len(q) /\ DOMAIN s = 1 .. Len(s)
  OBVIOUS
<1>3. new = t \o s
  OBVIOUS
<1> HIDE DEF t
<1>4. new \in Seq(A) /\ Len(new) = Len(t) + Len(s)
  BY <1>1, <1>3, ConcatProperties
<1>5. \A i \in 1 .. Len(t) + Len(s) : new[i] = IF i <= Len(t) THEN t[i] ELSE s[i - Len(t)]
  BY <1>1, <1>3, ConcatProperties
<1>6. DOMAIN new = 1 .. Len(q) - 1 + Len(s)
  <2>1. DOMAIN new = 1 .. Len(new)
    BY <1>4
  <2> QED BY <1>1, <1>4, <2>1
<1>7. \A i \in 1 .. Len(q) - 1 : new[i] = q[i + 1]
  BY <1>1, <1>2, <1>5
<1>8. \A i \in 1 .. Len(s) : new[Len(q) - 1 + i] = s[i]
  BY <1>1, <1>2, <1>5
<1> QED BY <1>2, <1>4, <1>6, <1>7, <1>8

\* The frame after the node at the head has been routed.
HeadQueue(f) == f.queue[Current(f)]
NewNodes(f)  == QueuedChildren(f.quota, HeadOf(f))
RoutedOn(f)  == [f EXCEPT !.queue[Current(f)] = Tail(@) \o QueuedChildren(f.quota, HeadOf(f))]

\* The head of the queue is gone, its active children stand at the end.
LEMMA RoutedQueue ==
  ASSUME NEW f \in Frame, ~Routed(f), NEW g, g = RoutedOn(f)
  PROVE  /\ Current(f) \in Tree /\ HeadOf(f) \in Node
         /\ HeadQueue(f) \in Seq(Node) /\ NewNodes(f) \in Seq(Node)
         /\ Len(HeadQueue(f)) \in Nat /\ Len(NewNodes(f)) \in Nat
         /\ Len(HeadQueue(f)) > 0 /\ HeadOf(f) = HeadQueue(f)[1]
         /\ g \in Frame /\ g.view = f.view /\ g.step = f.step /\ g.first = f.first
         /\ g.size = f.size /\ g.cursor = f.cursor /\ g.quota = f.quota
         /\ \A tree \in Tree \ {Current(f)} : g.queue[tree] = f.queue[tree]
         /\ DOMAIN HeadQueue(f) = 1 .. Len(HeadQueue(f))
         /\ DOMAIN NewNodes(f) = 1 .. Len(NewNodes(f))
         /\ DOMAIN g.queue[Current(f)] = 1 .. Len(HeadQueue(f)) - 1 + Len(NewNodes(f))
         /\ \A i \in 1 .. Len(HeadQueue(f)) - 1 :
              g.queue[Current(f)][i] = HeadQueue(f)[i + 1]
         /\ \A i \in 1 .. Len(NewNodes(f)) :
              g.queue[Current(f)][Len(HeadQueue(f)) - 1 + i] = NewNodes(f)[i]
<1> DEFINE tr  == Current(f)
           q   == HeadQueue(f)
           s   == NewNodes(f)
           new == Tail(q) \o s
<1>1. tr \in Tree /\ q # <<>> /\ q \in Seq(Node)
  BY DEF Frame, Routed, Current, Tree, HeadQueue
<1>2. HeadOf(f) = Head(q)
  BY DEF HeadOf, HeadQueue
<1> HIDE DEF tr, q, s, new
<1>3. HeadOf(f) \in Node /\ HeadOf(f) = q[1]
  BY <1>1, <1>2
<1>4. s \in Seq(Node)
  BY <1>3, QueuedFacts DEF s, NewNodes
<1>5. /\ Len(q) \in Nat /\ Len(s) \in Nat /\ Len(q) > 0
      /\ DOMAIN q = 1 .. Len(q) /\ DOMAIN s = 1 .. Len(s)
      /\ new \in Seq(Node) /\ DOMAIN new = 1 .. Len(q) - 1 + Len(s)
      /\ \A i \in 1 .. Len(q) - 1 : new[i] = q[i + 1]
      /\ \A i \in 1 .. Len(s) : new[Len(q) - 1 + i] = s[i]
  <2>1. new = Tail(q) \o s
    BY DEF new
  <2> QED BY <1>1, <1>4, <2>1, TailConcat
<1>6. f.queue \in [Tree -> Seq(Node)]
  BY DEF Frame
<1>7. g = [f EXCEPT !.queue = [f.queue EXCEPT ![tr] = new]]
  BY DEF RoutedOn, tr, new, q, s, HeadQueue, NewNodes
<1>8. [f.queue EXCEPT ![tr] = new] \in [Tree -> Seq(Node)]
  BY <1>1, <1>5, <1>6
<1>9. /\ g \in Frame /\ g.view = f.view /\ g.step = f.step /\ g.first = f.first
      /\ g.size = f.size /\ g.cursor = f.cursor /\ g.quota = f.quota
      /\ g.queue = [f.queue EXCEPT ![tr] = new]
  BY <1>7, <1>8 DEF Frame
<1>10. g.queue[tr] = new /\ \A tree \in Tree \ {tr} : g.queue[tree] = f.queue[tree]
  <2>1. g.queue = [f.queue EXCEPT ![tr] = new]
    BY <1>9
  <2> QED BY <1>1, <1>6, <2>1
<1>11. q = HeadQueue(f) /\ s = NewNodes(f) /\ tr = Current(f)
  BY DEF q, s, tr
<1> QED BY <1>1, <1>3, <1>4, <1>5, <1>9, <1>10, <1>11

\* A node whose range is apart from another's shares no node below with it.
LEMMA ApartBelow ==
  ASSUME NEW x \in Node, NEW y \in Node, NEW u \in Node, Apart(x, y), Below(u, y)
  PROVE  /\ Apart(x, u) /\ Apart(u, x)
         /\ u.begin < u.end => ~Below(u, x)
BY DEF Apart, Below, Node

\* Routing a node keeps the queues in order, and takes its key alone from those
\* that are pending: a child that is not queued leads to none.
LEMMA RouteKeeps ==
  ASSUME geo \in Geometry, NEW f \in Frame, CallOK(f), f.step = "route", ~Routed(f),
         NEW g, g = RoutedOn(f)
  PROVE  /\ CallOK(g)
         /\ Pending(g) = Pending(f) \ {KeyOf(HeadOf(f))}
         /\ KeyOf(HeadOf(f)) \in DOMAIN f.quota => KeyOf(HeadOf(f)) \in Pending(f)
         /\ HeadOf(f) \in NodesOf(f.view)
<1> DEFINE tr == Current(f)
           q  == HeadQueue(f)
           s  == NewNodes(f)
           h  == HeadOf(f)
           r  == Root(f.view, tr)
           p  == g.queue[tr]
<1>1. /\ tr \in Tree /\ h \in Node /\ Len(q) \in Nat /\ Len(s) \in Nat
      /\ Len(q) > 0 /\ h = q[1] /\ q = f.queue[tr]
      /\ g \in Frame /\ g.view = f.view /\ g.step = f.step /\ g.cursor = f.cursor
      /\ g.quota = f.quota
      /\ DOMAIN q = 1 .. Len(q) /\ DOMAIN s = 1 .. Len(s)
      /\ \A tree \in Tree \ {tr} : g.queue[tree] = f.queue[tree]
  BY RoutedQueue DEF HeadQueue
<1>2. /\ DOMAIN p = 1 .. Len(q) - 1 + Len(s)
      /\ \A i \in 1 .. Len(q) - 1 : p[i] = q[i + 1]
      /\ \A i \in 1 .. Len(s) : p[Len(q) - 1 + i] = s[i]
  BY RoutedQueue
<1>3. /\ f.view \in View /\ f.view.level < Dim /\ ~EmptyView(f.view)
      /\ \A tree \in Tree : QueueOK(f, tree)
  BY DEF CallOK, Frame
<1>4. \A tree \in Tree : /\ Root(f.view, tree) \in Node
                         /\ Root(f.view, tree).begin < Root(f.view, tree).end
                         /\ Root(f.view, tree).tree = tree
  BY <1>3, RootShape
<1>5. \A tree \in Tree : \A x \in Reached(Root(f.view, tree)) :
        x \in Node /\ x.tree = tree /\ x.begin < x.end
  BY <1>4, ReachedRange DEF Below
<1>6. /\ \A j \in DOMAIN s : /\ s[j] \in Children(h)
                             /\ \A k \in DOMAIN s : j # k => s[j] # s[k]
      /\ \A c \in Children(h) : Active(f.quota, c) => \E j \in DOMAIN s : s[j] = c
  BY <1>1, QueuedFacts DEF NewNodes
<1>7. \A j \in DOMAIN q : /\ q[j] \in Reached(r) /\ q[j] \in Node
                          /\ q[j].tree = tr /\ q[j].begin < q[j].end
                          /\ \A k \in DOMAIN q : j # k => Apart(q[j], q[k])
  BY <1>1, <1>3, <1>5 DEF QueueOK
<1>8. 1 \in DOMAIN q /\ h \in Reached(r) /\ h.tree = tr /\ h.begin < h.end
  BY <1>1, <1>7
<1> HIDE DEF q, s, h, r, p, tr
<1>9. ASSUME NEW c \in Children(h)
      PROVE  /\ c \in Node /\ c \in Reached(r) /\ Below(c, h) /\ c.begin < c.end
             /\ Span(c) < Span(h) /\ Span(c) \in Nat /\ Span(h) \in Nat
             /\ \A d \in Children(h) : d # c => Apart(c, d)
  BY <1>1, <1>4, <1>8, ChildShape, ReachedIsLeast DEF r
<1>10. /\ Len(q) \in Nat /\ Len(s) \in Nat /\ Len(q) > 0
      /\ DOMAIN q = 1 .. Len(q) /\ DOMAIN s = 1 .. Len(s)
  BY <1>1
<1>11. ASSUME NEW j \in DOMAIN p
       PROVE  \/ j + 1 \in DOMAIN q /\ j + 1 # 1 /\ p[j] = q[j + 1]
              \/ /\ j - (Len(q) - 1) \in DOMAIN s
                 /\ p[j] = s[j - (Len(q) - 1)]
  <2>1. j \in 1 .. Len(q) - 1 + Len(s)
    BY <1>2
  <2>2. CASE j <= Len(q) - 1
    <3>1. j \in 1 .. Len(q) - 1 /\ j + 1 \in 1 .. Len(q) /\ j + 1 # 1
      BY <1>10, <2>1, <2>2
    <3> QED BY <1>10, <1>2, <3>1
  <2>3. CASE ~(j <= Len(q) - 1)
    <3> DEFINE i == j - (Len(q) - 1)
    <3>1. i \in 1 .. Len(s) /\ Len(q) - 1 + i = j
      BY <1>10, <2>1, <2>3
    <3> HIDE DEF i
    <3>2. p[Len(q) - 1 + i] = s[i]
      BY <1>2, <3>1
    <3> QED BY <1>10, <3>1, <3>2 DEF i
  <2> QED BY <2>2, <2>3
<1>12. ASSUME NEW j \in DOMAIN q, j # 1
       PROVE  j - 1 \in DOMAIN p /\ p[j - 1] = q[j]
  <2>1. j - 1 \in 1 .. Len(q) - 1 /\ (j - 1) + 1 = j
    BY <1>10, <1>12
  <2>2. p[j - 1] = q[(j - 1) + 1]
    BY <1>2, <2>1
  <2>3. j - 1 \in DOMAIN p
    BY <1>10, <1>2, <2>1
  <2> QED BY <2>1, <2>2, <2>3
<1>13. ASSUME NEW j \in DOMAIN s
       PROVE  Len(q) - 1 + j \in DOMAIN p /\ p[Len(q) - 1 + j] = s[j]
  <2>1. j \in 1 .. Len(s) /\ Len(q) - 1 + j \in 1 .. Len(q) - 1 + Len(s)
    BY <1>10
  <2>2. p[Len(q) - 1 + j] = s[j]
    BY <1>2, <2>1
  <2> QED BY <1>2, <2>1, <2>2
<1>14. QueueOK(g, tr)
  <2>1. ASSUME NEW j \in DOMAIN p
        PROVE  p[j] \in Reached(r)
    BY <1>6, <1>7, <1>9, <1>11
  <2>2. ASSUME NEW j \in DOMAIN p, NEW k \in DOMAIN p, j # k
        PROVE  Apart(p[j], p[k])
    <3>1. j \in Int /\ k \in Int /\ Len(q) \in Int
      BY <1>1, <1>2
    <3>2. CASE /\ j + 1 \in DOMAIN q /\ p[j] = q[j + 1]
               /\ k + 1 \in DOMAIN q /\ p[k] = q[k + 1]
      <4>1. j + 1 # k + 1
        BY <2>2, <3>1
      <4> QED BY <1>7, <3>2, <4>1
    <3>3. CASE /\ j + 1 \in DOMAIN q /\ j + 1 # 1 /\ p[j] = q[j + 1]
               /\ k - (Len(q) - 1) \in DOMAIN s /\ p[k] = s[k - (Len(q) - 1)]
      <4>1. Apart(q[j + 1], h) /\ q[j + 1] \in Node
        BY <1>1, <1>7, <1>8, <3>3
      <4>2. p[k] \in Node /\ Below(p[k], h)
        BY <1>6, <1>9, <3>3
      <4> QED BY <1>1, <3>3, <4>1, <4>2, ApartBelow
    <3>4. CASE /\ k + 1 \in DOMAIN q /\ k + 1 # 1 /\ p[k] = q[k + 1]
               /\ j - (Len(q) - 1) \in DOMAIN s /\ p[j] = s[j - (Len(q) - 1)]
      <4>1. Apart(q[k + 1], h) /\ q[k + 1] \in Node
        BY <1>1, <1>7, <1>8, <3>4
      <4>2. p[j] \in Node /\ Below(p[j], h)
        BY <1>6, <1>9, <3>4
      <4> QED BY <1>1, <3>4, <4>1, <4>2, ApartBelow
    <3>5. CASE /\ j - (Len(q) - 1) \in DOMAIN s /\ p[j] = s[j - (Len(q) - 1)]
               /\ k - (Len(q) - 1) \in DOMAIN s /\ p[k] = s[k - (Len(q) - 1)]
      <4>1. j - (Len(q) - 1) # k - (Len(q) - 1)
        BY <2>2, <3>1
      <4>2. p[j] # p[k] /\ p[j] \in Children(h) /\ p[k] \in Children(h)
        BY <1>6, <3>5, <4>1
      <4> QED BY <1>9, <4>2
    <3> QED BY <1>11, <3>2, <3>3, <3>4, <3>5
  <2> QED BY <1>1, <2>1, <2>2 DEF QueueOK, p, r
<1>15. CallOK(g)
  <2>1. \A tree \in Tree \ {tr} : QueueOK(g, tree)
    BY <1>1, <1>3 DEF QueueOK
  <2>2. \A tree \in Tree : QueueOK(g, tree)
    BY <1>14, <2>1
  <2> QED BY <1>1, <2>2 DEF CallOK
<1>16. ASSUME NEW k \in DOMAIN f.quota, NEW tree \in Tree, NEW x \in Node,
              x.tree = tree, NEW u \in Reached(x), k = KeyOf(u), x.begin < x.end
       PROVE  /\ k.tree = tree /\ k.begin = u.begin /\ k.end = u.end
              /\ u \in Node /\ u.begin < u.end /\ Below(u, x)
              /\ Active(f.quota, x)
  <2>1. /\ k.tree = u.tree /\ k.begin = u.begin /\ k.end = u.end
    BY <1>16 DEF KeyOf
  <2>2. u \in Node /\ u.begin < u.end /\ Below(u, x)
    BY <1>16, ReachedRange
  <2> QED BY <1>16, <2>1, <2>2 DEF Below, Active
<1>17. ASSUME NEW k \in Pending(g)
       PROVE  k \in Pending(f) \ {KeyOf(h)}
  <2>1. PICK tree \in Tree : \E j \in DOMAIN g.queue[tree] :
          \E u \in Reached(g.queue[tree][j]) : k = KeyOf(u)
    BY DEF Pending
  <2>2. PICK j \in DOMAIN g.queue[tree] : \E u \in Reached(g.queue[tree][j]) : k = KeyOf(u)
    BY <2>1
  <2>3. PICK u \in Reached(g.queue[tree][j]) : k = KeyOf(u)
    BY <2>2
  <2>4. k \in DOMAIN f.quota
    BY <1>1 DEF Pending
  <2>5. /\ KeyOf(h).tree = tr /\ KeyOf(h).begin = h.begin /\ KeyOf(h).end = h.end
    BY <1>8 DEF KeyOf
  <2>6. CASE tree # tr
    <3>1. g.queue[tree] = f.queue[tree]
      BY <1>1, <2>6
    <3>2. k \in Pending(f)
      BY <2>3, <2>4, <3>1 DEF Pending
    <3>3. /\ f.queue[tree][j] \in Node /\ f.queue[tree][j].tree = tree
          /\ f.queue[tree][j].begin < f.queue[tree][j].end
      BY <1>3, <1>5, <2>3, <3>1 DEF QueueOK
    <3>4. k.tree = tree
      BY <1>16, <2>3, <2>4, <3>1, <3>3
    <3> QED BY <2>5, <2>6, <3>2, <3>4
  <2>7. CASE tree = tr
    <3>1. j \in DOMAIN p /\ u \in Reached(p[j])
      BY <2>3, <2>7 DEF p
    <3>2. CASE j + 1 \in DOMAIN q /\ j + 1 # 1 /\ p[j] = q[j + 1]
      <4>1. k \in Pending(f)
        BY <1>1, <2>3, <2>4, <3>1, <3>2 DEF Pending
      <4>2. /\ p[j] \in Node /\ p[j].tree = tr /\ p[j].begin < p[j].end
            /\ Apart(h, p[j])
        BY <1>1, <1>7, <1>8, <3>2
      <4>3. u \in Node /\ u.begin < u.end /\ Below(u, p[j]) /\ k.begin = u.begin /\ k.end = u.end
        BY <1>1, <1>16, <2>3, <2>4, <3>1, <4>2
      <4>4. ~Below(u, h) /\ u.tree = h.tree
        BY <1>1, <1>8, <4>2, <4>3, ApartBelow DEF Below
      <4>5. k # KeyOf(h)
        <5>1. h.begin \in Nat /\ h.end \in Nat
          BY <1>1 DEF Node
        <5> QED BY <2>5, <4>3, <4>4, <5>1 DEF Below
      <4> QED BY <4>1, <4>5
    <3>3. CASE p[j] \in Children(h)
      <4>1. /\ p[j] \in Node /\ Below(p[j], h) /\ p[j].begin < p[j].end
            /\ Span(p[j]) < Span(h) /\ p[j] \in Reached(r) /\ p[j].tree = tr
        BY <1>8, <1>9, <3>3 DEF Below
      <4>2. u \in Node /\ u.begin < u.end /\ Below(u, p[j]) /\ k.begin = u.begin /\ k.end = u.end
        BY <1>1, <1>16, <2>3, <2>4, <3>1, <4>1
      <4>3. u \in Reached(h)
        <5>1. p[j] \in Reached(h)
          BY <1>1, <3>3, ReachedIsLeast
        <5> QED BY <1>1, <3>1, <5>1, ReachedOn
      <4>4. k \in Pending(f)
        <5>1. 1 \in DOMAIN f.queue[tr] /\ f.queue[tr][1] = h
          BY <1>1, <1>8
        <5> QED BY <1>1, <2>3, <2>4, <4>3, <5>1 DEF Pending
      <4>5. k # KeyOf(h)
        <5>1. /\ h.begin \in Nat /\ h.end \in Nat /\ u.begin \in Nat /\ u.end \in Nat
              /\ p[j].begin \in Nat /\ p[j].end \in Nat
          BY <1>1, <4>1, <4>2 DEF Node
        <5> QED BY <2>5, <4>1, <4>2, <5>1 DEF Below, Span
      <4> QED BY <4>4, <4>5
    <3> QED BY <1>6, <1>11, <3>1, <3>2, <3>3
  <2> QED BY <2>6, <2>7
<1>18. ASSUME NEW k \in Pending(f), k # KeyOf(h)
       PROVE  k \in Pending(g)
  <2>1. PICK tree \in Tree : \E j \in DOMAIN f.queue[tree] :
          \E u \in Reached(f.queue[tree][j]) : k = KeyOf(u)
    BY DEF Pending
  <2>2. PICK j \in DOMAIN f.queue[tree] : \E u \in Reached(f.queue[tree][j]) : k = KeyOf(u)
    BY <2>1
  <2>3. PICK u \in Reached(f.queue[tree][j]) : k = KeyOf(u)
    BY <2>2
  <2>4. k \in DOMAIN f.quota /\ k \in DOMAIN g.quota
    BY <1>1 DEF Pending
  <2>5. CASE tree # tr
    <3>1. g.queue[tree] = f.queue[tree]
      BY <1>1, <2>5
    <3> QED BY <2>3, <2>4, <3>1 DEF Pending
  <2>6. CASE tree = tr /\ j # 1
    <3>1. j \in DOMAIN q /\ u \in Reached(q[j])
      BY <1>1, <2>3, <2>6
    <3>2. j - 1 \in DOMAIN p /\ u \in Reached(p[j - 1])
      BY <1>12, <2>6, <3>1
    <3> QED BY <1>1, <2>3, <2>4, <3>2 DEF Pending, p
  <2>7. CASE tree = tr /\ j = 1
    <3>1. u \in Reached(h) /\ u # h
      BY <1>1, <1>18, <2>3, <2>7
    <3>2. PICK c \in Children(h) : u \in Reached(c)
      BY <1>1, <3>1, ReachedUnfolds
    <3>3. c \in Node /\ c.tree = tr /\ c.begin < c.end
      BY <1>8, <1>9 DEF Below
    <3>4. Active(f.quota, c)
      BY <1>1, <1>16, <2>3, <2>4, <3>2, <3>3
    <3>5. PICK i \in DOMAIN s : s[i] = c
      BY <1>6, <3>4
    <3>6. Len(q) - 1 + i \in DOMAIN p /\ u \in Reached(p[Len(q) - 1 + i])
      BY <1>13, <3>2, <3>5
    <3> QED BY <1>1, <2>3, <2>4, <3>6 DEF Pending, p
  <2> QED BY <2>5, <2>6, <2>7
<1>19. KeyOf(h) \in DOMAIN f.quota => KeyOf(h) \in Pending(f)
  <2>1. h \in Reached(h)
    BY <1>1, ReachedIsLeast
  <2>2. 1 \in DOMAIN f.queue[tr] /\ f.queue[tr][1] = h
    BY <1>1, <1>8
  <2> QED BY <1>1, <2>1, <2>2 DEF Pending
<1>20. h \in NodesOf(f.view)
  BY <1>1, <1>8 DEF NodesOf, Tree, r
<1> QED BY <1>15, <1>17, <1>18, <1>19, <1>20 DEF h

\* Any set of places is finite, and a quota counts the places of a node.
LEMMA QuotaFacts ==
  ASSUME NEW n \in Nat, NEW D, NEW draws \in [1 .. n -> D]
  PROVE  /\ \A I : I \subseteq 1 .. n =>
              IsFiniteSet(I) /\ Cardinality(I) \in Nat /\ Cardinality(I) <= n
         /\ DOMAIN Quotas(draws) \subseteq D
         /\ \A i \in 1 .. n : draws[i] \in DOMAIN Quotas(draws)
         /\ \A k \in DOMAIN Quotas(draws) :
              /\ Quotas(draws)[k] = Cardinality({i \in 1 .. n : draws[i] = k})
              /\ Quotas(draws)[k] \in 1 .. n
<1>1. IsFiniteSet(1 .. n) /\ Cardinality(1 .. n) = n
  BY FS_Interval
<1>2. ASSUME NEW I, I \subseteq 1 .. n
      PROVE  IsFiniteSet(I) /\ Cardinality(I) \in Nat /\ Cardinality(I) <= n
  <2>1. IsFiniteSet(I) /\ Cardinality(I) <= Cardinality(1 .. n)
    BY <1>1, <1>2, FS_Subset
  <2> QED BY <1>1, <2>1, FS_CardinalityType
<1>3. DOMAIN draws = 1 .. n /\ DOMAIN Quotas(draws) = {draws[i] : i \in 1 .. n}
  BY DEF Quotas, Range
<1>4. ASSUME NEW k \in DOMAIN Quotas(draws)
      PROVE  /\ Quotas(draws)[k] = Cardinality({i \in 1 .. n : draws[i] = k})
             /\ Quotas(draws)[k] \in 1 .. n
  <2>1. Quotas(draws)[k] = Cardinality({i \in 1 .. n : draws[i] = k})
    BY <1>3 DEF Quotas
  <2>2. {i \in 1 .. n : draws[i] = k} # {}
    BY <1>3
  <2>3. {i \in 1 .. n : draws[i] = k} \subseteq 1 .. n
    OBVIOUS
  <2>4. Cardinality({i \in 1 .. n : draws[i] = k}) # 0
    BY <1>2, <2>2, <2>3, FS_EmptySet
  <2> QED BY <1>2, <2>1, <2>3, <2>4
<1> QED BY <1>2, <1>3, <1>4

\* No more places are filled than the slice has.
LEMMA FilledBound ==
  ASSUME NEW f \in Frame, NEW n, DrawsOK(f, n)
  PROVE  n \in Nat /\ n <= f.size
<1>1. PICK draws \in [1 .. f.size -> DrawKeys(f.view)] :
        n = Cardinality({i \in 1 .. f.size : draws[i] \notin Pending(f)})
  BY DEF DrawsOK
<1>2. f.size \in Nat
  BY OutputAssumption DEF Frame
<1>3. {i \in 1 .. f.size : draws[i] \notin Pending(f)} \subseteq 1 .. f.size
  OBVIOUS
<1>4. /\ Cardinality({i \in 1 .. f.size : draws[i] \notin Pending(f)}) \in Nat
      /\ Cardinality({i \in 1 .. f.size : draws[i] \notin Pending(f)}) <= f.size
  BY <1>2, <1>3, QuotaFacts
<1> QED BY <1>1, <1>4

\* A call whose queues are empty has filled its slice.
LEMMA RoutedIsFull ==
  ASSUME NEW f \in Frame, Routed(f), DrawsOK(f, f.cursor)
  PROVE  f.cursor = f.size
<1>1. Pending(f) = {}
  BY DEF Pending, Routed
<1>2. f.size \in Nat
  BY OutputAssumption DEF Frame
<1>3. PICK draws \in [1 .. f.size -> DrawKeys(f.view)] :
        f.cursor = Cardinality({i \in 1 .. f.size : draws[i] \notin Pending(f)})
  BY DEF DrawsOK
<1>4. {i \in 1 .. f.size : draws[i] \notin Pending(f)} = 1 .. f.size
  BY <1>1
<1>5. f.cursor = Cardinality(1 .. f.size)
  BY <1>3, <1>4
<1>6. Cardinality(1 .. f.size) = f.size
  BY <1>2, FS_Interval
<1> QED BY <1>5, <1>6

\* Routing a node: if it has a quota, its view has a pair, the quota fits into the
\* slice, and once the quota is filled the draws of the node are done with.
LEMMA RouteDraws ==
  ASSUME geo \in Geometry, NEW f \in Frame, CallOK(f), f.step = "route", ~Routed(f),
         DrawsOK(f, f.cursor), NEW g, g = RoutedOn(f)
  PROVE  /\ KeyOf(HeadOf(f)) \notin DOMAIN f.quota => DrawsOK(g, f.cursor)
         /\ KeyOf(HeadOf(f)) \in DOMAIN f.quota =>
              /\ DrawsOK(g, f.cursor + f.quota[KeyOf(HeadOf(f))])
              /\ f.quota[KeyOf(HeadOf(f))] \in 1 .. f.size
              /\ f.cursor + f.quota[KeyOf(HeadOf(f))] <= f.size
              /\ NextView(HeadOf(f)) \in View /\ ~EmptyView(NextView(HeadOf(f)))
              /\ ViewPairs(NextView(HeadOf(f))) # {}
              /\ ViewPairs(NextView(HeadOf(f))) \subseteq ViewPairs(f.view)
<1> DEFINE h == HeadOf(f)
           k == KeyOf(h)
<1>1. /\ Pending(g) = Pending(f) \ {k} /\ h \in NodesOf(f.view)
      /\ k \in DOMAIN f.quota => k \in Pending(f)
  BY RouteKeeps
<1>2. g.view = f.view /\ g.size = f.size /\ g.quota = f.quota
  BY RoutedQueue
<1>3. f.size \in Nat /\ f.cursor \in Nat /\ f.view \in View /\ f.view.level < Dim
      /\ ~EmptyView(f.view)
  BY OutputAssumption DEF Frame, CallOK
<1> HIDE DEF h, k
<1>4. PICK draws \in [1 .. f.size -> DrawKeys(f.view)] :
        /\ f.quota = Quotas(draws)
        /\ f.cursor = Cardinality({i \in 1 .. f.size : draws[i] \notin Pending(f)})
  BY DEF DrawsOK
<1> DEFINE Done == {i \in 1 .. f.size : draws[i] \notin Pending(f)}
           Next1 == {i \in 1 .. f.size : draws[i] \notin Pending(g)}
           Mine == {i \in 1 .. f.size : draws[i] = k}
<1>5. ASSUME k \notin DOMAIN f.quota
      PROVE  DrawsOK(g, f.cursor)
  <2>1. Pending(f) \subseteq DOMAIN f.quota
    BY DEF Pending
  <2>2. Pending(g) = Pending(f)
    BY <1>1, <1>5, <2>1
  <2> QED BY <1>2, <1>4, <2>2 DEF DrawsOK
<1>6. ASSUME k \in DOMAIN f.quota
      PROVE  /\ DrawsOK(g, f.cursor + f.quota[k])
             /\ f.quota[k] \in 1 .. f.size
             /\ f.cursor + f.quota[k] <= f.size
  <2>1. k \in Pending(f)
    BY <1>1, <1>6
  <2>2. Next1 = Done \cup Mine /\ Done \cap Mine = {} /\ Next1 \subseteq 1 .. f.size
    BY <1>1, <2>1
  <2>3. Done \subseteq 1 .. f.size /\ Mine \subseteq 1 .. f.size
    OBVIOUS
  <2>4. /\ f.quota[k] = Cardinality(Mine) /\ f.quota[k] \in 1 .. f.size
        /\ f.cursor = Cardinality(Done)
    <3>1. k \in DOMAIN Quotas(draws)
      BY <1>4, <1>6
    <3>2. /\ Quotas(draws)[k] = Cardinality(Mine)
          /\ Quotas(draws)[k] \in 1 .. f.size
      BY <1>3, <3>1, QuotaFacts
    <3> QED BY <1>4, <3>2
  <2> HIDE DEF Done, Mine, Next1
  <2>5. IsFiniteSet(Done) /\ IsFiniteSet(Mine) /\ Cardinality(Next1) <= f.size
    BY <1>3, <1>4, <2>2, <2>3, QuotaFacts
  <2>6. Cardinality(Done \cup Mine)
          = Cardinality(Done) + Cardinality(Mine) - Cardinality(Done \cap Mine)
    BY <2>5, FS_Union
  <2>7. Cardinality(Done \cap Mine) = 0
    BY <2>2, FS_EmptySet
  <2>8. Cardinality(Next1) = f.cursor + f.quota[k]
    BY <1>3, <2>2, <2>4, <2>6, <2>7
  <2>9. DrawsOK(g, f.cursor + f.quota[k])
    BY <1>2, <1>4, <2>8 DEF DrawsOK, Next1
  <2> QED BY <2>4, <2>5, <2>8, <2>9
<1>7. ASSUME k \in DOMAIN f.quota
      PROVE  /\ NextView(h) \in View /\ ~EmptyView(NextView(h))
             /\ ViewPairs(NextView(h)) # {}
             /\ ViewPairs(NextView(h)) \subseteq ViewPairs(f.view)
  <2>1. k \in DrawKeys(f.view)
    BY <1>3, <1>4, <1>7, QuotaFacts
  <2>2. PICK t \in NodesOf(f.view) : k = KeyOf(t) /\ ViewPairs(NextView(t)) # {}
    BY <2>1 DEF DrawKeys
  <2>3. t = h
    BY <1>1, <1>3, <2>2, KeyTells DEF k
  <2>4. NextView(h) \in View /\ ViewPairs(NextView(h)) \subseteq ViewPairs(f.view)
    BY <1>1, <1>3, NodesHandOnce
  <2>5. ~EmptyView(NextView(h))
    BY <2>2, <2>3 DEF EmptyView, ViewPairs
  <2> QED BY <2>2, <2>3, <2>4, <2>5
<1> QED BY <1>5, <1>6, <1>7 DEF h, k

\* The frame after each of its places has been given to a node.
Drawn(f, draws) ==
  [f EXCEPT !.step = "route", !.quota = Quotas(draws),
            !.queue = [tree \in Tree |-> Queued(Quotas(draws), Root(f.view, tree))]]

\* It has filled no place yet, and its roots lead to all nodes with a quota.
LEMMA OpenDraws ==
  ASSUME geo \in Geometry, NEW f \in Frame, CallOK(f), f.step = "open",
         f.view.level < Dim, ViewPairs(f.view) # {},
         NEW draws \in [1 .. f.size -> DrawKeys(f.view)], NEW g, g = Drawn(f, draws)
  PROVE  /\ g \in Frame /\ CallOK(g) /\ DrawsOK(g, 0)
         /\ g.view = f.view /\ g.step = "route" /\ g.first = f.first
         /\ g.size = f.size /\ g.cursor = 0
<1> DEFINE quota == Quotas(draws)
           queue == [tree \in Tree |-> Queued(quota, Root(f.view, tree))]
<1>1. f.size \in Nat /\ f.size <= MaxOutput /\ f.view \in View /\ ~EmptyView(f.view)
      /\ f.cursor = 0
  BY OutputAssumption DEF Frame, CallOK
<1>2. /\ DOMAIN quota \subseteq DrawKeys(f.view)
      /\ \A k \in DOMAIN quota : quota[k] \in 1 .. f.size
      /\ \A i \in 1 .. f.size : draws[i] \in DOMAIN quota
  BY <1>1, QuotaFacts
<1>3. \A tree \in Tree : /\ Root(f.view, tree) \in Node
                         /\ Root(f.view, tree).begin < Root(f.view, tree).end
                         /\ Root(f.view, tree).tree = tree
  BY <1>1, RootShape
<1>4. \A t \in NodesOf(f.view) : KeyOf(t) \in NodeKey
  <2>1. \A t \in NodesOf(f.view) : t \in Node
    BY <1>1, NodesHandOnce
  <2> QED BY <2>1 DEF KeyOf, NodeKey, Node
<1>5. quota \in Quota
  <2>1. DOMAIN quota \in SUBSET NodeKey
    BY <1>2, <1>4 DEF DrawKeys
  <2>2. quota = [k \in DOMAIN quota |-> quota[k]]
    BY DEF Quotas
  <2>3. \A k \in DOMAIN quota : quota[k] \in 1 .. MaxOutput
    BY <1>1, <1>2, OutputAssumption
  <2> HIDE DEF quota
  <2>4. quota \in [DOMAIN quota -> 1 .. MaxOutput]
    BY <2>2, <2>3
  <2> QED BY <2>1, <2>4 DEF Quota
<1> HIDE DEF quota
<1>6. queue \in [Tree -> Seq(Node)]
  <2>1. ASSUME NEW tree \in Tree
        PROVE  Queued(quota, Root(f.view, tree)) \in Seq(Node)
    BY <1>3 DEF Queued
  <2> QED BY <2>1
<1>7. /\ g \in Frame /\ g.view = f.view /\ g.step = "route" /\ g.first = f.first
      /\ g.size = f.size /\ g.cursor = f.cursor /\ g.quota = quota /\ g.queue = queue
  <2>1. g = [f EXCEPT !.step = "route", !.quota = quota, !.queue = queue]
    BY DEF quota, Drawn
  <2> HIDE DEF queue
  <2> QED BY <1>5, <1>6, <2>1 DEF Frame
<1>8. ASSUME NEW tree \in Tree
      PROVE  QueueOK(g, tree)
  <2>1. g.queue[tree] = <<Root(f.view, tree)>> \/ g.queue[tree] = <<>>
    BY <1>7 DEF Queued
  <2>2. Root(f.view, tree) \in Reached(Root(f.view, tree))
    BY <1>3, ReachedIsLeast
  <2>3. CASE g.queue[tree] = <<>>
    <3>1. DOMAIN g.queue[tree] = {}
      BY <2>3
    <3> QED BY <3>1 DEF QueueOK
  <2>4. CASE g.queue[tree] = <<Root(f.view, tree)>>
    <3>1. DOMAIN g.queue[tree] = {1} /\ g.queue[tree][1] = Root(g.view, tree)
      BY <1>7, <2>4
    <3> QED BY <1>7, <2>2, <3>1 DEF QueueOK
  <2> QED BY <2>1, <2>3, <2>4
<1>9. CallOK(g)
  BY <1>7, <1>8 DEF CallOK
<1>10. ASSUME NEW k \in DOMAIN quota
       PROVE  k \in Pending(g)
  <2>1. PICK t \in NodesOf(f.view) : k = KeyOf(t)
    BY <1>2 DEF DrawKeys
  <2>2. PICK tree \in Tree : t \in Reached(Root(f.view, tree))
    BY <2>1 DEF NodesOf, Tree
  <2>3. Below(t, Root(f.view, tree))
    BY <1>3, <2>2, ReachedRange
  <2>4. Active(quota, Root(f.view, tree))
    BY <2>1, <2>3 DEF Active, Below, KeyOf
  <2>5. g.queue[tree] = <<Root(f.view, tree)>>
    BY <1>7, <2>4 DEF Queued
  <2>6. 1 \in DOMAIN g.queue[tree] /\ g.queue[tree][1] = Root(f.view, tree)
    BY <2>5
  <2> QED BY <1>7, <2>1, <2>2, <2>6 DEF Pending
<1>11. {i \in 1 .. g.size : draws[i] \notin Pending(g)} = {}
  BY <1>2, <1>7, <1>10
<1>12. Cardinality({i \in 1 .. g.size : draws[i] \notin Pending(g)}) = 0
  BY <1>11, FS_EmptySet
<1>13. DrawsOK(g, 0)
  BY <1>7, <1>12 DEF DrawsOK, quota
<1> QED BY <1>1, <1>7, <1>9, <1>13
-----------------------------------------------------------------------------
(* The calls that are active.                                              *)

\* The path q leads through the view of path p.
Extends(q, p) == Len(p) <= Len(q) /\ \A i \in 1 .. Len(p) : q[i] = p[i]

\* How many places a call has filled when the call above it has returned.
Filled(st, i) == st[i].cursor + IF i = Len(st) THEN 0 ELSE st[i + 1].size

\* Only the top call may be yet to open, and a call keeps to its draws.
StackOK(st) ==
  /\ st \in Seq(Frame)
  /\ \A i \in 1 .. Len(st) :
       /\ CallOK(st[i]) /\ Len(st[i].view.path) = i - 1
       /\ i < Len(st) => st[i].step = "route"
       /\ st[i].step = "route" => DrawsOK(st[i], Filled(st, i))

\* The output is filled from its first place on, with pairs of the join.
SlicesOK(st, out) ==
  st # <<>> =>
    /\ out \in [1 .. st[1].size -> Pair \cup {<<>>}]
    /\ st[1].first = 0
    /\ \A i \in 1 .. Len(st) : st[i].first + st[i].size <= st[1].size
    /\ \A i \in 1 .. Len(st) - 1 : st[i + 1].first = st[i].first + st[i].cursor
    /\ \A x \in 1 .. st[Len(st)].first + st[Len(st)].cursor : out[x] \in Join(geo)

\* No view that has been opened lies on a way that is still to be gone.
FreshOK(st, op) ==
  /\ \A i, j \in 1 .. Len(st) : i < j =>
       /\ Extends(st[j].view.path, st[i].view.path)
       /\ st[j].view.path[i] \notin Pending(st[i])
  /\ \A q \in op : \A i \in 1 .. Len(st) :
       /\ st[i].step = "open" => ~Extends(q, st[i].view.path)
       /\ \A k \in Pending(st[i]) : ~Extends(q, Append(st[i].view.path, k))

\* The size of the join is known once the bottom call has counted.
CountOK(st, count, answer) ==
  /\ st = <<>> /\ answer \notin {Sampler!NoReply, Sampler!SampleReply(<<>>)} =>
       count = Cardinality(Join(geo))
  /\ st # <<>> => /\ answer = Sampler!NoReply
                  /\ Len(st) > 1 \/ st[1].step = "route" =>
                       count = Cardinality(Join(geo))

IInv ==
  /\ geo \in Geometry /\ joinCount \in Nat /\ opened \subseteq Seq(NodeKey)
  /\ stack = <<>> => output = <<>>
  /\ StackOK(stack) /\ SlicesOK(stack, output)
  /\ FreshOK(stack, opened) /\ CountOK(stack, joinCount, reply)

-----------------------------------------------------------------------------
(* Stacks and paths.                                                       *)

\* A sequence with another last element.
Replaced(st, g) == [st EXCEPT ![Len(st)] = g]

\* The rest of the sequence stays.
LEMMA LastReplaced ==
  ASSUME NEW A, NEW st \in Seq(A), st # <<>>, NEW g \in A
  PROVE  /\ Replaced(st, g) \in Seq(A) /\ Len(Replaced(st, g)) = Len(st)
         /\ Len(st) \in Nat /\ Len(st) > 0
         /\ Replaced(st, g)[Len(st)] = g
         /\ \A i \in 1 .. Len(st) : i # Len(st) => Replaced(st, g)[i] = st[i]
BY DEF Replaced

\* A sequence with one more element.
LEMMA Pushed ==
  ASSUME NEW A, NEW st \in Seq(A), NEW f \in A
  PROVE  /\ Append(st, f) \in Seq(A) /\ Len(Append(st, f)) = Len(st) + 1
         /\ Len(st) \in Nat
         /\ Append(st, f)[Len(st) + 1] = f
         /\ \A i \in 1 .. Len(st) : Append(st, f)[i] = st[i]
OBVIOUS

\* A sequence without its last element, and with another one before it.
LEMMA Popped ==
  ASSUME NEW A, NEW st \in Seq(A), Len(st) > 1, NEW g \in A
  PROVE  /\ Replaced(Front(st), g) \in Seq(A)
         /\ Len(Replaced(Front(st), g)) = Len(st) - 1 /\ Len(st) \in Nat
         /\ Replaced(Front(st), g)[Len(st) - 1] = g
         /\ \A i \in 1 .. Len(st) - 1 :
              i # Len(st) - 1 => Replaced(Front(st), g)[i] = st[i]
<1>1. Front(st) = SubSeq(st, 1, Len(st) - 1)
  BY DEF Front
<1>2. /\ Front(st) \in Seq(A) /\ Len(Front(st)) = Len(st) - 1 /\ Len(st) \in Nat
      /\ \A i \in 1 .. Len(st) - 1 : Front(st)[i] = st[i]
  BY <1>1
<1>3. Front(st) # <<>>
  BY <1>2
<1>4. /\ Replaced(Front(st), g) \in Seq(A)
      /\ Len(Replaced(Front(st), g)) = Len(Front(st))
      /\ Replaced(Front(st), g)[Len(Front(st))] = g
      /\ \A i \in 1 .. Len(Front(st)) :
           i # Len(Front(st)) => Replaced(Front(st), g)[i] = Front(st)[i]
  BY ZenonT(40), <1>2, <1>3, LastReplaced
<1>5. /\ Replaced(Front(st), g) \in Seq(A)
      /\ Len(Replaced(Front(st), g)) = Len(st) - 1 /\ Len(st) \in Nat
      /\ Replaced(Front(st), g)[Len(st) - 1] = g
  BY <1>2, <1>4
<1>6. ASSUME NEW i \in 1 .. Len(st) - 1, i # Len(st) - 1
      PROVE  Replaced(Front(st), g)[i] = st[i]
  <2>1. Replaced(Front(st), g)[i] = Front(st)[i]
    BY <1>2, <1>4, <1>6
  <2> QED BY <1>2, <2>1
<1> QED BY <1>5, <1>6

\* A path leads through itself, and through what a path on its way leads through.
LEMMA ExtendsFacts ==
  /\ \A p \in Seq(NodeKey) : Extends(p, p)
  /\ \A p, q, r \in Seq(NodeKey) : Extends(r, q) /\ Extends(q, p) => Extends(r, p)
BY DEF Extends

\* A path that leads through one more node.
LEMMA ExtendsOne ==
  ASSUME NEW p \in Seq(NodeKey), NEW k \in NodeKey
  PROVE  /\ Append(p, k) \in Seq(NodeKey) /\ Len(Append(p, k)) = Len(p) + 1
         /\ Extends(Append(p, k), p) /\ ~Extends(p, Append(p, k))
         /\ \A i \in 1 .. Len(p) : Append(p, k)[i] = p[i]
         /\ Append(p, k)[Len(p) + 1] = k
         /\ \A q \in Seq(NodeKey) : Extends(q, Append(p, k)) =>
              Extends(q, p) /\ q[Len(p) + 1] = k
<1> DEFINE new == Append(p, k)
<1>1. /\ new \in Seq(NodeKey) /\ Len(new) = Len(p) + 1 /\ Len(p) \in Nat
      /\ new[Len(p) + 1] = k /\ \A i \in 1 .. Len(p) : new[i] = p[i]
  BY Pushed
<1> HIDE DEF new
<1>2. Extends(new, p) /\ ~Extends(p, new)
  BY <1>1 DEF Extends
<1>3. ASSUME NEW q \in Seq(NodeKey), Extends(q, new)
      PROVE  Extends(q, p) /\ q[Len(p) + 1] = k
  <2>1. Len(q) \in Nat /\ \A i \in 1 .. Len(p) + 1 : q[i] = new[i]
    BY <1>1, <1>3 DEF Extends
  <2>2. Len(p) + 1 \in 1 .. Len(p) + 1
    BY <1>1
  <2>3. Len(p) <= Len(q) /\ \A i \in 1 .. Len(p) : i \in 1 .. Len(p) + 1
    BY <1>1, <1>3, <2>1 DEF Extends
  <2> QED BY <1>1, <2>1, <2>2, <2>3 DEF Extends
<1> QED BY <1>1, <1>2, <1>3 DEF new

\* A frame whose cursor has moved.
CursorAt(f, n) == [f EXCEPT !.cursor = n]

\* It leads to the same nodes by the same draws.
LEMMA CursorMoves ==
  ASSUME NEW f \in Frame, NEW n \in Nat
  PROVE  /\ CursorAt(f, n) \in Frame /\ CursorAt(f, n).cursor = n
         /\ CursorAt(f, n).view = f.view /\ CursorAt(f, n).step = f.step
         /\ CursorAt(f, n).first = f.first /\ CursorAt(f, n).size = f.size
         /\ Pending(CursorAt(f, n)) = Pending(f)
         /\ f.step = "route" /\ CallOK(f) => CallOK(CursorAt(f, n))
         /\ \A m : DrawsOK(f, m) => DrawsOK(CursorAt(f, n), m)
<1> DEFINE g == CursorAt(f, n)
<1>1. /\ g \in Frame /\ g.view = f.view /\ g.step = f.step /\ g.first = f.first
      /\ g.size = f.size /\ g.cursor = n /\ g.quota = f.quota /\ g.queue = f.queue
  BY DEF Frame, CursorAt
<1> HIDE DEF g
<1>2. Pending(g) = Pending(f)
  BY <1>1 DEF Pending
<1>3. f.step = "route" /\ CallOK(f) => CallOK(g)
  BY <1>1 DEF CallOK, QueueOK
<1>4. \A m : DrawsOK(f, m) => DrawsOK(g, m)
  BY <1>1, <1>2 DEF DrawsOK
<1> QED BY <1>1, <1>2, <1>3, <1>4 DEF g

\* What the invariant says of one call.
LEMMA StackFacts ==
  ASSUME NEW st, StackOK(st), NEW i \in 1 .. Len(st)
  PROVE  /\ st \in Seq(Frame) /\ st # <<>> /\ Len(st) \in Nat /\ st[i] \in Frame
         /\ CallOK(st[i]) /\ Len(st[i].view.path) = i - 1
         /\ st[i].view \in View /\ st[i].view.path \in Seq(NodeKey)
         /\ st[i].first \in Nat /\ st[i].size \in Nat /\ st[i].cursor \in Nat
         /\ st[i].size \in 1 .. MaxOutput /\ st[i].step \in {"open", "route"}
         /\ i < Len(st) => st[i].step = "route"
         /\ st[i].step = "route" => DrawsOK(st[i], Filled(st, i))
         /\ st[i].cursor <= st[i].size
<1>1. /\ st \in Seq(Frame) /\ CallOK(st[i]) /\ Len(st[i].view.path) = i - 1
      /\ i < Len(st) => st[i].step = "route"
      /\ st[i].step = "route" => DrawsOK(st[i], Filled(st, i))
  BY DEF StackOK
<1>2. st[i] \in Frame /\ Len(st) \in Nat /\ st # <<>>
  BY <1>1
<1>3. /\ st[i].view \in View /\ st[i].first \in Nat /\ st[i].size \in 1 .. MaxOutput
      /\ st[i].cursor \in Nat /\ st[i].step \in {"open", "route"}
  BY <1>2 DEF Frame
<1>4. st[i].view.path \in Seq(NodeKey)
  BY <1>3 DEF View
<1>5. st[i].size \in Nat
  BY <1>3, OutputAssumption
<1>6. st[i].cursor <= st[i].size
  <2>1. CASE st[i].step = "open"
    BY <1>1, <1>5, <2>1 DEF CallOK
  <2>2. CASE st[i].step = "route"
    <3>1. Filled(st, i) \in Nat /\ Filled(st, i) <= st[i].size
      BY <1>1, <1>2, <2>2, FilledBound
    <3>2. CASE i = Len(st)
      BY <1>3, <3>1, <3>2 DEF Filled
    <3>3. CASE i # Len(st)
      <4>1. i + 1 \in 1 .. Len(st)
        BY <1>2, <3>3
      <4>2. st[i + 1] \in Frame
        BY <1>1, <4>1
      <4>3. st[i + 1].size \in Nat
        BY <4>2, OutputAssumption DEF Frame
      <4> QED BY <1>3, <1>5, <3>1, <3>3, <4>3 DEF Filled
    <3> QED BY <3>2, <3>3
  <2> QED BY <1>3, <2>1, <2>2
<1> QED BY <1>1, <1>2, <1>3, <1>4, <1>5, <1>6

\* The call on top, which is the one that runs.
LEMMA LastFacts ==
  ASSUME NEW st, StackOK(st), st # <<>>
  PROVE  Len(st) \in 1 .. Len(st) /\ Len(st) \in Nat /\ Last(st) = st[Len(st)]
BY DEF StackOK, Last

\* The stack with another frame on top.
LEMMA TopReplaced ==
  ASSUME NEW st, StackOK(st), st # <<>>, NEW g \in Frame
  PROVE  /\ Replaced(st, g) \in Seq(Frame) /\ Len(Replaced(st, g)) = Len(st)
         /\ Replaced(st, g)[Len(st)] = g
         /\ \A i \in 1 .. Len(st) : i # Len(st) => Replaced(st, g)[i] = st[i]
BY LastReplaced DEF StackOK

\* The call on top goes on in its place.
LEMMA TopGoesOn ==
  ASSUME NEW st, NEW out, StackOK(st), st # <<>>, SlicesOK(st, out),
         NEW g \in Frame, CallOK(g), g.step = "route", DrawsOK(g, g.cursor),
         g.view = Last(st).view, g.first = Last(st).first, g.size = Last(st).size,
         g.cursor = Last(st).cursor
  PROVE  StackOK(Replaced(st, g)) /\ SlicesOK(Replaced(st, g), out)
<1> DEFINE new == Replaced(st, g)
           n   == Len(st)
<1>1. n \in 1 .. n /\ n \in Nat /\ Last(st) = st[n] /\ st \in Seq(Frame)
  BY LastFacts DEF StackOK
<1>2. /\ new \in Seq(Frame) /\ Len(new) = n /\ new[n] = g
      /\ \A i \in 1 .. n : i # n => new[i] = st[i]
  BY <1>1, LastReplaced
<1> HIDE DEF new, n
<1>3. \A i \in 1 .. n : /\ new[i].size = st[i].size /\ new[i].first = st[i].first
                        /\ new[i].cursor = st[i].cursor /\ new[i].view = st[i].view
  BY <1>1, <1>2
<1>4. \A i \in 1 .. n : Filled(new, i) = Filled(st, i)
  <2>1. \A i \in 1 .. n : i # n => i + 1 \in 1 .. n
    BY <1>1
  <2> QED BY <1>2, <1>3, <2>1 DEF Filled, n
<1>5. Filled(new, n) = g.cursor
  <2>1. g.cursor \in Nat
    BY DEF Frame
  <2> QED BY <1>1, <1>2, <2>1 DEF Filled
<1>6. StackOK(new)
  <2>1. \A i \in 1 .. n :
          /\ CallOK(st[i]) /\ Len(st[i].view.path) = i - 1
          /\ i < n => st[i].step = "route"
          /\ st[i].step = "route" => DrawsOK(st[i], Filled(st, i))
    BY DEF StackOK, n
  <2>2. ASSUME NEW i \in 1 .. n
        PROVE  /\ CallOK(new[i]) /\ Len(new[i].view.path) = i - 1
               /\ i < n => new[i].step = "route"
               /\ new[i].step = "route" => DrawsOK(new[i], Filled(new, i))
    <3>1. CASE i = n
      BY <1>1, <1>2, <1>3, <1>5, <2>1, <3>1
    <3>2. CASE i # n
      BY <1>2, <1>4, <2>1, <3>2
    <3> QED BY <3>1, <3>2
  <2> QED BY <1>2, <2>2 DEF StackOK
<1>7. SlicesOK(new, out)
  <2>1. 1 \in 1 .. n /\ new # <<>>
    BY <1>1, <1>2
  <2>2. \A i \in 1 .. n - 1 : i \in 1 .. n /\ i + 1 \in 1 .. n
    BY <1>1
  <2> QED BY <1>1, <1>2, <1>3, <2>1, <2>2 DEF SlicesOK, n
<1> QED BY <1>6, <1>7 DEF new

\* The call on top calls the sampler for the view of a node.
LEMMA TopCalls ==
  ASSUME NEW st, NEW out, StackOK(st), st # <<>>, SlicesOK(st, out),
         NEW g \in Frame, CallOK(g), g.step = "route",
         g.view = Last(st).view, g.first = Last(st).first, g.size = Last(st).size,
         g.cursor = Last(st).cursor,
         NEW c \in Frame, CallOK(c), c.step = "open", Len(c.view.path) = Len(g.view.path) + 1,
         c.first = g.first + g.cursor, DrawsOK(g, g.cursor + c.size)
  PROVE  /\ StackOK(Append(Replaced(st, g), c))
         /\ SlicesOK(Append(Replaced(st, g), c), out)
<1> DEFINE base == Replaced(st, g)
           new == Append(base, c)
           n   == Len(st)
<1>1. n \in 1 .. n /\ n \in Nat /\ Last(st) = st[n] /\ st \in Seq(Frame)
  BY LastFacts DEF StackOK
<1> HIDE DEF new
<1>2. /\ base \in Seq(Frame) /\ Len(base) = n /\ base[n] = g
      /\ \A i \in 1 .. n : i # n => base[i] = st[i]
  <2> HIDE DEF base
  <2> QED BY TopReplaced DEF base
<1>3. /\ new \in Seq(Frame) /\ Len(new) = Len(base) + 1 /\ new[Len(base) + 1] = c
      /\ \A i \in 1 .. Len(base) : new[i] = base[i]
  <2> HIDE DEF base
  <2> QED BY <1>2, Pushed DEF new
<1> HIDE DEF new, base, n
<1>4. /\ Len(new) = n + 1 /\ new[n + 1] = c /\ new[n] = g
      /\ \A i \in 1 .. n : i # n => new[i] = st[i]
  BY <1>1, <1>2, <1>3
<1>5. \A i \in 1 .. n : /\ new[i].size = st[i].size /\ new[i].first = st[i].first
                        /\ new[i].cursor = st[i].cursor /\ new[i].view = st[i].view
  BY <1>1, <1>4
<1>6. \A i \in 1 .. n : i # n => Filled(new, i) = Filled(st, i)
  <2>1. \A i \in 1 .. n : i # n + 1 /\ (i # n => i + 1 \in 1 .. n)
    BY <1>1
  <2> QED BY <1>4, <1>5, <2>1 DEF Filled, n
<1>7. Filled(new, n) = g.cursor + c.size
  BY <1>1, <1>4 DEF Filled
<1>8. g.cursor \in Nat /\ g.first \in Nat /\ c.size \in Nat /\ c.cursor = 0 /\ g.size \in Nat
      /\ g.cursor + c.size <= g.size
  BY OutputAssumption, FilledBound DEF Frame, CallOK
<1>9. StackOK(new)
  <2>1. \A i \in 1 .. n :
          /\ CallOK(st[i]) /\ Len(st[i].view.path) = i - 1
          /\ i < n => st[i].step = "route"
          /\ st[i].step = "route" => DrawsOK(st[i], Filled(st, i))
    BY DEF StackOK, n
  <2>2. ASSUME NEW i \in 1 .. n + 1
        PROVE  /\ CallOK(new[i]) /\ Len(new[i].view.path) = i - 1
               /\ i < n + 1 => new[i].step = "route"
               /\ new[i].step = "route" => DrawsOK(new[i], Filled(new, i))
    <3>1. CASE i = n + 1
      <4>1. Len(st[n].view.path) = n - 1 /\ Len(c.view.path) = Len(st[n].view.path) + 1
        BY <1>1, <2>1
      <4>2. CallOK(new[i]) /\ new[i].step = "open" /\ new[i].view = c.view
        BY <1>4, <3>1
      <4> QED BY <1>1, <3>1, <4>1, <4>2
    <3>2. CASE i = n
      BY <1>1, <1>4, <1>7, <2>1, <3>2
    <3>3. CASE i # n /\ i # n + 1
      <4>1. i \in 1 .. n /\ i < n
        BY <1>1, <3>3
      <4> QED BY <1>4, <1>6, <2>1, <3>3, <4>1
    <3> QED BY <3>1, <3>2, <3>3
  <2> QED BY <1>3, <1>4, <2>2 DEF StackOK
<1>10. SlicesOK(new, out)
  <2>1. 1 \in 1 .. n /\ new # <<>>
    BY <1>1, <1>4
  <2>2. /\ out \in [1 .. st[1].size -> Pair \cup {<<>>}]
        /\ st[1].first = 0
        /\ \A i \in 1 .. n : st[i].first + st[i].size <= st[1].size
        /\ \A i \in 1 .. n - 1 : st[i + 1].first = st[i].first + st[i].cursor
        /\ \A x \in 1 .. st[n].first + st[n].cursor : out[x] \in Join(geo)
    BY DEF SlicesOK, n
  <2>3. new[1].size = st[1].size /\ new[1].first = st[1].first
    BY <1>5, <2>1
  <2>4. st[1].size \in Nat
    BY <2>1, StackFacts DEF n
  <2>5. ASSUME NEW i \in 1 .. n + 1
        PROVE  new[i].first + new[i].size <= new[1].size
    <3>1. CASE i = n + 1
      <4>1. g.first + g.size <= st[1].size
        BY <1>1, <2>2
      <4> QED BY SMTT(20), <1>4, <1>8, <2>3, <2>4, <3>1, <4>1
    <3>2. CASE i # n + 1
      <4>1. i \in 1 .. n
        BY <1>1, <3>2
      <4> QED BY <1>5, <2>2, <2>3, <4>1
    <3> QED BY <3>1, <3>2
  <2>6. ASSUME NEW i \in 1 .. n
        PROVE  new[i + 1].first = new[i].first + new[i].cursor
    <3>1. CASE i = n
      BY <1>4, <3>1
    <3>2. CASE i # n
      <4>1. i \in 1 .. n - 1 /\ i + 1 \in 1 .. n
        BY <1>1, <3>2
      <4> QED BY <1>5, <2>2, <4>1
    <3> QED BY <3>1, <3>2
  <2>7. \A x \in 1 .. new[n + 1].first + new[n + 1].cursor : out[x] \in Join(geo)
    <3>1. new[n + 1].first + new[n + 1].cursor = st[n].first + st[n].cursor
      BY <1>1, <1>4, <1>8
    <3> QED BY <2>2, <3>1
  <2>8. (n + 1) - 1 = n
    BY <1>1
  <2> QED BY <1>4, <2>1, <2>2, <2>3, <2>5, <2>6, <2>7, <2>8 DEF SlicesOK
<1> QED BY <1>9, <1>10 DEF new, base

\* The call on top returns to the one that waits for it.
Returned(st) ==
  Replaced(Front(st), CursorAt(st[Len(st) - 1], st[Len(st) - 1].cursor + Last(st).size))

\* Only the cursor of the call that waited moves.
LEMMA ReturnedFacts ==
  ASSUME NEW st, StackOK(st), Len(st) > 1
  PROVE  /\ Returned(st) \in Seq(Frame) /\ Len(Returned(st)) = Len(st) - 1
         /\ Len(st) \in Nat /\ Len(st) - 1 \in 1 .. Len(st)
         /\ Returned(st)[Len(st) - 1].cursor = Filled(st, Len(st) - 1)
         /\ DrawsOK(Returned(st)[Len(st) - 1], Filled(st, Len(st) - 1))
         /\ Last(st).first + Last(st).size
              = Returned(st)[Len(st) - 1].first + Returned(st)[Len(st) - 1].cursor
            \/ Last(st).first # st[Len(st) - 1].first + st[Len(st) - 1].cursor
         /\ \A i \in 1 .. Len(st) - 1 : i # Len(st) - 1 => Returned(st)[i] = st[i]
         /\ \A i \in 1 .. Len(st) - 1 :
              /\ Returned(st)[i].view = st[i].view /\ Returned(st)[i].step = "route"
              /\ Returned(st)[i].first = st[i].first /\ Returned(st)[i].size = st[i].size
              /\ Pending(Returned(st)[i]) = Pending(st[i]) /\ CallOK(Returned(st)[i])
<1> DEFINE n == Len(st)
           p == st[n - 1]
           c == Last(st)
           g == CursorAt(p, p.cursor + c.size)
<1>1. n \in Nat /\ n - 1 \in 1 .. n /\ n \in 1 .. n /\ c = st[n] /\ st \in Seq(Frame)
  BY LastFacts DEF StackOK
<1>2. /\ p \in Frame /\ CallOK(p) /\ p.step = "route" /\ DrawsOK(p, Filled(st, n - 1))
      /\ p.cursor \in Nat /\ p.first \in Nat /\ c.size \in Nat /\ c.first \in Nat
  <2>1. n - 1 < n
    BY <1>1
  <2> QED BY <1>1, <2>1, StackFacts
<1>3. Filled(st, n - 1) = p.cursor + c.size
  <2>1. (n - 1) + 1 = n /\ n - 1 # n
    BY <1>1
  <2> QED BY <1>1, <2>1 DEF Filled
<1>4. p.cursor + c.size \in Nat
  BY <1>2
<1> HIDE DEF n, p, c, g
<1>5. /\ g \in Frame /\ g.view = p.view /\ g.step = "route" /\ g.first = p.first
      /\ g.size = p.size /\ g.cursor = p.cursor + c.size
      /\ Pending(g) = Pending(p) /\ CallOK(g) /\ DrawsOK(g, Filled(st, n - 1))
  BY <1>2, <1>4, CursorMoves DEF g
<1>6. /\ Returned(st) \in Seq(Frame) /\ Len(Returned(st)) = n - 1
      /\ Returned(st)[n - 1] = g
      /\ \A i \in 1 .. n - 1 : i # n - 1 => Returned(st)[i] = st[i]
  <2>1. Returned(st) = Replaced(Front(st), g)
    BY DEF Returned, g, p, n, c
  <2>2. Len(st) > 1 /\ st \in Seq(Frame) /\ g \in Frame
    BY <1>1, <1>5
  <2>3. /\ Replaced(Front(st), g) \in Seq(Frame)
        /\ Len(Replaced(Front(st), g)) = Len(st) - 1
        /\ Replaced(Front(st), g)[Len(st) - 1] = g
        /\ \A i \in 1 .. Len(st) - 1 :
             i # Len(st) - 1 => Replaced(Front(st), g)[i] = st[i]
    BY <2>2, Popped
  <2> QED BY <2>1, <2>3 DEF n
<1>7. c.first + c.size = g.first + g.cursor \/ c.first # p.first + p.cursor
  BY <1>2, <1>5
<1>8. ASSUME NEW i \in 1 .. n - 1
      PROVE  /\ Returned(st)[i].view = st[i].view /\ Returned(st)[i].step = "route"
             /\ Returned(st)[i].first = st[i].first /\ Returned(st)[i].size = st[i].size
             /\ Pending(Returned(st)[i]) = Pending(st[i]) /\ CallOK(Returned(st)[i])
  <2>1. i \in 1 .. n /\ i < n
    BY <1>1
  <2>2. CallOK(st[i]) /\ st[i].step = "route"
    BY <2>1, StackFacts DEF n
  <2>3. CASE i = n - 1
    BY <1>5, <1>6, <2>3 DEF p
  <2>4. CASE i # n - 1
    BY <1>6, <2>2, <2>4
  <2> QED BY <2>3, <2>4
<1> QED BY <1>1, <1>3, <1>5, <1>6, <1>7, <1>8 DEF n, p, c

\* A return keeps what is known of the calls and of the output.
LEMMA TopReturns ==
  ASSUME NEW st, NEW out, StackOK(st), Len(st) > 1, SlicesOK(st, out),
         NEW after \in [1 .. st[1].size -> Pair \cup {<<>>}],
         \A x \in 1 .. Last(st).first + Last(st).size : after[x] \in Join(geo)
  PROVE  StackOK(Returned(st)) /\ SlicesOK(Returned(st), after)
<1> DEFINE new == Returned(st)
           n   == Len(st)
           m   == n - 1
<1>1. /\ new \in Seq(Frame) /\ Len(new) = m /\ n \in Nat /\ m \in 1 .. n /\ m = n - 1
      /\ new[m].cursor = Filled(st, m) /\ DrawsOK(new[m], Filled(st, m))
      /\ \A i \in 1 .. m : i # m => new[i] = st[i]
      /\ \A i \in 1 .. m : /\ new[i].view = st[i].view /\ new[i].step = "route"
                           /\ new[i].first = st[i].first /\ new[i].size = st[i].size
                           /\ CallOK(new[i])
  BY ReturnedFacts
<1>2. \/ Last(st).first + Last(st).size = new[m].first + new[m].cursor
      \/ Last(st).first # st[m].first + st[m].cursor
  BY ReturnedFacts
<1>3. Last(st) = st[n] /\ n = m + 1 /\ m \in 1 .. m /\ 1 \in 1 .. m
  BY <1>1, LastFacts
<1> HIDE DEF new, n, m
<1>4. \A i \in 1 .. m : i \in 1 .. n
  BY <1>1
<1>5. new[m] \in Frame
  BY <1>1, <1>3
<1>6. new[m].cursor \in Nat
  BY <1>5 DEF Frame
<1>7. Filled(new, m) = new[m].cursor
  BY <1>1, <1>6 DEF Filled
<1>8. ASSUME NEW i \in 1 .. m, i # m
      PROVE  Filled(new, i) = Filled(st, i)
  <2>1. i + 1 \in 1 .. m /\ i # n
    BY <1>1, <1>8
  <2> QED BY <1>1, <1>8, <2>1 DEF Filled, n
<1>9. StackOK(new)
  <2>1. ASSUME NEW i \in 1 .. m
        PROVE  /\ CallOK(new[i]) /\ Len(new[i].view.path) = i - 1
               /\ DrawsOK(new[i], Filled(new, i))
    <3>1. CallOK(new[i]) /\ new[i].view = st[i].view /\ new[i].step = "route"
      BY <1>1
    <3>2. Len(st[i].view.path) = i - 1
      BY <1>4, StackFacts DEF n
    <3>3. CASE i = m
      BY <1>1, <1>7, <3>1, <3>2, <3>3
    <3>4. CASE i # m
      <4>1. st[i].step = "route" /\ new[i] = st[i]
        BY <1>1, <3>1, <3>4
      <4>2. DrawsOK(st[i], Filled(st, i))
        BY <1>4, <4>1, StackFacts DEF n
      <4> QED BY <1>8, <3>1, <3>2, <3>4, <4>1, <4>2
    <3> QED BY <3>3, <3>4
  <2> QED BY <1>1, <2>1 DEF StackOK
<1>10. SlicesOK(new, after)
  <2>1. /\ st[1].first = 0
        /\ \A i \in 1 .. n : st[i].first + st[i].size <= st[1].size
        /\ \A i \in 1 .. n - 1 : st[i + 1].first = st[i].first + st[i].cursor
    BY <1>1 DEF SlicesOK, n
  <2>2. Last(st).first + Last(st).size = new[m].first + new[m].cursor
    <3>1. m \in 1 .. n - 1
      BY <1>1
    <3> QED BY <1>2, <1>3, <2>1, <3>1
  <2>3. new[1].first = 0 /\ new[1].size = st[1].size
    BY <1>1, <1>3, <2>1
  <2>4. \A i \in 1 .. m : new[i].first + new[i].size <= new[1].size
    BY <1>1, <1>4, <2>1, <2>3
  <2>5. ASSUME NEW i \in 1 .. m - 1
        PROVE  new[i + 1].first = new[i].first + new[i].cursor
    <3>1. i \in 1 .. m /\ i + 1 \in 1 .. m /\ i \in 1 .. n - 1 /\ i # m
      BY <1>1
    <3> QED BY <1>1, <2>1, <3>1
  <2>6. \A x \in 1 .. new[m].first + new[m].cursor : after[x] \in Join(geo)
    BY <2>2
  <2> QED BY <1>1, <2>3, <2>4, <2>5, <2>6 DEF SlicesOK
<1> QED BY <1>9, <1>10 DEF new

\* Opening the view on top, returning and routing keep the streams fresh: of what
\* was open or to be gone through, nothing is new but what lies below a view
\* that has just been opened.
LEMMA StaysFresh ==
  ASSUME NEW st, StackOK(st), st # <<>>, NEW op \in SUBSET Seq(NodeKey), FreshOK(st, op),
         NEW new, Len(new) \in Nat, Len(new) <= Len(st),
         NEW after, after \subseteq op \cup {Last(st).view.path},
         Last(st).step = "route" => after \subseteq op,
         \A i \in 1 .. Len(new) :
           /\ new[i].view = st[i].view /\ new[i].step = "route"
           /\ Pending(new[i]) \subseteq NodeKey
           /\ i < Len(st) \/ Last(st).step = "route" => Pending(new[i]) \subseteq Pending(st[i])
  PROVE  FreshOK(new, after)
<1> DEFINE n == Len(st)
           m == Len(new)
           p == Last(st).view.path
<1>1. n \in Nat /\ n \in 1 .. n /\ Last(st) = st[n]
  BY LastFacts
<1>2. \A i \in 1 .. m : i \in 1 .. n /\ i \in Nat /\ i <= n
  BY <1>1
<1>3. \A i \in 1 .. n : Len(st[i].view.path) = i - 1 /\ st[i].view.path \in Seq(NodeKey)
  BY StackFacts
<1>4. /\ \A i, j \in 1 .. n : i < j =>
           Extends(st[j].view.path, st[i].view.path) /\ st[j].view.path[i] \notin Pending(st[i])
      /\ \A q \in op : \A i \in 1 .. n :
           /\ st[i].step = "open" => ~Extends(q, st[i].view.path)
           /\ \A k \in Pending(st[i]) : ~Extends(q, Append(st[i].view.path, k))
  BY DEF FreshOK
<1>5. \A i \in 1 .. m :
        /\ new[i].view = st[i].view /\ new[i].step = "route" /\ Pending(new[i]) \subseteq NodeKey
        /\ i < n \/ Last(st).step = "route" => Pending(new[i]) \subseteq Pending(st[i])
  OBVIOUS
<1>6. p \in Seq(NodeKey) /\ p = st[n].view.path
  BY <1>1, <1>3
<1> HIDE DEF n, m, p
<1>7. ASSUME NEW i \in 1 .. m, NEW j \in 1 .. m, i < j
      PROVE  /\ Extends(new[j].view.path, new[i].view.path)
             /\ new[j].view.path[i] \notin Pending(new[i])
  <2>1. i < n
    BY <1>1, <1>2, <1>7
  <2> QED BY <1>2, <1>4, <1>5, <1>7, <2>1
<1>8. ASSUME NEW q \in after, NEW i \in 1 .. m, NEW k \in Pending(new[i])
      PROVE  ~Extends(q, Append(new[i].view.path, k))
  <2>1. k \in NodeKey /\ new[i].view = st[i].view /\ i \in 1 .. n
    BY <1>2, <1>5
  <2>2. CASE q \in op /\ k \in Pending(st[i])
    BY <1>4, <2>1, <2>2
  <2>3. CASE q \in op /\ k \notin Pending(st[i])
    <3>1. i = n /\ Last(st).step # "route"
      BY <1>1, <1>2, <1>5, <2>3
    <3>2. Last(st).step = "open"
      BY <1>1, <3>1, StackFacts DEF n
    <3>3. ~Extends(q, p)
      BY <1>1, <1>4, <1>6, <2>3, <3>2
    <3>4. q \in Seq(NodeKey)
      BY <2>3
    <3> QED BY <1>6, <2>1, <3>1, <3>3, <3>4, ExtendsOne
  <2>4. CASE q \notin op
    <3>1. q = p /\ Last(st).step # "route"
      BY <2>4 DEF p
    <3>2. CASE i = n
      BY <1>6, <2>1, <3>1, <3>2, ExtendsOne
    <3>3. CASE i # n
      <4>1. i < n /\ Len(st[i].view.path) = i - 1 /\ st[i].view.path \in Seq(NodeKey)
        BY <1>1, <1>2, <1>3, <2>1, <3>3
      <4>2. k \in Pending(st[i])
        BY <1>5, <4>1
      <4>3. p[i] # k
        BY <1>1, <1>4, <1>6, <2>1, <4>1, <4>2
      <4>4. Extends(p, Append(st[i].view.path, k)) => p[Len(st[i].view.path) + 1] = k
        BY SMTT(20), <1>6, <2>1, <4>1, ExtendsOne
      <4>5. Len(st[i].view.path) + 1 = i
        BY <1>2, <4>1
      <4> QED BY <2>1, <3>1, <4>3, <4>4, <4>5
    <3> QED BY <3>2, <3>3
  <2> QED BY <2>2, <2>3, <2>4
<1>9. \A i \in 1 .. m : new[i].step # "open"
  BY <1>5
<1> QED BY <1>7, <1>8, <1>9 DEF FreshOK, m

\* What a frame still leads to are keys of nodes.
LEMMA PendingKeys ==
  ASSUME NEW f \in Frame
  PROVE  Pending(f) \subseteq NodeKey
BY DEF Pending, Frame, Quota

\* When the call on top returns, the ways that are still to be gone stay.
LEMMA ReturnIsFresh ==
  ASSUME NEW st, StackOK(st), Len(st) > 1, NEW op \in SUBSET Seq(NodeKey), FreshOK(st, op),
         NEW after, after \subseteq op \cup {Last(st).view.path},
         Last(st).step = "route" => after \subseteq op
  PROVE  FreshOK(Returned(st), after)
<1> DEFINE new == Returned(st)
<1>1. /\ new \in Seq(Frame) /\ Len(new) = Len(st) - 1 /\ Len(st) \in Nat
      /\ \A i \in 1 .. Len(st) - 1 :
           /\ new[i].view = st[i].view /\ new[i].step = "route"
           /\ Pending(new[i]) = Pending(st[i])
  BY ReturnedFacts
<1>2. st # <<>>
  BY <1>1
<1> HIDE DEF new
<1>3. Len(new) \in Nat /\ Len(new) <= Len(st)
  BY <1>1
<1>4. \A i \in 1 .. Len(new) :
        /\ new[i].view = st[i].view /\ new[i].step = "route"
        /\ Pending(new[i]) \subseteq Pending(st[i])
  BY <1>1
<1>5. \A i \in 1 .. Len(new) : Pending(new[i]) \subseteq NodeKey
  BY <1>1, PendingKeys
<1>6. \A i \in 1 .. Len(new) :
        /\ new[i].view = st[i].view /\ new[i].step = "route"
        /\ Pending(new[i]) \subseteq NodeKey
        /\ i < Len(st) \/ Last(st).step = "route" => Pending(new[i]) \subseteq Pending(st[i])
  BY <1>4, <1>5
<1>7. FreshOK(new, after)
  BY <1>2, <1>3, <1>6, StaysFresh
<1> QED BY <1>7 DEF new

\* A call for a node that was pending, and is no longer, is for a fresh view.
LEMMA CallIsFresh ==
  ASSUME NEW st, StackOK(st), st # <<>>, NEW op \in SUBSET Seq(NodeKey), FreshOK(st, op),
         Last(st).step = "route",
         NEW k \in Pending(Last(st)),
         NEW g \in Frame, g.view = Last(st).view, g.step = "route",
         Pending(g) = Pending(Last(st)) \ {k},
         NEW c \in Frame, c.view.path = Append(g.view.path, k), Pending(c) = {}
  PROVE  FreshOK(Append(Replaced(st, g), c), op)
<1> DEFINE base == Replaced(st, g)
           new  == Append(base, c)
           n    == Len(st)
<1>1. n \in 1 .. n /\ n \in Nat /\ Last(st) = st[n] /\ st \in Seq(Frame)
  BY LastFacts DEF StackOK
<1>2. /\ base \in Seq(Frame) /\ Len(base) = n /\ base[n] = g
      /\ \A i \in 1 .. n : i # n => base[i] = st[i]
  <2> HIDE DEF base
  <2> QED BY TopReplaced DEF base
<1>3. /\ Len(new) = Len(base) + 1 /\ new[Len(base) + 1] = c
      /\ \A i \in 1 .. Len(base) : new[i] = base[i]
  <2> HIDE DEF base
  <2> QED BY <1>2, Pushed
<1> HIDE DEF new, base, n
<1>4. /\ Len(new) = n + 1 /\ new[n + 1] = c /\ new[n] = g
      /\ \A i \in 1 .. n : i # n => new[i] = st[i]
  BY <1>1, <1>2, <1>3
<1>5. \A i \in 1 .. n : /\ new[i].view = st[i].view /\ Pending(new[i]) \subseteq Pending(st[i])
                        /\ new[i].step # "open"
  <2>1. \A i \in 1 .. n : i # n => st[i].step = "route"
    BY <1>1, StackFacts DEF n
  <2> QED BY <1>1, <1>4, <2>1
<1>6. \A i \in 1 .. n : Len(st[i].view.path) = i - 1 /\ st[i].view.path \in Seq(NodeKey)
  BY StackFacts DEF n
<1>7. /\ \A i, j \in 1 .. n : i < j =>
           Extends(st[j].view.path, st[i].view.path) /\ st[j].view.path[i] \notin Pending(st[i])
      /\ \A q \in op : \A i \in 1 .. n :
           \A k2 \in Pending(st[i]) : ~Extends(q, Append(st[i].view.path, k2))
  BY DEF FreshOK, n
<1> DEFINE p == st[n].view.path
<1>8. /\ p \in Seq(NodeKey) /\ Len(p) + 1 = n /\ k \in NodeKey /\ c.view.path = Append(p, k)
  <2>1. Last(st) \in Frame
    BY <1>1, StackFacts DEF n
  <2>2. k \in NodeKey
    BY <2>1, PendingKeys
  <2>3. p \in Seq(NodeKey) /\ Len(p) = n - 1
    BY <1>1, <1>6
  <2> QED BY <1>1, <2>2, <2>3
<1>9. /\ Append(p, k) \in Seq(NodeKey) /\ Extends(Append(p, k), p)
      /\ Append(p, k)[n] = k
      /\ \A i \in 1 .. Len(p) : Append(p, k)[i] = p[i]
  BY <1>8, ExtendsOne
<1> HIDE DEF p
<1>10. ASSUME NEW i \in 1 .. n
       PROVE  /\ Extends(c.view.path, st[i].view.path)
              /\ c.view.path[i] \notin Pending(new[i])
  <2>1. CASE i = n
    BY <1>1, <1>4, <1>8, <1>9, <2>1 DEF p
  <2>2. CASE i # n
    <3>1. i < n /\ i \in 1 .. Len(p)
      BY <1>1, <1>8, <2>2
    <3>2. Extends(p, st[i].view.path) /\ p[i] \notin Pending(st[i])
      BY <1>1, <1>7, <3>1 DEF p
    <3>3. Extends(c.view.path, st[i].view.path)
      <4> DEFINE s == st[i].view.path
                 u == Append(p, k)
      <4>1. s \in Seq(NodeKey) /\ u \in Seq(NodeKey) /\ Extends(u, p) /\ Extends(p, s)
        BY <1>6, <1>9, <3>2
      <4> HIDE DEF s, u
      <4>2. Extends(u, s)
        BY <1>8, <4>1, ExtendsFacts
      <4> QED BY <1>8, <4>2 DEF s, u
    <3>4. c.view.path[i] = p[i]
      BY <1>8, <1>9, <3>1
    <3> QED BY <1>5, <3>2, <3>3, <3>4
  <2> QED BY <2>1, <2>2
<1>11. ASSUME NEW i \in 1 .. n + 1, NEW j \in 1 .. n + 1, i < j
       PROVE  /\ Extends(new[j].view.path, new[i].view.path)
              /\ new[j].view.path[i] \notin Pending(new[i])
  <2>1. i \in 1 .. n
    BY <1>1, <1>11
  <2>2. CASE j = n + 1
    BY <1>4, <1>5, <1>10, <2>1, <2>2
  <2>3. CASE j # n + 1
    <3>1. j \in 1 .. n
      BY <1>1, <2>3
    <3> QED BY <1>5, <1>7, <1>11, <2>1, <3>1
  <2> QED BY <2>2, <2>3
<1>12. ASSUME NEW q \in op, NEW i \in 1 .. n + 1
       PROVE  /\ new[i].step = "open" => ~Extends(q, new[i].view.path)
              /\ \A k2 \in Pending(new[i]) : ~Extends(q, Append(new[i].view.path, k2))
  <2>1. CASE i = n + 1
    <3>1. ~Extends(q, Append(p, k))
      BY <1>1, <1>7 DEF p
    <3> QED BY <1>4, <1>8, <2>1, <3>1
  <2>2. CASE i # n + 1
    <3>1. i \in 1 .. n
      BY <1>1, <2>2
    <3> QED BY <1>5, <1>7, <3>1
  <2> QED BY <2>1, <2>2
<1> QED BY <1>4, <1>11, <1>12 DEF FreshOK, new, base

-----------------------------------------------------------------------------
(* What depends on the input alone, which never changes.                   *)

\* The decomposition stays.
LEMMA RoutesStay ==
  ASSUME geo' = geo
  PROVE  /\ View' = View /\ Node' = Node /\ TopView' = TopView
         /\ \A t : NextView(t)' = NextView(t) /\ Reached(t)' = Reached(t)
         /\ \A v, tree : Root(v, tree)' = Root(v, tree)
         /\ \A v : /\ ViewPairs(v)' = ViewPairs(v) /\ NodesOf(v)' = NodesOf(v)
                   /\ DrawKeys(v)' = DrawKeys(v)
<1>1. View' = View /\ Node' = Node
  BY WorkStays
<1>2. TopView' = TopView
  BY DEF TopView, ValidR, ValidS
<1>3. \A points, q, j : Position(points, q, j)' = Position(points, q, j)
  BY DEF Position, Precedes
<1>4. \A v, p : Interval(v, p)' = Interval(v, p)
  BY DEF Interval, LowerRank, UpperRank
<1>5. /\ \A t, p : Reach(t, p)' = Reach(t, p)
      /\ \A t, q : GoesLeft(t, q)' = GoesLeft(t, q)
  BY <1>3, <1>4 DEF Reach, GoesLeft, Rank
<1>6. \A t : Stop(t)' = Stop(t)
  BY <1>5 DEF Stop, Stops
<1>7. \A t : NextView(t)' = NextView(t)
  BY <1>6 DEF NextView
<1>8. \A t, begin, end, points : Child(t, begin, end, points)' = Child(t, begin, end, points)
  BY <1>5, <1>6 DEF Child
<1>9. \A t : Children(t)' = Children(t)
  BY <1>5, <1>8 DEF Children, Left, Right
<1>10. \A t : Reached(t)' = Reached(t)
  BY <1>1, <1>9 DEF Reached
<1>11. \A v, tree : Root(v, tree)' = Root(v, tree)
  BY <1>4 DEF Root
<1>12. \A v : ViewPairs(v)' = ViewPairs(v)
  BY DEF ViewPairs
<1>13. \A v : NodesOf(v)' = NodesOf(v)
  BY <1>10, <1>11 DEF NodesOf
<1>14. \A v : DrawKeys(v)' = DrawKeys(v)
  BY <1>7, <1>12, <1>13 DEF DrawKeys
<1> QED BY <1>1, <1>2, <1>7, <1>10, <1>11, <1>12, <1>13, <1>14

\* What the invariant says of a stack stays.
LEMMA StackStays ==
  ASSUME geo' = geo
  PROVE  /\ \A st : StackOK(st)' <=> StackOK(st)
         /\ \A st, out : SlicesOK(st, out)' <=> SlicesOK(st, out)
         /\ \A st, op : FreshOK(st, op)' <=> FreshOK(st, op)
         /\ \A st, count, answer : CountOK(st, count, answer)' <=> CountOK(st, count, answer)
<1>1. Join(geo)' = Join(geo)
  BY PairsStay
<1>2. Frame' = Frame
  BY RoutesStay DEF Frame
<1>3. \A f : Pending(f)' = Pending(f)
  BY RoutesStay DEF Pending
<1>4. \A f, n : DrawsOK(f, n)' <=> DrawsOK(f, n)
  BY <1>3, RoutesStay DEF DrawsOK
<1>5. \A f, tree : QueueOK(f, tree)' <=> QueueOK(f, tree)
  BY RoutesStay DEF QueueOK
<1>6. \A f : CallOK(f)' <=> CallOK(f)
  BY <1>1, <1>5, RoutesStay DEF CallOK, EmptyView
<1>7. \A st : StackOK(st)' <=> StackOK(st)
  BY <1>2, <1>4, <1>6 DEF StackOK, Filled
<1>8. \A st, out : SlicesOK(st, out)' <=> SlicesOK(st, out)
  BY <1>1 DEF SlicesOK
<1>9. \A st, op : FreshOK(st, op)' <=> FreshOK(st, op)
  BY <1>3 DEF FreshOK
<1>10. \A st, count, answer : CountOK(st, count, answer)' <=> CountOK(st, count, answer)
  BY <1>1 DEF CountOK
<1> QED BY <1>7, <1>8, <1>9, <1>10

\* So a step keeps the invariant if the next stack and output are in order.
LEMMA Carries ==
  ASSUME geo \in Geometry, geo' = geo, joinCount' \in Nat, opened' \subseteq Seq(NodeKey),
         stack' = <<>> => output' = <<>>,
         StackOK(stack'), SlicesOK(stack', output'), FreshOK(stack', opened'),
         CountOK(stack', joinCount', reply')
  PROVE  IInv'
BY StackStays DEF IInv

\* Without a call the invariant says nothing of stack, output and paths.
LEMMA NoCall ==
  /\ StackOK(<<>>) /\ \A out : SlicesOK(<<>>, out)
  /\ \A op : FreshOK(<<>>, op)
<1>1. \A i, j \in 1 .. Len(<<>>) : FALSE
  OBVIOUS
<1>2. <<>> \in Seq(Frame)
  OBVIOUS
<1> QED BY <1>1, <1>2 DEF StackOK, SlicesOK, FreshOK

-----------------------------------------------------------------------------
(* The steps keep the invariant.                                           *)

\* Before the first call.
LEMMA InitInvariant == Init => IInv
BY NoCall DEF Init, IInv, CountOK

\* What is known of the call that runs.
LEMMA TopFacts ==
  ASSUME IInv, stack # <<>>
  PROVE  /\ StackOK(stack) /\ SlicesOK(stack, output) /\ FreshOK(stack, opened)
         /\ Len(stack) \in Nat /\ (Len(stack) = 1 \/ Len(stack) > 1) /\ Top = Last(stack)
         /\ Top \in Frame /\ CallOK(Top) /\ Top.view \in View
         /\ SizeOf[Top.view] = Cardinality(ViewPairs(Top.view))
         /\ SizeOf[Top.view] \in Nat
         /\ SizeOf[Top.view] = 0 <=> ViewPairs(Top.view) = {}
         /\ Len(stack) = 1 => /\ Top = stack[1] /\ Top.view = TopView /\ Top.first = 0
                              /\ ViewPairs(Top.view) = Join(geo)
         /\ Len(stack) > 1 => ViewPairs(Top.view) # {}
         /\ Len(stack) > 1 \/ Top.step = "route" => joinCount = Cardinality(Join(geo))
         /\ Top.first \in Nat /\ Top.cursor \in Nat /\ Top.size \in Nat
         /\ Top.size \in 1 .. MaxOutput /\ Top.cursor <= Top.size
         /\ stack[1].size \in Nat /\ Top.first + Top.size <= stack[1].size
         /\ output \in [1 .. stack[1].size -> Pair \cup {<<>>}]
         /\ \A x \in 1 .. Top.first + Top.cursor : output[x] \in Join(geo)
         /\ Top.step = "route" => DrawsOK(Top, Top.cursor)
         /\ Top.step \in {"open", "route"} /\ reply = Sampler!NoReply
<1>1. /\ StackOK(stack) /\ SlicesOK(stack, output) /\ FreshOK(stack, opened)
      /\ CountOK(stack, joinCount, reply) /\ geo \in Geometry
  BY DEF IInv
<1>2. /\ Len(stack) \in 1 .. Len(stack) /\ Len(stack) \in Nat /\ Top = Last(stack)
      /\ Top = stack[Len(stack)]
  BY <1>1, LastFacts DEF Top
<1>3. 1 \in 1 .. Len(stack)
  BY <1>2
<1>4. /\ Top \in Frame /\ CallOK(Top) /\ Top.view \in View
      /\ Top.first \in Nat /\ Top.cursor \in Nat /\ Top.size \in Nat
      /\ Top.size \in 1 .. MaxOutput /\ Top.cursor <= Top.size
      /\ Top.step \in {"open", "route"}
      /\ Len(Top.view.path) = Len(stack) - 1 /\ Top.view.path \in Seq(NodeKey)
      /\ Top.step = "route" => DrawsOK(Top, Filled(stack, Len(stack)))
  BY <1>1, <1>2, StackFacts
<1>5. stack[1].size \in Nat
  BY <1>1, <1>3, StackFacts
<1>6. Filled(stack, Len(stack)) = Top.cursor
  BY <1>2, <1>4 DEF Filled
<1>7. /\ output \in [1 .. stack[1].size -> Pair \cup {<<>>}]
      /\ stack[1].first = 0 /\ Top.first + Top.size <= stack[1].size
      /\ \A x \in 1 .. Top.first + Top.cursor : output[x] \in Join(geo)
  BY <1>1, <1>2 DEF SlicesOK
<1>8. /\ SizeOf[Top.view] = Cardinality(ViewPairs(Top.view))
      /\ IsFiniteSet(ViewPairs(Top.view)) /\ SizeOf[Top.view] \in Nat
  BY <1>1, <1>4, SizeOfIsExact, ViewPairsFinite
<1>9. SizeOf[Top.view] = 0 <=> ViewPairs(Top.view) = {}
  BY <1>8, FS_EmptySet
<1>10. ASSUME Len(stack) = 1
       PROVE  Top = stack[1] /\ Top.view = TopView /\ ViewPairs(Top.view) = Join(geo)
  <2>1. Top.view.path = <<>>
    BY <1>4, <1>10
  <2>2. Top.view = TopView
    BY <1>4, <2>1 DEF CallOK
  <2> QED BY <1>2, <1>10, <2>2, TopViewFacts
<1>11. ASSUME Len(stack) > 1
       PROVE  ViewPairs(Top.view) # {}
  <2>1. Top.view.path # <<>>
    BY <1>2, <1>4, <1>11
  <2> QED BY <1>4, <2>1 DEF CallOK
<1>12. /\ reply = Sampler!NoReply
       /\ Len(stack) > 1 \/ Top.step = "route" => joinCount = Cardinality(Join(geo))
  BY <1>1, <1>2 DEF CountOK
<1>13. Len(stack) = 1 => Top.first = 0
  BY <1>7, <1>10
<1>14. Top.step = "route" => DrawsOK(Top, Top.cursor)
  BY <1>4, <1>6
<1>15. Len(stack) = 1 \/ Len(stack) > 1
  BY <1>2
<1> QED BY <1>1, <1>2, <1>4, <1>5, <1>7, <1>8, <1>9, <1>10, <1>11, <1>12, <1>13, <1>14, <1>15

\* A slice that has been written with pairs of the join is full of them, and so
\* is what lies before it.
LEMMA WrittenFacts ==
  ASSUME IInv, stack # <<>>, NEW values \in [1 .. Top.size -> Join(geo)]
  PROVE  /\ Written(Top.first, values) \in [1 .. stack[1].size -> Pair \cup {<<>>}]
         /\ \A x \in 1 .. Top.first + Top.size : Written(Top.first, values)[x] \in Join(geo)
<1> DEFINE after == Written(Top.first, values)
           k     == stack[1].size
           f     == Top.first
           n     == Top.size
<1>1. /\ f \in Nat /\ n \in Nat /\ k \in Nat /\ f + n <= k /\ Top.cursor \in Nat
      /\ output \in [1 .. k -> Pair \cup {<<>>}]
      /\ \A x \in 1 .. f + Top.cursor : output[x] \in Join(geo)
  BY TopFacts
<1>2. DOMAIN values = 1 .. n /\ DOMAIN output = 1 .. k
  BY <1>1
<1>3. Join(geo) \subseteq Pair
  BY DEF Join
<1>4. after = [i \in 1 .. k |-> IF i - f \in 1 .. n THEN values[i - f] ELSE output[i]]
  BY <1>2 DEF Written
<1> HIDE DEF after, k, f, n
<1>5. values \in [1 .. n -> Join(geo)]
  BY DEF n
<1>6. after \in [1 .. k -> Pair \cup {<<>>}]
  <2>1. \A i \in 1 .. k : (IF i - f \in 1 .. n THEN values[i - f] ELSE output[i])
                             \in Pair \cup {<<>>}
    BY <1>1, <1>3, <1>5
  <2> QED BY <1>4, <2>1
<1>7. ASSUME NEW x \in 1 .. f + n
      PROVE  after[x] \in Join(geo)
  <2>1. x \in 1 .. k
    BY <1>1
  <2>2. after[x] = IF x - f \in 1 .. n THEN values[x - f] ELSE output[x]
    BY <1>4, <2>1
  <2>3. CASE x - f \in 1 .. n
    BY <1>5, <2>2, <2>3
  <2>4. CASE x - f \notin 1 .. n
    <3>1. x \in 1 .. f + Top.cursor
      BY <1>1, <2>4
    <3> QED BY <1>1, <2>2, <2>4, <3>1
  <2> QED BY <2>3, <2>4
<1> QED BY <1>6, <1>7 DEF after, k, f, n

\* The call that runs returns with its slice full.
LEMMA ReturnInvariant ==
  ASSUME IInv, stack # <<>>, geo' = geo, joinCount' = Cardinality(Join(geo)),
         NEW values \in [1 .. Top.size -> Join(geo)], Return(Written(Top.first, values)),
         opened' \subseteq opened \cup {Top.view.path},
         Top.step = "route" => opened' \subseteq opened
  PROVE  IInv'
<1> DEFINE after == Written(Top.first, values)
<1>1. /\ StackOK(stack) /\ SlicesOK(stack, output) /\ FreshOK(stack, opened)
      /\ Len(stack) \in Nat /\ (Len(stack) = 1 \/ Len(stack) > 1) /\ Top = Last(stack)
      /\ Top \in Frame /\ Top.view \in View /\ reply = Sampler!NoReply
  BY TopFacts
<1>2. /\ after \in [1 .. stack[1].size -> Pair \cup {<<>>}]
      /\ \A x \in 1 .. Top.first + Top.size : after[x] \in Join(geo)
  BY WrittenFacts
<1>3. geo \in Geometry /\ opened \subseteq Seq(NodeKey) /\ joinCount' \in Nat
  BY FiniteJoin DEF IInv
<1>4. opened' \subseteq Seq(NodeKey)
  <2>1. Top.view.path \in Seq(NodeKey)
    BY <1>1 DEF View
  <2> QED BY <1>3, <2>1
<1> HIDE DEF after
<1>5. CASE Len(stack) = 1
  <2>1. stack' = <<>> /\ output' = <<>>
    BY <1>5 DEF Return
  <2>2. CountOK(stack', joinCount', reply')
    BY <2>1 DEF CountOK
  <2>3. StackOK(stack') /\ SlicesOK(stack', output') /\ FreshOK(stack', opened')
    BY <2>1, NoCall
  <2> QED BY <1>3, <1>4, <2>1, <2>2, <2>3, Carries
<1>6. CASE Len(stack) # 1
  <2>1. Len(stack) > 1
    BY <1>1, <1>6
  <2>2. /\ Returned(stack) \in Seq(Frame) /\ Len(Returned(stack)) = Len(stack) - 1
        /\ \A i \in 1 .. Len(stack) - 1 :
             /\ Returned(stack)[i].view = stack[i].view /\ Returned(stack)[i].step = "route"
             /\ Pending(Returned(stack)[i]) = Pending(stack[i])
    BY <1>1, <2>1, ReturnedFacts
  <2>3. stack' = Returned(stack) /\ output' = after /\ reply' = reply
    <3>1. /\ stack' = [Front(stack) EXCEPT ![Len(stack) - 1].cursor = @ + Top.size]
          /\ output' = after /\ reply' = reply
      BY <1>6 DEF Return, after
    <3>2. /\ Len(Front(stack)) = Len(stack) - 1
          /\ Front(stack)[Len(stack) - 1] = stack[Len(stack) - 1]
      BY <1>1, <2>1 DEF Front, StackOK
    <3> QED BY <1>1, <3>1, <3>2 DEF Returned, Replaced, CursorAt
  <2>4. StackOK(stack') /\ SlicesOK(stack', output')
    BY <1>1, <1>2, <2>1, <2>3, TopReturns
  <2>5. FreshOK(stack', opened')
    <3>1. /\ StackOK(stack) /\ opened \in SUBSET Seq(NodeKey) /\ FreshOK(stack, opened)
          /\ opened' \subseteq opened \cup {Last(stack).view.path}
          /\ Last(stack).step = "route" => opened' \subseteq opened
      BY <1>1, <1>3
    <3>2. FreshOK(Returned(stack), opened')
      BY <2>1, <3>1, ReturnIsFresh
    <3> QED BY <2>3, <3>2
  <2>6. stack' # <<>>
    BY <2>1, <2>2, <2>3
  <2>7. CountOK(stack', joinCount', reply')
    BY <1>1, <2>3, <2>6 DEF CountOK
  <2> QED BY <1>3, <1>4, <2>4, <2>5, <2>6, <2>7, Carries
<1> QED BY <1>5, <1>6

\* A call that begins.
LEMMA NewFrame ==
  ASSUME NEW v \in View, NEW first \in Nat, NEW size \in 1 .. MaxOutput
  PROVE  /\ FrameOf(v, first, size) \in Frame /\ FrameOf(v, first, size).view = v
         /\ FrameOf(v, first, size).step = "open" /\ FrameOf(v, first, size).first = first
         /\ FrameOf(v, first, size).size = size /\ FrameOf(v, first, size).cursor = 0
         /\ FrameOf(v, first, size).quota = <<>>
<1>1. <<>> \in Quota
  <2>1. {} \in SUBSET NodeKey /\ <<>> \in [{} -> 1 .. MaxOutput]
    OBVIOUS
  <2> QED BY <2>1 DEF Quota
<1>2. [tree \in Tree |-> <<>>] \in [Tree -> Seq(Node)]
  OBVIOUS
<1> QED BY <1>1, <1>2 DEF FrameOf, Frame

\* A call of count or sample, while none is active.
LEMMA CallInvariant ==
  ASSUME IInv, Count \/ \E k \in 0 .. MaxOutput : Sample(k)
  PROVE  IInv'
<1>1. /\ geo \in Geometry /\ joinCount \in Nat /\ opened \subseteq Seq(NodeKey)
      /\ stack = <<>> /\ output = <<>> /\ CountOK(<<>>, joinCount, reply)
  BY DEF IInv, Count, Sample
<1>2. SizeOf[TopView] = Cardinality(Join(geo)) /\ Cardinality(Join(geo)) \in Nat
  BY <1>1, SizeOfIsExact, TopViewFacts, FiniteJoin
<1>3. CASE Count
  <2>1. /\ geo' = geo /\ stack' = <<>> /\ output' = <<>> /\ opened' = opened
        /\ joinCount' = Cardinality(Join(geo))
    BY <1>1, <1>2, <1>3 DEF Count
  <2>2. CountOK(stack', joinCount', reply')
    BY <2>1 DEF CountOK
  <2> QED BY <1>1, <1>2, <2>1, <2>2, NoCall, Carries
<1>4. ASSUME NEW k \in 0 .. MaxOutput, Sample(k)
      PROVE  IInv'
  <2>1. geo' = geo /\ opened' = {}
    BY <1>4 DEF Sample
  <2>2. CASE k = 0 /\ reply' = Sampler!SampleReply(<<>>)
             /\ UNCHANGED <<stack, output, joinCount>>
    <3>1. CountOK(<<>>, joinCount, reply')
      BY <2>2 DEF CountOK
    <3> QED BY <1>1, <2>1, <2>2, <3>1, NoCall, Carries
  <2>3. CASE k > 0 /\ EmptyView(TopView) /\ joinCount' = 0 /\ UNCHANGED <<stack, output>>
    <3>1. Cardinality(Join(geo)) = 0
      BY <2>3, TopViewFacts, FS_EmptySet
    <3>2. CountOK(<<>>, 0, reply')
      BY <3>1 DEF CountOK
    <3> QED BY <1>1, <2>1, <2>3, <3>2, NoCall, Carries
  <2>4. CASE k > 0 /\ ~EmptyView(TopView) /\ stack' = <<FrameOf(TopView, 0, k)>>
             /\ output' = [i \in 1 .. k |-> <<>>] /\ reply' = Sampler!NoReply
             /\ joinCount' = joinCount
    <3> DEFINE f == FrameOf(TopView, 0, k)
    <3>1. k \in 1 .. MaxOutput /\ k \in Nat
      BY <2>4, OutputAssumption
    <3>2. /\ f \in Frame /\ f.view = TopView /\ f.step = "open" /\ f.first = 0
          /\ f.size = k /\ f.cursor = 0 /\ f.quota = <<>>
      BY <3>1, TopViewFacts, NewFrame
    <3>3. TopView.path = <<>>
      BY DEF TopView
    <3>4. CallOK(f)
      BY <2>4, <3>2, <3>3, TopViewFacts DEF CallOK
    <3> HIDE DEF f
    <3>5. stack' = <<f>> /\ <<f>> # <<>> /\ Len(<<f>>) = 1 /\ <<f>>[1] = f
      BY <2>4 DEF f
    <3>6. StackOK(<<f>>)
      <4>1. <<f>> \in Seq(Frame) /\ \A i \in 1 .. Len(<<f>>) : i = 1
        BY <3>2
      <4>2. Len(f.view.path) = 0
        BY <3>2, <3>3
      <4> QED BY <3>2, <3>4, <3>5, <4>1, <4>2 DEF StackOK
    <3>7. SlicesOK(<<f>>, output')
      <4>1. output' \in [1 .. k -> Pair \cup {<<>>}]
        BY <2>4
      <4>2. \A x \in 1 .. 0 + 0 : FALSE
        OBVIOUS
      <4> QED BY <3>1, <3>2, <3>5, <4>1, <4>2 DEF SlicesOK
    <3>8. FreshOK(<<f>>, {})
      BY <3>5 DEF FreshOK
    <3>9. CountOK(<<f>>, joinCount, reply')
      BY <2>4, <3>2, <3>5 DEF CountOK
    <3> QED BY <1>1, <2>1, <2>4, <3>5, <3>6, <3>7, <3>8, <3>9, Carries
  <2> QED BY <1>4, <2>2, <2>3, <2>4 DEF Sample
<1> QED BY <1>3, <1>4

\* A call on an instance without a pair answers so.
LEMMA OpenEmptyInvariant ==
  ASSUME IInv, OpenEmpty
  PROVE  IInv'
<1>1. /\ geo \in Geometry /\ geo' = geo /\ opened' = opened /\ opened \subseteq Seq(NodeKey)
      /\ stack # <<>> /\ Len(stack) = 1 /\ SizeOf[Top.view] = 0
      /\ joinCount' = 0 /\ stack' = <<>> /\ output' = <<>>
  BY DEF OpenEmpty, Opening, IInv
<1>2. Cardinality(Join(geo)) = 0
  BY <1>1, TopFacts
<1>3. CountOK(<<>>, 0, reply')
  BY <1>2 DEF CountOK
<1> QED BY <1>1, <1>3, NoCall, Carries

\* What a call that opens has observed.
LEMMA ObserveFacts ==
  ASSUME IInv, Observe
  PROVE  /\ stack # <<>> /\ Top.step = "open" /\ geo' = geo
         /\ ViewPairs(Top.view) # {}
         /\ joinCount' = Cardinality(Join(geo))
         /\ opened' = opened \cup {Top.view.path}
<1>1. /\ stack # <<>> /\ Top.step = "open" /\ geo' = geo /\ SizeOf[Top.view] > 0
      /\ joinCount' = IF Len(stack) = 1 THEN SizeOf[Top.view] ELSE joinCount
      /\ opened' = opened \cup {Top.view.path}
  BY DEF Observe, Opening
<1>2. ViewPairs(Top.view) # {}
  <2>1. SizeOf[Top.view] \in Nat /\ (SizeOf[Top.view] = 0 <=> ViewPairs(Top.view) = {})
    BY <1>1, TopFacts
  <2> QED BY <1>1, <2>1
<1>3. joinCount' = Cardinality(Join(geo))
  <2>1. /\ Len(stack) = 1 \/ Len(stack) > 1
        /\ Len(stack) = 1 => ViewPairs(Top.view) = Join(geo)
        /\ Len(stack) > 1 => joinCount = Cardinality(Join(geo))
        /\ SizeOf[Top.view] = Cardinality(ViewPairs(Top.view)) /\ Len(stack) \in Nat
    BY <1>1, TopFacts
  <2>2. CASE Len(stack) = 1
    <3>1. joinCount' = SizeOf[Top.view]
      BY <1>1, <2>2
    <3> QED BY <2>1, <2>2, <3>1
  <2>3. CASE Len(stack) > 1
    <3>1. Len(stack) # 1
      BY <2>1, <2>3
    <3>2. joinCount' = joinCount
      BY <1>1, <3>1
    <3> QED BY <2>1, <2>3, <3>2
  <2> QED BY <2>1, <2>2, <2>3
<1> QED BY <1>1, <1>2, <1>3

\* What an atom of a last view draws is a pair of the view.
LEMMA AtomDraws ==
  ASSUME geo \in Geometry, NEW v \in View, v.level = Dim, ViewPairs(v) \subseteq Join(geo),
         NEW n, NEW draws \in [1 .. n -> UNION {AtomPairs(x) : x \in Atoms(v)}]
  PROVE  draws \in [1 .. n -> Join(geo)]
<1>1. \A x \in Atoms(v) : AtomPairs(x) \subseteq ViewPairs(v)
  BY AtomsPartition
<1>2. UNION {AtomPairs(x) : x \in Atoms(v)} \subseteq Join(geo)
  BY <1>1
<1> QED BY <1>2

\* A last view fills its slice and returns.
LEMMA OpenLastInvariant ==
  ASSUME IInv, OpenLast
  PROVE  IInv'
<1>1. /\ stack # <<>> /\ Top.step = "open" /\ geo' = geo
      /\ joinCount' = Cardinality(Join(geo)) /\ opened' = opened \cup {Top.view.path}
  BY ObserveFacts DEF OpenLast
<1>2. PICK draws \in [1 .. Top.size -> UNION {AtomPairs(x) : x \in Atoms(Top.view)}] :
        Return(Written(Top.first, draws))
  BY DEF OpenLast
<1>3. Top.view \in View /\ ViewPairs(Top.view) \subseteq Join(geo)
  BY <1>1, TopFacts DEF CallOK
<1>4. draws \in [1 .. Top.size -> Join(geo)]
  BY <1>3, AtomDraws DEF IInv, OpenLast
<1> QED BY <1>1, <1>2, <1>4, ReturnInvariant

\* A call whose slice is full shuffles it and returns.
LEMMA CloseFacts ==
  ASSUME IInv, stack # <<>>, Top.step = "route", Top.cursor = Top.size,
         NEW order \in Bijection(1 .. Top.size, 1 .. Top.size)
  PROVE  [i \in 1 .. Top.size |-> output[Top.first + order[i]]] \in [1 .. Top.size -> Join(geo)]
<1>1. order \in [1 .. Top.size -> 1 .. Top.size]
  BY DEF Bijection, Injection
<1>2. /\ Top.first \in Nat /\ Top.size \in Nat
      /\ \A x \in 1 .. Top.first + Top.size : output[x] \in Join(geo)
  BY TopFacts
<1>3. \A i \in 1 .. Top.size : Top.first + order[i] \in 1 .. Top.first + Top.size
  BY <1>1, <1>2
<1> QED BY <1>2, <1>3

\* So the invariant is kept.
LEMMA CloseInvariant ==
  ASSUME IInv, Close
  PROVE  IInv'
<1>1. /\ stack # <<>> /\ Top.step = "route" /\ Top.cursor = Top.size /\ geo' = geo
      /\ joinCount' = joinCount /\ opened' = opened
  BY DEF Close, Closing
<1>2. PICK order \in Bijection(1 .. Top.size, 1 .. Top.size) :
        Return(Written(Top.first, [i \in 1 .. Top.size |-> output[Top.first + order[i]]]))
  BY DEF Close
<1> DEFINE values == [i \in 1 .. Top.size |-> output[Top.first + order[i]]]
<1>3. values \in [1 .. Top.size -> Join(geo)] /\ Return(Written(Top.first, values))
  BY <1>1, <1>2, CloseFacts
<1>4. joinCount = Cardinality(Join(geo))
  BY <1>1, TopFacts
<1> HIDE DEF values
<1> QED BY <1>1, <1>3, <1>4, ReturnInvariant

\* The call on top goes on in its place, and opens its view at most.
LEMMA GoesOnFresh ==
  ASSUME NEW st, StackOK(st), st # <<>>, NEW op \in SUBSET Seq(NodeKey), FreshOK(st, op),
         NEW g \in Frame, g.view = Last(st).view, g.step = "route",
         Last(st).step = "route" => Pending(g) \subseteq Pending(Last(st)),
         NEW after, after \subseteq op \cup {Last(st).view.path},
         Last(st).step = "route" => after \subseteq op
  PROVE  FreshOK(Replaced(st, g), after)
<1> DEFINE new == Replaced(st, g)
           n   == Len(st)
<1>1. n \in 1 .. n /\ n \in Nat /\ Last(st) = st[n]
  BY LastFacts
<1>2. /\ new \in Seq(Frame) /\ Len(new) = n /\ new[n] = g
      /\ \A i \in 1 .. n : i # n => new[i] = st[i]
  BY TopReplaced
<1>3. \A i \in 1 .. n : i # n => i < n /\ st[i].step = "route"
  <2>1. \A i \in 1 .. n : i # n => i < n
    BY <1>1
  <2> QED BY <2>1, StackFacts
<1> HIDE DEF new
<1>4. ASSUME NEW i \in 1 .. Len(new)
      PROVE  /\ new[i].view = st[i].view /\ new[i].step = "route"
             /\ Pending(new[i]) \subseteq NodeKey
             /\ i < Len(st) \/ Last(st).step = "route" =>
                  Pending(new[i]) \subseteq Pending(st[i])
  <2>1. i \in 1 .. n /\ new[i] \in Frame
    BY <1>2
  <2>2. Pending(new[i]) \subseteq NodeKey
    BY <2>1, PendingKeys
  <2>3. CASE i = n
    BY <1>1, <1>2, <2>2, <2>3
  <2>4. CASE i # n
    BY <1>2, <1>3, <2>1, <2>2, <2>4
  <2> QED BY <2>3, <2>4
<1>5. Len(new) \in Nat /\ Len(new) <= Len(st)
  BY <1>1, <1>2
<1>6. FreshOK(new, after)
  BY <1>4, <1>5, StaysFresh
<1> QED BY <1>6 DEF new

\* What an inner view may draw, by the model's weights, are the nodes whose view
\* has a pair.
LEMMA DrawSet ==
  ASSUME geo \in Geometry, NEW v \in View, v.level < Dim, ~EmptyView(v)
  PROVE  {KeyOf(t) : t \in {t \in Nodes(v) : WeightOf(t) > 0}} = DrawKeys(v)
<1>1. Nodes(v) = NodesOf(v) /\ \A t \in NodesOf(v) : NextView(t) \in View
  BY NodesHandOnce
<1>2. ASSUME NEW t \in NodesOf(v)
      PROVE  WeightOf(t) > 0 <=> ViewPairs(NextView(t)) # {}
  <2>1. /\ WeightOf(t) = Cardinality(ViewPairs(NextView(t)))
        /\ IsFiniteSet(ViewPairs(NextView(t)))
        /\ Cardinality(ViewPairs(NextView(t))) \in Nat
    BY <1>1, SizeOfIsExact, ViewPairsFinite DEF WeightOf
  <2>2. Cardinality(ViewPairs(NextView(t))) = 0 <=> ViewPairs(NextView(t)) = {}
    BY <2>1, FS_EmptySet
  <2> QED BY <2>1, <2>2
<1>3. {t \in Nodes(v) : WeightOf(t) > 0} = {t \in NodesOf(v) : ViewPairs(NextView(t)) # {}}
  BY <1>1, <1>2
<1> QED BY <1>3 DEF DrawKeys

\* An inner view gives its places to nodes.
LEMMA OpenInnerInvariant ==
  ASSUME IInv, OpenInner
  PROVE  IInv'
<1>1. /\ stack # <<>> /\ Top.step = "open" /\ geo' = geo /\ ViewPairs(Top.view) # {}
      /\ joinCount' = Cardinality(Join(geo)) /\ opened' = opened \cup {Top.view.path}
      /\ Top.view.level < Dim /\ output' = output /\ reply' = reply
  BY ObserveFacts DEF OpenInner
<1>2. /\ StackOK(stack) /\ SlicesOK(stack, output) /\ FreshOK(stack, opened)
      /\ Top = Last(stack) /\ Top = stack[Len(stack)]
      /\ Top \in Frame /\ CallOK(Top) /\ Top.view \in View /\ reply = Sampler!NoReply
  BY <1>1, TopFacts DEF Top
<1>3. geo \in Geometry /\ opened \subseteq Seq(NodeKey) /\ joinCount' \in Nat
  BY <1>1, FiniteJoin DEF IInv
<1>4. ~EmptyView(Top.view)
  BY <1>2 DEF CallOK
<1>5. PICK draws \in [1 .. Top.size ->
                        {KeyOf(t) : t \in {t \in Nodes(Top.view) : WeightOf(t) > 0}}] :
        stack' = [stack EXCEPT ![Len(stack)] =
                    [@ EXCEPT !.step = "route", !.quota = Quotas(draws),
                              !.queue = [tree \in Tree |->
                                Queued(Quotas(draws), Root(Top.view, tree))]]]
  BY DEF OpenInner
<1>6. draws \in [1 .. Top.size -> DrawKeys(Top.view)]
  BY <1>1, <1>2, <1>3, <1>4, <1>5, DrawSet
<1> DEFINE g == Drawn(Top, draws)
<1>7. stack' = Replaced(stack, g)
  BY <1>2, <1>5 DEF Replaced, Drawn
<1> HIDE DEF g
<1>8. /\ g \in Frame /\ CallOK(g) /\ DrawsOK(g, 0)
      /\ g.view = Top.view /\ g.step = "route" /\ g.first = Top.first
      /\ g.size = Top.size /\ g.cursor = 0 /\ Top.cursor = 0
  <2>1. Top.cursor = 0
    BY <1>1, <1>2 DEF CallOK
  <2>2. /\ Top \in Frame /\ CallOK(Top) /\ Top.step = "open" /\ Top.view.level < Dim
        /\ ViewPairs(Top.view) # {} /\ geo \in Geometry
    BY <1>1, <1>2, <1>3
  <2>3. g = Drawn(Top, draws)
    BY DEF g
  <2>4. /\ g \in Frame /\ CallOK(g) /\ DrawsOK(g, 0)
        /\ g.view = Top.view /\ g.step = "route" /\ g.first = Top.first
        /\ g.size = Top.size /\ g.cursor = 0
    BY <1>6, <2>2, <2>3, OpenDraws
  <2> QED BY <2>1, <2>4
<1>9. StackOK(stack') /\ SlicesOK(stack', output')
  BY <1>1, <1>2, <1>7, <1>8, TopGoesOn
<1>10. FreshOK(stack', opened')
  BY <1>1, <1>2, <1>3, <1>7, <1>8, GoesOnFresh
<1>11. stack' # <<>> /\ CountOK(stack', joinCount', reply')
  <2>1. Len(stack') = Len(stack) /\ Len(stack) \in Nat /\ Len(stack) # 0
    BY <1>1, <1>2, <1>7, <1>8, TopReplaced, LastFacts
  <2>2. stack' # <<>>
    BY <2>1
  <2>3. joinCount' = Cardinality(Join(geo)) /\ reply' = Sampler!NoReply
    BY <1>1, <1>2
  <2> QED BY <2>2, <2>3 DEF CountOK
<1>12. opened' \subseteq Seq(NodeKey)
  <2>1. Top.view.path \in Seq(NodeKey)
    BY <1>2 DEF View
  <2> QED BY <1>1, <1>3, <2>1
<1> QED BY <1>1, <1>3, <1>9, <1>10, <1>11, <1>12, Carries

\* What routing the node at the head leaves: the frame without the node, and for
\* a node that is asked the call for its view.
LEMMA RouteHeadFacts ==
  ASSUME IInv, RouteHead
  PROVE  /\ stack # <<>> /\ Top.step = "route" /\ ~Routed(Top)
         /\ UNCHANGED <<geo, output, joinCount, reply, opened>>
         /\ \/ ~Asked /\ stack' = Replaced(stack, RoutedOn(Top))
            \/ /\ Asked
               /\ stack' = Append(Replaced(stack, RoutedOn(Top)),
                                  FrameOf(NextView(HeadOf(Top)), FirstOfChild(Top), Share))
<1>1. /\ stack # <<>> /\ Top.step = "route" /\ ~Routed(Top)
      /\ UNCHANGED <<geo, output, joinCount, reply, opened>>
  BY DEF RouteHead, Routing
<1>2. [stack EXCEPT ![Len(stack)].queue[Current(Top)] =
         Tail(@) \o QueuedChildren(Top.quota, HeadOf(Top))] = Replaced(stack, RoutedOn(Top))
  BY DEF Replaced, RoutedOn, Top
<1> QED BY <1>1, <1>2 DEF RouteHead

\* A node with a quota has a view with a pair; its quota fits into the slice.
LEMMA AskedFacts ==
  ASSUME IInv, stack # <<>>, Top.step = "route", ~Routed(Top)
  PROVE  /\ ~Asked => KeyOf(HeadOf(Top)) \notin DOMAIN Top.quota
         /\ Asked => /\ KeyOf(HeadOf(Top)) \in DOMAIN Top.quota
                     /\ Share = Top.quota[KeyOf(HeadOf(Top))] /\ Fits
<1>1. Top \in Frame /\ CallOK(Top) /\ DrawsOK(Top, Top.cursor) /\ geo \in Geometry
  BY TopFacts DEF IInv
<1>2. KeyOf(HeadOf(Top)) \in DOMAIN Top.quota =>
        /\ Top.cursor + Top.quota[KeyOf(HeadOf(Top))] <= Top.size
        /\ ~EmptyView(NextView(HeadOf(Top)))
  BY <1>1, RouteDraws
<1> QED BY <1>2 DEF Asked, Share, Fits

\* A frame goes on after the node at its head.
LEMMA RouteHeadInvariant ==
  ASSUME IInv, RouteHead
  PROVE  IInv'
<1> DEFINE f == Top
           g == RoutedOn(Top)
           h == HeadOf(Top)
           k == KeyOf(h)
<1>1. /\ stack # <<>> /\ f.step = "route" /\ ~Routed(f)
      /\ geo' = geo /\ output' = output /\ joinCount' = joinCount /\ reply' = reply
      /\ opened' = opened
  BY RouteHeadFacts
<1>2. /\ StackOK(stack) /\ SlicesOK(stack, output) /\ FreshOK(stack, opened)
      /\ f = Last(stack) /\ Len(stack) \in Nat
      /\ f \in Frame /\ CallOK(f) /\ f.view \in View /\ DrawsOK(f, f.cursor)
      /\ reply = Sampler!NoReply /\ joinCount = Cardinality(Join(geo))
      /\ f.first \in Nat /\ f.cursor \in Nat
  BY <1>1, TopFacts
<1>3. geo \in Geometry /\ opened \in SUBSET Seq(NodeKey) /\ joinCount \in Nat
  BY DEF IInv
<1>4. /\ g \in Frame /\ g.view = f.view /\ g.step = "route" /\ g.first = f.first
      /\ g.size = f.size /\ g.cursor = f.cursor
  BY <1>1, <1>2, RoutedQueue
<1>5. /\ CallOK(g) /\ Pending(g) = Pending(f) \ {k} /\ h \in NodesOf(f.view)
      /\ k \in DOMAIN f.quota => k \in Pending(f)
  BY <1>1, <1>2, <1>3, RouteKeeps
<1>6. /\ k \notin DOMAIN f.quota => DrawsOK(g, f.cursor)
      /\ k \in DOMAIN f.quota =>
           /\ DrawsOK(g, f.cursor + f.quota[k])
           /\ f.quota[k] \in 1 .. f.size
           /\ NextView(h) \in View /\ ~EmptyView(NextView(h))
           /\ ViewPairs(NextView(h)) # {}
           /\ ViewPairs(NextView(h)) \subseteq ViewPairs(f.view)
  BY <1>1, <1>2, <1>3, RouteDraws
<1>7. /\ ~Asked => k \notin DOMAIN f.quota
      /\ Asked => k \in DOMAIN f.quota /\ Share = f.quota[k]
  BY <1>1, AskedFacts
<1> DEFINE c == FrameOf(NextView(h), FirstOfChild(f), Share)
<1>8. \/ ~Asked /\ stack' = Replaced(stack, g)
      \/ Asked /\ stack' = Append(Replaced(stack, g), c)
  BY RouteHeadFacts
<1>9. f.view.level < Dim /\ ~EmptyView(f.view) /\ ViewPairs(f.view) \subseteq Join(geo)
  BY <1>1, <1>2 DEF CallOK
<1>10. NextView(h).path = Append(f.view.path, k)
  <2>1. h.view = f.view
    BY <1>2, <1>3, <1>5, <1>9, NodesHandOnce
  <2> QED BY <2>1 DEF NextView, ChildPath
<1>11. f.size \in 1 .. MaxOutput /\ FirstOfChild(f) = f.first + f.cursor
  BY <1>2 DEF Frame, FirstOfChild
<1> HIDE DEF f, g, h, k, c
<1>12. stack' # <<>> => CountOK(stack', joinCount', reply')
  BY <1>1, <1>2 DEF CountOK
<1>13. CASE ~Asked
  <2>1. stack' = Replaced(stack, g) /\ DrawsOK(g, g.cursor)
    BY <1>4, <1>6, <1>7, <1>8, <1>13
  <2>2. StackOK(stack') /\ SlicesOK(stack', output')
    BY <1>1, <1>2, <1>4, <1>5, <2>1, TopGoesOn
  <2>3. FreshOK(stack', opened')
    <3>1. Pending(g) \subseteq Pending(Last(stack)) /\ Last(stack).step = "route"
      BY <1>1, <1>2, <1>5
    <3>2. FreshOK(Replaced(stack, g), opened)
      BY <1>1, <1>2, <1>3, <1>4, <3>1, GoesOnFresh
    <3> QED BY <1>1, <2>1, <3>2
  <2>4. stack' # <<>>
    <3>1. Len(stack') = Len(stack) /\ Len(stack) # 0
      BY <1>1, <1>2, <1>4, <2>1, TopReplaced, LastFacts
    <3> QED BY <3>1
  <2> QED BY <1>1, <1>3, <1>12, <2>2, <2>3, <2>4, Carries
<1>14. CASE Asked
  <2>1. /\ stack' = Append(Replaced(stack, g), c) /\ k \in DOMAIN f.quota
        /\ k \in Pending(f) /\ Share = f.quota[k]
    BY <1>5, <1>7, <1>8, <1>14
  <2>2. Share \in 1 .. MaxOutput /\ FirstOfChild(f) \in Nat
    <3>1. Share \in 1 .. f.size
      BY <1>6, <2>1
    <3> QED BY <1>2, <1>11, <3>1, OutputAssumption
  <2>3. /\ c \in Frame /\ c.view = NextView(h) /\ c.step = "open"
        /\ c.first = f.first + f.cursor /\ c.size = Share /\ c.cursor = 0 /\ c.quota = <<>>
    BY <1>6, <1>11, <2>1, <2>2, NewFrame DEF c
  <2>4. /\ Len(c.view.path) = Len(g.view.path) + 1 /\ c.view.path # <<>>
        /\ c.view.path = Append(g.view.path, k)
    <3>1. f.view.path \in Seq(NodeKey) /\ k \in NodeKey
      BY <1>2, <2>1, PendingKeys DEF View
    <3>2. c.view.path = Append(f.view.path, k)
      BY <1>10, <2>3
    <3>3. Len(Append(f.view.path, k)) = Len(f.view.path) + 1 /\ Append(f.view.path, k) # <<>>
      BY <3>1
    <3> QED BY <1>4, <3>2, <3>3
  <2>5. CallOK(c)
    BY <1>6, <1>9, <2>1, <2>3, <2>4 DEF CallOK
  <2>6. Pending(c) = {}
    BY <2>3 DEF Pending
  <2>7. StackOK(stack') /\ SlicesOK(stack', output')
    <3>1. c.first = g.first + g.cursor /\ DrawsOK(g, g.cursor + c.size)
      BY <1>4, <1>6, <2>1, <2>3
    <3>2. /\ StackOK(Append(Replaced(stack, g), c))
          /\ SlicesOK(Append(Replaced(stack, g), c), output)
      BY <1>1, <1>2, <1>4, <1>5, <2>3, <2>4, <2>5, <3>1, TopCalls
    <3> QED BY <1>1, <2>1, <3>2
  <2>8. FreshOK(stack', opened')
    <3>1. /\ k \in Pending(Last(stack)) /\ Pending(g) = Pending(Last(stack)) \ {k}
          /\ Last(stack).step = "route" /\ g.view = Last(stack).view
      BY <1>1, <1>2, <1>4, <1>5, <2>1
    <3>2. FreshOK(Append(Replaced(stack, g), c), opened)
      BY <1>1, <1>2, <1>3, <1>4, <2>3, <2>4, <2>6, <3>1, CallIsFresh
    <3> QED BY <1>1, <2>1, <3>2
  <2>9. stack' # <<>>
    <3>1. Replaced(stack, g) \in Seq(Frame)
      BY <1>1, <1>2, <1>4, TopReplaced
    <3> QED BY <2>1, <2>3, <3>1
  <2> QED BY <1>1, <1>3, <1>12, <2>7, <2>8, <2>9, Carries
<1> QED BY <1>13, <1>14

\* Every reachable state satisfies the invariant.
THEOREM Inductive == Spec => []IInv
<1>1. ASSUME IInv, [Next]_vars
      PROVE  IInv'
  <2>1. CASE Count \/ \E k \in 0 .. MaxOutput : Sample(k)
    BY <1>1, <2>1, CallInvariant
  <2>2. CASE OpenEmpty
    BY <1>1, <2>2, OpenEmptyInvariant
  <2>3. CASE OpenLast
    BY <1>1, <2>3, OpenLastInvariant
  <2>4. CASE OpenInner
    BY <1>1, <2>4, OpenInnerInvariant
  <2>5. CASE RouteHead
    BY <1>1, <2>5, RouteHeadInvariant
  <2>6. CASE Close
    BY <1>1, <2>6, CloseInvariant
  <2>7. CASE UNCHANGED vars
    <3>1. /\ geo' = geo /\ stack' = stack /\ output' = output
          /\ joinCount' = joinCount /\ reply' = reply /\ opened' = opened
      BY <2>7 DEF vars
    <3> QED BY <1>1, <3>1, Carries DEF IInv
  <2> QED BY <1>1, <2>1, <2>2, <2>3, <2>4, <2>5, <2>6, <2>7 DEF Next
<1> QED BY <1>1, InitInvariant, PTL DEF Spec

-----------------------------------------------------------------------------
(* Results.                                                                *)

\* Frames, quotas and queues keep their types: no slice is overrun, and no quota
\* is larger than the slice it is taken from.
THEOREM TypeCorrect == Spec => []TypeOK
<1>1. ASSUME IInv
      PROVE  TypeOK
  <2>1. StackOK(stack)
    BY <1>1 DEF IInv
  <2>2. ASSUME NEW i \in DOMAIN stack
        PROVE  IsFrame(stack[i])
    <3> DEFINE f == stack[i]
    <3>1. i \in 1 .. Len(stack)
      BY <2>1 DEF StackOK
    <3>2. /\ f \in Frame /\ CallOK(f) /\ f.view \in View /\ f.step \in {"open", "route"}
          /\ f.first \in Nat /\ f.size \in 1 .. MaxOutput /\ f.size \in Nat
          /\ f.cursor \in Nat /\ f.cursor <= f.size
          /\ f.step = "route" => DrawsOK(f, Filled(stack, i))
      BY <2>1, <3>1, StackFacts
    <3> HIDE DEF f
    <3>3. ASSUME NEW k \in DOMAIN f.quota
          PROVE  k \in NodeKey /\ f.quota[k] \in 1 .. f.size
      <4>1. k \in NodeKey
        BY <3>2 DEF Frame, Quota
      <4>2. CASE f.step = "open"
        <5>1. f.quota = <<>>
          BY <3>2, <4>2 DEF CallOK
        <5> QED BY <5>1
      <4>3. CASE f.step = "route"
        <5>1. PICK draws \in [1 .. f.size -> DrawKeys(f.view)] : f.quota = Quotas(draws)
          BY <3>2, <4>3 DEF DrawsOK
        <5>2. k \in DOMAIN Quotas(draws)
          BY <5>1
        <5>3. Quotas(draws)[k] \in 1 .. f.size
          BY <3>2, <5>2, QuotaFacts
        <5> QED BY <4>1, <5>1, <5>3
      <4> QED BY <3>2, <4>2, <4>3
    <3>4. f.queue \in [Tree -> Seq(Node)]
      BY <3>2 DEF Frame
    <3>5. f.cursor \in 0 .. f.size
      BY <3>2
    <3> QED BY <3>2, <3>3, <3>4, <3>5 DEF IsFrame, f
  <2>3. output \in Seq(Pair \cup {<<>>})
    <3>1. CASE stack = <<>>
      BY <1>1, <3>1 DEF IInv
    <3>2. CASE stack # <<>>
      <4>1. /\ stack[1].size \in Nat
            /\ output \in [1 .. stack[1].size -> Pair \cup {<<>>}]
        BY <1>1, <3>2, TopFacts
      <4> QED BY <4>1
    <3> QED BY <3>1, <3>2
  <2> QED BY <1>1, <2>2, <2>3 DEF TypeOK, IInv
<1> QED BY <1>1, Inductive, PTL

\* A draw of quotas is a uniform draw of pairs, at every view of every call.
THEOREM WeightsAreAlwaysExact == Spec => []WeightsAreExact
<1>1. ASSUME IInv
      PROVE  WeightsAreExact
  <2>1. JoinCountIsExact
    BY <1>1 DEF IInv, CountOK, JoinCountIsExact
  <2>2. ASSUME Opening, Top.view.level < Dim
        PROVE  /\ \A t \in Nodes(Top.view) :
                    WeightOf(t) = Cardinality(ViewPairs(NextView(t)))
               /\ \A p \in ViewPairs(Top.view) : \E t \in Nodes(Top.view) :
                    /\ p \in ViewPairs(NextView(t))
                    /\ \A u \in Nodes(Top.view) \ {t} : p \notin ViewPairs(NextView(u))
    <3> DEFINE v == Top.view
    <3>1. v \in View /\ ~EmptyView(v) /\ v.level < Dim /\ geo \in Geometry
      BY <1>1, <2>2, TopFacts DEF Opening, CallOK, IInv
    <3> HIDE DEF v
    <3>2. /\ Nodes(v) = NodesOf(v) /\ \A t \in NodesOf(v) : NextView(t) \in View
          /\ \A p \in ViewPairs(v) : HandedOnce(NodesOf(v), p)
      BY <3>1, NodesHandOnce
    <3>3. \A t \in Nodes(v) : WeightOf(t) = Cardinality(ViewPairs(NextView(t)))
      BY <3>1, <3>2, SizeOfIsExact DEF WeightOf
    <3> QED BY <3>2, <3>3 DEF HandedOnce, v
  <2> QED BY <2>1, <2>2 DEF WeightsAreExact
<1> QED BY <1>1, Inductive, PTL

\* None of the errors that the code throws for a sampler that is broken comes up:
\* a quota never falls on an empty view or runs beyond the slice, and a slice is
\* full when its call returns.
THEOREM NoErrorEver == Spec => []NoLogicError
<1>1. ASSUME IInv
      PROVE  NoLogicError
  <2>1. ASSUME Opening, Len(stack) > 1
        PROVE  SizeOf[Top.view] > 0
    <3>1. /\ SizeOf[Top.view] \in Nat /\ ViewPairs(Top.view) # {}
          /\ SizeOf[Top.view] = 0 <=> ViewPairs(Top.view) = {}
      BY <1>1, <2>1, TopFacts DEF Opening
    <3> QED BY <3>1
  <2>2. ASSUME Routing, Asked
        PROVE  Fits
    BY <1>1, <2>2, AskedFacts DEF Routing
  <2>3. ASSUME Closing
        PROVE  Top.cursor = Top.size
    <3>1. Top \in Frame /\ Routed(Top) /\ DrawsOK(Top, Top.cursor)
      BY <1>1, <2>3, TopFacts DEF Closing
    <3> QED BY <3>1, RoutedIsFull
  <2> QED BY <2>1, <2>2, <2>3 DEF NoLogicError
<1> QED BY <1>1, Inductive, PTL

\* No two views of a call draw from the same streams.
THEOREM StreamsAlwaysFresh == Spec => []StreamsAreFresh
<1>1. ASSUME IInv, Opening
      PROVE  Top.view.path \notin opened
  <2>1. stack # <<>> /\ Top.step = "open"
    BY <1>1 DEF Opening
  <2>2. /\ StackOK(stack) /\ FreshOK(stack, opened) /\ Top = Last(stack)
        /\ Top.view \in View
    BY <1>1, <2>1, TopFacts
  <2>3. Len(stack) \in 1 .. Len(stack) /\ Top = stack[Len(stack)]
    BY <2>1, <2>2, LastFacts
  <2>4. \A q \in opened : ~Extends(q, Top.view.path)
    BY <2>1, <2>2, <2>3 DEF FreshOK
  <2>5. Extends(Top.view.path, Top.view.path)
    BY <2>2, ExtendsFacts DEF View
  <2> QED BY <2>4, <2>5
<1>2. IInv => StreamsAreFresh
  BY <1>1 DEF StreamsAreFresh
<1> QED BY <1>2, Inductive, PTL

\* What a call that returns answers.
LEMMA ReturnAnswers ==
  ASSUME IInv, stack # <<>>, NEW values \in [1 .. Top.size -> Join(geo)],
         Return(Written(Top.first, values)), ViewPairs(Top.view) # {}
  PROVE  \/ reply' = reply
         \/ Join(geo) # {} /\ \E k \in 0 .. MaxOutput : \E out \in [1 .. k -> Join(geo)] :
                                reply' = Sampler!SampleReply(out)
<1> DEFINE out == Written(Top.first, values)
<1>1. CASE Len(stack) = 1
  <2>1. /\ Top = stack[1] /\ Top.first = 0 /\ ViewPairs(Top.view) = Join(geo)
        /\ Top.size \in 1 .. MaxOutput /\ Top.size \in Nat
    BY <1>1, TopFacts
  <2>2. /\ out \in [1 .. Top.size -> Pair \cup {<<>>}]
        /\ \A x \in 1 .. Top.first + Top.size : out[x] \in Join(geo)
    BY <2>1, WrittenFacts
  <2>3. reply' = Sampler!SampleReply(out)
    BY <1>1 DEF Return
  <2> HIDE DEF out
  <2>4. 1 .. Top.first + Top.size = 1 .. Top.size
    BY <2>1
  <2>5. out \in [1 .. Top.size -> Join(geo)]
    BY <2>2, <2>4
  <2>6. Top.size \in 0 .. MaxOutput
    BY <2>1, OutputAssumption
  <2> QED BY <2>1, <2>3, <2>5, <2>6
<1>2. CASE Len(stack) # 1
  BY <1>2 DEF Return
<1> QED BY <1>1, <1>2

\* The streaming sampler answers every call as the abstract one may.
THEOREM StreamingImplementsSampler == Spec => IsJoinSampler
<1>1. Init => Sampler!Init
  BY DEF Init, Sampler!Init
<1>2. ASSUME IInv, [Next]_vars
      PROVE  [Sampler!Next]_<<Join(geo), TRUE, reply>>
  <2>1. UNCHANGED geo
    BY <1>2 DEF Next, vars, Count, Sample, OpenEmpty, OpenLast, OpenInner, RouteHead,
         Close, Observe
  <2>2. UNCHANGED <<Join(geo), TRUE>>
    BY <2>1, PairsStay
  <2>3. CASE UNCHANGED vars \/ OpenInner \/ RouteHead
    <3>1. UNCHANGED reply
      BY <2>3 DEF vars, OpenInner, RouteHead
    <3> QED BY <2>2, <3>1
  <2>4. CASE Count
    <3>1. Cardinality(Join(geo)) = Sampler!Cardinality(Join(geo))
      BY Zenon DEF Cardinality, Sampler!Cardinality
    <3>2. SizeOf[TopView] = Cardinality(Join(geo))
      BY <1>2, SizeOfIsExact, TopViewFacts DEF IInv
    <3>3. reply' = Sampler!CountReply(SizeOf[TopView])
      BY <2>4 DEF Count
    <3> QED BY <2>2, <3>1, <3>2, <3>3 DEF Sampler!Next, Sampler!Count
  <2>5. ASSUME NEW k \in 0 .. MaxOutput, Sample(k)
        PROVE  Sampler!Next
    <3>1. CASE k = 0 /\ reply' = Sampler!SampleReply(<<>>)
      <4>1. <<>> \in [1 .. 0 -> Join(geo)]
        OBVIOUS
      <4>2. Sampler!Fill(0)
        BY <2>2, <3>1, <4>1 DEF Sampler!Fill
      <4> QED BY <3>1, <4>2 DEF Sampler!Next
    <3>2. CASE EmptyView(TopView) /\ reply' = Sampler!EmptyReply
      <4>1. Join(geo) = {}
        BY <3>2, TopViewFacts
      <4> QED BY <2>2, <3>2, <4>1 DEF Sampler!Next, Sampler!Empty
    <3>3. CASE reply' = Sampler!NoReply
      BY <2>2, <3>3 DEF Sampler!Next, Sampler!Begin
    <3> QED BY <2>5, <3>1, <3>2, <3>3 DEF Sample
  <2>6. CASE OpenEmpty
    <3>1. /\ stack # <<>> /\ Len(stack) = 1 /\ SizeOf[Top.view] = 0
          /\ reply' = Sampler!EmptyReply
      BY <2>6 DEF OpenEmpty, Opening
    <3>2. Join(geo) = {}
      BY <1>2, <3>1, TopFacts
    <3> QED BY <2>2, <3>1, <3>2 DEF Sampler!Next, Sampler!Empty
  <2>7. ASSUME NEW out, Join(geo) # {}, NEW k \in 0 .. MaxOutput, out \in [1 .. k -> Join(geo)],
               reply' = Sampler!SampleReply(out)
        PROVE  Sampler!Next
    <3>1. Sampler!Fill(k)
      BY <2>2, <2>7 DEF Sampler!Fill
    <3> QED BY <3>1 DEF Sampler!Next
  <2>8. CASE OpenLast
    <3>1. stack # <<>> /\ ViewPairs(Top.view) # {}
      BY <1>2, <2>8, ObserveFacts DEF OpenLast
    <3>2. PICK draws \in [1 .. Top.size -> UNION {AtomPairs(x) : x \in Atoms(Top.view)}] :
            Return(Written(Top.first, draws))
      BY <2>8 DEF OpenLast
    <3>3. /\ geo \in Geometry /\ Top.view \in View /\ Top.view.level = Dim
          /\ ViewPairs(Top.view) \subseteq Join(geo)
      BY <1>2, <2>8, <3>1, TopFacts DEF CallOK, IInv, OpenLast
    <3>4. draws \in [1 .. Top.size -> Join(geo)]
      BY <3>3, AtomDraws
    <3>5. \/ reply' = reply
          \/ Join(geo) # {} /\ \E k \in 0 .. MaxOutput : \E out \in [1 .. k -> Join(geo)] :
                                 reply' = Sampler!SampleReply(out)
      BY <1>2, <3>1, <3>2, <3>4, ReturnAnswers
    <3> QED BY <2>2, <2>7, <3>5
  <2>9. CASE Close
    <3>1. stack # <<>> /\ Top.step = "route" /\ Top.cursor = Top.size
      BY <2>9 DEF Close, Closing
    <3>2. PICK order \in Bijection(1 .. Top.size, 1 .. Top.size) :
            Return(Written(Top.first, [i \in 1 .. Top.size |-> output[Top.first + order[i]]]))
      BY <2>9 DEF Close
    <3> DEFINE values == [i \in 1 .. Top.size |-> output[Top.first + order[i]]]
    <3>3. values \in [1 .. Top.size -> Join(geo)] /\ Return(Written(Top.first, values))
      BY <1>2, <3>1, <3>2, CloseFacts
    <3>4. ViewPairs(Top.view) # {}
      BY <1>2, <3>1, TopFacts DEF CallOK
    <3> HIDE DEF values
    <3>5. \/ reply' = reply
          \/ Join(geo) # {} /\ \E k \in 0 .. MaxOutput : \E out \in [1 .. k -> Join(geo)] :
                                 reply' = Sampler!SampleReply(out)
      BY <1>2, <3>1, <3>3, <3>4, ReturnAnswers
    <3> QED BY <2>2, <2>7, <3>5
  <2> QED BY <1>2, <2>3, <2>4, <2>5, <2>6, <2>8, <2>9 DEF Next
<1> QED BY <1>1, <1>2, Inductive, PTL DEF Spec, IsJoinSampler, Sampler!Spec

=============================================================================
