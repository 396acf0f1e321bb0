----------------------- MODULE AnchorCompiled_proofs -----------------------
(***************************************************************************)
(* Proofs about the compiled ANCHOR sampler.  Each step of its constructor *)
(* replaces a piece of work by pieces that partition its pairs             *)
(* (AnchorRoute_proofs), so that the pieces always partition the join, and *)
(* at the end the atoms do.                                                *)
(***************************************************************************)
EXTENDS AnchorCompiled, AnchorRoute_proofs

WorkOK ==
  /\ \A v \in views : ~EmptyView(v)
  /\ \A t \in nodes : NodeOK(t)
  /\ \A w \in anchors : w.view.level = Dim /\ IsAnchor(w.view, w.box)

\* Work never holds a pair outside the join.
OnlyJoin == \A w \in Work : PairsOf(w) \subseteq Join(geo)

Covered == UNION {AtomPairs(x) : x \in atoms}
Counted == total = Cardinality(Covered)

PhaseInv == phase = "idle" => views = {} /\ nodes = {} /\ anchors = {}

IInv == /\ TypeOK /\ PhaseInv /\ WorkOK
        /\ KeptOnce /\ OnlyJoin /\ AtomsAreExact /\ Counted

-----------------------------------------------------------------------------
(* Work as a whole.                                                        *)

\* Replacing a piece of work by pieces that partition it keeps every pair of the
\* join in exactly one piece.
LEMMA Replace ==
  ASSUME KeptOnce, OnlyJoin, geo' = geo,
         NEW old \in Work, NEW new, Work' = (Work \ {old}) \cup new,
         Partitions(new, old)
  PROVE  KeptOnce' /\ OnlyJoin'
<1>1. Join(geo)' = Join(geo) /\ \A w : PairsOf(w)' = PairsOf(w)
  BY PairsStay
<1>2. OnlyJoin'
  BY <1>1 DEF OnlyJoin, Partitions
<1>3. ASSUME NEW z \in Join(geo)
      PROVE  \E w \in Work' : z \in PairsOf(w) /\ \A x \in Work' \ {w} : z \notin PairsOf(x)
  <2>1. PICK w \in Work : z \in PairsOf(w) /\ \A x \in Work \ {w} : z \notin PairsOf(x)
    BY DEF KeptOnce
  <2>2. CASE w = old
    <3>1. PICK n \in new : z \in PairsOf(n) /\ \A m \in new \ {n} : z \notin PairsOf(m)
      BY <2>1, <2>2 DEF Partitions
    <3> QED BY <2>1, <2>2, <3>1
  <2>3. CASE w # old
    <3>1. z \notin PairsOf(old)
      BY <2>1, <2>3
    <3>2. \A n \in new : z \notin PairsOf(n)
      BY <3>1 DEF Partitions
    <3> QED BY <2>1, <2>3, <3>2
  <2> QED BY <2>2, <2>3
<1>4. KeptOnce'
  BY <1>1, <1>3 DEF KeptOnce
<1> QED BY <1>2, <1>4

-----------------------------------------------------------------------------
(* The invariant.                                                          *)

\* The constructor starts with the whole join in one view, or with an empty join.
LEMMA InitInvariant == Init => IInv
<1> SUFFICES ASSUME Init PROVE IInv
  OBVIOUS
<1>1. /\ geo \in Geometry /\ phase = "compile" /\ nodes = {} /\ anchors = {}
      /\ atoms = {} /\ total = 0
      /\ views = IF EmptyView(TopView) THEN {} ELSE {TopView}
  BY DEF Init
<1>2. TopView \in View
  BY TopViewFacts
<1>3. TypeOK
  BY <1>1, <1>2 DEF TypeOK
<1>4. ViewPairs(TopView) = Join(geo)
  BY TopViewFacts
<1>5. KeptOnce /\ OnlyJoin
  <2>1. CASE EmptyView(TopView)
    <3>1. Work = {} /\ Join(geo) = {}
      BY <1>1, <1>4, <2>1 DEF Work, ViewPairs, EmptyView
    <3> QED BY <3>1 DEF KeptOnce, OnlyJoin
  <2>2. CASE ~EmptyView(TopView)
    <3>1. Work = {<<"view", TopView>>}
      BY <1>1, <2>2 DEF Work
    <3>2. PairsOf(<<"view", TopView>>) = Join(geo)
      BY <1>4, PairsOfTag
    <3> QED BY <3>1, <3>2 DEF KeptOnce, OnlyJoin
  <2> QED BY <2>1, <2>2
<1>6. Covered = {} /\ AtomsAreExact
  BY <1>1 DEF Covered, AtomsAreExact
<1>7. Counted
  BY <1>1, <1>6, FS_EmptySet DEF Counted
<1> QED BY <1>1, <1>3, <1>5, <1>6, <1>7 DEF IInv, PhaseInv, WorkOK

\* A step that does not touch the atoms keeps what is known of them.
LEMMA AtomsStay ==
  ASSUME IInv, geo' = geo, atoms' = atoms, total' = total
  PROVE  AtomsAreExact' /\ Counted'
<1>1. Join(geo)' = Join(geo) /\ \A x : AtomPairs(x)' = AtomPairs(x)
  BY PairsStay
<1>2. Covered' = Covered
  BY <1>1 DEF Covered
<1> QED BY <1>1, <1>2 DEF IInv, AtomsAreExact, Counted

\* A view is opened: its two roots take over its pairs (compile 369-384).
LEMMA OpenViewInvariant ==
  ASSUME IInv, NEW v \in views, OpenView(v)
  PROVE  IInv'
<1> DEFINE b == Root(v, "B")
           a == Root(v, "A")
<1>1. /\ v.level < Dim /\ views' = views \ {v} /\ nodes' = nodes \cup {b, a}
      /\ geo' = geo /\ phase' = phase /\ anchors' = anchors /\ atoms' = atoms
      /\ total' = total
  BY DEF OpenView
<1>2. /\ geo \in Geometry /\ v \in View /\ ~EmptyView(v) /\ TypeOK /\ WorkOK /\ PhaseInv
      /\ KeptOnce /\ OnlyJoin
  BY DEF IInv, TypeOK, WorkOK
<1>3. /\ b \in Node /\ NodeOK(b) /\ a \in Node /\ NodeOK(a)
  BY <1>1, <1>2, RootFacts
<1> HIDE DEF a, b
<1>4. TypeOK'
  BY <1>1, <1>2, <1>3, WorkStays DEF TypeOK
<1>5. WorkOK'
  BY <1>1, <1>2, <1>3, WorkStays DEF WorkOK, IsAnchor
<1>6. PhaseInv'
  BY <1>1, <1>2 DEF PhaseInv
<1>7. KeptOnce' /\ OnlyJoin'
  <2>1. Partitions({<<"node", b>>, <<"node", a>>}, <<"view", v>>)
    BY <1>1, <1>2, OpenViewPartitions DEF a, b
  <2>2. <<"view", v>> \in Work
    BY DEF Work
  <2>3. Work' = (Work \ {<<"view", v>>}) \cup {<<"node", b>>, <<"node", a>>}
    BY <1>1 DEF Work
  <2> QED BY <1>1, <1>2, <2>1, <2>2, <2>3, Replace
<1>8. AtomsAreExact' /\ Counted'
  BY <1>1, AtomsStay
<1> QED BY <1>4, <1>5, <1>6, <1>7, <1>8 DEF IInv

\* A node is routed: its children and its view take over its pairs (route_tree).
LEMMA RouteNodeInvariant ==
  ASSUME IInv, NEW t \in nodes, RouteNode(t)
  PROVE  IInv'
<1> DEFINE v     == NextView(t)
           given == IF EmptyView(v) THEN {} ELSE {v}
<1>1. /\ nodes' = (nodes \ {t}) \cup Children(t) /\ views' = views \cup given
      /\ geo' = geo /\ phase' = phase /\ anchors' = anchors /\ atoms' = atoms
      /\ total' = total
  BY DEF RouteNode
<1>2. /\ geo \in Geometry /\ t \in Node /\ NodeOK(t) /\ TypeOK /\ WorkOK /\ PhaseInv
      /\ KeptOnce /\ OnlyJoin
  BY DEF IInv, TypeOK, WorkOK
<1>3. v \in View /\ \A x \in given : x \in View /\ ~EmptyView(x)
  BY <1>2, NextViewFacts
<1>4. \A c \in Children(t) : c \in Node /\ NodeOK(c)
  <2>1. ASSUME NEW c \in Children(t)
        PROVE  c \in Node /\ NodeOK(c)
    <3>1. t.end - t.begin > 1 /\ c \in {Left(t), Right(t)}
      BY DEF Children, Left, Right
    <3> QED BY <1>2, <3>1, ChildFacts
  <2> QED BY <2>1
<1>5. KeptOnce' /\ OnlyJoin'
  <2> DEFINE new == {<<"node", c>> : c \in Children(t)}
                      \cup (IF EmptyView(v) THEN {} ELSE {<<"view", v>>})
  <2>1. Partitions(new, <<"node", t>>)
    BY <1>2, RouteNodePartitions
  <2>2. <<"node", t>> \in Work
    BY DEF Work
  <2>3. new = {<<"node", c>> : c \in Children(t)} \cup {<<"view", x>> : x \in given}
    OBVIOUS
  <2>4. Work' = (Work \ {<<"node", t>>}) \cup new
    <3> HIDE DEF new, given
    <3> QED BY <1>1, <2>3 DEF Work
  <2> HIDE DEF new
  <2> QED BY <1>1, <1>2, <2>1, <2>2, <2>4, Replace
<1> HIDE DEF v, given
<1>6. TypeOK'
  BY <1>1, <1>2, <1>3, <1>4, WorkStays DEF TypeOK
<1>7. WorkOK'
  BY <1>1, <1>2, <1>3, <1>4, WorkStays DEF WorkOK, IsAnchor
<1>8. PhaseInv'
  BY <1>1, <1>2 DEF PhaseInv
<1>9. AtomsAreExact' /\ Counted'
  BY <1>1, AtomsStay
<1> QED BY <1>5, <1>6, <1>7, <1>8, <1>9 DEF IInv

\* A last view is opened: its anchors take over its pairs (compile 338-343).
LEMMA OpenLastInvariant ==
  ASSUME IInv, NEW v \in views, OpenLast(v)
  PROVE  IInv'
<1> DEFINE ws == [view : {v}, box : v.a \cup v.b]
<1>1. /\ v.level = Dim /\ views' = views \ {v} /\ anchors' = anchors \cup ws
      /\ geo' = geo /\ phase' = phase /\ nodes' = nodes /\ atoms' = atoms
      /\ total' = total
  BY DEF OpenLast
<1>2. /\ geo \in Geometry /\ v \in View /\ ~EmptyView(v) /\ TypeOK /\ WorkOK /\ PhaseInv
      /\ KeptOnce /\ OnlyJoin
  BY DEF IInv, TypeOK, WorkOK
<1>3. \A w \in ws : /\ w \in Anchor /\ w.view.level = Dim
                   /\ w.box \in w.view.a \cup w.view.b
  BY <1>1, <1>2, ViewFacts DEF Anchor
<1>4. KeptOnce' /\ OnlyJoin'
  <2>1. Partitions({<<"anchor", w>> : w \in ws}, <<"view", v>>)
    BY <1>1, <1>2, OpenLastPartitions
  <2>2. <<"view", v>> \in Work
    BY DEF Work
  <2> HIDE DEF ws
  <2>3. Work' = (Work \ {<<"view", v>>}) \cup {<<"anchor", w>> : w \in ws}
    BY <1>1 DEF Work
  <2> QED BY <1>1, <1>2, <2>1, <2>2, <2>3, Replace
<1> HIDE DEF ws
<1>5. TypeOK'
  BY <1>1, <1>2, <1>3, WorkStays DEF TypeOK
<1>6. WorkOK'
  BY <1>1, <1>2, <1>3, WorkStays DEF WorkOK, IsAnchor
<1>7. PhaseInv'
  BY <1>1, <1>2 DEF PhaseInv
<1>8. AtomsAreExact' /\ Counted'
  BY <1>1, AtomsStay
<1> QED BY <1>4, <1>5, <1>6, <1>7, <1>8 DEF IInv

\* A finite set of pairs holds all pairs of the atoms.
LEMMA CoveredFacts ==
  ASSUME OnlyJoin, geo \in Geometry
  PROVE  /\ Covered \subseteq Join(geo)
         /\ IsFiniteSet(Join(geo)) /\ IsFiniteSet(Covered)
         /\ Cardinality(Covered) \in Nat
<1>1. \A x \in atoms : AtomPairs(x) \subseteq Join(geo)
  <2>1. \A x \in atoms : <<"atom", x>> \in Work
    BY DEF Work
  <2> QED BY <2>1, PairsOfTag DEF OnlyJoin
<1>2. Covered \subseteq Join(geo)
  BY <1>1 DEF Covered
<1>3. IsFiniteSet(Join(geo))
  BY FiniteJoin
<1> QED BY <1>2, <1>3, FS_Subset, FS_CardinalityType

\* An anchor becomes an atom, whose weight the total grows by (compile 346-368).
LEMMA MakeAtomInvariant ==
  ASSUME IInv, NEW w \in anchors, MakeAtom(w)
  PROVE  IInv'
<1> DEFINE x   == AtomOf(w)
           new == IF x.lo # x.hi THEN {x} ELSE {}
<1>1. /\ anchors' = anchors \ {w} /\ atoms' = atoms \cup new
      /\ total' = IF x.lo # x.hi THEN total + x.weight ELSE total
      /\ geo' = geo /\ phase' = phase /\ views' = views /\ nodes' = nodes
  BY DEF MakeAtom
<1>2. /\ geo \in Geometry /\ w \in Anchor /\ w.view.level = Dim /\ IsAnchor(w.view, w.box)
      /\ TypeOK /\ WorkOK /\ PhaseInv /\ KeptOnce /\ OnlyJoin /\ AtomsAreExact /\ Counted
  BY DEF IInv, TypeOK, WorkOK
<1>3. /\ x \in Atom /\ AtomPairs(x) = AnchorPairs(w)
      /\ IsFiniteSet(AtomPairs(x)) /\ x.weight = Cardinality(AtomPairs(x))
      /\ x.lo = x.hi => AnchorPairs(w) = {}
  BY <1>2, AtomFacts
<1>4. Join(geo)' = Join(geo) /\ \A y : AtomPairs(y)' = AtomPairs(y)
  BY <1>1, PairsStay
<1>5. <<"anchor", w>> \in Work /\ PairsOf(<<"anchor", w>>) = AnchorPairs(w)
  BY PairsOfTag DEF Work
<1>6. KeptOnce' /\ OnlyJoin'
  <2> DEFINE pieces == IF x.lo # x.hi THEN {<<"atom", x>>} ELSE {}
  <2>1. Partitions(pieces, <<"anchor", w>>)
    BY <1>2, MakeAtomPartitions
  <2>2. pieces = {<<"atom", y>> : y \in new}
    OBVIOUS
  <2>3. Work' = (Work \ {<<"anchor", w>>}) \cup pieces
    <3> HIDE DEF pieces, new
    <3> QED BY <1>1, <2>2 DEF Work
  <2> HIDE DEF pieces
  <2> QED BY <1>1, <1>2, <1>5, <2>1, <2>3, Replace
<1>7. AtomPairs(x) \subseteq Join(geo)
  BY <1>2, <1>3, <1>5 DEF OnlyJoin
<1>8. AtomsAreExact'
  BY <1>1, <1>2, <1>3, <1>4, <1>7 DEF AtomsAreExact
<1>9. AtomPairs(x) \cap Covered = {}
  <2> SUFFICES ASSUME NEW z \in AtomPairs(x), z \in Covered
               PROVE  FALSE
    OBVIOUS
  <2>1. PICK y \in atoms : z \in AtomPairs(y)
    BY DEF Covered
  <2>2. /\ <<"atom", y>> \in Work /\ z \in PairsOf(<<"atom", y>>)
        /\ z \in PairsOf(<<"anchor", w>>) /\ z \in Join(geo)
        /\ <<"atom", y>> # <<"anchor", w>>
    BY <1>3, <1>5, <1>7, <2>1, PairsOfTag DEF Work
  <2> HIDE DEF x
  <2> QED BY <1>2, <1>5, <2>2 DEF KeptOnce
<1>10. Counted'
  <2>1. CASE x.lo # x.hi
    <3>1. Covered' = Covered \cup AtomPairs(x)
      BY <1>1, <1>4, <2>1 DEF Covered
    <3>2. Cardinality(Covered \cup AtomPairs(x))
            = Cardinality(Covered) + Cardinality(AtomPairs(x)) - Cardinality(Covered \cap AtomPairs(x))
      BY <1>2, <1>3, CoveredFacts, FS_Union
    <3>3. Cardinality(Covered \cap AtomPairs(x)) = 0
      BY <1>9, FS_EmptySet
    <3>4. Cardinality(Covered) \in Nat /\ Cardinality(AtomPairs(x)) \in Nat
      BY <1>2, <1>3, CoveredFacts, FS_CardinalityType
    <3>5. total' = Cardinality(Covered) + Cardinality(AtomPairs(x))
      BY <1>1, <1>2, <1>3, <2>1 DEF Counted
    <3> QED BY <3>1, <3>2, <3>3, <3>4, <3>5 DEF Counted
  <2>2. CASE x.lo = x.hi
    <3>1. Covered' = Covered /\ total' = total
      BY <1>1, <1>4, <2>2 DEF Covered
    <3> QED BY <1>2, <3>1 DEF Counted
  <2> QED BY <2>1, <2>2
<1>11. TypeOK'
  <2>1. atoms' \subseteq Atom
    BY <1>1, <1>2, <1>3 DEF TypeOK
  <2>2. total' \in Nat
    BY <1>1, <1>2, <1>3, FS_CardinalityType DEF TypeOK
  <2> HIDE DEF new
  <2> QED BY <1>1, <1>2, <2>1, <2>2, WorkStays DEF TypeOK
<1> HIDE DEF x, new
<1>12. WorkOK'
  BY <1>1, <1>2, WorkStays DEF WorkOK, IsAnchor
<1>13. PhaseInv'
  BY <1>1, <1>2 DEF PhaseInv
<1> QED BY <1>6, <1>8, <1>10, <1>11, <1>12, <1>13 DEF IInv

\* The end of the constructor, and calls, change no work.
LEMMA CallInvariant ==
  ASSUME IInv, UNCHANGED <<geo, work, atoms, total>>,
         phase' \in {"compile", "idle"}, phase' = "idle" => views = {} /\ nodes = {} /\ anchors = {}
  PROVE  IInv'
<1>1. /\ geo' = geo /\ views' = views /\ nodes' = nodes /\ anchors' = anchors
      /\ atoms' = atoms /\ total' = total
  BY DEF work
<1>2. TypeOK /\ WorkOK /\ KeptOnce /\ OnlyJoin
  BY DEF IInv
<1>3. TypeOK'
  BY <1>1, <1>2, WorkStays DEF TypeOK
<1>4. WorkOK'
  BY <1>1, <1>2, WorkStays DEF WorkOK, IsAnchor
<1>5. PhaseInv'
  BY <1>1 DEF PhaseInv
<1>6. KeptOnce' /\ OnlyJoin'
  <2>1. Work' = Work
    BY <1>1 DEF Work
  <2>2. Join(geo)' = Join(geo) /\ \A w : PairsOf(w)' = PairsOf(w)
    BY <1>1, PairsStay
  <2> QED BY <1>2, <2>1, <2>2 DEF KeptOnce, OnlyJoin
<1>7. AtomsAreExact' /\ Counted'
  BY <1>1, AtomsStay
<1> QED BY <1>3, <1>4, <1>5, <1>6, <1>7 DEF IInv

\* Every reachable state satisfies the invariant.
THEOREM Inductive == Spec => []IInv
<1>1. ASSUME IInv, [Next]_vars
      PROVE  IInv'
  <2>1. ASSUME NEW v \in views, OpenView(v)
        PROVE  IInv'
    BY <1>1, <2>1, OpenViewInvariant
  <2>2. ASSUME NEW v \in views, OpenLast(v)
        PROVE  IInv'
    BY <1>1, <2>2, OpenLastInvariant
  <2>3. ASSUME NEW t \in nodes, RouteNode(t)
        PROVE  IInv'
    BY <1>1, <2>3, RouteNodeInvariant
  <2>4. ASSUME NEW w \in anchors, MakeAtom(w)
        PROVE  IInv'
    BY <1>1, <2>4, MakeAtomInvariant
  <2>5. CASE Compiled
    <3>1. /\ UNCHANGED <<geo, work, atoms, total>> /\ phase' = "idle"
          /\ views = {} /\ nodes = {} /\ anchors = {}
      BY <2>5 DEF Compiled
    <3> QED BY <1>1, <3>1, CallInvariant
  <2>6. CASE Count \/ (\E k \in 0 .. MaxOutput : Sample(k)) \/ UNCHANGED vars
    <3>1. UNCHANGED <<geo, phase, work, atoms, total>>
      BY <2>6 DEF Count, Sample, vars
    <3>2. phase' \in {"compile", "idle"}
      BY <1>1, <3>1 DEF IInv, TypeOK
    <3>3. phase' = "idle" => views = {} /\ nodes = {} /\ anchors = {}
      BY <1>1, <3>1 DEF IInv, PhaseInv
    <3> QED BY <1>1, <3>1, <3>2, <3>3, CallInvariant
  <2> QED BY <1>1, <2>1, <2>2, <2>3, <2>4, <2>5, <2>6 DEF Next, Construct
<1> QED BY <1>1, InitInvariant, PTL DEF Spec

-----------------------------------------------------------------------------
(* Results.                                                                *)

\* Views, nodes and atoms keep their types: no interval runs backwards and no
\* weight is negative.
THEOREM TypeCorrect == Spec => []TypeOK
BY Inductive, PTL DEF IInv

\* At every step of the construction each pair of the join is in exactly one
\* piece of work.
THEOREM AlwaysKeptOnce == Spec => []KeptOnce
BY Inductive, PTL DEF IInv

\* An atom weighs as many pairs as it stands for, all of them in the join.
THEOREM AtomsAreAlwaysExact == Spec => []AtomsAreExact
BY Inductive, PTL DEF IInv

\* Once the constructor is done the atoms hold the join and nothing else.
LEMMA CoveredIsJoin ==
  ASSUME IInv, phase = "idle"
  PROVE  /\ Covered = Join(geo) /\ total = Cardinality(Join(geo))
         /\ total = 0 <=> Join(geo) = {}
<1>1. Work = {<<"atom", x>> : x \in atoms}
  BY DEF IInv, PhaseInv, Work
<1>2. \A x \in atoms : PairsOf(<<"atom", x>>) = AtomPairs(x)
  BY PairsOfTag
<1>3. Join(geo) \subseteq Covered
  <2>1. \A z \in Join(geo) : \E w \in Work : z \in PairsOf(w)
    BY DEF IInv, KeptOnce
  <2> QED BY <1>1, <1>2, <2>1 DEF Covered
<1>4. /\ Covered \subseteq Join(geo) /\ IsFiniteSet(Join(geo))
  BY CoveredFacts DEF IInv, TypeOK
<1>5. Covered = Join(geo)
  BY <1>3, <1>4
<1>6. total = Cardinality(Join(geo))
  BY <1>5 DEF IInv, Counted
<1> QED BY <1>4, <1>5, <1>6, FS_EmptySet

\* count() is the size of the join.
THEOREM CountIsAlwaysExact == Spec => []CountIsExact
<1>1. IInv => CountIsExact
  BY CoveredIsJoin DEF CountIsExact
<1> QED BY <1>1, Inductive, PTL

\* The compiled sampler answers every call as the abstract one may.
THEOREM CompiledImplementsSampler == Spec => IsJoinSampler
<1>1. Init => Sampler!Init
  BY DEF Init, Sampler!Init
<1>2. ASSUME IInv, [Next]_vars
      PROVE  [Sampler!Next]_<<Join(geo), TRUE, reply>>
  <2>1. UNCHANGED geo
    BY <1>2 DEF Next, vars, Construct, OpenView, OpenLast, RouteNode, MakeAtom,
         Compiled, Count, Sample
  <2>2. UNCHANGED <<Join(geo), TRUE>>
    BY <2>1, PairsStay
  <2>3. CASE Construct \/ UNCHANGED vars
    <3>1. UNCHANGED reply
      BY <2>3 DEF Construct, OpenView, OpenLast, RouteNode, MakeAtom, Compiled, vars
    <3> QED BY <2>2, <3>1
  <2>4. CASE Count
    <3>1. Cardinality(Join(geo)) = Sampler!Cardinality(Join(geo))
      BY Zenon DEF Cardinality, Sampler!Cardinality
    <3>2. total = Cardinality(Join(geo)) /\ reply' = Sampler!CountReply(total)
      BY <1>2, <2>4, CoveredIsJoin DEF Count
    <3> QED BY <2>2, <3>1, <3>2 DEF Sampler!Next, Sampler!Count
  <2>5. ASSUME NEW k \in 0 .. MaxOutput, Sample(k)
        PROVE  Sampler!Next
    <3>1. Covered = Join(geo) /\ (total = 0 <=> Join(geo) = {})
      BY <1>2, <2>5, CoveredIsJoin DEF Sample
    <3>2. CASE k = 0 /\ reply' = Sampler!SampleReply(<<>>)
      <4>1. <<>> \in [1 .. 0 -> Join(geo)]
        OBVIOUS
      <4>2. Sampler!Fill(0)
        BY <2>2, <3>2, <4>1 DEF Sampler!Fill
      <4> QED BY <3>2, <4>2 DEF Sampler!Next
    <3>3. CASE k > 0 /\ total = 0 /\ reply' = Sampler!EmptyReply
      BY <2>2, <3>1, <3>3 DEF Sampler!Next, Sampler!Empty
    <3>4. CASE /\ k > 0 /\ total # 0
               /\ \E out \in [1 .. k -> Covered] : reply' = Sampler!SampleReply(out)
      <4>1. Sampler!Fill(k)
        BY <2>2, <3>1, <3>4 DEF Sampler!Fill
      <4> QED BY <4>1 DEF Sampler!Next
    <3> QED BY <2>5, <3>2, <3>3, <3>4 DEF Sample, Covered
  <2> QED BY <1>2, <2>3, <2>4, <2>5 DEF Next
<1> QED BY <1>1, <1>2, Inductive, PTL DEF Spec, IsJoinSampler, Sampler!Spec
=============================================================================
