--------------------------- MODULE AnchorCompiled ---------------------------
(***************************************************************************)
(* The compiled ANCHOR sampler, class AnchorCompiled of                    *)
(* cpp/include/anchor/algorithms.hpp.  Its constructor walks through all   *)
(* views and keeps the atoms of the last level: an anchor, the points of   *)
(* the other side in the order of their lower coordinates, and an interval *)
(* of ranks.  A draw takes an atom by its weight and a rank of its         *)
(* interval.                                                               *)
(*                                                                         *)
(* The constructor's recursion is a set of work that is left: views to     *)
(* open, nodes to route, anchors of a last view to turn into atoms.  A     *)
(* step takes any of it.  The code's order, which is one of them, decides  *)
(* only in which order the atoms stand, and nothing depends on that.       *)
(*                                                                         *)
(* AtomsOfR is a mistake that the properties must refute.                  *)
(***************************************************************************)
EXTENDS AnchorRoute

VARIABLES phase,            \* "compile" in the constructor, then "idle"
          views, nodes,     \* what is still to open and to route
          anchors,          \* what is still to turn into atoms
          atoms, total,
          reply             \* what the last call returned

work == <<views, nodes, anchors>>
vars == <<geo, phase, work, atoms, total, reply>>

Sampler == INSTANCE JoinSampler WITH join <- Join(geo), indexed <- TRUE

Init ==
  /\ geo \in Geometry
  /\ phase = "compile"
  /\ views = IF EmptyView(TopView) THEN {} ELSE {TopView}
  /\ nodes = {} /\ anchors = {} /\ atoms = {} /\ total = 0
  /\ reply = Sampler!NoReply

-----------------------------------------------------------------------------
(* The constructor.                                                        *)

OpenView(v) ==
  /\ v \in views /\ v.level < Dim
  /\ views' = views \ {v}
  /\ nodes' = nodes \cup {Root(v, "B"), Root(v, "A")}
  /\ UNCHANGED <<geo, phase, anchors, atoms, total, reply>>

RouteNode(t) ==
  /\ t \in nodes
  /\ nodes' = (nodes \ {t}) \cup Children(t)
  /\ views' = IF EmptyView(NextView(t)) THEN views ELSE views \cup {NextView(t)}
  /\ UNCHANGED <<geo, phase, anchors, atoms, total, reply>>

AtomsOfR(v) ==
  /\ v \in views /\ v.level = Dim
  /\ views' = views \ {v}
  /\ anchors' = anchors \cup [view : {v}, box : v.a]
  /\ UNCHANGED <<geo, phase, nodes, atoms, total, reply>>

\* Either side of a last view has its anchors.
OpenLast(v) ==
  /\ v \in views /\ v.level = Dim
  /\ views' = views \ {v}
  /\ anchors' = anchors \cup [view : {v}, box : v.a \cup v.b]
  /\ UNCHANGED <<geo, phase, nodes, atoms, total, reply>>

MakeAtom(w) ==
  /\ w \in anchors
  /\ anchors' = anchors \ {w}
  /\ IF AtomOf(w).lo # AtomOf(w).hi
       THEN atoms' = atoms \cup {AtomOf(w)} /\ total' = total + AtomOf(w).weight
       ELSE UNCHANGED <<atoms, total>>
  /\ UNCHANGED <<geo, phase, views, nodes, reply>>

Compiled ==
  /\ phase = "compile" /\ views = {} /\ nodes = {} /\ anchors = {}
  /\ phase' = "idle"
  /\ UNCHANGED <<geo, work, atoms, total, reply>>

-----------------------------------------------------------------------------
(* Calls.                                                                  *)

Count ==
  /\ phase = "idle"
  /\ reply' = Sampler!CountReply(total)
  /\ UNCHANGED <<geo, phase, work, atoms, total>>

\* Each place is drawn on its own: an atom, which all have positive weight,
\* and a rank of it.
Sample(k) ==
  /\ phase = "idle"
  /\ \/ k = 0 /\ reply' = Sampler!SampleReply(<<>>)
     \/ k > 0 /\ total = 0 /\ reply' = Sampler!EmptyReply
     \/ /\ k > 0 /\ total # 0
        /\ \E out \in [1 .. k -> UNION {AtomPairs(x) : x \in atoms}] :
             reply' = Sampler!SampleReply(out)
  /\ UNCHANGED <<geo, phase, work, atoms, total>>

Construct ==
  \/ \E v \in views : OpenView(v) \/ OpenLast(v)
  \/ \E t \in nodes : RouteNode(t)
  \/ \E w \in anchors : MakeAtom(w)
  \/ Compiled

Next == Construct \/ Count \/ \E k \in 0 .. MaxOutput : Sample(k)

Spec == Init /\ [][Next]_vars

-----------------------------------------------------------------------------
(* Properties.                                                             *)

TypeOK ==
  /\ geo \in Geometry
  /\ phase \in {"compile", "idle"}
  /\ views \subseteq View /\ nodes \subseteq Node /\ anchors \subseteq Anchor
  /\ atoms \subseteq Atom
  /\ total \in Nat

\* The pieces of work, done or left; each stands for pairs.
Work == {<<"view", v>> : v \in views} \cup {<<"node", t>> : t \in nodes}
        \cup {<<"anchor", w>> : w \in anchors} \cup {<<"atom", x>> : x \in atoms}

\* Routing neither loses a pair nor hands it out twice: at any time each pair
\* of the join is in exactly one piece of work, through ties of lower
\* coordinates, equal boxes, padding leaves and anchors that stop at several
\* nodes (route_tree 290-409, compile).
KeptOnce ==
  \A p \in Join(geo) : \E w \in Work :
    p \in PairsOf(w) /\ \A x \in Work \ {w} : p \notin PairsOf(x)

\* A draw is uniform: the weight of an atom is the number of its pairs, and
\* all of them intersect.
AtomsAreExact ==
  \A x \in atoms : /\ x.weight = Cardinality(AtomPairs(x))
                   /\ AtomPairs(x) \subseteq Join(geo)

\* count() is the size of the join.
CountIsExact == phase = "idle" => total = Cardinality(Join(geo))

\* Every call answers as JoinSampler says.
IsJoinSampler == Sampler!Spec
=============================================================================
