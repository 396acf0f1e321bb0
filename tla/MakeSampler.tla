---------------------------- MODULE MakeSampler ----------------------------
(***************************************************************************)
(* make_sampler of cpp/include/anchor/algorithms.hpp, for the two          *)
(* algorithms that rest on range trees: the caller names one, and from     *)
(* then on sees only the interface, so both must keep the promise of       *)
(* JoinSampler on the same input.  The two objects share the names of      *)
(* their variables; kind says whose they are.                              *)
(***************************************************************************)
EXTENDS SweepRT, AliasTable

VARIABLES kind,             \* AlgorithmKind of the object
          rows, degrees     \* of LiftedRT only

Lifted == INSTANCE LiftedRT

ofSweep  == <<pending, index, weights>>
ofLifted == <<rows, degrees>>

MakeSweep ==
  /\ kind = "SweepRT"
  /\ Init
  /\ rows = {} /\ degrees = <<>>

MakeLifted ==
  /\ kind = "LiftedRT"
  /\ Lifted!Init
  /\ pending = {} /\ activeR = {} /\ activeS = {} /\ weights = <<>>

UseSweep  == kind = "SweepRT" /\ Next /\ UNCHANGED <<kind, ofLifted>>
UseLifted == kind = "LiftedRT" /\ Lifted!Next /\ UNCHANGED <<kind, ofSweep>>

MakeSpec == (MakeSweep \/ MakeLifted) /\ [][UseSweep \/ UseLifted]_<<vars, kind, ofLifted>>

\* What the caller of either object relies on: see LiftedRT.
RowIsUniform == kind = "LiftedRT" => Lifted!RowIsUniform

\* The weights in the order of the START events, and the positive degrees in
\* the order of the boxes.
EventWeights ==
  LET starts == {Started(b) : b \in Valid(geo)}
      order  == InOrder(starts, {p \in starts \X starts : Before(geo, p[1], p[2])})
  IN [i \in DOMAIN order |-> weights[order[i].box]]
AnchorDegrees ==
  LET anchors == Stack({a \in DOMAIN degrees : degrees[a] > 0})
  IN [i \in DOMAIN anchors |-> degrees[anchors[i]]]

\* The table the constructor builds draws each START event, or each box of R,
\* by exactly its share of the join, which BeginSample leaves open (pass1 and
\* sample, 547 and 605; 859 and 901): the columns that borrow from one index
\* may take no more than it has over.
DrawIsProportional ==
  phase = "idle" /\ total > 0 =>
    Proportional(IF kind = "SweepRT" THEN EventWeights ELSE AnchorDegrees)
=============================================================================
