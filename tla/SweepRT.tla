------------------------------ MODULE SweepRT ------------------------------
(***************************************************************************)
(* The plane-sweep sampler, class SweepRangeTree of                        *)
(* cpp/include/anchor/algorithms.hpp.  Its constructor sweeps the START    *)
(* and END events of all boxes along the first dimension and weighs each   *)
(* START event with the number of active partners of the box that starts   *)
(* (pass 1).  A call of sample draws an event for each place of the output *)
(* by its weight, then sweeps again and draws, at each chosen event, a     *)
(* partner for each of its places (pass 2).  Both passes end with every    *)
(* point inactive, and the object serves any number of calls.              *)
(*                                                                         *)
(* The sorted vector of events is the set pending of those not yet swept,  *)
(* of which each step takes the least; an event's start_index is the box   *)
(* that starts.  The index of active points of each side is an             *)
(* ActiveIndex: the dense array when Dim = 1, else the range tree, whose   *)
(* answer to a query is the set of active points in the query's range.     *)
(* The 128-bit sums cannot overflow: a weight is at most |R| or |S|.  A    *)
(* step is taken only where the code does not throw; Throws names the      *)
(* states where it would, and NoLogicError says that there is none.        *)
(*                                                                         *)
(* BeforeStartFirst and DrawWanted are mistakes that the properties must   *)
(* refute.                                                                 *)
(***************************************************************************)
EXTENDS BoxJoin

VARIABLES geo,               \* the input
          buildIndex,        \* SamplerOptions::build_sampling_index
          phase,             \* what the object is doing
          pending,           \* events of the current pass not yet swept
          activeR, activeS,  \* the active points of each side
          weights, total,    \* pass 1: of each START event, and their sum
          positions,         \* pass 2: the event drawn for each place
          output,            \* pass 2: the caller's span
          reply              \* what the last call returned

input == <<geo, buildIndex>>
index == <<activeR, activeS>>
vars  == <<input, phase, pending, index, weights, total, positions, output,
           reply>>

IndexR  == INSTANCE ActiveIndex WITH Universe <- R, active <- activeR
IndexS  == INSTANCE ActiveIndex WITH Universe <- S, active <- activeS
Sampler == INSTANCE JoinSampler WITH join <- Join(geo), indexed <- buildIndex

Phases == {"pass1", "idle", "pass2"}
NoPair == <<>>               \* a place the pass has not written yet

-----------------------------------------------------------------------------
(* Events and their order.                                                 *)

Event          == [box : Box, end : BOOLEAN]
Events(g)      == [box : Valid(g), end : BOOLEAN]
Coordinate(g, e) == IF e.end THEN g[e.box].hi[1] ELSE g[e.box].lo[1]

BeforeStartFirst(g, e, f) ==
  \/ Coordinate(g, e) < Coordinate(g, f)
  \/ /\ Coordinate(g, e) = Coordinate(g, f)
     /\ \/ ~e.end /\ f.end
        \/ e.end = f.end /\ e.box < f.box

\* At one coordinate END comes before START: a box that ends where another
\* starts only touches it.
Before(g, e, f) ==
  \/ Coordinate(g, e) < Coordinate(g, f)
  \/ /\ Coordinate(g, e) = Coordinate(g, f)
     /\ \/ e.end /\ ~f.end
        \/ e.end = f.end /\ e.box < f.box

IsNext(e) == e \in pending /\ \A f \in pending \ {e} : Before(geo, e, f)

-----------------------------------------------------------------------------
(* The index of active points.                                             *)

Active      == activeR \cup activeS
Other(b)    == IF b \in R THEN activeS ELSE activeR
Partners(b) == {p \in Other(b) : Meets(geo, b, p, 2 .. Dim)}
PairOf(b, p) == IF b \in R THEN <<b, p>> ELSE <<p, b>>

Activate(b) ==
  \/ b \in R /\ IndexR!Insert(b) /\ UNCHANGED activeS
  \/ b \in S /\ IndexS!Insert(b) /\ UNCHANGED activeR

Deactivate(b) ==
  \/ b \in R /\ IndexR!Erase(b) /\ UNCHANGED activeS
  \/ b \in S /\ IndexS!Erase(b) /\ UNCHANGED activeR

\* Either index throws when it is asked to repeat itself.
Repeats(e) == IF e.end THEN e.box \notin Active ELSE e.box \in Active

-----------------------------------------------------------------------------
(* The constructor: pass 1, which runs only when both sides have a valid   *)
(* box.  Count-only callers do not ask for the sampling index.             *)

Sweeps(g) == Valid(g) \cap R # {} /\ Valid(g) \cap S # {}

Init ==
  /\ geo \in Geometry
  /\ buildIndex \in BOOLEAN
  /\ phase = IF Sweeps(geo) THEN "pass1" ELSE "idle"
  /\ pending = IF Sweeps(geo) THEN Events(geo) ELSE {}
  /\ activeR = {} /\ activeS = {}
  /\ weights = [b \in Valid(geo) |-> 0]
  /\ total = 0
  /\ positions = <<>> /\ output = <<>>
  /\ reply = Sampler!NoReply

WeighStart(e) ==
  LET w == Cardinality(Partners(e.box)) IN
  /\ phase = "pass1" /\ IsNext(e) /\ ~e.end /\ ~Repeats(e)
  /\ weights' = [weights EXCEPT ![e.box] = w]
  /\ total' = total + w
  /\ Activate(e.box)
  /\ pending' = pending \ {e}
  /\ UNCHANGED <<input, phase, positions, output, reply>>

PassEnd(e) ==
  /\ phase \in {"pass1", "pass2"} /\ IsNext(e) /\ e.end /\ ~Repeats(e)
  /\ Deactivate(e.box)
  /\ pending' = pending \ {e}
  /\ UNCHANGED <<input, phase, weights, total, positions, output, reply>>

\* ensure_all_inactive at the end of pass 1.
Constructed ==
  /\ phase = "pass1" /\ pending = {} /\ Active = {}
  /\ phase' = "idle"
  /\ UNCHANGED <<input, pending, index, weights, total, positions, output,
                 reply>>

-----------------------------------------------------------------------------
(* Calls.                                                                  *)

\* The destinations of one event, and the draws of partners for them.
Places(b) == {i \in DOMAIN positions : positions[i] = b}

Count ==
  /\ phase = "idle"
  /\ reply' = Sampler!CountReply(total)
  /\ UNCHANGED <<input, phase, pending, index, weights, total, positions,
                 output>>

\* The calls of sample that return, or throw, before any draw.
SampleNothing(k) ==
  /\ phase = "idle"
  /\ \/ k = 0 /\ reply' = Sampler!SampleReply(<<>>)
     \/ k > 0 /\ total = 0 /\ reply' = Sampler!EmptyReply
     \/ k > 0 /\ total # 0 /\ ~buildIndex /\ reply' = Sampler!NoIndexReply
  /\ UNCHANGED <<input, phase, pending, index, weights, total, positions,
                 output>>

\* The alias draws any event of positive weight.
BeginSample(k) ==
  /\ phase = "idle" /\ k > 0 /\ total # 0 /\ buildIndex /\ Active = {}
  /\ positions' \in [1 .. k -> {b \in Valid(geo) : weights[b] > 0}]
  /\ output' = [i \in 1 .. k |-> NoPair]
  /\ pending' = Events(geo)
  /\ phase' = "pass2"
  /\ reply' = Sampler!NoReply
  /\ UNCHANGED <<input, index, weights, total>>

DrawWanted(e) ==
  /\ phase = "pass2" /\ IsNext(e) /\ ~e.end /\ ~Repeats(e)
  /\ \E partner \in [Places(e.box) -> Partners(e.box)] :
       output' = [i \in DOMAIN output |->
                    IF i \in Places(e.box) THEN PairOf(e.box, partner[i])
                                           ELSE output[i]]
  /\ IF Places(e.box) # {} THEN Activate(e.box) ELSE UNCHANGED index
  /\ pending' = pending \ {e}
  /\ UNCHANGED <<input, phase, weights, total, positions, reply>>

DrawStart(e) ==
  /\ phase = "pass2" /\ IsNext(e) /\ ~e.end /\ ~Repeats(e)
  /\ \E partner \in [Places(e.box) -> Partners(e.box)] :
       output' = [i \in DOMAIN output |->
                    IF i \in Places(e.box) THEN PairOf(e.box, partner[i])
                                           ELSE output[i]]
  /\ Activate(e.box)
  /\ pending' = pending \ {e}
  /\ UNCHANGED <<input, phase, weights, total, positions, reply>>

EndSample ==
  /\ phase = "pass2" /\ pending = {} /\ Active = {}
  /\ phase' = "idle"
  /\ reply' = Sampler!SampleReply(output)
  /\ positions' = <<>> /\ output' = <<>>
  /\ UNCHANGED <<input, pending, index, weights, total>>

Construct == Constructed \/ \E e \in Event : WeighStart(e)
Sample ==
  \/ \E k \in 0 .. MaxOutput : SampleNothing(k) \/ BeginSample(k)
  \/ \E e \in Event : DrawStart(e)
  \/ EndSample

Next == Construct \/ Count \/ Sample \/ \E e \in Event : PassEnd(e)

Spec == Init /\ [][Next]_vars

-----------------------------------------------------------------------------
(* Properties.                                                             *)

TypeOK ==
  /\ geo \in Geometry
  /\ buildIndex \in BOOLEAN
  /\ phase \in Phases
  /\ pending \subseteq Events(geo)
  /\ activeR \subseteq R /\ activeS \subseteq S
  /\ weights \in [Valid(geo) -> Nat]
  /\ total \in Nat
  /\ \E k \in 0 .. MaxOutput :
       /\ positions \in [1 .. k -> Valid(geo)]
       /\ output \in [1 .. k -> Pair \cup {NoPair}]

\* The pairs whose later START event is that of b: the block of b.
Started(b) == [box |-> b, end |-> FALSE]
Owner(p) ==
  IF Before(geo, Started(p[1]), Started(p[2])) THEN p[2] ELSE p[1]
Block(b) == {p \in Join(geo) : Owner(p) = b}

\* No pair is counted twice or missed: when the constructor returns, count()
\* is the size of the join, on every input, with empty boxes, boxes that only
\* touch and equal boxes among them (pass1, 747-761).
CountIsExact == phase = "idle" => total = Cardinality(Join(geo))

\* The blocks of the START events partition the join: each weight is the
\* number of pairs whose second box starts at that event.
WeightsAreBlocks ==
  phase # "pass1" => \A b \in Valid(geo) : weights[b] = Cardinality(Block(b))

\* Pass 2 sees at each START event the partners that pass 1 weighed, and they
\* are the block of that event.  A draw of an event by its weight and then of
\* one of its partners is therefore a uniform draw of a pair: a pass that
\* found another set would bias the sample without failing.
DrawIsUniform ==
  phase = "pass2" =>
    \A e \in pending : IsNext(e) /\ ~e.end =>
      /\ {PairOf(e.box, p) : p \in Partners(e.box)} = Block(e.box)
      /\ Cardinality(Partners(e.box)) = weights[e.box]

\* The states in which the code throws std::logic_error: it would repeat an
\* activation, it has chosen an event without partners, or a pass begins or
\* ends with an active point.
Throws ==
  \/ \E e \in pending : IsNext(e) /\ Repeats(e)
  \/ \E e \in pending : /\ phase = "pass2" /\ IsNext(e) /\ ~e.end
                       /\ Places(e.box) # {} /\ Partners(e.box) = {}
  \/ pending = {} /\ Active # {}

\* The code's own assertions never fail, whatever the input and however many
\* calls the object has served.
NoLogicError == ~Throws

\* Every call answers as JoinSampler says.
IsJoinSampler == Sampler!Spec
=============================================================================
