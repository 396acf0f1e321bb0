--------------------------- MODULE AnchorStreaming ---------------------------
(***************************************************************************)
(* The streaming ANCHOR sampler, class AnchorStreaming of                  *)
(* cpp/include/anchor/algorithms.hpp.  It keeps the top view only.  A call *)
(* of sample counts the pairs below every node of the two trees of a view, *)
(* draws how many of its places each node is to fill (its quota), and      *)
(* routes the view once more, through the nodes with a quota below them,   *)
(* to fill the slices of the output one after the other by the same        *)
(* procedure.  A last view fills its slice from its atoms.  Each slice is  *)
(* shuffled when it is full.                                               *)
(*                                                                         *)
(* The recursion is a stack of frames, one for each call that is active.   *)
(* The cases in which the code throws are left out of the guards:          *)
(* NoLogicError says that none of them comes up.                           *)
(*                                                                         *)
(* WeightOfCorners and ActiveIfAsked are mistakes that the properties must *)
(* refute.                                                                 *)
(***************************************************************************)
EXTENDS AnchorRoute, SequencesExt

VARIABLES stack,            \* the active calls, the one that runs last
          output,           \* the caller's places, <<>> where none is written
          joinCount,        \* diagnostics().join_count
          reply,            \* what the last call returned
          opened            \* history: the paths whose streams this call used

vars == <<geo, stack, output, joinCount, reply, opened>>

Sampler == INSTANCE JoinSampler WITH join <- Join(geo), indexed <- TRUE

Tree == {"B", "A"}

-----------------------------------------------------------------------------
(* Counting: every node of both trees hands its view on.                   *)

NodesFrom[t \in Node] == {t} \cup UNION {NodesFrom[c] : c \in Children(t)}
Nodes(v) == NodesFrom[Root(v, "B")] \cup NodesFrom[Root(v, "A")]

Atoms(v) ==
  {x \in {AtomOf([view |-> v, box |-> p]) : p \in v.a \cup v.b} : x.lo # x.hi}

\* The sum of w[x] over x is the size of a set with w[x] elements for each x.
SumOf(w) == Cardinality(UNION {{x} \X (1 .. w[x]) : x \in DOMAIN w})

SizeOf[v \in View] ==
  IF EmptyView(v) THEN 0
  ELSE IF v.level = Dim THEN SumOf([x \in Atoms(v) |-> x.weight])
  ELSE SumOf([t \in Nodes(v) |-> SizeOf[NextView(t)]])

WeightOfCorners(t) == Cardinality(Stop(t)) * Cardinality(t.lattice)
WeightOf(t)        == SizeOf[NextView(t)]

-----------------------------------------------------------------------------
(* A frame: the call that fills size places of the output, from first on,  *)
(* with pairs below the view.  So far it has filled cursor of them.        *)

FrameOf(v, first, size) ==
  [view |-> v, step |-> "open", first |-> first, size |-> size, cursor |-> 0,
   quota |-> <<>>, queue |-> [tree \in Tree |-> <<>>]]

\* How often each node is drawn; those that are not have no quota.
Quotas(draws) ==
  [k \in Range(draws) |-> Cardinality({i \in DOMAIN draws : draws[i] = k})]

ActiveIfAsked(quota, t) == KeyOf(t) \in DOMAIN quota

\* Some node from t down has a quota.
Active(quota, t) ==
  \E k \in DOMAIN quota : k.tree = t.tree /\ t.begin <= k.begin /\ k.end <= t.end
Queued(quota, t) == IF Active(quota, t) THEN <<t>> ELSE <<>>
QueuedChildren(quota, t) ==
  LET child(c) == IF c \in Children(t) THEN Queued(quota, c) ELSE <<>>
  IN  child(Left(t)) \o child(Right(t))

\* The tree over S is routed before the tree over R.
Current(f) == IF f.queue["B"] # <<>> THEN "B" ELSE "A"
Routed(f)  == \A tree \in Tree : f.queue[tree] = <<>>
HeadOf(f)  == Head(f.queue[Current(f)])

FirstOfChild(f)  == f.first + f.cursor

Written(first, values) ==
  [i \in DOMAIN output |->
     IF i - first \in DOMAIN values THEN values[i - first] ELSE output[i]]

-----------------------------------------------------------------------------
(* Calls.                                                                  *)

Init ==
  /\ geo \in Geometry
  /\ stack = <<>> /\ output = <<>> /\ joinCount = 0 /\ opened = {}
  /\ reply = Sampler!NoReply

Count ==
  /\ stack = <<>>
  /\ joinCount' = SizeOf[TopView]
  /\ reply' = Sampler!CountReply(SizeOf[TopView])
  /\ UNCHANGED <<geo, stack, output, opened>>

Sample(k) ==
  /\ stack = <<>>
  /\ \/ /\ k = 0 /\ reply' = Sampler!SampleReply(<<>>)
        /\ UNCHANGED <<stack, output, joinCount>>
     \/ /\ k > 0 /\ EmptyView(TopView)
        /\ joinCount' = 0 /\ reply' = Sampler!EmptyReply
        /\ UNCHANGED <<stack, output>>
     \/ /\ k > 0 /\ ~EmptyView(TopView)
        /\ stack' = <<FrameOf(TopView, 0, k)>>
        /\ output' = [i \in 1 .. k |-> <<>>]
        /\ reply' = Sampler!NoReply
        /\ UNCHANGED joinCount
  /\ opened' = {}
  /\ UNCHANGED geo

-----------------------------------------------------------------------------
(* Inside a call.                                                          *)

Top     == stack[Len(stack)]
Opening == stack # <<>> /\ Top.step = "open"
Routing == stack # <<>> /\ Top.step = "route" /\ ~Routed(Top)
Closing == stack # <<>> /\ Top.step = "route" /\ Routed(Top)

\* The call that runs returns, and the bottom one returns to the caller.
Return(out) ==
  IF Len(stack) = 1
  THEN stack' = <<>> /\ output' = <<>> /\ reply' = Sampler!SampleReply(out)
  ELSE /\ stack' = [Front(stack) EXCEPT ![Len(stack) - 1].cursor = @ + Top.size]
       /\ output' = out /\ UNCHANGED reply

\* A view that has no pair: the caller's instance, or else the code throws.
OpenEmpty ==
  /\ Opening /\ Len(stack) = 1 /\ SizeOf[Top.view] = 0
  /\ joinCount' = 0 /\ reply' = Sampler!EmptyReply
  /\ stack' = <<>> /\ output' = <<>>
  /\ UNCHANGED <<geo, opened>>

Observe ==
  /\ Opening /\ SizeOf[Top.view] > 0
  /\ joinCount' = IF Len(stack) = 1 THEN SizeOf[Top.view] ELSE joinCount
  /\ opened' = opened \cup {Top.view.path}
  /\ UNCHANGED geo

\* Each place of a last view is drawn on its own.
OpenLast ==
  /\ Observe /\ Top.view.level = Dim
  /\ \E draws \in [1 .. Top.size -> UNION {AtomPairs(x) : x \in Atoms(Top.view)}] :
       Return(Written(Top.first, draws))

\* Each place of the slice is given to a node, drawn by its weight.
OpenInner ==
  /\ Observe /\ Top.view.level < Dim
  /\ \E draws \in [1 .. Top.size ->
                     {KeyOf(t) : t \in {t \in Nodes(Top.view) : WeightOf(t) > 0}}] :
       stack' = [stack EXCEPT ![Len(stack)] =
                   [@ EXCEPT !.step = "route", !.quota = Quotas(draws),
                             !.queue = [tree \in Tree |->
                               Queued(Quotas(draws), Root(Top.view, tree))]]]
  /\ UNCHANGED <<output, reply>>

\* The node at the head goes on to its active children, and if it has a quota
\* its view fills the next slice.
Asked == KeyOf(HeadOf(Top)) \in DOMAIN Top.quota /\ ~EmptyView(NextView(HeadOf(Top)))
Share == Top.quota[KeyOf(HeadOf(Top))]
Fits  == Top.cursor + Share <= Top.size

RouteHead ==
  /\ Routing
  /\ LET h      == HeadOf(Top)
         routed == [stack EXCEPT ![Len(stack)].queue[Current(Top)] =
                      Tail(@) \o QueuedChildren(Top.quota, h)]
     IN  \/ ~Asked /\ stack' = routed
         \/ /\ Asked /\ Fits
            /\ stack' = Append(routed, FrameOf(NextView(h), FirstOfChild(Top), Share))
  /\ UNCHANGED <<geo, output, joinCount, reply, opened>>

\* Fisher-Yates: the slice in any order.
Close ==
  /\ Closing /\ Top.cursor = Top.size
  /\ \E order \in Bijection(1 .. Top.size, 1 .. Top.size) :
       Return(Written(Top.first, [i \in 1 .. Top.size |-> output[Top.first + order[i]]]))
  /\ UNCHANGED <<geo, joinCount, opened>>

Next ==
  \/ Count
  \/ \E k \in 0 .. MaxOutput : Sample(k)
  \/ OpenEmpty \/ OpenLast \/ OpenInner \/ RouteHead \/ Close

Spec == Init /\ [][Next]_vars

-----------------------------------------------------------------------------
(* Properties.                                                             *)

IsFrame(f) ==
  /\ f.view \in View /\ f.step \in {"open", "route"}
  /\ f.first \in Nat /\ f.size \in 1 .. MaxOutput /\ f.cursor \in 0 .. f.size
  /\ \A k \in DOMAIN f.quota : k \in NodeKey /\ f.quota[k] \in 1 .. f.size
  /\ f.queue \in [Tree -> Seq(Node)]

TypeOK ==
  /\ geo \in Geometry
  /\ \A i \in DOMAIN stack : IsFrame(stack[i])
  /\ output \in Seq(Pair \cup {<<>>})
  /\ joinCount \in Nat
  /\ opened \subseteq Seq(NodeKey)

\* What diagnostics() reports after a call that counted is the join's size.
JoinCountIsExact ==
  reply \notin {Sampler!NoReply, Sampler!SampleReply(<<>>)} =>
    joinCount = Cardinality(Join(geo))

\* A draw of quotas is a uniform draw of pairs: each node of a view that opens
\* weighs as many pairs as it hands on, no two nodes hand on the same pair, and
\* together they hand on all (anchor_node_weights, anchor_count_recursive); and
\* what they sum up to is reported.
WeightsAreExact ==
  /\ JoinCountIsExact
  /\ (Opening /\ Top.view.level < Dim) =>
    /\ \A t \in Nodes(Top.view) : WeightOf(t) = Cardinality(ViewPairs(NextView(t)))
    /\ \A p \in ViewPairs(Top.view) : \E t \in Nodes(Top.view) :
         /\ p \in ViewPairs(NextView(t))
         /\ \A u \in Nodes(Top.view) \ {t} : p \notin ViewPairs(NextView(u))

\* None of the errors the code throws for a sampler that is broken comes up:
\* a quota on an empty view, a quota beyond the slice, a slice that is not full.
NoLogicError ==
  /\ (Opening /\ Len(stack) > 1) => SizeOf[Top.view] > 0
  /\ (Routing /\ Asked) => Fits
  /\ Closing => Top.cursor = Top.size

\* No two views of a call draw from the same streams (child_path).
StreamsAreFresh == Opening => Top.view.path \notin opened

\* Every call answers as JoinSampler says.
IsJoinSampler == Sampler!Spec
=============================================================================
