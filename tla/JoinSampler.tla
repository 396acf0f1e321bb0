---------------------------- MODULE JoinSampler ----------------------------
(***************************************************************************)
(* What every sampler promises its caller (class ISampler of               *)
(* cpp/include/anchor/types.hpp), whatever the algorithm: count() returns  *)
(* the exact size of the join, and sample(output) fills each of the k      *)
(* places of output with a pair of the join, or says EmptyInstance without *)
(* writing one.  Which pair a draw returns is left open here: that all are *)
(* equally likely is a fact about numbers of draws, which each sampler's   *)
(* module states of its own draws.                                         *)
(***************************************************************************)
EXTENDS Naturals, FiniteSets

CONSTANT MaxOutput   \* the largest output a caller passes

VARIABLES join,      \* the pairs of the input, which never change
          indexed,   \* build_sampling_index: whether sample may be called
          reply      \* what the last call returned

NoReply           == [op |-> "none"]
CountReply(n)     == [op |-> "count", value |-> n]
SampleReply(out)  == [op |-> "sample", status |-> "Ok", output |-> out]
EmptyReply        == [op |-> "sample", status |-> "EmptyInstance"]
NoIndexReply      == [op |-> "sample", status |-> "logic_error"]

Init == reply = NoReply

Begin == reply' = NoReply /\ UNCHANGED <<join, indexed>>

Count ==
  /\ reply' = CountReply(Cardinality(join))
  /\ UNCHANGED <<join, indexed>>

\* An output of no places needs no draw, and succeeds on an empty join too.
Fill(k) ==
  /\ k = 0 \/ (join # {} /\ indexed)
  /\ \E out \in [1 .. k -> join] : reply' = SampleReply(out)
  /\ UNCHANGED <<join, indexed>>

Empty ==
  /\ join = {}
  /\ reply' = EmptyReply
  /\ UNCHANGED <<join, indexed>>

Refuse ==
  /\ ~indexed /\ join # {}
  /\ reply' = NoIndexReply
  /\ UNCHANGED <<join, indexed>>

Next == Begin \/ Count \/ Empty \/ Refuse \/ \E k \in 0 .. MaxOutput : Fill(k)

Spec == Init /\ [][Next]_<<join, indexed, reply>>
=============================================================================
