--------------------------- MODULE MCWorkloadFile ---------------------------
EXTENDS WorkloadFile

Instance(endpoint, d, a) == [endpoint |-> endpoint, dimension |-> d, arrays |-> a]
\* Three-bit words: as doubles 3 and 7 are not finite, 5 is -1 and 6 is -2.
\* Relations of different sizes and of the same boxes.
Canonical ==
  {Instance(e, 1, <<<<1, 2>>, <<6, x>>, <<1, 2>>, <<5>>, <<0>>, <<2>>>>) :
     e \in {"float64", "int64"}, x \in 0 .. 1}
  \union {Instance("float64", 2, <<<<7>>, <<6, 0>>, <<2, 1>>, <<7>>, <<6, 0>>, <<2, 1>>>>),
          Instance("int64", 1, <<<<0>>, <<1>>, <<2>>, <<3, 4>>, <<1, 1>>, <<2, 3>>>>)}
\* An id given twice, an empty relation, and boxes that are empty, inverted or
\* without an end.
Improper ==
  {Instance("int64", 1, <<<<0>>, <<1>>, <<2>>, <<3, 3>>, <<1, 1>>, <<2, 3>>>>),
   Instance("int64", 2, <<<<>>, <<>>, <<>>, <<3>>, <<1, 1>>, <<2, 3>>>>)}
  \union {Instance("float64", 1, <<<<0>>, <<l>>, <<u>>, <<3>>, <<1>>, <<2>>>>) :
            l \in {1, 7}, u \in {1, 3, 5}}
SomeInstances == Canonical \union Improper
=============================================================================
