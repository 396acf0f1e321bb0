--------------------------- MODULE DenseActiveSet ---------------------------
(***************************************************************************)
(* The index of active points of the one-dimensional sweep: class          *)
(* DenseActiveSet of cpp/include/anchor/algorithms.hpp.  The active points *)
(* stand packed in an array, so that a uniform rank is a uniform point;    *)
(* erasing moves the last point into the hole, and position says where     *)
(* each point stands.  Positions count from 1 here, and 0 is the npos of   *)
(* the code.                                                               *)
(*                                                                         *)
(* EraseClearsBoth is a mistake that the properties must refute.           *)
(***************************************************************************)
EXTENDS Integers, Sequences

CONSTANT Universe

VARIABLES values,     \* the active points, packed
          position,   \* where each point stands in values, or npos
          flag        \* active_ of the code

denseVars == <<values, position, flag>>
npos == 0

DenseInit ==
  /\ values = <<>>
  /\ position = [p \in Universe |-> npos]
  /\ flag = [p \in Universe |-> FALSE]

Insert(p) ==
  /\ ~flag[p]
  /\ values' = Append(values, p)
  /\ position' = [position EXCEPT ![p] = Len(values) + 1]
  /\ flag' = [flag EXCEPT ![p] = TRUE]

\* The order of the writes matters when p is itself the last point: npos is
\* written over the position that the move gave it.
MoveLast(v, i)        == SubSeq([v EXCEPT ![i] = v[Len(v)]], 1, Len(v) - 1)
Reposition(pos, p, q) == [[pos EXCEPT ![q] = pos[p]] EXCEPT ![p] = npos]

EraseClearsBoth(p) ==
  /\ flag[p]
  /\ values' = MoveLast(values, position[p])
  /\ position' = Reposition(position, p, values[Len(values)])
  /\ flag' = [flag EXCEPT ![p] = FALSE, ![values[Len(values)]] = FALSE]

Erase(p) ==
  /\ flag[p]
  /\ values' = MoveLast(values, position[p])
  /\ position' = Reposition(position, p, values[Len(values)])
  /\ flag' = [flag EXCEPT ![p] = FALSE]

DenseNext == \E p \in Universe : Insert(p) \/ Erase(p)

DenseSpec == DenseInit /\ [][DenseNext]_denseVars

-----------------------------------------------------------------------------

DenseTypeOK ==
  /\ values \in Seq(Universe)
  /\ position \in [Universe -> Nat]
  /\ flag \in [Universe -> BOOLEAN]

\* values and position stay inverse to each other through any sequence of
\* insertions and swap-erasures, so each active point is drawn by one rank and
\* an inactive one by none (insert, erase and sample, 472-501).
RanksAreActive ==
  /\ \A p \in Universe :
       IF flag[p] THEN position[p] \in 1 .. Len(values)
                       /\ values[position[p]] = p
                  ELSE position[p] = npos
  /\ \A i \in 1 .. Len(values) : flag[values[i]] /\ position[values[i]] = i

\* It is the index of active points that the sweep asks for.
ActivePoints == {p \in Universe : flag[p]}
Index  == INSTANCE ActiveIndex WITH active <- ActivePoints
IsActiveIndex == Index!Spec
=============================================================================
