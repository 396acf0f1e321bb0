----------------------------- MODULE AliasTable -----------------------------
(***************************************************************************)
(* IntegerAlias of random.hpp: how the samplers draw an index with a       *)
(* probability that is exactly its share of the total weight.  Each weight *)
(* is multiplied by the number k of columns; a column keeps its own mass   *)
(* up to the total and borrows the rest from one index that has more.  The *)
(* lists of small and large indices are stacks.  A product that does not   *)
(* fit in 128 bits is an exception, and left out.                          *)
(***************************************************************************)
EXTENDS Integers, FiniteSets, Sequences, SequencesExt

\* A finite set as a sequence: before holds the pairs <<x, y>> with x first.
InOrder(S, before) ==
  [r \in 1 .. Cardinality(S) |->
     CHOOSE x \in S : Cardinality({y \in S : <<y, x>> \in before}) = r - 1]

Total(weights) ==
  LET sum[n \in 0 .. Len(weights)] == IF n = 0 THEN 0 ELSE sum[n - 1] + weights[n]
  IN sum[Len(weights)]

\* Columns are pushed from the first to the last.
Stack(T) == InOrder(T, {p \in T \X T : p[1] < p[2]})

\* Before the first pairing.
Classified(weights) ==
  LET k == Len(weights)
      scaled == [i \in 1 .. k |-> weights[i] * k]
      total  == Total(weights)
  IN [scaled    |-> scaled,
      small     |-> Stack({i \in 1 .. k : scaled[i] < total}),
      large     |-> Stack({i \in 1 .. k : scaled[i] >= total}),
      threshold |-> [i \in 1 .. k |-> total],
      alias     |-> [i \in 1 .. k |-> i]]

BorrowThreshold(t, total) ==
  LET s == Last(t.small)
      l == Last(t.large)
      rest == t.scaled[l] - t.scaled[s]
      more == rest >= total
  IN [scaled    |-> [t.scaled EXCEPT ![l] = rest],
      small     |-> IF more THEN Front(t.small) ELSE Append(Front(t.small), l),
      large     |-> IF more THEN Append(Front(t.large), l) ELSE Front(t.large),
      threshold |-> [t.threshold EXCEPT ![s] = t.scaled[s]],
      alias     |-> [t.alias EXCEPT ![s] = l]]

\* The last small column is filled up by the last large index.
Borrow(t, total) ==
  LET s == Last(t.small)
      l == Last(t.large)
      rest == t.scaled[l] - (total - t.scaled[s])
      more == rest >= total
  IN [scaled    |-> [t.scaled EXCEPT ![l] = rest],
      small     |-> IF more THEN Front(t.small) ELSE Append(Front(t.small), l),
      large     |-> IF more THEN Append(Front(t.large), l) ELSE Front(t.large),
      threshold |-> [t.threshold EXCEPT ![s] = t.scaled[s]],
      alias     |-> [t.alias EXCEPT ![s] = l]]

Paired(t, total) ==
  IF t.small = <<>> \/ t.large = <<>> THEN t ELSE Borrow(t, total)

\* Every pairing closes a column, so k of them are more than enough; columns
\* that are left keep their whole mass.
Built(weights) ==
  LET after[n \in 0 .. Len(weights)] ==
        IF n = 0 THEN Classified(weights) ELSE Paired(after[n - 1], Total(weights))
  IN after[Len(weights)]

\* IntegerAlias::sample: a column, and a place below the total.
Drawn(t, slot, r) == IF r < t.threshold[slot] THEN slot ELSE t.alias[slot]

\* Of all equally likely draws, index i gets its share.
Proportional(weights) ==
  LET k == Len(weights)
      t == Built(weights)
      draws == (1 .. k) \X (0 .. Total(weights) - 1)
  IN \A i \in 1 .. k :
       Cardinality({d \in draws : Drawn(t, d[1], d[2]) = i}) = weights[i] * k
=============================================================================
