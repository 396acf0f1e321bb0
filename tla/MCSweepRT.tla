----------------------------- MODULE MCSweepRT -----------------------------
(* Instances of both samplers: rectangles over few coordinates, so that
   endpoints tie, boxes touch, coincide and nest, and some are empty. *)
EXTENDS MakeSampler

\* Full, left, right, lower and upper half, a corner, and an empty box.
Corners == {<<0, 2, 0, 2>>, <<0, 1, 0, 2>>, <<1, 2, 0, 2>>, <<0, 2, 0, 1>>,
            <<0, 2, 1, 2>>, <<0, 1, 0, 1>>, <<1, 1, 0, 2>>}
Rectangle == {[lo |-> <<c[1], c[3]>>, hi |-> <<c[2], c[4]>>] : c \in Corners}
=============================================================================
