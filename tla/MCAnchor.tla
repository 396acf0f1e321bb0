------------------------------ MODULE MCAnchor ------------------------------
(* Instances of the ANCHOR samplers. *)
EXTENDS AnchorCompiled

\* Full, left, right and lower half, a corner, and a flat box.
Corners == {<<0, 2, 0, 2>>, <<0, 1, 0, 2>>, <<1, 2, 0, 2>>, <<0, 2, 0, 1>>,
            <<1, 2, 1, 2>>, <<0, 2, 1, 1>>}
Rectangle == {[lo |-> <<c[1], c[3]>>, hi |-> <<c[2], c[4]>>] : c \in Corners}
=============================================================================
