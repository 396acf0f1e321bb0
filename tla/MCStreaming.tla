---------------------------- MODULE MCStreaming ----------------------------
(* An instance of the streaming ANCHOR sampler in three dimensions. *)
EXTENDS AnchorStreaming

\* The first four can be two boxes of R and two of S of which one node of each
\* tree, of the same ranks, has a pair.  The fifth meets the fourth in all
\* dimensions but the last, where they touch; the last box is flat.
Corners == {<<0, 1, 0, 2, 0, 2>>, <<1, 4, 0, 3, 0, 3>>, <<2, 4, 1, 2, 0, 2>>,
            <<3, 4, 1, 3, 1, 3>>, <<0, 4, 1, 2, 0, 1>>, <<1, 3, 0, 2, 1, 1>>}
Cuboid == {[lo |-> <<c[1], c[3], c[5]>>, hi |-> <<c[2], c[4], c[6]>>] : c \in Corners}
=============================================================================
