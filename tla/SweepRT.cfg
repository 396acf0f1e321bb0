\* Two rectangles against two: endpoints tie, boxes touch, nest, coincide and
\* are empty, and partners are found by the range query on the second dimension.
CONSTANTS
  R = {1, 2}
  S = {3, 4}
  Dim = 2
  Shapes <- Rectangle
  MaxOutput = 2
SPECIFICATION MakeSpec
INVARIANTS DrawIsUniform RowIsUniform DrawIsProportional
PROPERTY IsJoinSampler
