\* Two boxes against two in three dimensions, so that calls nest three deep.
CONSTANTS
  R = {1, 2}
  S = {3, 4}
  Dim = 3
  Shapes <- Cuboid
  Padded <- PowerOfTwo
  MaxOutput = 3
SPECIFICATION Spec
INVARIANTS WeightsAreExact NoLogicError StreamsAreFresh
PROPERTY IsJoinSampler
