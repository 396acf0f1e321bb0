\* One rectangle against three, so that a tree has a leaf too many.
CONSTANTS
  R = {1}
  S = {2, 3, 4}
  Dim = 2
  Shapes <- Rectangle
  Padded <- PowerOfTwo
  MaxOutput = 2
SPECIFICATION Spec
INVARIANTS KeptOnce AtomsAreExact
PROPERTY IsJoinSampler
