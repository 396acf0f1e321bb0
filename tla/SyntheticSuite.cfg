\* Two workloads, one of which an edit changes; a grid of nine thetas.
CONSTANTS
  Config <- AllConfigs
  One = 32
  ThetaMin = 0
  ThetaMax = 8
  Stride = 3
  ThetaTolerance = 2
  Curves <- SomeCurves
  Slacks = {0, 1, 2}
  Radii = {3, 8}
  TrainTolerance = 2
  Rounds = 2
  Checkpoints = 2
  MaxExpand = 2
  MaxBisect = 2
  Initial = 2
  Batch = 3
  Order <- Workloads
  Versions <- Edits
SPECIFICATION Spec
INVARIANTS BracketHoldsRoot CertifiedIsTrue UnionBoundCounts OkIsCurrent AdmittedIsCertified
PROPERTY SessionEnds
