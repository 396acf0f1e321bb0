\* Two to five rows per relation, in every order; int64 of eight values a side.
CONSTANTS
  Inputs <- AllInputs
  Hash <- SmallHash
  Canonical <- SmallCanonical
  Tile = 2
  Images <- TwoImages
  Shards <- TwoShards
  GroupSize = 2
  Unsummarised <- SomeUnsummarised
  Limit = 8
  Radius = 2
SPECIFICATION SelectSpec
INVARIANTS SharesAreFair ReadsEveryProposal TouchingIsExact BoxesAreExact
PROPERTY ChoiceIgnoresOrder
