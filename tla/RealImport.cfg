SPECIFICATION Spec
CONSTANTS
  Sources <- MCSources
  Assets <- MCAssets
  AssetOrder <- MCAssetOrder
  Targets <- MCTargets
  Collections <- MCCollections
  Sharded <- MCSharded
  Endpoints <- MCEndpoints
  Size = 3
  MaxFaults = 4
  Versions = 2
INVARIANTS SourceIsLocked PairIsOneImport OkIsVerified
PROPERTIES PublishedIsWhole EventuallyImported
