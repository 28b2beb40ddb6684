SPECIFICATION Spec
CONSTANTS
  Models <- MCModels
  Simulated = {"sim"}
  Catalogs <- MCCatalogs
  Commit <- MCCommit
  Tag <- MCTag
  Hub <- MCHub
  EarlierCaches <- FreshOnly
  Images <- MCImages
  Selections <- PinMoves
  MaxRuns = 3
  MaxFaults = 2
  None = None
  Empty = Empty
INVARIANT ArtifactIsPin
CHECK_DEADLOCK FALSE
