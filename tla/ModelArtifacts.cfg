SPECIFICATION Spec
CONSTANTS
  Models <- MCModels
  Simulated = {"sim"}
  Catalogs <- MCCatalogs
  Commit <- MCCommit
  Tag <- MCTag
  Hub <- MCHub
  EarlierCaches <- MCEarlierCaches
  Images <- MCImages
  Selections <- MCSelections
  MaxRuns = 3
  MaxFaults = 2
  None = None
  Empty = Empty
INVARIANTS
  ArtifactIsPinOrDoubtful
  MarkerTrue
  OneCachedArtifact
  DoneMeansMirrored
CHECK_DEADLOCK FALSE
