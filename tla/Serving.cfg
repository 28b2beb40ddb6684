\* Two runs of the installer, of either release, with up to two faults.
CONSTANTS
  Releases <- MCReleases
  Inherited <- MCInherited
  Sizes = {1, 2, 3}
  Classes = {"", "fast"}
  DefaultClass = "slow"
  MaxRuns = 2
  MaxFaults = 2
  None = None

SPECIFICATION Spec
CHECK_DEADLOCK FALSE

INVARIANTS
  PullFindsArtifact
  RoutedMeansReady
PROPERTIES
  VolumesKept
