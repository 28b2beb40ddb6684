\* Two runs: does pinning a new revision serve the new weights?
CONSTANTS
  Releases <- MCReleases
  Inherited <- MCNewCluster
  Sizes = {1, 2, 3}
  Classes = {"", "fast"}
  DefaultClass = "slow"
  MaxRuns = 2
  MaxFaults = 0
  None = None

SPECIFICATION Spec
CHECK_DEADLOCK FALSE

INVARIANT ServesPinned
