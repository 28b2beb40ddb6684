SPECIFICATION Spec
CONSTANTS
  Specs <- MCSpecs
  Steady <- MCSteady
  Catalog <- MCCatalog
  GPUsPerPod <- MCGPUsPerPod
  Selections <- MCSelections
  EarlierLabels <- MCEarlierLabels
  CPU = "cpu"
  Unassigned = "unassigned"
  None = None
  Broken = Broken
INVARIANTS
  RerunIsOneConfirm
  LegacyHonoured
  NodesFollowTheirPool
  DropdownAppliesToAll
