SPECIFICATION Spec
CONSTANTS
  pss = pss
  Nodes = {pss}
  NodeOrder <- PssOnly
  Width <- OneField
  MaxTasks = 2
  BurstLimit = 2
  MaxValue = 1
  MaxWidth = 1
  PolicySet = {"off"}
INVARIANTS
  StagedKept
