SPECIFICATION FairSpec
CONSTANTS
  pss = pss
  Nodes = {pss}
  NodeOrder <- PssOnly
  Width <- TwoFields
  MaxTasks = 2
  BurstLimit = 2
  MaxValue = 1
  MaxWidth = 2
  PolicySet = {"off", "normal", "priority"}
PROPERTIES
  CommandStarted
INVARIANTS
  TypeOK
  QueuesSound
  NormalNotBypassed
  CmdKept
  NoStaleCommand
