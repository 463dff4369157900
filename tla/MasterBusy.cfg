SPECIFICATION Spec
CONSTANTS
  pss = pss
  tcs = tcs
  Nodes = {pss, tcs}
  NodeOrder <- TcsPss
  Width <- OneField
  MaxTasks = 2
  BurstLimit = 1
  MaxValue = 0
  MaxWidth = 1
  NoFocus = NoFocus
  EnabledAtStart = {tcs}
  Threshold <- ShortThreshold
  CooldownTicks <- ShortCooldown
  MaxStreak = 255
  Answering = {}
  OperatorNodes = {tcs}
INVARIANTS
  PolicyFollowed
  SilentNodeLimited
PROPERTIES
  NoPollInCooldown
