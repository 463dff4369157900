SPECIFICATION FairSpec
CONSTANTS
  pss = pss
  tcs = tcs
  Nodes = {pss, tcs}
  NodeOrder <- TcsPss
  Width <- OneField
  MaxTasks = 3
  BurstLimit = 1
  MaxValue = 0
  MaxWidth = 1
  NoFocus = NoFocus
  EnabledAtStart = {tcs}
  Threshold <- ShortThreshold
  CooldownTicks <- ShortCooldown
  MaxStreak = 255
  Answering = {pss}
  OperatorNodes = {}
INVARIANTS
  TypeOK
  StreakBelow
PROPERTIES
  IsScheduler
  PolledAgain
