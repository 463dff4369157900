SPECIFICATION FairSpec
CONSTANTS
  CS = CS
  pss = pss
  tcs = tcs
  mns = mns
  Nodes = {pss, tcs, mns}
  Devices = {pss, tcs}
  FirstNode = pss
  CmdBlocks <- TwoOrOne
  PrmBlocks <- OneBlock
  MaxBlocks = 2
  Timeout = 5
  CmdData = {SOF}
  PrmData = {EOF}
  Zero = Zero
  SOF = SOF
  EOF = EOF
  Noise = Noise
  NoByte = NoByte
  MaxDisturbed = 0
INVARIANTS
  TypeOK
  SuccessHonest
  FailureHonest
  CommandIntact
  InStep
PROPERTIES
  ExchangeEnds
  PayloadInPlace
  IsExchange
