SPECIFICATION FairNoisySpec
CONSTANTS
  CS = CS
  pss = pss
  tcs = tcs
  mns = mns
  Nodes = {pss, tcs}
  Devices = {pss}
  FirstNode = pss
  CmdBlocks <- TwoBlocks
  PrmBlocks <- TwoBlocks
  MaxBlocks = 2
  Timeout = 3
  CmdData = {EOF}
  PrmData = {SOF}
  Zero = Zero
  SOF = SOF
  EOF = EOF
  Noise = Noise
  NoByte = NoByte
  MaxDisturbed = 1
INVARIANTS
  Recovered
PROPERTIES
  PromiseRestored
  BusReleased
