SPECIFICATION Spec
CONSTANTS
  CS = CS
  pss = pss
  tcs = tcs
  mns = mns
  Nodes = {pss, tcs}
  Devices = {pss}
  FirstNode = pss
  CmdBlocks <- OneBlock
  PrmBlocks <- OneBlock
  MaxBlocks = 1
  Timeout = 5
  CmdData = {Zero}
  PrmData = {Zero, EOF}
  Zero = Zero
  SOF = SOF
  EOF = EOF
  Noise = Noise
  NoByte = NoByte
  MaxDisturbed = 0
INVARIANTS
  SnapshotIntact
