SPECIFICATION NoisySpec
CONSTANTS
  CS = CS
  pss = pss
  tcs = tcs
  mns = mns
  Nodes = {pss, tcs}
  Devices = {pss}
  FirstNode = pss
  CmdBlocks <- OneBlock
  PrmBlocks <- OneBlock
  MaxBlocks = 1
  Timeout = 5
  CmdData = {Zero}
  PrmData = {Zero}
  Zero = Zero
  SOF = SOF
  EOF = EOF
  Noise = Noise
  NoByte = NoByte
  MaxDisturbed = 1
INVARIANTS
  NoOrphan
