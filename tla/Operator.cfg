SPECIFICATION FairSpec
CONSTANTS
  Systems = {"cs", "pss"}
  SpawnOrder <- CsPssModel
  Bytes = {b1, b2}
  NoByte = NoByte
  TickMod = 4
INVARIANTS
  ByteNextTick
PROPERTIES
  Stops

CHECK_DEADLOCK FALSE
