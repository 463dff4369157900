SPECIFICATION FairSpec
CONSTANTS
  Rails = {"PSSPWR12", "PSSPWR6"}
  RailOrder <- TwoRails
  Load <- Loads
  Commands <- MCCommands
  Frames <- MCFrames
  Reported = {"PSSPWR", "PSSA"}
  MaxA = 4
INVARIANTS
  TypeOK
  CommandsTakeEffect
  TelemetryFresh
  QuantizedNearest
  TelemetryDelivered
  CommandDelivered
  StoredNearest
PROPERTIES
  RailsUpByCommand
  OffUnseen
  SwitchedOff
  CurrentSettles
