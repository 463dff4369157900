SPECIFICATION FairSpec
CONSTANTS
  NL = NL
  WrittenLines <- NominalOrQuit
  TypedLines <- NominalQuit
  MaxWrites = 2
  MaxEmptied = 1
  MaxTyped = 1
INVARIANTS
  LinesRead
PROPERTIES
  LinesTaken
  QuitEnds

CHECK_DEADLOCK FALSE
