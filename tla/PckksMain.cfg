CONSTANTS
  TileSize = 2
  SizeBits = 16
  MaxThreads = 5
  Commands <- MCCommands
SPECIFICATION FairSpec
INVARIANTS
  TypeOK
  AggregateSeesEveryPart
  StatsClearedAtRest
  OnlyMisfitsFail
  OutputIsTheAnswer
PROPERTIES
  Terminates
  ImplementsBarrier
CHECK_DEADLOCK FALSE
