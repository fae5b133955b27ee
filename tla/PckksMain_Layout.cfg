CONSTANTS
  TileSize = 2
  SizeBits = 16
  MaxThreads = 5
  Commands <- MCCommands
SPECIFICATION Spec
INVARIANT MatrixBIsColumnMajor
CHECK_DEADLOCK FALSE
