SPECIFICATION Spec
CONSTANTS
  BatchSize = 2
  ByteLimit = 256
  ElementLimit = 65536
  CkksTile = 1
  SizeBits = 16
  MaxThreads = 3
  MaxRuns = 2
  CutAt = {1, 3}
  MagePrograms = {"real_sum"}
  MageProtocols = {"ckks"}
  MagePlugins = {"ckks", "unbounded"}
  Tasks <- MCTasks
  Drawn <- MCDrawn
  CkksCommands = {}
  PlannerCommands = {}
INVARIANTS
  TypeOK
  ShownIsExpected
  FitIsShown
  MonitorNeverBehind
CHECK_DEADLOCK FALSE
