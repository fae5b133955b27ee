SPECIFICATION Spec
CONSTANTS
  BatchSize = 2
  ByteLimit = 256
  ElementLimit = 65536
  CkksTile = 2
  SizeBits = 16
  MaxThreads = 3
  MaxRuns = 2
  CutAt = {}
  MagePrograms = {"real_sum"}
  MageProtocols = {"ckks"}
  MagePlugins = {"ckks", "unbounded"}
  Tasks = {}
  Drawn <- MCDrawn
  CkksCommands = {}
  PlannerCommands <- MCPlannerCommands
INVARIANTS
  PluginsArePlanned
CHECK_DEADLOCK FALSE
