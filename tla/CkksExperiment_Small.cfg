SPECIFICATION Spec
CONSTANTS
  BatchSize = 2
  ByteLimit = 256
  ElementLimit = 65536
  CkksTile = 2
  SizeBits = 16
  MaxThreads = 2
  MaxRuns = 2
  CutAt = {1}
  MagePrograms = {"real_sum"}
  MageProtocols = {"ckks"}
  MagePlugins = {"ckks", "unbounded"}
  Tasks <- MCFewTasks
  Drawn <- MCDrawn
  CkksCommands <- MCCkksCommands
  PlannerCommands <- MCPlannerCommands
INVARIANT
  HandAnswer
PROPERTIES
  ScriptEnds
  MonitorLetsGo
CHECK_DEADLOCK FALSE
