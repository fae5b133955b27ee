SPECIFICATION Spec
CONSTANTS
  FdNums = {3, 4, 5, 6, 7, 8}
  ParentCommFd = 7
  CommandLines <- MCCommandLines
  InheritedSets <- MCInheritedSets
INVARIANTS
  TypeOK
  ParentEndsStayPrivate
  ChannelInstalled
  InheritedUntouched
  SharedMemoryHasTwoSides
  WatchNeverFollowsTrace
PROPERTIES
  ChannelHangsUp
  DriverTerminates
  ImplementsTwoPass
CHECK_DEADLOCK FALSE
