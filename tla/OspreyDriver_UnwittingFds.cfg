SPECIFICATION Spec
CONSTANTS
  FdNums = {3, 4, 5, 6, 7, 8}
  ParentCommFd = 7
  CommandLines <- BothPasses
  InheritedSets <- Nothing
INVARIANT
  NoDescriptorUnwittinglyPassed
CHECK_DEADLOCK FALSE
