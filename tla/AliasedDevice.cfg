SPECIFICATION Spec
CONSTANTS
  f1 = f1
  f2 = f2
  m1 = m1
  m2 = m2
  v1 = v1
  v2 = v2
  NoFile = NoFile
  Files <- MCFiles
  Mappings <- MCMappings
  VPages <- MCVPages
INVARIANTS
  TypeOK
  CountsAreReal
  OnlyUncountedStranded
  AllOrNothing
PROPERTIES
  ImplementsPagePool
  PageGivenBack
CHECK_DEADLOCK FALSE
