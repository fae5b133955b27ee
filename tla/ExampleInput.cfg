SPECIFICATION Spec
CONSTANTS
  BatchSize = 2
  ByteLimit = 3
  ElementLimit = 5
  MaxWorkers = 5
  MaxRuns = 2
  Tasks <- MCTasks
  Commands <- MCCommands
INVARIANTS
  TypeOK
  UndefinedOnlyWhen
  ExpectedIsTheAnswer
  AnswersAreShared
  RefusedAllOrNothing
  CheckIsTrue
  OwnAnswerAccepted
CHECK_DEADLOCK FALSE
