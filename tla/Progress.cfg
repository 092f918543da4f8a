SPECIFICATION Spec
INVARIANT CleanerExact
PROPERTIES
  EngineAnswers
  TasksComplete
  CleanerResponds
  
CHECK_DEADLOCK FALSE
