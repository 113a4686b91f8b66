SPECIFICATION Spec
CONSTANTS
  Links <- Deaf
  Retries = 2
CHECK_DEADLOCK FALSE
INVARIANTS
  RetriesBounded
