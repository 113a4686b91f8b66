SPECIFICATION Spec
CONSTANTS
  Links <- MCLinks
  Retries = 2
CHECK_DEADLOCK FALSE
INVARIANTS
  EndsInStep
PROPERTIES
  SetUpEnds
  SelectAnswered
