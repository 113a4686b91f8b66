SPECIFICATION Spec
CONSTANT Loads <- MCLoads
CHECK_DEADLOCK FALSE
INVARIANTS
  ClientServed
PROPERTIES
  ReclaimedFirst
  GatewayAnswers
