SPECIFICATION Spec
CONSTANT Loads <- TwoClients
CHECK_DEADLOCK FALSE
INVARIANTS NoProgrammingError
