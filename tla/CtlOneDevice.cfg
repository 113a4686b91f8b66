SPECIFICATION Spec
CONSTANTS
  Setups <- MCSetups
  Sounds <- MCSounds
  Aliases <- MCAliases
  CtlSetups <- MCCtlSetups
CHECK_DEADLOCK FALSE
INVARIANTS OneDevice
