SPECIFICATION Spec
CONSTANTS
  Address = {x1}
  DeviceLoads <- MCLoads
  Peer = {"x1", "x2"}
  LocalCodecs = {1, 2}
  RemoteSeps <- MCRemoteSeps
  Offers <- MCOffers
  Budgets <- MCBudgets
CHECK_DEADLOCK FALSE
INVARIANTS
  FreedInTime
  ReconnectedAgree
  BlueZAgrees
PROPERTIES
  SelectedIsAsked
  SelectAnswered
