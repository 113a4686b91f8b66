SPECIFICATION Spec
CONSTANTS
  w1 = w1  w2 = w2  w3 = w3  w4 = w4
  None = None
  Null = Null
  Anchor = Anchor
  Window = {w1, w2}
  Client = {w1, w2, w3, w4}
  Requests = 7
  Drags = 2
CHECK_DEADLOCK FALSE
INVARIANTS
  Settled
PROPERTIES
  MapHonoured
  ImplementsRow
