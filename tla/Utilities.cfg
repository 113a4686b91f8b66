SPECIFICATION Spec
CONSTANTS
  i1 = i1  i2 = i2
  Locker = {i1, i2}
  Nobody = Nobody
  Other = Other
  Byte <- Bytes
  Key <- Keys
  Secret <- Word
  Size = 3
  Tries = 3
  TimeToCancel = 1
  Inputs = 3
  Refresher = {1, 2, 3}
  Within = {3}
  r1 = r1  r2 = r2  r3 = r3
  Run = {r1, r2, r3}
  Together = 3
  RunInterrupts = 1
  Length <- SummaryLengths
  t1 = t1  t2 = t2
  Tty = {t1, t2}
  None = None
  Interrupts = 2
  v1 = v1  v2 = v2  v3 = v3  v4 = v4
  p1 = p1  p2 = p2
  NoVm = NoVm
  Vm = {v1, v2, v3, v4}
  Port = {p1, p2}
  Console = {t1}
  Graphical = {v4}
  PortOf <- StartedPorts
  Occurs <- IdsInLines
CHECK_DEADLOCK FALSE
INVARIANTS
  LockedHoldsInput
  MemorySound
  DeviceReleased
  GuestsSafe
PROPERTIES
  BarCatchesUp
  OnlySecretOpens
  BaseKept
