SPECIFICATION Spec
CONSTANTS
  w1 = w1
  w2 = w2
  w3 = w3
  None = None
  screen1 = screen1
  screen2 = screen2
  Client = {w1, w2, w3}
  Monitor = {screen1}
  Tag = {1}
  Bit = {1, 9}
  Hints <- StateHints
  Screens <- One
  Mixes <- OfStates
INVARIANTS
  FocusShown
  FloatingKept
