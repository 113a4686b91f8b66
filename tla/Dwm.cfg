SPECIFICATION Spec
CONSTANTS
  w1 = w1
  w2 = w2
  w3 = w3
  None = None
  screen1 = screen1
  screen2 = screen2
  Client = {w1, w2, w3}
  Monitor = {screen1, screen2}
  Tag = {1, 2}
  Bit = {1, 2, 9}
  Hints <- AllPlain
  Screens <- One
  Mixes <- TagsOrScreens
SYMMETRY Windows
CHECK_DEADLOCK FALSE
INVARIANTS
  ListsSound
  SelIsTop
  FocusAgrees
  QuitReleasesAll
PROPERTIES
  FocusOrderKept
