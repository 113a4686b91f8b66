SPECIFICATION Spec
CONSTANTS
  HISTSIZE = 3
  RESIZEBUFFER = 2
  Tabspaces = 2
  Wide = {"W"}
  Instances <- Themes
  Codec = {"SBC", "AAC", "MPEG", "LC3plus", "LDAC", "Opus", "aptX", "aptX HD", "FastStream"}
  ForeignRates = {16000, 44100, 48000, 88200, 96000}
  Streams <- MCStreams
  RtpMod = 4
CHECK_DEADLOCK FALSE
INVARIANTS
  SelectionRight
  FramesInOrder
  StreamComplete
  Aligned
PROPERTIES
  ReflowKeepsText
  ScreenRowsDirty
  ViewStays
  SelectionKept
