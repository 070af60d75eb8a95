CONSTANTS
  Canvases <- MCCanvases
  Sizes <- MCSizes
  Offsets <- MCOffsets
  Options = {any}
  Payloads = {0, 2, 4}
  MaxChunks = 6
SPECIFICATION Spec
CHECK_DEADLOCK FALSE
INVARIANTS FramesAreSound NoPartIsLost FrontEndAgrees
