CONSTANTS
  Channels = {0, 1, 2, 64, 127, 128, 191, 254, 255}
  Alphas = {0, 1, 2, 127, 128, 254, 255}
SPECIFICATION PixelSpec
CHECK_DEADLOCK FALSE
INVARIANTS BlendIsBounded BlendKeepsOpacity ShownFaithfully
