SPECIFICATION RegistrySpec
CONSTANTS
  Processes = {viewer, browser}
  ProgIDs = {WebPImage, Other, TooLong}
  WebPImage = WebPImage
  Unreadable = {TooLong}
  None = None
  MaxDisturbances = 2
INVARIANTS
  RegistryTypeOK
  ExplorerIsTold
PROPERTY
  RepairsItself
