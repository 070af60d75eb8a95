SPECIFICATION DibSpec
CONSTANTS
    Pictures <- MCPictures
    MbSize = 4
    Widths = {1, 2, 3, 4}
    NumArgbCacheRows = 4
INVARIANTS
    SharesAreRight
    AllRowsCome
    AssertsHold
    AlphaIsReady
    DibHoldsThePage
PROPERTY RowsAreFinal
CHECK_DEADLOCK FALSE
