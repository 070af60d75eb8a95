CONSTANT Heights <- MCHeights
SPECIFICATION FairSpec
INVARIANTS JobsAreApart RowsAreWhole
PROPERTIES RowsAreContiguous UsesSlot DecodeEnds
CHECK_DEADLOCK FALSE
