SPECIFICATION RescalingSpec
CONSTANTS
    Null = Null
    Handles = {h1}
    AnimPtrs = {a1, a2}
    Dibs = {d1}
    Images <- MCImages
    Requests <- MCRequests
    Pages <- MCPages
INVARIANT PageShownAtAnySize
