SPECIFICATION Spec
CONSTANTS
    Null = Null
    Handles = {h1, h2}
    AnimPtrs = {a1, a2}
    Dibs = {d1}
    Images <- MCImages
    Requests <- MCRequests
    Pages <- MCPages
INVARIANTS
    PageShown
    AsAnnounced
SYMMETRY Symmetry
