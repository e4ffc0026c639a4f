\* Ring shape, element ownership and the sequence contract of List.
CONSTANTS
    Nodes = {n1, n2, n3}
    END = END
    p1 = p1
    p2 = p2
    p3 = p3
    p4 = p4
    Ptrs <- MCPtrs
    Content <- MCContent
    Values <- MCValues
    Source <- MCSource
    NULL = NULL
    DANGLING = DANGLING
SPECIFICATION Spec
SYMMETRY MCSymmetry
INVARIANTS TypeOK WellLinked NoFreedPointerHeld
PROPERTY ListRefinement
