\* Looks for a step the spec 4.1 entry list cannot take.
CONSTANTS
    Names = {a, b}
    Types <- MCTypes
    ANY_TYPE <- MC_ANY_TYPE
    NOT_FOUND = NOT_FOUND
    GARBAGE = GARBAGE
    MaxEntries = 5
SPECIFICATION Spec
PROPERTY EntryListRefinement
