\* Two names, two type codes, up to 5 entries: Append grows the
\* capacity-4 array once, and a name can occur three times.
CONSTANTS
    Names = {a, b}
    Types <- MCTypes
    ANY_TYPE <- MC_ANY_TYPE
    NOT_FOUND = NOT_FOUND
    GARBAGE = GARBAGE
    MaxEntries = 5
SPECIFICATION Spec
INVARIANT TypeOK
PROPERTY RemoveNameLeavesNone
