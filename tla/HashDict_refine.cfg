\* Whether the hash table implements the documented dictionary contract.
CONSTANTS
    Keys = {1, 2, 3}
    Values = {p, q}
    NULL = NULL
    HashOf <- MCHashOf
    InitialSize = 2
    Sizes = {1, 2, 3}
    MaxCount = 3
SPECIFICATION Spec
PROPERTY DictRefinement
