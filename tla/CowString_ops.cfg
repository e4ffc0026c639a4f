\* String::Empty and two client Strings, four body addresses, strings of
\* up to 3 characters; s += s is left to the memory run.
CONSTANTS
    Strs = {e, s1, s2}
    Consts = {e}
    Bodies = {b0, b1, b2, b3}
    Chars = {"x", "y"}
    Literals <- MCLiterals
    NULL = NULL
    FREE = FREE
    Sizes = {1, 3}
    SelfAppend = FALSE
    MaxLength = 3
SPECIFICATION Spec
SYMMETRY MCSymmetry
INVARIANT TypeOK
INVARIANT BodiesAccounted
PROPERTY StringRefinement
