\* The ops model with s += s among the calls, checking memory safety.
CONSTANTS
    Strs = {e, s1, s2}
    Consts = {e}
    Bodies = {b0, b1, b2, b3}
    Chars = {"x", "y"}
    Literals <- MCLiterals
    NULL = NULL
    FREE = FREE
    Sizes = {1, 3}
    SelfAppend = TRUE
    MaxLength = 3
SPECIFICATION Spec
SYMMETRY MCSymmetry
INVARIANT AppendStaysInBuffer
