------------------------------ MODULE StringSpec ------------------------------
(***************************************************************************)
(* What support/String promises in its header comment: strings behave    *)
(* like fundamental data types.  Every String object has its own value,   *)
(* assignment copies it, and only the object an operation is called on    *)
(* (or constructed) changes; copy-on-write and capacity are invisible.    *)
(*   val[s] = the characters of String object s, NONE while s is not      *)
(*            constructed                                                 *)
(***************************************************************************)
EXTENDS Naturals, Sequences

CONSTANTS Strs, Consts, Chars, Literals, MaxLength, NONE

VARIABLE val

Live(s) == val[s] # NONE

Init == val = [s \in Strs |-> IF s \in Consts THEN <<>> ELSE NONE]

\* A String is constructed from a literal, a copy of another String, or
\* the result of Left, Right, Mid or operator+; operator= and Left ... +
\* assigned to a constructed String give it the same value.
SetTo(s, v) ==
    /\ s \notin Consts
    /\ val' = [val EXCEPT ![s] = v]

Destroy(s) ==
    /\ s \notin Consts /\ Live(s)
    /\ val' = [val EXCEPT ![s] = NONE]

\* operator+=: the characters of the operand are added at the end.
AppendTo(s, v) ==
    /\ s \notin Consts /\ Live(s)
    /\ Len(val[s]) + Len(v) <= MaxLength
    /\ val' = [val EXCEPT ![s] = val[s] \o v]

\* s[i] = c writes one character of s only.
SetChar(s, i, c) ==
    /\ s \notin Consts /\ Live(s)
    /\ i \in 1 .. Len(val[s])
    /\ val' = [val EXCEPT ![s][i] = c]

\* The values an expression over the live Strings and the literals can have.
Operands == {val[t] : t \in {x \in Strs : Live(x)}} \cup Literals

\* Left, Right and Mid give a run of consecutive characters of an operand,
\* operator+ the concatenation of two.
Results ==
    Operands
    \cup UNION {UNION {{SubSeq(v, i, j) : j \in i - 1 .. Len(v)}
                       : i \in 1 .. Len(v) + 1}
                : v \in Operands}
    \cup {v \o w : v, w \in Operands}

Next ==
    \/ \E s \in Strs, v \in Results : Len(v) <= MaxLength /\ SetTo(s, v)
    \/ \E s \in Strs : Destroy(s)
    \/ \E s \in Strs, v \in Operands : AppendTo(s, v)
    \/ \E s \in Strs, i \in 1 .. MaxLength, c \in Chars : SetChar(s, i, c)

Spec == Init /\ [][Next]_val
==============================================================================
