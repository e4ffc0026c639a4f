------------------------------ MODULE MCCowString ------------------------------
EXTENDS CowString, TLC

MCLiterals == {<<>>, <<"x">>, <<"y", "x">>}

\* Body addresses are interchangeable; String objects other than
\* String::Empty are too.
MCSymmetry == Permutations(Bodies \ {EmptyBody}) \cup Permutations(Strs \ Consts)
==============================================================================
