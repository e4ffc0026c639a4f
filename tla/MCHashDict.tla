----------------------------- MODULE MCHashDict -----------------------------
(* HashDict for TLC: keys are the integers 1..3 and DefaultHash<int> is    *)
(* taken as the identity, so keys 1 and 3 collide in a table of size 2 and *)
(* keys 1 and 2 are separated by a resize to 3.                            *)
EXTENDS HashDict

MCHashOf == [k \in Keys |-> k]
=============================================================================
