------------------------------ MODULE DictSpec ------------------------------
(***************************************************************************)
(* What support/Dict promises in its interface comments: any number of     *)
(* elements per key; Take, Remove and Replace act on the element inserted *)
(* last under the key ("das zuletzt unter dem Schluessel key eingefuegte   *)
(* Element"); Find (operator[]) yields "das erste Element", an order the   *)
(* comments never define, so any element under the key; Resize changes    *)
(* only the table size, never the contents.                                *)
(*   entries[k] = the elements under k, in insertion order                 *)
(*   result     = the pointer the last Find or Take returned (NULL for 0)  *)
(***************************************************************************)
EXTENDS Naturals, Sequences, FiniteSetsExt

SE == INSTANCE SequencesExt

CONSTANTS Keys, Values, NULL, MaxCount

VARIABLES entries, result

Count == MapThenSumSet(LAMBDA k : Len(entries[k]), Keys)

Latest(k) == IF entries[k] = <<>> THEN NULL ELSE SE!Last(entries[k])

Init ==
    /\ entries = [k \in Keys |-> <<>>]
    /\ result = NULL

Insert(k, v) ==
    /\ Count < MaxCount
    /\ entries' = [entries EXCEPT ![k] = Append(@, v)]
    /\ UNCHANGED result

Take(k) ==
    /\ result' = Latest(k)
    /\ entries' = [entries EXCEPT ![k] = IF @ = <<>> THEN @ ELSE SE!Front(@)]

Remove(k) ==
    /\ entries' = [entries EXCEPT ![k] = IF @ = <<>> THEN @ ELSE SE!Front(@)]
    /\ UNCHANGED result

Replace(k, v) ==
    /\ entries[k] = <<>> => Count < MaxCount
    /\ entries' = [entries EXCEPT ![k] = Append(IF @ = <<>> THEN @ ELSE SE!Front(@), v)]
    /\ UNCHANGED result

Find(k) ==
    /\ result' \in IF entries[k] = <<>> THEN {NULL} ELSE SE!ToSet(entries[k])
    /\ UNCHANGED entries

Clear ==
    /\ entries' = [k \in Keys |-> <<>>]
    /\ UNCHANGED result

Next ==
    \/ \E k \in Keys, v \in Values : Insert(k, v) \/ Replace(k, v)
    \/ \E k \in Keys : Take(k) \/ Remove(k) \/ Find(k)
    \/ Clear

Spec == Init /\ [][Next]_<<entries, result>>
==============================================================================
