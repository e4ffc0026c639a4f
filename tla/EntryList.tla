------------------------------ MODULE EntryList ------------------------------
(***************************************************************************)
(* What a Message promises about its data entries (spec 4.1): an ordered   *)
(* list of (name, type) entries, duplicates allowed.  Add appends; find    *)
(* and replace act on the first entry with the name; remove-name removes   *)
(* every entry with the name; clear empties the list.                      *)
(***************************************************************************)
EXTENDS Naturals, Sequences, SequencesExt

CONSTANTS Names, Types, ANY_TYPE, NOT_FOUND, MaxEntries

VARIABLES entries, \* the entries, in insertion order
          found    \* the entry the last find returned, or NOT_FOUND

vars == <<entries, found>>

Entry == [name : Names, type : Types]

Init == entries = <<>> /\ found = NOT_FOUND

HasName(n) == \E i \in 1 .. Len(entries) : entries[i].name = n
FirstWith(n) == SelectInSeq(entries, LAMBDA e : e.name = n)

Add(n, t) ==
    /\ Len(entries) < MaxEntries
    /\ entries' = Append(entries, [name |-> n, type |-> t])
    /\ UNCHANGED found

Replace(n, t) ==
    /\ entries' = IF HasName(n)
                  THEN [entries EXCEPT ![FirstWith(n)] = [name |-> n, type |-> t]]
                  ELSE entries
    /\ UNCHANGED found

Find(n, t) ==
    /\ found' = IF HasName(n) /\ (t = ANY_TYPE \/ entries[FirstWith(n)].type = t)
                THEN entries[FirstWith(n)] ELSE NOT_FOUND
    /\ UNCHANGED entries

RemoveAll(n) ==
    /\ entries' = SelectSeq(entries, LAMBDA e : e.name # n)
    /\ UNCHANGED found

Clear == entries' = <<>> /\ UNCHANGED found

Next ==
    \/ \E n \in Names, t \in Types : Add(n, t) \/ Replace(n, t)
    \/ \E n \in Names, t \in Types \cup {ANY_TYPE} : Find(n, t)
    \/ \E n \in Names : RemoveAll(n)
    \/ Clear

Spec == Init /\ [][Next]_vars
==============================================================================
