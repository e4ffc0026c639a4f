---------------------------- MODULE MessageEntries ----------------------------
(***************************************************************************)
(* The data entries of app/Message, stored the way the source stores them: *)
(* m_infoList is a support/Vector<DataInfo>, an array of m_capacity        *)
(* pointers of which the first m_count are the entries.                    *)
(*   data  = m_data   (GARBAGE: an uninitialised or deleted pointer)       *)
(*   cap   = m_capacity,  cnt = m_count                                    *)
(*   found = what the last FindData reported (NOT_FOUND for false)         *)
(*   read  = what the caller's variable holds after the last typed reader  *)
(*           (FindBool ... FindRect); NOT_FOUND while none assigned it     *)
(* A DataInfo is abstracted to its name and type code; the payload bytes   *)
(* are copied along with them and no property tells them apart.            *)
(* Dereferencing GARBAGE is undefined: strcmp on its name may say equal or *)
(* not, so Locate has a set of possible results, and a read of it yields   *)
(* GARBAGE.                                                                *)
(***************************************************************************)
EXTENDS Naturals, Sequences, FiniteSets

CONSTANTS Names, Types, ANY_TYPE, NOT_FOUND, GARBAGE,
          MaxEntries   \* bound on m_count for TLC

INITIAL_CAPACITY == 4  \* Message(): m_infoList(4)
MIN_CAPACITY     == 4  \* Vector<T>::MIN_CAPACITY
STRING_TYPE      == 11 \* STRING_TYPE = 0x000B

Entry == [name : Names, type : Types]

VARIABLES data, cap, cnt, found, read

vars == <<data, cap, cnt, found, read>>

\* Message(what, handler): m_infoList(4); new T*[4] leaves the array
\* uninitialised.
Init ==
    /\ cap = INITIAL_CAPACITY
    /\ data = [i \in 0 .. INITIAL_CAPACITY - 1 |-> GARBAGE]
    /\ cnt = 0
    /\ found = NOT_FOUND
    /\ read = NOT_FOUND
-----------------------------------------------------------------------------
(* support/Vector                                                          *)

\* Vector::Grow: new_size = m_capacity * 1.5 (truncated to uint), and
\* Resize raises sizes below MIN_CAPACITY to it.
GrownCapacity(c) ==
    IF (c * 3) \div 2 < MIN_CAPACITY THEN MIN_CAPACITY ELSE (c * 3) \div 2

\* Vector::Resize: a new uninitialised array; the first m_count pointers
\* are copied into it.
Resize(d, c, size) == [j \in 0 .. size - 1 |-> IF j < c THEN d[j] ELSE GARBAGE]

\* Mutant: Append without the capacity check.
AppendEntryNoGrow(e) ==
    /\ data' = IF cnt = 0 THEN data ELSE [data EXCEPT ![cnt - 1] = e]
    /\ cnt' = cnt + 1
    /\ UNCHANGED cap

\* Vector::Append: grow when m_capacity <= m_count, then
\*     m_data[m_count - 1] = NewItem(data); ++m_count;
\* With m_count == 0 the index is UINT_MAX, outside the array: the model
\* takes the outcome in which the write lands elsewhere and is lost.
AppendEntry(e) ==
    LET grow == cap <= cnt
        ncap == IF grow THEN GrownCapacity(cap) ELSE cap
        d1   == IF grow THEN Resize(data, cnt, ncap) ELSE data
    IN /\ cap' = ncap
       /\ data' = IF cnt = 0 THEN d1 ELSE [d1 EXCEPT ![cnt - 1] = e]
       /\ cnt' = cnt + 1

\* Vector::Take(pos) shifts the pointers after pos down by one; the slot
\* m_count - 1 keeps its old pointer.  Vector::Remove(pos) deletes the
\* taken item.
TakeAt(d, c, pos) == [j \in DOMAIN d |-> IF pos <= j /\ j < c - 1 THEN d[j + 1] ELSE d[j]]

\* A slot that certainly holds an entry called n.
Match(d, j, n) == d[j] # GARBAGE /\ d[j].name = n

\* Message::Locate(name, pos): the first index from pos whose entry's name
\* compares equal, or m_count.  A GARBAGE slot may compare either way.
PossibleLocate(d, c, n, pos) ==
    {i \in pos .. c : /\ \A j \in pos .. i - 1 : ~Match(d, j, n)
                      /\ (i = c \/ Match(d, i, n) \/ d[i] = GARBAGE)}
-----------------------------------------------------------------------------
(* Message                                                                 *)

\* Message::AddData and the typed writers AddBool ... AddRect: append a new
\* DataInfo copying the name and the bytes.
AddData(n, t) ==
    /\ cnt < MaxEntries
    /\ AppendEntry([name |-> n, type |-> t])
    /\ UNCHANGED <<found, read>>

\* Message::ReplaceData: info = m_infoList.At(Locate(name)); return false if
\* it is null (At yields null for m_count); otherwise its type and bytes are
\* overwritten in place.  Writing through a GARBAGE pointer changes nothing
\* the model can see.
ReplaceData(n, t) ==
    /\ \E i \in PossibleLocate(data, cnt, n, 0) :
          data' = IF i = cnt \/ data[i] = GARBAGE THEN data
                  ELSE [data EXCEPT ![i] = [name |-> n, type |-> t]]
    /\ UNCHANGED <<cap, cnt, found, read>>

\* Message::FindData's result: the first entry with the name, and false
\* unless type is ANY_TYPE or equals that entry's type.
Lookup(n, t) ==
    {IF i = cnt THEN NOT_FOUND
     ELSE IF data[i] = GARBAGE THEN GARBAGE
     ELSE IF t = ANY_TYPE \/ t = data[i].type THEN data[i]
     ELSE NOT_FOUND : i \in PossibleLocate(data, cnt, n, 0)}

\* Message::FindData called directly (with ANY_TYPE or a type code).
FindData(n, t) ==
    /\ found' \in Lookup(n, t)
    /\ UNCHANGED <<data, cap, cnt, read>>

\* The typed readers FindBool ... FindRect, the only finders clients call:
\* FindData with their fixed type code and, when it returns true,
\* *out = *data into the caller's variable.  FindString's data is a char**
\* to the copied characters themselves, so *data reads the first bytes of
\* the string as a pointer: the caller gets GARBAGE.
FindTyped(n, t) ==
    /\ t \in Types
    /\ \E r \in Lookup(n, t) :
          /\ found' = r
          /\ read' = CASE r = NOT_FOUND   -> read
                        [] r = GARBAGE     -> GARBAGE
                        [] t = STRING_TYPE -> GARBAGE
                        [] OTHER           -> r
    /\ UNCHANGED <<data, cap, cnt>>

\* Mutant: the loop resumes the search one past the removed position.
RECURSIVE RemoveFromSkip(_, _, _, _)
RemoveFromSkip(d, c, n, pos) ==
    UNION {IF i = c THEN {<<d, c>>} ELSE RemoveFromSkip(TakeAt(d, c, i), c - 1, n, i + 1)
           : i \in PossibleLocate(d, c, n, pos)}

\* Message::RemoveName's loop: Remove(pos); pos = Locate(name, pos) until
\* pos == End(), as the set of <<m_data, m_count>> it can end in.
RECURSIVE RemoveFrom(_, _, _, _)
RemoveFrom(d, c, n, pos) ==
    UNION {IF i = c THEN {<<d, c>>} ELSE RemoveFrom(TakeAt(d, c, i), c - 1, n, i)
           : i \in PossibleLocate(d, c, n, pos)}

\* Message::RemoveName: returns false when Locate(name) == End(), else
\* removes every entry with the name.
RemoveName(n) ==
    /\ \E r \in RemoveFrom(data, cnt, n, 0) :
          /\ data' = r[1]
          /\ cnt' = r[2]
    /\ UNCHANGED <<cap, found, read>>

\* Message::Clear: what and the handler are reset (the Looper module
\* models those); m_infoList.Clear() deletes the first m_count items and
\* sets m_count to 0, leaving their pointers dangling in the array.
Clear ==
    /\ data' = [j \in DOMAIN data |-> IF j < cnt THEN GARBAGE ELSE data[j]]
    /\ cnt' = 0
    /\ UNCHANGED <<cap, found, read>>

Next ==
    \/ \E n \in Names, t \in Types : AddData(n, t) \/ ReplaceData(n, t)
    \/ \E n \in Names : FindData(n, ANY_TYPE)
    \/ \E n \in Names, t \in Types : FindTyped(n, t)
    \/ \E n \in Names : RemoveName(n)
    \/ Clear

Spec == Init /\ [][Next]_vars
-----------------------------------------------------------------------------
(* Properties                                                              *)

TypeOK ==
    /\ cap \in Nat /\ cnt \in 0 .. MaxEntries /\ cnt <= cap
    /\ data \in [0 .. cap - 1 -> Entry \cup {GARBAGE}]
    /\ found \in Entry \cup {NOT_FOUND, GARBAGE}
    /\ read \in Entry \cup {NOT_FOUND, GARBAGE}

\* After RemoveName(n) no entry among the first m_count slots is called n,
\* however the removals shifted the array (Vector::Take) and wherever the
\* search resumed (Locate(name, pos)) - the multi-valued case of spec 4.1.
RemoveNameLeavesNone ==
    [][\A n \in Names :
         RemoveName(n) => \A j \in 0 .. cnt' - 1 : ~Match(data', j, n)]_vars

\* The entries as the spec sees them: the first m_count slots.
Entries == [i \in 1 .. cnt |-> data[i - 1]]

Abstract == INSTANCE EntryList WITH entries <- Entries

\* The Vector-backed entry list implements the entry list of spec 4.1: an
\* added entry is the last entry, and find, replace and remove-name act on
\* the entries added.
EntryListRefinement == Abstract!Spec
==============================================================================
