------------------------------ MODULE ListSpec ------------------------------
(***************************************************************************)
(* What support/List promises in its interface comments: a sequence of     *)
(* element pointers and an iterator into it, that points at an element or  *)
(* at End(), "behind the last element".                                    *)
(*   items  = the element pointers in list order                          *)
(*   cursor = the client iterator's position: 1 .. Len(items) at an        *)
(*            element, Len(items) + 1 at End(), 0 once the element it      *)
(*            pointed at was removed by another call                       *)
(* Pointers are compared by reference (FindRef) or by the value Content    *)
(* gives them (Find, operator== of T).                                     *)
(***************************************************************************)
EXTENDS Naturals, Sequences

SE == INSTANCE SequencesExt

CONSTANTS Ptrs, Content, Values, Source

VARIABLES items, cursor

AtEnd == Len(items) + 1

Valid == cursor # 0

\* The first position from `from' on whose pointer is in `match', or End().
FirstFrom(from, match) ==
    LET hits == {i \in from .. Len(items) : items[i] \in match}
    IN IF hits = {} THEN AtEnd ELSE SE!Min(hits)

EqualTo(v) == {p \in Ptrs : Content[p] = v}

Init ==
    /\ items = <<>>
    /\ cursor = 1

\* Begin(), End(), operator++ (not at End()) and operator-- (not at the
\* first element).
Begin == cursor' = 1 /\ UNCHANGED items
End == cursor' = AtEnd /\ UNCHANGED items
Inc ==
    /\ Valid /\ cursor # AtEnd
    /\ cursor' = cursor + 1
    /\ UNCHANGED items
Dec ==
    /\ Valid /\ cursor # 1
    /\ cursor' = cursor - 1
    /\ UNCHANGED items

\* FindNext(data, pos) / FindNextRef(data, pos): the next element from pos
\* equal to data (a reference to data), or End(); Find / FindRef start at
\* Begin().
FindNext(match, from) ==
    /\ cursor' = FirstFrom(from, match)
    /\ UNCHANGED items

\* Insert(data, pos) puts data before pos; Append(data) before End().  An
\* iterator keeps pointing at its element.
InsertBefore(j, p) ==
    /\ items' = SE!InsertAt(items, j, p)
    /\ cursor' = IF cursor >= j THEN cursor + 1 ELSE cursor

\* Take(pos) / Remove(pos): removes the element at pos, which then points
\* at the element behind it.
TakeAt ==
    /\ Valid /\ cursor # AtEnd
    /\ items' = SE!RemoveAt(items, cursor)
    /\ UNCHANGED cursor

\* Remove(data) / RemoveRef(data): removes the first matching element.
RemoveFirst(match) ==
    LET j == FirstFrom(1, match)
    IN /\ items' = IF j = AtEnd THEN items ELSE SE!RemoveAt(items, j)
       /\ cursor' = CASE j = AtEnd \/ cursor < j -> cursor
                      [] cursor = j             -> 0
                      [] OTHER                  -> cursor - 1

\* Clear(): no element is left; End() stays valid.
Clear ==
    /\ items' = <<>>
    /\ cursor' = IF cursor = AtEnd THEN 1 ELSE 0

\* operator+= / Append(list): the pointers of list are added at the end.
AppendList ==
    /\ items' = items \o Source
    /\ cursor' = IF cursor = AtEnd THEN AtEnd + Len(Source) ELSE cursor

\* operator=: the list becomes a copy of list's pointers.
Assign ==
    /\ items' = Source
    /\ cursor' = IF cursor = AtEnd THEN Len(Source) + 1 ELSE 0

Next ==
    \/ Begin \/ End \/ Inc \/ Dec
    \/ \E v \in Values : FindNext(EqualTo(v), 1) \/ (Valid /\ FindNext(EqualTo(v), cursor))
    \/ \E p \in Ptrs : FindNext({p}, 1) \/ (Valid /\ FindNext({p}, cursor))
    \/ \E p \in Ptrs, j \in {1, AtEnd} \cup (IF Valid THEN {cursor} ELSE {}) :
          InsertBefore(j, p)
    \/ TakeAt
    \/ \E v \in Values : RemoveFirst(EqualTo(v))
    \/ \E p \in Ptrs : RemoveFirst({p})
    \/ Clear \/ AppendList \/ Assign

Spec == Init /\ [][Next]_<<items, cursor>>
==============================================================================
