----------------------------- MODULE LinkedList -----------------------------
(***************************************************************************)
(* support/List<T> as the source implements it: a circular doubly linked   *)
(* list of heap nodes closed by the sentinel link m_end, a client          *)
(* iterator into it, and the AutoDelete option of Collection<T>.           *)
(*   link       = next/prev of m_end and of every node address             *)
(*   data       = the element pointer of every node (NULL when not live)   *)
(*   live       = the node addresses currently allocated by the list       *)
(*   count      = m_count                                                  *)
(*   it         = the m_node of the client's Iterator (DANGLING once that  *)
(*                node is deleted by another call: its address may be     *)
(*                reused, the iterator stays unusable)                    *)
(*   autoDelete = m_autoDelete;  freed = the element pointers deleted      *)
(* The client keeps the contracts of the interface comments: it uses an   *)
(* iterator only while it points at END or a live node, Take()s only at a  *)
(* node, and enables AutoDelete only while the list holds the sole         *)
(* references to its elements (Collection.h).  Source is a second List     *)
(* the client copies from with operator= and operator+=.                   *)
(***************************************************************************)
EXTENDS Naturals, Sequences, FiniteSets, Functions

SE == INSTANCE SequencesExt

CONSTANTS Nodes,    \* heap addresses new Node may return
          END,      \* &m_end
          Ptrs,     \* element pointers (T*) the client owns
          Content,  \* the value *p of every element pointer
          Values,   \* values Find/Remove compare against
          Source,   \* the elements of the list copied from
          NULL,
          DANGLING  \* an iterator's m_node once its node is deleted

Link == Nodes \cup {END}

VARIABLES link, data, live, count, it, autoDelete, freed

vars == <<link, data, live, count, it, autoDelete, freed>>

\* List(): m_count(0), m_end(&m_end, &m_end); Collection(): autoDelete off.
Init ==
    /\ link = [n \in Link |-> [next |-> END, prev |-> END]]
    /\ data = [n \in Nodes |-> NULL]
    /\ live = {}
    /\ count = 0
    /\ it = END
    /\ autoDelete = FALSE
    /\ freed = {}

\* List::LinkNodes(prev, next): prev->next = next; next->prev = prev.
LinkNodes(l, a, b) == [l EXCEPT ![a].next = b, ![b].prev = a]

\* List::UnlinkNode(node): LinkNodes(node->prev, node->next).
UnlinkNode(l, n) == LinkNodes(l, l[n].prev, l[n].next)

\* Mutant: the two LinkNodes calls of Insert in the opposite order, so the
\* second reads pos->prev after the first has overwritten it.
LinkedBeforeSwapped(l, n, pos) ==
    LET l1 == LinkNodes(l, n, pos) IN LinkNodes(l1, l1[pos].prev, n)

\* The links after List::Insert puts node n before pos:
\* LinkNodes(pos.m_node->prev, new_node); LinkNodes(new_node, pos.m_node).
LinkedBefore(l, n, pos) == LinkNodes(LinkNodes(l, l[pos].prev, n), n, pos)

\* The nodes in list order, walked along next from m_end; the walk stops
\* after every address has been visited once more than there are nodes.
RECURSIVE WalkFrom(_, _)
WalkFrom(n, fuel) ==
    IF n = END \/ fuel = 0 THEN <<>> ELSE <<n>> \o WalkFrom(link[n].next, fuel - 1)

Walk == WalkFrom(link[END].next, Cardinality(Nodes) + 1)

Items == [i \in 1 .. Len(Walk) |-> data[Walk[i]]]

\* The loops of FindNext and FindNextRef: from pos along next until END or
\* a node whose pointer is in match.
RECURSIVE FindFrom(_, _, _)
FindFrom(n, match, fuel) ==
    IF n = END \/ fuel = 0 \/ data[n] \in match THEN n
    ELSE FindFrom(link[n].next, match, fuel - 1)

EqualTo(v) == {p \in Ptrs : Content[p] = v}

\* Collection::DeleteItem for the pointers ps: deleted only with AutoDelete.
DeleteItem(ps) == freed' = freed \cup (IF autoDelete THEN ps ELSE {})

\* The client's own pointers, new to the list while AutoDelete is on.
Insertable(p) ==
    /\ p \notin freed
    /\ autoDelete => p \notin Range(Items) \cup Range(Source)

ValidIt == it \in live \cup {END}

\* The client's iterator after the nodes dead are deleted.
Dangle(dead) == it' = IF it \in dead THEN DANGLING ELSE it
-----------------------------------------------------------------------------
\* The client's iterator is assigned Begin() (m_end.next) or End() (&m_end).
SetIterator(pos) == it' = pos /\ UNCHANGED <<link, data, live, count, autoDelete, freed>>

\* operator++ (m_node = m_node->next), which must not be applied at End(),
\* and operator-- (m_node = m_node->prev), not at the first element.
Step(dir) ==
    /\ ValidIt
    /\ it # (IF dir = "next" THEN END ELSE link[END].next)
    /\ it' = link[it][dir]
    /\ UNCHANGED <<link, data, live, count, autoDelete, freed>>

\* Find / FindRef (from Begin()) and FindNext / FindNextRef (from pos).
FindNext(match, pos) ==
    /\ it' = FindFrom(pos, match, Cardinality(Nodes) + 1)
    /\ UNCHANGED <<link, data, live, count, autoDelete, freed>>

\* List::Insert(data, pos): a new node holding NewItem(data) (the pointer
\* itself) is linked in before pos; ++m_count.  Append(data) is
\* Insert(data, End()).
Insert(p, pos) ==
    /\ Insertable(p)
    /\ \E n \in Nodes \ live :
         /\ link' = LinkedBefore(link, n, pos)
         /\ data' = [data EXCEPT ![n] = p]
         /\ live' = live \cup {n}
    /\ count' = count + 1
    /\ UNCHANGED <<it, autoDelete, freed>>

\* Mutant: Take leaves pos at the node it deletes.
TakeNoAdvance ==
    /\ link' = [UnlinkNode(link, it) EXCEPT ![it] = [next |-> END, prev |-> END]]
    /\ data' = [data EXCEPT ![it] = NULL]
    /\ live' = live \ {it}
    /\ count' = count - 1
    /\ UNCHANGED it

\* List::Take(pos): ++pos; UnlinkNode(node); delete node; --m_count.  The
\* deleted node's fields are no longer state: they are reset.
TakeNode ==
    /\ it' = link[it].next
    /\ link' = [UnlinkNode(link, it) EXCEPT ![it] = [next |-> END, prev |-> END]]
    /\ data' = [data EXCEPT ![it] = NULL]
    /\ live' = live \ {it}
    /\ count' = count - 1

\* Take(pos), which returns the pointer without deleting it (del FALSE),
\* or Remove(pos): DeleteItem(Take(pos)) (del TRUE).
Take(del) ==
    /\ it \in live
    /\ TakeNode
    /\ freed' = freed \cup (IF del /\ autoDelete THEN {data[it]} ELSE {})
    /\ UNCHANGED autoDelete

\* Remove(data) / RemoveRef(data): p = Find(data) (FindRef); if p == End()
\* return false; Remove(p) through the local iterator p.
RemoveFirst(match) ==
    LET n == FindFrom(link[END].next, match, Cardinality(Nodes) + 1)
    IN /\ IF n = END
          THEN UNCHANGED <<link, data, live, count, freed>>
          ELSE /\ link' = [UnlinkNode(link, n) EXCEPT ![n] = [next |-> END, prev |-> END]]
               /\ data' = [data EXCEPT ![n] = NULL]
               /\ live' = live \ {n}
               /\ count' = count - 1
               /\ DeleteItem({data[n]})
       /\ Dangle({n} \ {END})
       /\ UNCHANGED autoDelete

\* Mutant: Clear leaves m_count as it was.
ClearedKeepsCount ==
    /\ link' = [n \in Link |-> [next |-> END, prev |-> END]]
    /\ data' = [n \in Nodes |-> NULL]
    /\ live' = {}
    /\ UNCHANGED count
    /\ DeleteItem(Range(Items))

\* The effect of List::Clear(): every node is unlinked from m_end.next and
\* deleted with DeleteItem(node->data); m_end.prev = &m_end; m_count = 0.
Cleared ==
    /\ link' = [n \in Link |-> [next |-> END, prev |-> END]]
    /\ data' = [n \in Nodes |-> NULL]
    /\ live' = {}
    /\ count' = 0
    /\ DeleteItem(Range(Items))

Clear == Cleared /\ Dangle(live) /\ UNCHANGED autoDelete

\* List::Append(list) (operator+=): Append(p.Get()) for every element of
\* list, each into a new node before End().  The client does not share
\* list's pointers with a list that deletes them.
AppendList ==
    /\ ~autoDelete
    /\ \E ns \in [1 .. Len(Source) -> Nodes \ live] :
         /\ IsInjective(ns)
         /\ link' = SE!FoldLeft(LAMBDA l, n : LinkedBefore(l, n, END), link, ns)
         /\ data' = [n \in Nodes |-> IF \E i \in DOMAIN ns : ns[i] = n
                                     THEN Source[CHOOSE i \in DOMAIN ns : ns[i] = n]
                                     ELSE data[n]]
         /\ live' = live \cup Range(ns)
    /\ count' = count + Len(Source)
    /\ UNCHANGED <<it, autoDelete, freed>>

\* Mutant: operator= leaves AutoDelete as it was.
AssignKeepsAutoDelete ==
    /\ freed' = freed \cup (IF autoDelete THEN Range(Items) ELSE {})
    /\ \E ns \in [1 .. Len(Source) -> Nodes] :
         /\ IsInjective(ns)
         /\ link' = SE!FoldLeft(LAMBDA l, n : LinkedBefore(l, n, END),
                               [n \in Link |-> [next |-> END, prev |-> END]], ns)
         /\ data' = [n \in Nodes |-> IF \E i \in DOMAIN ns : ns[i] = n
                                     THEN Source[CHOOSE i \in DOMAIN ns : ns[i] = n]
                                     ELSE NULL]
         /\ live' = Range(ns)
    /\ count' = Len(Source)
    /\ Dangle(live)
    /\ UNCHANGED autoDelete

\* List::operator=(list): this != &list (Source is another list): Clear();
\* Append(list); SetAutoDelete(false).
Assign ==
    /\ freed' = freed \cup (IF autoDelete THEN Range(Items) ELSE {})
    /\ \E ns \in [1 .. Len(Source) -> Nodes] :
         /\ IsInjective(ns)
         /\ link' = SE!FoldLeft(LAMBDA l, n : LinkedBefore(l, n, END),
                               [n \in Link |-> [next |-> END, prev |-> END]], ns)
         /\ data' = [n \in Nodes |-> IF \E i \in DOMAIN ns : ns[i] = n
                                     THEN Source[CHOOSE i \in DOMAIN ns : ns[i] = n]
                                     ELSE NULL]
         /\ live' = Range(ns)
    /\ count' = Len(Source)
    /\ autoDelete' = FALSE
    /\ Dangle(live)

\* Collection::SetAutoDelete(enable); enabled only while the list holds the
\* sole references to pairwise distinct elements.
SetAutoDelete(b) ==
    /\ b => /\ Range(Items) \cap Range(Source) = {}
            /\ IsInjective(Items)
    /\ autoDelete' = b
    /\ UNCHANGED <<link, data, live, count, it, freed>>

\* What Find/Remove (by value) and FindRef/RemoveRef (by reference) match.
Matches == {EqualTo(v) : v \in Values} \cup {{p} : p \in Ptrs}

\* Positions a client may pass: End(), Begin(), and its iterator if usable.
Positions == {END, link[END].next} \cup (IF ValidIt THEN {it} ELSE {})

Next ==
    \/ \E pos \in {link[END].next, END} : SetIterator(pos)
    \/ \E dir \in {"next", "prev"} : Step(dir)
    \/ \E m \in Matches, pos \in Positions \ {END} : FindNext(m, pos)
    \/ \E p \in Ptrs, pos \in Positions : Insert(p, pos)
    \/ \E del \in BOOLEAN : Take(del)
    \/ \E m \in Matches : RemoveFirst(m)
    \/ Clear \/ AppendList \/ Assign
    \/ \E b \in BOOLEAN : SetAutoDelete(b)

Spec == Init /\ [][Next]_vars
-----------------------------------------------------------------------------
(* Properties                                                              *)

TypeOK ==
    /\ link \in [Link -> [next : Link, prev : Link]]
    /\ data \in [Nodes -> Ptrs \cup {NULL}]
    /\ live \subseteq Nodes
    /\ count \in 0 .. Cardinality(Nodes)
    /\ it \in Link \cup {DANGLING}
    /\ autoDelete \in BOOLEAN
    /\ freed \subseteq Ptrs

\* After any sequence of inserts, takes, removals, copies and clears, the
\* links form one ring through m_end and every live node, each visited
\* once, and prev undoes next everywhere on it: the shape every List
\* operation relies on without checking.
WellLinked ==
    /\ Len(Walk) = Cardinality(live)
    /\ Range(Walk) = live
    /\ \A n \in live \cup {END} : link[link[n].next].prev = n

\* No element pointer that the list or the list it was copied from still
\* holds has been deleted through the AutoDelete of Clear, Remove or
\* operator=.
NoFreedPointerHeld == (Range(Items) \cup Range(Source)) \cap freed = {}

\* The iterator's position: 0 once it points at a node no longer live.
Cursor == IF it = END THEN Len(Walk) + 1
          ELSE IF it \in live THEN CHOOSE i \in DOMAIN Walk : Walk[i] = it
          ELSE 0

Abstract == INSTANCE ListSpec WITH items <- Items, cursor <- Cursor

\* The linked nodes with their iterator implement the sequence and the
\* iterator semantics the interface comments describe.
ListRefinement == Abstract!Spec
==============================================================================
