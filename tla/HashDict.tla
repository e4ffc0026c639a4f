------------------------------ MODULE HashDict ------------------------------
(***************************************************************************)
(* support/Dict<Key, T, Hash> as the source implements it: an array of     *)
(* m_size singly linked chains; Insert pushes a node on the front of chain *)
(* Lookup(key) = m_hasher(key) % m_size.                                   *)
(*   size   = m_size,  count = m_count                                     *)
(*   table  = m_nodes: chain i as the sequence of its nodes, head first;   *)
(*            a node is its key and data pointer                           *)
(*   result = the pointer the last Find or Take returned (NULL for 0)      *)
(* AutoDelete is left at its default (false): removal deletes nothing.     *)
(***************************************************************************)
EXTENDS Naturals, Sequences, FiniteSetsExt

SE == INSTANCE SequencesExt

CONSTANTS Keys, Values, NULL,
          HashOf,       \* m_hasher: DefaultHash<Key> of every key
          InitialSize,  \* the Dict(int size) argument
          Sizes,        \* arguments Resize is called with
          MaxCount      \* bound on m_count for TLC

ASSUME InitialSize >= 1 /\ \A n \in Sizes : n >= 1

VARIABLES size, table, count, result

vars == <<size, table, count, result>>

Node == [key : Keys, data : Values]

\* Dict::Lookup(key, size) == m_hasher(key) % size
Lookup(k, n) == HashOf[k] % n

\* Dict(size): m_nodes = new Node*[size], every chain empty.
Init ==
    /\ size = InitialSize
    /\ table = [i \in 0 .. InitialSize - 1 |-> <<>>]
    /\ count = 0
    /\ result = NULL

\* The position of the first node of chain c with key k, 0 if none: the
\* while loops of Take and Find.
FirstWith(c, k) == SE!SelectInSeq(c, LAMBDA nd : nd.key = k)
\* The node Take and Find reach for key k in table t: the first node with
\* the key in chain Lookup(key), as a position (0 if none).
Pos(t, k) == FirstWith(t[Lookup(k, size)], k)

\* What Find and Take return: the data of that node, or 0.
Found(t, k) == IF Pos(t, k) = 0 THEN NULL ELSE t[Lookup(k, size)][Pos(t, k)].data

\* Mutant: m_count is not decremented when Take unlinks a node.
UnlinkKeepsCount(k) ==
    /\ table' = IF Pos(table, k) = 0 THEN table
                ELSE [table EXCEPT ![Lookup(k, size)] = SE!RemoveAt(@, Pos(table, k))]
    /\ count' = count

\* Dict::Take's loop: *node_ptr = node->next; delete node; --m_count.
Unlink(k) ==
    /\ table' = IF Pos(table, k) = 0 THEN table
                ELSE [table EXCEPT ![Lookup(k, size)] = SE!RemoveAt(@, Pos(table, k))]
    /\ count' = IF Pos(table, k) = 0 THEN count ELSE count - 1
-----------------------------------------------------------------------------
\* Dict::Insert: m_nodes[index] = new Node(key, NewItem(data), m_nodes[index])
Insert(k, v) ==
    /\ count < MaxCount
    /\ table' = [table EXCEPT ![Lookup(k, size)] = <<[key |-> k, data |-> v]>> \o @]
    /\ count' = count + 1
    /\ UNCHANGED <<size, result>>

\* Dict::Take: unlinks the first node with the key in its chain and
\* returns its data, or returns 0.
Take(k) ==
    /\ Unlink(k)
    /\ result' = Found(table, k)
    /\ UNCHANGED size

\* Dict::Remove: Take(key); DeleteItem(data) if found (a no-op without
\* AutoDelete); returns whether it found one.
Remove(k) ==
    /\ Unlink(k)
    /\ UNCHANGED <<size, result>>

\* Dict::Replace: Remove(key); Insert(key, data).
Replace(k, v) ==
    LET i  == Lookup(k, size)
        t1 == IF Pos(table, k) = 0 THEN table
              ELSE [table EXCEPT ![i] = SE!RemoveAt(@, Pos(table, k))]
        c1 == IF Pos(table, k) = 0 THEN count ELSE count - 1
    IN /\ c1 < MaxCount
       /\ table' = [t1 EXCEPT ![i] = <<[key |-> k, data |-> v]>> \o @]
       /\ count' = c1 + 1
       /\ UNCHANGED <<size, result>>

\* Dict::Find / operator[]: the data of the first node with the key in its
\* chain, or 0.
Find(k) ==
    /\ result' = Found(table, k)
    /\ UNCHANGED <<size, table, count>>

\* Dict::Clear: every chain is emptied (DeleteItem on each element).
Clear ==
    /\ table' = [i \in DOMAIN table |-> <<>>]
    /\ count' = 0
    /\ UNCHANGED <<size, result>>

\* Mutant: the new chain index is computed with the old table size.
ResizedWithOldSize(n) ==
    LET Move(new, i) ==
            [j \in 0 .. n - 1 |->
               SE!Reverse(SelectSeq(table[i], LAMBDA nd : Lookup(nd.key, size) % n = j)) \o new[j]]
    IN SE!FoldLeft(Move, [j \in 0 .. n - 1 |-> <<>>], [x \in 1 .. size |-> x - 1])

\* Dict::Resize(size)'s loops: for every old chain i in order, its nodes are
\* popped from the front and each pushed on the front of new chain
\* Lookup(node->key, size).  Pushing chain i's nodes for new chain j
\* reverses them and puts them before those moved from earlier chains.
Resized(n) ==
    LET Move(new, i) ==
            [j \in 0 .. n - 1 |->
               SE!Reverse(SelectSeq(table[i], LAMBDA nd : Lookup(nd.key, n) = j)) \o new[j]]
    IN SE!FoldLeft(Move, [j \in 0 .. n - 1 |-> <<>>], [x \in 1 .. size |-> x - 1])

\* Mutant: m_size is left at the old size after the table is replaced.
ResizeKeepsSize(n) ==
    /\ table' = Resized(n)
    /\ UNCHANGED <<size, count, result>>

\* Dict::Resize: the new table replaces m_nodes and m_size = size.
Resize(n) ==
    /\ table' = Resized(n)
    /\ size' = n
    /\ UNCHANGED <<count, result>>

Next ==
    \/ \E k \in Keys, v \in Values : Insert(k, v) \/ Replace(k, v)
    \/ \E k \in Keys : Take(k) \/ Remove(k) \/ Find(k)
    \/ Clear
    \/ \E n \in Sizes : Resize(n)

Spec == Init /\ [][Next]_vars
-----------------------------------------------------------------------------
(* Properties                                                              *)

TypeOK ==
    /\ size \in {InitialSize} \cup Sizes
    /\ table \in [0 .. size - 1 -> Seq(Node)]
    /\ count \in 0 .. MaxCount
    /\ result \in Values \cup {NULL}

\* Every node sits in the chain its key hashes to under the current size,
\* after any sequence of inserts, removals and resizes: otherwise Find and
\* Take, which search only chain Lookup(key), miss it.
EveryNodeInItsChain ==
    \A i \in DOMAIN table : \A p \in 1 .. Len(table[i]) :
        Lookup(table[i][p].key, size) = i

\* m_count, maintained by Insert, Take, Clear and Resize, equals the number
\* of nodes in the chains.
CountMatchesNodes == count = MapThenSumSet(LAMBDA i : Len(table[i]), DOMAIN table)

\* The elements under key k as DictSpec orders them: oldest first.
Entries == [k \in Keys |->
              [p \in 1 .. Len(SE!Reverse(SelectSeq(table[Lookup(k, size)],
                                                   LAMBDA nd : nd.key = k))) |->
                 SE!Reverse(SelectSeq(table[Lookup(k, size)], LAMBDA nd : nd.key = k))[p].data]]

Abstract == INSTANCE DictSpec WITH entries <- Entries

\* The hash table implements the documented dictionary: Take, Remove and
\* Replace act on the element inserted last under the key, Find yields an
\* element under it, and Resize does not change what they see.
DictRefinement == Abstract!Spec
==============================================================================
