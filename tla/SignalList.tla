----------------------------- MODULE SignalList -----------------------------
(***************************************************************************)
(* support/Signal<T>: a Signal is the head m_connections of a singly       *)
(* linked list of heap nodes SignalConnection{receiver, next} carrying a   *)
(* member function fn.                                                     *)
(*   head[s] = m_connections of Signal s                                   *)
(*   conn[n] = the node at heap address n, or FREE                         *)
(* Emission calls back into client code and is modelled by the module     *)
(* that owns the Signals (ViewTree).                                       *)
(***************************************************************************)
EXTENDS Naturals, Sequences

CONSTANTS Conns,   \* heap addresses of connection nodes
          Fns,     \* member functions that can be connected
          NULL, FREE

VARIABLES conn, head

\* Signal(): m_connections(nullptr); no node is allocated yet.
SigInit(sigs) ==
    /\ conn = [n \in Conns |-> FREE]
    /\ head = [s \in sigs |-> NULL]

FreeConns == {n \in Conns : conn[n] = FREE}

\* The nodes of a list from n on, following next (a list never holds a
\* freed node: both ways of freeing one unlink it first).
RECURSIVE ChainFrom(_)
ChainFrom(n) == IF n = NULL THEN <<>> ELSE <<n>> \o ChainFrom(conn[n].next)

Chain(s) == ChainFrom(head[s])

\* Signal::Connect(receiver, fn): m_connections = new
\* SignalConnectionImpl(receiver, fn, m_connections), at a free address n.
SigConnect(s, r, fn, n) ==
    /\ conn[n] = FREE
    /\ conn' = [conn EXCEPT ![n] = [recv |-> r, fn |-> fn, next |-> head[s]]]
    /\ head' = [head EXCEPT ![s] = n]

\* Positions of the list of s whose node connects receiver r's fn.
Matches(s, r, fn) ==
    LET ch == Chain(s) IN
    {i \in 1 .. Len(ch) : conn[ch[i]].recv = r /\ conn[ch[i]].fn = fn}

\* The node Signal::Disconnect(receiver, fn) unlinks and deletes: the
\* first match from the head, or NULL when there is none.
Disconnected(s, r, fn) ==
    IF Matches(s, r, fn) = {} THEN NULL
    ELSE Chain(s)[CHOOSE i \in Matches(s, r, fn) :
                      \A j \in Matches(s, r, fn) : i <= j]

\* Signal::Disconnect: walk c_ptr along the list; at the first node with
\* c->receiver == receiver and ci->fn == fn: *c_ptr = ci->next, delete ci,
\* return.
SigDisconnect(s, r, fn) ==
    LET ch == Chain(s)
        n  == Disconnected(s, r, fn)
        i  == CHOOSE k \in 1 .. Len(ch) : ch[k] = n
    IN IF n = NULL
       THEN UNCHANGED <<conn, head>>
       ELSE /\ conn' = [m \in Conns |->
                          IF m = n THEN FREE
                          ELSE IF i > 1 /\ m = ch[i - 1]
                          THEN [conn[m] EXCEPT !.next = conn[n].next]
                          ELSE conn[m]]
            /\ head' = IF i = 1 THEN [head EXCEPT ![s] = conn[n].next] ELSE head

\* The nodes the destructors of the Signals in sigs delete.
Owned(sigs) == UNION {{Chain(s)[i] : i \in DOMAIN Chain(s)} : s \in sigs}

\* Signal::~Signal for every Signal in sigs: each node is unlinked and
\* deleted in turn; nothing is called.
SigDestroy(sigs) ==
    /\ conn' = [n \in Conns |-> IF n \in Owned(sigs) THEN FREE ELSE conn[n]]
    /\ head' = [s \in DOMAIN head |-> IF s \in sigs THEN NULL ELSE head[s]]
==============================================================================
