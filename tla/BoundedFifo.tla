----------------------------- MODULE BoundedFifo -----------------------------
(***************************************************************************)
(* What app/MessageQueue promises its user, the Looper: a FIFO of at most  *)
(* Capacity message pointers.  A message is added only while the FIFO is   *)
(* not full, and taking returns the oldest one and hands it to the caller, *)
(* who deletes it when done; destroying the queue deletes what it holds.   *)
(***************************************************************************)
EXTENDS Naturals, Sequences

CONSTANTS Capacity, Msgs, NULL

VARIABLES fifo,   \* the pending messages, oldest first
          taken   \* the message most recently handed to the caller

vars == <<fifo, taken>>

Init == fifo = <<>> /\ taken = NULL

Put(m) ==
    /\ Len(fifo) < Capacity
    /\ fifo' = Append(fifo, m)
    /\ UNCHANGED taken

Take ==
    /\ fifo # <<>>
    /\ taken' = Head(fifo)
    /\ fifo' = Tail(fifo)

\* The caller is done with the message it was handed and deletes it.
Release ==
    /\ taken # NULL
    /\ taken' = NULL
    /\ UNCHANGED fifo

\* The queue is destroyed together with every message it still holds.
Destroy ==
    /\ fifo' = <<>>
    /\ taken' = NULL

Next == (\E m \in Msgs : Put(m)) \/ Take \/ Release \/ Destroy

Spec == Init /\ [][Next]_vars
==============================================================================
