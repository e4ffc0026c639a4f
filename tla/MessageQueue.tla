---------------------------- MODULE MessageQueue ----------------------------
(***************************************************************************)
(* app/MessageQueue: a ring buffer of Message pointers.                    *)
(*   slots  = m_queue   (NULL for an empty slot)                           *)
(*   first  = m_first   index of the oldest entry                          *)
(*   count  = m_count   number of entries the queue believes it holds      *)
(*   taken  = the pointer GetNextMessage() last returned to its caller     *)
(* The queue is only ever filled through Looper::PostMessage, which tests  *)
(* IsFull() first (Post); the Looper module checks the queue in that use. *)
(***************************************************************************)
EXTENDS Naturals, FiniteSets

CONSTANTS RequestedCapacity, \* the constructor argument
          Msgs,              \* message pointers that can be added
          NULL,
          MaxCount           \* bound on m_count for TLC

MINIMAL_CAPACITY == 1

\* MessageQueue(uint capacity): m_capacity(Max(capacity, MINIMAL_CAPACITY))
Capacity == IF RequestedCapacity < MINIMAL_CAPACITY
            THEN MINIMAL_CAPACITY ELSE RequestedCapacity

Slot == 0 .. Capacity - 1

VARIABLES slots, first, count, taken

vars == <<slots, first, count, taken>>

Init ==
    /\ slots = [i \in Slot |-> NULL]
    /\ first = 0
    /\ count = 0
    /\ taken = NULL

IsEmpty == count = 0
IsFull  == count >= Capacity

\* NextMessage(): the slot at m_first, NULL if there is none.
NextMessage == slots[first]

\* Mutant: the tail index forgets the m_first offset.
AddMessageNoOffset(m) ==
    /\ count < MaxCount
    /\ slots' = IF count < Capacity
                THEN [slots EXCEPT ![count % Capacity] = m]
                ELSE slots
    /\ count' = count + 1
    /\ UNCHANGED <<first, taken>>

\* AddMessage stores only while m_count < m_capacity but always
\* increments m_count.
AddMessage(m) ==
    /\ count < MaxCount
    /\ slots' = IF count < Capacity
                THEN [slots EXCEPT ![(first + count) % Capacity] = m]
                ELSE slots
    /\ count' = count + 1
    /\ UNCHANGED <<first, taken>>

\* Mutant: m_first advances without wrapping around.
GetNextMessageNoWrap ==
    /\ count # 0
    /\ taken' = slots[first]
    /\ slots' = [slots EXCEPT ![first] = NULL]
    /\ first' = first + 1
    /\ count' = count - 1

\* GetNextMessage(): returns nullptr without a state change when m_count
\* is 0 (that call is a stutter and not an action of its own).
GetNextMessage ==
    /\ count # 0
    /\ taken' = slots[first]
    /\ slots' = [slots EXCEPT ![first] = NULL]
    /\ first' = (first + 1) % Capacity
    /\ count' = count - 1

\* Mutant: PostMessage without its IsFull() test.
PostUnguarded(m) == AddMessage(m)

\* Looper::PostMessage: if (m_messageQueue.IsFull()) return false;
Post(m) == ~IsFull /\ AddMessage(m)

-----------------------------------------------------------------------------
TypeOK ==
    /\ slots \in [Slot -> Msgs \cup {NULL}]
    /\ first \in Slot
    /\ count \in 0 .. MaxCount
    /\ taken \in Msgs \cup {NULL}

\* The pending messages as the abstract FIFO sees them: count entries
\* starting at first, wrapping around the ring.
Pending == [i \in 1 .. count |-> slots[(first + i - 1) % Capacity]]
==============================================================================
