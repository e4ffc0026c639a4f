------------------------------- MODULE MCLooper -------------------------------
EXTENDS Looper, TLC

MC_MSG_USER == 4096          \* MSG_USER
MC_MSG_WINDOW_CLOSE == 81    \* MSG_WINDOW_CLOSE, 0x0051
MCAppKinds == {MSG_QUIT, MC_MSG_USER}
MCEventKinds == {MC_MSG_WINDOW_CLOSE}

\* Heap addresses and View objects are interchangeable.
MCSymmetry == Permutations(HeapMsgs) \cup Permutations(Handlers)
==============================================================================
