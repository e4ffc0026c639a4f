\* Looks for a violation of QueueOwnsItsMessages.
CONSTANTS
    Handlers = {v1, v2}
    L = L
    HeapMsgs = {h1, h2}
    S = S
    NULL = NULL
    Capacity = 2
    AppKinds <- MCAppKinds
    EventKinds <- MCEventKinds
    QuitAnswers = {TRUE, FALSE}
    MaxRegistrations = 2
SPECIFICATION Spec
SYMMETRY MCSymmetry
CHECK_DEADLOCK FALSE
INVARIANT QueueOwnsItsMessages
