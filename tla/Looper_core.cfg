\* Two views, a queue of 2, one heap address beside WindowProc's static
\* message; QuitRequested may veto.  No symmetry reduction: it is unsound
\* together with the liveness property.
CONSTANTS
    Handlers = {v1, v2}
    L = L
    HeapMsgs = {h1}
    S = S
    NULL = NULL
    Capacity = 2
    AppKinds <- MCAppKinds
    EventKinds <- MCEventKinds
    QuitAnswers = {TRUE, FALSE}
    MaxRegistrations = 2
SPECIFICATION Spec
INVARIANT TypeOK
INVARIANT OwnerImpliesListed
INVARIANT TeardownDetachesAll
INVARIANT TeardownFreesAll
INVARIANT CountMatchesOccupancy
PROPERTY QueueIsFifo
PROPERTY QueuedEventuallyDispatched
\* The loop stops for good once Quit() has been called and the last
\* callback has returned: WinApp::Run returns.
CHECK_DEADLOCK FALSE
