\* One Window w, one Container c, one Button a; a child list holds at most
\* three pointers; two connection nodes, one slot function; a client call
\* is made with at most three calls in progress.  The run stops at the
\* first undefined behaviour.
CONSTANTS
    w = w
    c = c
    a = a
    n1 = n1
    n2 = n2
    f = f
    Views <- MCViews
    Containers <- MCContainers
    Windows <- MCWindows
    Controls <- MCControls
    Buttons <- MCButtons
    Conns <- MCConns
    Fns <- MCFns
    NULL = NULL
    FREE = FREE
    GARBAGE = GARBAGE
    MaxCount = 3
    MaxStack = 4
SPECIFICATION Spec
INVARIANT NoUndefinedBehaviour
\* Once every View is dead, or undefined behaviour was reached, no call
\* is left to make.
CHECK_DEADLOCK FALSE
