------------------------------- MODULE Looper -------------------------------
(***************************************************************************)
(* app/Looper with its MessageQueue, the Handlers registered with it and  *)
(* the collaborators that drive it: the application Looper TheApp          *)
(* (Application over WinApp), Views that register on construction and      *)
(* unregister on destruction (interface/View.cpp), WinApp::WindowProc      *)
(* posting translated platform events, and WinApp::Run calling             *)
(* DispatchNextMessage() until Quit().                                     *)
(*                                                                         *)
(* A dispatch is two steps: DispatchNextMessage takes the oldest message   *)
(* and routes it, the receiver's MessageReceived() callback then runs, and *)
(* ReturnFromDispatch deletes the message and clears m_currentMessage.     *)
(* While the callback runs, the handler may call back into the Looper      *)
(* (post, register, unregister, destroy views): every API action is       *)
(* enabled then as well, which is what single-threaded reentrancy allows.  *)
(***************************************************************************)
EXTENDS Naturals, Sequences, SequencesExt, FiniteSets

CONSTANTS Handlers,        \* View objects (model values)
          L,               \* the Looper itself (TheApp), also a Handler
          HeapMsgs,        \* addresses a new Message can be allocated at
          S,               \* WindowProc's  static Message message(MSG_UNKNOWN)
          NULL,
          Capacity,        \* constructor argument of the Looper's queue
          AppKinds,        \* kinds application code posts by value
          EventKinds,      \* kinds WindowProc translates platform events to
          QuitAnswers,     \* what QuitRequested() may answer (a subclass hook)
          MaxRegistrations \* bound on the length of m_handlers for TLC

MSG_QUIT    == 96      \* 0x0060
MSG_UNKNOWN == 65535   \* 0xFFFF

MsgPtrs == HeapMsgs \cup {S}
Dests   == Handlers \cup {L, NULL}
Kinds   == AppKinds \cup EventKinds \cup {MSG_UNKNOWN, 0, 1}

VARIABLES
    slots, first, count, currentMessage, \* m_messageQueue, m_currentMessage
    owner,          \* Handler::m_looper of every View
    handlerList,    \* Looper::m_handlers, in list order
    defaultHandler, \* Looper::m_defaultHandler
    mainWindow,     \* Application::m_mainWindow
    quit,           \* WinApp::m_quit
    life,           \* "unborn", "alive" or "dead" for every View object
    heap,           \* "free" or "live" for every heap address
    leaked,         \* some clone made by PostMessage(Message*) was leaked
    what,           \* Message::what of every message object
    dest,           \* Message::m_handler of every message object
    postedKinds,    \* ghost: the kind each queued entry had when posted
    delivered,      \* ghost: the last routing decision DispatchMessage made
    app             \* "running", or "destroyed" once TheApp is deleted

queueVars == <<slots, first, count, currentMessage>>
regVars   == <<owner, handlerList, defaultHandler, mainWindow, life>>
msgVars   == <<heap, leaked, what, dest>>
vars == <<queueVars, regVars, msgVars, quit, postedKinds, delivered, app>>

Q == INSTANCE MessageQueue
        WITH RequestedCapacity <- Capacity, Msgs <- MsgPtrs,
             MaxCount <- Capacity + 1, taken <- currentMessage

Init ==
    /\ Q!Init
    /\ owner = [h \in Handlers |-> NULL]
    /\ handlerList = <<>>
    /\ defaultHandler = NULL
    /\ mainWindow = NULL
    /\ quit = FALSE
    /\ life = [h \in Handlers |-> "unborn"]
    /\ heap = [m \in HeapMsgs |-> "free"]
    /\ leaked = FALSE
    /\ what = [m \in MsgPtrs |-> MSG_UNKNOWN]
    /\ dest = [m \in MsgPtrs |-> NULL]
    /\ postedKinds = <<>>
    /\ delivered = NULL
    /\ app = "running"
-----------------------------------------------------------------------------
(* Registration                                                            *)

\* Looper::AddHandler: m_handlers.Append(handler); handler->SetLooper(this);
AddHandler(h) ==
    /\ Len(handlerList) < MaxRegistrations
    /\ handlerList' = Append(handlerList, h)
    /\ owner' = [owner EXCEPT ![h] = L]

\* Mutant: the owner link is left set after unlinking.
LooperRemoveHandlerKeepsOwner(h) ==
    IF h \in Range(handlerList)
    THEN /\ handlerList' = RemoveAt(handlerList, SelectInSeq(handlerList, LAMBDA x : x = h))
         /\ UNCHANGED owner
    ELSE UNCHANGED <<handlerList, owner>>

\* Looper::RemoveHandler: List::RemoveRef unlinks the first node holding h.
LooperRemoveHandler(h) ==
    IF h \in Range(handlerList)
    THEN /\ handlerList' = RemoveAt(handlerList, SelectInSeq(handlerList, LAMBDA x : x = h))
         /\ owner' = [owner EXCEPT ![h] = NULL]
    ELSE UNCHANGED <<handlerList, owner>>

\* Application::RemoveHandler: removing the main window quits the loop.
RemoveHandler(h) ==
    /\ IF h = mainWindow
       THEN mainWindow' = NULL /\ quit' = TRUE
       ELSE UNCHANGED <<mainWindow, quit>>
    /\ LooperRemoveHandler(h)

\* Application code calling TheApp->AddHandler / RemoveHandler itself.
ClientAddHandler(h) ==
    /\ life[h] = "alive"
    /\ AddHandler(h)
    /\ UNCHANGED <<queueVars, defaultHandler, mainWindow, quit, life,
                   msgVars, postedKinds, delivered>>

ClientRemoveHandler(h) ==
    /\ life[h] = "alive"
    /\ RemoveHandler(h)
    /\ UNCHANGED <<queueVars, defaultHandler, life, msgVars,
                   postedKinds, delivered>>

\* Looper::SetDefaultHandler: accepted only if handler->Looper() == this.
SetDefaultHandler(h) ==
    /\ life[h] = "alive"
    /\ owner[h] = L
    /\ defaultHandler' = h
    /\ UNCHANGED <<queueVars, owner, handlerList, mainWindow, life, quit,
                   msgVars, postedKinds, delivered>>

\* Application::SetMainWindow
SetMainWindow(h) ==
    /\ life[h] = "alive"
    /\ mainWindow' = h
    /\ UNCHANGED <<queueVars, owner, handlerList, defaultHandler, life,
                   quit, msgVars, postedKinds, delivered>>

\* View::View / View::Init end with TheApp->AddHandler(this).
CreateView(h) ==
    /\ life[h] = "unborn"
    /\ life' = [life EXCEPT ![h] = "alive"]
    /\ AddHandler(h)
    /\ UNCHANGED <<queueVars, defaultHandler, mainWindow, quit, msgVars,
                   postedKinds, delivered>>

\* View::~View calls TheApp->RemoveHandler(this); Handler::~Handler then
\* detaches from a Looper it is still linked to.  Neither clears
\* m_defaultHandler nor the destination of queued messages.
DestroyView(h) ==
    /\ life[h] = "alive"
    /\ life' = [life EXCEPT ![h] = "dead"]
    /\ RemoveHandler(h)
    /\ UNCHANGED <<queueVars, defaultHandler, msgVars, postedKinds, delivered>>
-----------------------------------------------------------------------------
(* Posting                                                                 *)

\* Looper::PostMessage(uint what, Handler* handler): a new Message of kind
\* k addressed to d is added to the queue (Q!Post fails when IsFull()).
PostWhat(k, d) ==
    \E m \in HeapMsgs :
        /\ heap[m] = "free"
        /\ Q!Post(m)
        /\ heap' = [heap EXCEPT ![m] = "live"]
        /\ what' = [what EXCEPT ![m] = k]
        /\ dest' = [dest EXCEPT ![m] = d]
        /\ postedKinds' = Append(postedKinds, k)
        /\ UNCHANGED <<regVars, quit, leaked, delivered>>

\* Looper::PostMessage(Message* message, Handler* handler): returns false
\* when the queue is full; otherwise it clones the message into a new heap
\* object msg, sets msg's handler, and then adds the ORIGINAL pointer m to
\* the queue.  The clone is never reachable again: it leaks, which is all
\* the model keeps of it (leaked).
PostMessageRef(m) ==
    \/ /\ Q!IsFull
       /\ UNCHANGED <<queueVars, leaked, postedKinds>>
    \/ /\ Q!Post(m)
       /\ leaked' = TRUE
       /\ postedKinds' = Append(postedKinds, what'[m])

\* WinApp::WindowProc: message.Clear() resets the static message, the event
\* sets its kind, and TheWinApp->PostMessage(&message, GetMessageHandler(..))
\* is called.  The handler only reaches the leaked clone; GetMessageHandler's
\* missing return statement leaves it undefined, and it is never read.
WindowProc(k) ==
    /\ what' = [what EXCEPT ![S] = k]
    /\ dest' = [dest EXCEPT ![S] = NULL]
    /\ PostMessageRef(S)
    /\ UNCHANGED <<regVars, quit, delivered, heap>>
-----------------------------------------------------------------------------
(* Dispatch                                                                *)

\* The receiver DispatchMessage picks for a message addressed to h, when h
\* is not the Looper itself: h if h->Looper() == this, else the default
\* handler, else the Looper's own MessageReceived().
Receiver(h) ==
    IF h # NULL /\ owner[h] = L THEN h
    ELSE IF defaultHandler # NULL THEN defaultHandler
    ELSE L

\* The Handler objects DispatchMessage dereferences for destination h.
Touched(h) ==
    IF h = L \/ h = NULL THEN {}
    ELSE IF owner[h] = L THEN {h}
    ELSE {h} \cup ({defaultHandler} \ {NULL})

\* Looper::DispatchMessage(m).  Its first test is
\*     if (message->what = MSG_QUIT && handler == this)
\* an assignment: what becomes 1 when the destination is the Looper and 0
\* otherwise, and the branch is taken exactly when it is the Looper.  Then
\* QuitRequested() decides whether Quit() is called; in the other branch
\* the receiver's MessageReceived() is invoked (delivered records the
\* receiver, the kind it sees, the kind posted, and the destroyed Views
\* the routing dereferenced).
DispatchMessage(m) ==
    LET h == dest[m] IN
    /\ what' = [what EXCEPT ![m] = IF h = L THEN 1 ELSE 0]
    /\ IF h = L
       THEN /\ \E answer \in QuitAnswers : quit' = answer
            /\ delivered' = [to |-> NULL, seen |-> 1,
                             posted |-> Head(postedKinds), stale |-> {}]
       ELSE /\ delivered' = [to |-> Receiver(h), seen |-> 0,
                             posted |-> Head(postedKinds),
                             stale |-> {x \in Touched(h) : life[x] = "dead"}]
            /\ UNCHANGED quit

\* Mutant: the queue is tested with IsFull() instead of NextMessage().
DispatchNextMessageWhenFull ==
    /\ app = "running"
    /\ ~quit
    /\ currentMessage = NULL
    /\ Q!IsFull
    /\ Q!GetNextMessage
    /\ DispatchMessage(Q!NextMessage)
    /\ postedKinds' = Tail(postedKinds)
    /\ UNCHANGED <<regVars, heap, leaked, dest, app>>

\* Looper::DispatchNextMessage, called by WinApp::Run while !m_quit: if
\* NextMessage() is set, the oldest pointer is taken into m_currentMessage
\* and dispatched.
DispatchNextMessage ==
    /\ app = "running"
    /\ ~quit
    /\ currentMessage = NULL
    /\ Q!NextMessage # NULL
    /\ Q!GetNextMessage
    /\ DispatchMessage(Q!NextMessage)
    /\ postedKinds' = Tail(postedKinds)
    /\ UNCHANGED <<regVars, heap, leaked, dest, app>>

\* After DispatchMessage returns: delete m_currentMessage;
\* m_currentMessage = nullptr.  A freed heap object's contents are never
\* read again and are reset to those of a fresh one; the routing record of
\* the finished dispatch is cleared.
ReturnFromDispatch ==
    /\ app = "running"
    /\ currentMessage # NULL
    /\ IF currentMessage \in HeapMsgs
       THEN /\ heap' = [heap EXCEPT ![currentMessage] = "free"]
            /\ what' = [what EXCEPT ![currentMessage] = MSG_UNKNOWN]
            /\ dest' = [dest EXCEPT ![currentMessage] = NULL]
       ELSE UNCHANGED <<heap, what, dest>>
    /\ UNCHANGED leaked
    /\ currentMessage' = NULL
    /\ delivered' = NULL
    /\ UNCHANGED <<slots, first, count, regVars, quit, postedKinds, app>>
-----------------------------------------------------------------------------
(* Teardown                                                                *)

\* Mutant: ~MessageQueue deletes the first m_count slots of the array.
QueueDeletedFirstCount == {slots[i] : i \in 0 .. count - 1} \ {NULL}

\* ~MessageQueue: for (i = 0; i < m_capacity; ++i) delete m_queue[i];
QueueDeleted == {slots[i] : i \in Q!Slot} \ {NULL}

\* Mutant: ~Looper leaves the registered handlers linked.
UnlinkedOnlyDefault == {defaultHandler} \ {NULL}

\* ~Looper: m_defaultHandler->SetLooper(nullptr), and
\* m_handlers.DoForEach(UnlinkHandler) sets every listed handler's m_looper
\* to null.
Unlinked == ({defaultHandler} \ {NULL}) \cup Range(handlerList)

\* Mutant: ~Looper does not delete m_currentMessage.
LooperDeletedNoCurrent == QueueDeleted

\* ~Looper: delete m_currentMessage when set, then the member queue's
\* destructor.
LooperDeleted == QueueDeleted \cup ({currentMessage} \ {NULL})

\* The application object is destroyed: ~WinApp, ~Application (TheApp =
\* nullptr), ~Looper, ~MessageQueue.  That happens after WinApp::Run has
\* returned (m_quit set, no callback running), or while a MessageReceived
\* callback runs, when an exception it throws unwinds through
\* DispatchNextMessage and Run (nothing in the core catches) and leaves
\* m_currentMessage set.  The queue's array is freed; the model shows it
\* empty.
TearDown ==
    LET freed == LooperDeleted \cap HeapMsgs IN
    /\ app = "running"
    /\ quit \/ currentMessage # NULL
    /\ app' = "destroyed"
    /\ owner' = [h \in Handlers |-> IF h \in Unlinked THEN NULL ELSE owner[h]]
    /\ heap' = [m \in HeapMsgs |-> IF m \in freed THEN "free" ELSE heap[m]]
    /\ what' = [m \in MsgPtrs |-> IF m \in freed THEN MSG_UNKNOWN ELSE what[m]]
    /\ dest' = [m \in MsgPtrs |-> IF m \in freed THEN NULL ELSE dest[m]]
    /\ slots' = [i \in Q!Slot |-> NULL]
    /\ count' = 0
    /\ currentMessage' = NULL
    /\ postedKinds' = <<>>
    /\ delivered' = NULL
    /\ UNCHANGED <<first, handlerList, defaultHandler, mainWindow, life,
                   quit, leaked>>
-----------------------------------------------------------------------------
\* Destinations a caller can still hold a valid pointer to.
LiveDests == {L, NULL} \cup {h \in Handlers : life[h] = "alive"}

\* The loop is running, or a callback of the last dispatch is still running.
Running == app = "running" /\ (~quit \/ currentMessage # NULL)

Next ==
    \/ DispatchNextMessage
    \/ ReturnFromDispatch
    \/ TearDown
    \/ /\ Running
       /\ UNCHANGED app
       /\ \/ \E h \in Handlers : \/ CreateView(h) \/ DestroyView(h)
                                 \/ ClientAddHandler(h) \/ ClientRemoveHandler(h)
                                 \/ SetDefaultHandler(h) \/ SetMainWindow(h)
          \/ \E k \in AppKinds, d \in LiveDests : PostWhat(k, d)
          \/ \E k \in EventKinds : WindowProc(k)

\* WinApp::Run calls DispatchNextMessage on every iteration until m_quit,
\* and a MessageReceived() callback returns.
Fairness == WF_vars(DispatchNextMessage) /\ WF_vars(ReturnFromDispatch)

Spec == Init /\ [][Next]_vars /\ Fairness
-----------------------------------------------------------------------------
(* Properties                                                              *)

Delivery == [to : Handlers \cup {L, NULL}, seen : Kinds, posted : Kinds,
             stale : SUBSET Handlers]

TypeOK ==
    /\ Q!TypeOK
    /\ owner \in [Handlers -> {L, NULL}]
    /\ handlerList \in Seq(Handlers)
    /\ defaultHandler \in Handlers \cup {NULL}
    /\ mainWindow \in Handlers \cup {NULL}
    /\ quit \in BOOLEAN
    /\ life \in [Handlers -> {"unborn", "alive", "dead"}]
    /\ heap \in [HeapMsgs -> {"free", "live"}]
    /\ leaked \in BOOLEAN
    /\ what \in [MsgPtrs -> Kinds]
    /\ dest \in [MsgPtrs -> Dests]
    /\ postedKinds \in Seq(Kinds)
    /\ delivered \in Delivery \cup {NULL}
    /\ app \in {"running", "destroyed"}

\* Once the application object is destroyed no View's m_looper still names
\* it, whatever registrations, removals and default-handler changes came
\* before (spec 4.4, 5: a Looper destructor leaves no dangling owner
\* back-references).
TeardownDetachesAll ==
    app = "destroyed" => \A h \in Handlers : owner[h] # L

\* Once the application object is destroyed every Message allocated by
\* PostMessage(what, handler) has been deleted: the queued ones by
\* ~MessageQueue wherever the ring has wrapped to, the one being dispatched
\* by ~Looper when a callback threw (spec 4.2: the queue destroys every
\* still-queued Message).
TeardownFreesAll ==
    app = "destroyed" => \A m \in HeapMsgs : heap[m] = "free"

\* Every View whose m_looper names this Looper is in m_handlers, whatever
\* sequence of AddHandler, RemoveHandler (duplicates included), view
\* destruction and reentrant calls from MessageReceived led there: the
\* Looper can never route to a handler it cannot unlink in ~Looper.
OwnerImpliesListed ==
    \A h \in Handlers : owner[h] = L => h \in Range(handlerList)

\* The heap messages the queue holds.
QueuedHeap == {Q!Pending[i] : i \in 1 .. count} \cap HeapMsgs

\* WinApp::Run keeps calling DispatchNextMessage while m_quit is false, so
\* every message PostMessage(what, handler) put in the queue is eventually
\* taken out and dispatched, or the loop has quit.
QueuedEventuallyDispatched ==
    \A m \in HeapMsgs :
        (m \in QueuedHeap) ~> (m \notin QueuedHeap \/ quit)

Fifo == INSTANCE BoundedFifo WITH Capacity <- Q!Capacity, Msgs <- MsgPtrs,
                                  fifo <- Q!Pending,
                                  taken <- currentMessage

\* The Looper's ring buffer is a bounded FIFO (spec 4.2) under everything
\* the application does to it: PostMessage appends at the tail only when
\* IsFull() is false, DispatchNextMessage takes the oldest pending pointer
\* into m_currentMessage, ReturnFromDispatch deletes it, and teardown
\* deletes the rest - however far m_first has wrapped around the ring.
QueueIsFifo == Fifo!Spec

\* m_count agrees with the slots that hold a pointer.  AddMessage counts a
\* message even when the ring is full and nothing is stored (spec 9 wants a
\* clean reject), so this holds only because every path into the queue -
\* PostMessage(what, handler) and WindowProc's PostMessage(Message*) -
\* tests IsFull() first, while dispatch, reentrant posts and teardown
\* interleave.
CountMatchesOccupancy ==
    count = Cardinality({i \in Q!Slot : slots[i] # NULL})

\* When DispatchMessage routes a message to a handler's MessageReceived()
\* (not the quit branch, where none runs), the handler sees the kind the
\* message was posted with (spec 4.4: routing never alters the message).
\* The assignment in DispatchMessage's quit test overwrites it with 0.
DeliveredKindIsPosted ==
    delivered # NULL /\ delivered.to # NULL => delivered.seen = delivered.posted

\* The queue owns every pointer it holds: no queued entry is an object its
\* poster still owns (spec 9: PostMessage must enqueue the clone).
QueueOwnsItsMessages ==
    \A i \in 1 .. count : Q!Pending[i] # S

\* No call dereferences a destroyed View (spec 3: no dangling references):
\* neither DispatchMessage, through a message's destination or the default
\* handler, nor ~Looper, which calls SetLooper(nullptr) on m_defaultHandler
\* and on every listed handler.
NoStaleHandlerUse ==
    /\ [](delivered # NULL => delivered.stale = {})
    /\ [][TearDown => \A h \in Unlinked : life[h] = "alive"]_vars
==============================================================================
