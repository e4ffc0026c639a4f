# TLA+ models of magrathea

These modules model the parts of the toolkit under `src/` that hold state:
- the message-passing and dispatch core of `src/app`: `Message`,
  `MessageQueue`, `Handler`, `Looper`, `Application`/`WinApp`, and `View`'s
  registration with `TheApp`;
- the view hierarchy of `src/interface`: `View`, `Container` and `Window`
  (parents, child lists, destruction, default and focused control);
- the containers and the string of `src/support`: `Vector` (as `Message`
  uses it), `Dict`, `List`/`Collection`, `String`/`StringBody`.

Every definition is translated from the source. `PROJECT.json` maps each
definition to the lines it models, lists the runs, the mutants that show
each property can fail, the findings and the hazards.

## 1. The system

| Component | State | Operations that change state | Interacts with |
|---|---|---|---|
| `MessageQueue` | `m_capacity`, `m_first`, `m_count`, slot array `m_queue` | ctor (clamps the capacity to at least 1), `AddMessage`, `GetNextMessage`, dtor (deletes every slot) | owned by the Looper |
| `Message` | `what`, `m_handler`, `m_infoList` (a `Vector<DataInfo>`) | `AddData` and typed writers, `ReplaceData`, `RemoveName`, `Clear`, `SetHandler`; typed readers copy out | created by posters, then owned by the queue, then by `m_currentMessage` |
| `Looper` | the queue, `m_handlers` (a `List<Handler>`), `m_defaultHandler`, `m_currentMessage` | `AddHandler`, `RemoveHandler`, `SetDefaultHandler`, both `PostMessage`s, `DispatchMessage`, `DispatchNextMessage`, dtor | calls `MessageReceived`, `QuitRequested` and `Quit` |
| `Application` / `WinApp` | `m_mainWindow`, `m_quit`, `WindowProc`'s static message | `RemoveHandler` (removing the main window quits), `SetMainWindow`, `Run`, `WindowProc` | `TheApp` is the Looper every View registers with |
| `View` | its registration | ctor `TheApp->AddHandler(this)`, dtor `TheApp->RemoveHandler(this)` | a Handler that receives dispatches |
| `View` / `Container` / `Window` tree | `m_parent`, `m_window` per View; `m_childList` (a `Vector<View>` with AutoDelete) per Container; `m_defaultControl`, `m_focusedControl` per Window | ctors, `AddChild`, `RemoveChild`, `RemoveSelf`, dtors, `FrameResized`, `SetDefaultControl`, `SetFocusedControl` | client code builds and tears down the tree |
| `Control` / `Button` | `m_value`, Signals `ValueChanged` (every Control) and `Clicked` (Button) | `SetValue`, `KeyDown`, `KeyUp`, `MouseDown`, `MouseUp` | emit into slots the client connected |
| `Signal<T>` | `m_connections`, a list of heap nodes (receiver, member function, next) | ctor, `Connect`, `Disconnect`, dtor, `operator()` | calls a slot, which may call anything |
| `Dict<Key,T>` | `m_nodes` (chains), `m_size`, `m_count` | `Insert`, `Replace`, `Remove`, `Take`, `Clear`, `Resize` | a library container |
| `List<T>` | ring of nodes through `m_end`, `m_count`, `m_autoDelete` | `Insert`/`Append`, `Take`/`Remove`, `RemoveRef`, `Clear`, `operator+=`, `operator=`, iterators | `Looper::m_handlers` is one |
| `String` / `StringBody` | per object `m_body`; per body `m_refCount`, `m_capacity`, `m_data` | ctors, copy, dtor, `operator=`, `operator+=`, `operator[]`, `Left`/`Right`/`Mid`/`operator+`, `Reserve`, `Shrink` | window titles, resource names |

Everything runs on one thread. Platform events enter through `WindowProc`,
which posts to the Looper. `WinApp::Run` calls `DispatchNextMessage` once
per iteration until `m_quit`. Dispatch calls back into a handler
(`MessageReceived`), and the handler may call back into the Looper: it may
post, register, unregister, destroy Views or remove the main window.

The hard part is reentrancy and object lifetime, not thread interleaving:
- The callback runs between taking a message and deleting it.
- A slot runs in the middle of `Signal::operator()`'s walk over its
  list, and may disconnect nodes or delete the Control that owns it.
- Queued messages, `m_defaultHandler` and `m_handlers` reference handlers
  by raw pointer.
- Queue slots reference messages by raw pointer.
- In the support classes, shared string bodies, dangling list iterators,
  vector slots and hash chains are the places where a sequence of legal
  calls can break an invariant.

## 2. Modules

| Module | Models | State ↔ code |
|---|---|---|
| `BoundedFifo` | what the queue promises: a FIFO of at most `Capacity` pointers, `taken` the one handed out | `fifo`, `taken` |
| `MessageQueue` | `app/MessageQueue` | `slots`=`m_queue`, `first`=`m_first`, `count`=`m_count`, `taken`=what `GetNextMessage` returned. `Post` is `AddMessage` behind `IsFull()`, the way `Looper::PostMessage` calls it. `Pending` is the ring read as a sequence. |
| `Looper` | `app/Looper`, `Application`/`WinApp` and View registration; instantiates `MessageQueue` as `Q`, with `taken` mapped to `m_currentMessage` | `owner`=`m_looper` of each View, `handlerList`=`m_handlers`, `defaultHandler`, `mainWindow`, `quit`=`m_quit`, `app` (running or destroyed), `life` of each View object, `heap` (allocated messages), `what`/`dest` of each message object, `S`=`WindowProc`'s static message; ghosts `postedKinds`, `delivered`, `leaked` |
| `EntryList` | spec §4.1's entry list: add appends, find and replace act on the first match, remove-name removes all | `entries`, `found` |
| `MessageEntries` | `Message`'s entry operations over `support/Vector` as coded | `data`=`m_data` (`GARBAGE` for uninitialised or deleted pointers), `cap`, `cnt`, `found` (the last `FindData` result), `read` (the caller's variable after a typed reader). A `DataInfo` is its name and type. |
| `DictSpec` | `Dict`'s interface comments: elements per key in insertion order; `Take`, `Remove` and `Replace` act on the element inserted last, `Find` on some element of the key (its comment says only "the first"); `Resize` changes no content | `entries`, `result` |
| `HashDict` | `support/Dict` as coded | `size`=`m_size`, `table` (each chain head first), `count`=`m_count`, `result` |
| `ListSpec` | `List`'s interface comments: a sequence of pointers and an iterator | `items`, `cursor` (0 once its element was removed elsewhere) |
| `LinkedList` | `support/List` and `Collection` as coded | `link` (next/prev of `m_end` and every node), `data`, `live`, `count`, `it` (the client iterator's `m_node`, `DANGLING` once it is deleted), `autoDelete`, `freed` |
| `StringSpec` | the `String` class comment: strings behave like values | `val` per String object |
| `CowString` | `support/String` over `StringBody` | `body`=`m_body` per String object, `heap` per body address (`refCount`, `capacity`, characters, or `FREE`), ghost `fault` |
| `ViewTree` | `interface/View`, `Container`, `Window` over `support/Vector` as coded | `life` per View object, `parent`=`m_parent`, `vec`=`m_childList` (slot array, `GARBAGE` where never written, and `m_count`), `win`=`m_window`, `dflt`/`focus`=`m_defaultControl`/`m_focusedControl`, `val`=`Control::m_value`, `stack` (the calls in progress under a client call, emissions and slots included), ghost `fault`; the Signals of every Control and Button through `SignalList` |
| `SignalList` | `support/Signal`'s connection list | `head`=`m_connections` per Signal, `conn` per heap address (receiver, fn, next, or `FREE`) |
| `MCLooper`, `MCMessageEntries`, `MCHashDict`, `MCLinkedList`, `MCCowString`, `MCViewTree` | model-checking instances (constants, symmetry) | |

Undefined behaviour is a nondeterministic choice over its outcomes:
- Comparing a name through a `GARBAGE` pointer may say equal or not, so
  `Locate` yields a set.
- Reading a deleted string body yields any characters, and sets `fault`.
- Writing past a body's capacity keeps the write, and sets `fault`.

### The Looper

A dispatch is two actions:
- `DispatchNextMessage`: the take, plus `DispatchMessage`'s routing;
- `ReturnFromDispatch`: `delete m_currentMessage`, then clear it.

Between them every API action stays enabled. That is the callback running,
and it may call anything the public API offers.

`TearDown` is `~WinApp`, `~Application`, `~Looper` and `~MessageQueue` in
one step. It happens in one of two cases:
- `Run` has returned (`m_quit` set, no callback running);
- a callback is running, standing for an exception that `MessageReceived`
  throws. Nothing in `src/` catches one, and `~Looper`'s
  `delete m_currentMessage` exists for that case.

After `Quit()` only the callback still in progress may act. Then the system
stops, hence `CHECK_DEADLOCK FALSE` in the Looper runs.

`QuitRequested()` is a virtual hook: its answer is a choice from
`QuitAnswers`. `WindowProc` models the event kind that reaches the core
(`MSG_WINDOW_CLOSE`). Application posts use `MSG_QUIT` and `MSG_USER`.

The queue's FIFO promise is checked inside the Looper (`QueueIsFifo`: the
ring, read through `Pending`, refines `BoundedFifo`). That covers every way
the real program fills and drains the queue: posts from callbacks,
`WindowProc` on a full queue, and teardown with messages pending.

### The support classes

- `MessageEntries`: `Vector::Append` is modelled exactly as written, storing
  at `m_data[m_count - 1]`. With `m_count == 0` that index is out of
  bounds, and the model takes the outcome in which the write is lost.
- `HashDict`: `Resize` moves every chain node by node. The hash is a fixed
  key-to-integer map, `MCHashOf`.
- `LinkedList`: nodes are heap addresses, and a new node may reuse a freed
  address. The client keeps the documented contracts: it uses an iterator
  only while it is valid, and enables AutoDelete only while the list holds
  the only references to its elements.
- `CowString`: every action is one C++ statement a client can write,
  temporaries included. For example, `s = t.Left(n)` allocates the result,
  assigns it to `s` and destroys the temporary.

### The view tree

Each client action is one call a program makes on the tree:
- construct a Window, or a View/Container/Control with or without a parent;
- `AddChild`, `RemoveChild` (the `Window` override where the Container is
  a Window), `RemoveSelf`, `delete`;
- a platform resize (`FrameResized`);
- `SetDefaultControl`, `SetFocusedControl`;
- `Control::SetValue`, and a Button's `KeyDown`, `KeyUp`, `MouseDown` and
  `MouseUp` (the key is one that acts: space or return);
- `Connect` and `Disconnect` of a slot on a Control's `ValueChanged` or a
  Button's `Clicked`.

A call that runs destructors does not finish in one step. `delete x`
pushes frames on `stack`:
- the `Vector::Clear` loop of `~Container`'s child list, which deletes
  one child per step and reads `m_count` again each time;
- `~View`, whose `RemoveSelf` calls back into the parent's `RemoveChild`;
- the code a call returns to: `Window::RemoveChild`'s `SetWindow(nullptr)`,
  and `RemoveSelf`'s `m_parent = nullptr`.

- `Signal::operator()`: `start` reads `m_connections`, `emit` calls
  `EmitSignal` on the current node's receiver and pushes a `slot` frame
  with the pending `c = c->next` (`next`) below it;
- a Button's code after a call that may run slots (`Invalidate()`,
  `m_clicked = ...`): a `touch` of the Button.

While a `slot` frame is on top, the client may make any call, as the
slot's code can, up to `MaxStack` calls in progress. When a node is
deleted (by `Disconnect`, or by `~Signal` when its Control is deleted),
every pending `next` frame at that address is marked freed: its read of
`c->next` is undefined even if a later `Connect` reuses the address. A
Control's Signals are destroyed before `~View` runs, as C++ destroys
members after the derived destructor's body and before the base's.

This is how a nested destructor finds its dying parent's list. Virtual
calls resolve as C++ does: a View whose destructor runs is a plain View,
so its attach and detach hooks are empty.

`Vector::FindRef` over an uninitialised slot may match or not, so it
yields a set of positions. Reaching undefined behaviour sets `fault`, and
nothing runs after it. Examples are a call through a dangling pointer, a
delete of a dead object or of `GARBAGE`, and a read of a dead child.

## 3. Runs

| Run | Checks | Result |
|---|---|---|
| `looper_core` | `TypeOK`, `OwnerImpliesListed`, `TeardownDetachesAll` (after `~Looper` no View's `m_looper` names it), `TeardownFreesAll` (every message `PostMessage(what, handler)` allocated is deleted at teardown, also after a throwing callback; the clones `PostMessage(Message*)` leaks and the static message are outside it), `CountMatchesOccupancy` (`m_count` = occupied slots, since every `AddMessage` comes after `IsFull()`), `QueueIsFifo`, and `QueuedEventuallyDispatched` under the `Run` loop's fairness | passes (about 170k states, under a minute) |
| `looper_kind` | `DeliveredKindIsPosted` | violated: `what = MSG_QUIT && ...` rewrites the kind; a MSG_QUIT posted with no handler reaches the Looper's own `MessageReceived` as kind 0. The property checks only dispatches that reach a `MessageReceived`, not the quit branch |
| `looper_alias` | `QueueOwnsItsMessages` | violated: `PostMessage(Message*)` queues the caller's pointer (the static message), not the clone |
| `looper_stale` | `NoStaleHandlerUse` | violated: a destroyed View is dereferenced at dispatch (a message to it was queued) and by `~Looper` (it was the default handler) |
| `entries_ops` | `TypeOK`, `RemoveNameLeavesNone` | passes (about 100k states), garbage slots included |
| `entries_refine` | `EntryListRefinement` | violated at the first `AddData`: the entry is lost |
| `dict_ops` | `TypeOK`, `EveryNodeInItsChain`, `CountMatchesNodes` over table sizes 1 to 3 | passes |
| `dict_refine` | `DictRefinement` | violated: `Resize` reverses equal-key order, so `Take`, `Remove` and `Replace` act on the older element |
| `list_ops` | `TypeOK`, `WellLinked` (one ring through `m_end`, prev and next inverse), `NoFreedPointerHeld` (AutoDelete never deletes a pointer a list still holds), `ListRefinement` | passes |
| `string_ops` | `TypeOK`, `BodiesAccounted` (every body's `m_refCount` equals its holders, and no live String holds a freed body), `StringRefinement` (copy-on-write is invisible) | passes, `s += s` excluded |
| `string_memory` | `AppendStaysInBuffer` | violated: `s += s` reads the body `AssignBody` has just deleted |
| `viewtree_ub` | `NoUndefinedBehaviour` | violated in 4 steps: the first `AddChild` loses its pointer (`Append`), and `RemoveChild` then deletes the uninitialised slot |

Findings (details in `PROJECT.json`):
- `Looper.cpp:84`: an assignment stands where a comparison is meant.
- `Looper.cpp:60`: the clone leaks and the caller's message is queued
  instead.
- `Looper.cpp:91` and `Looper.cpp:16`: a destroyed handler is dereferenced, at dispatch and at teardown.
- `Vector.h:412`: `Append` writes one slot too early.
- `Dict.h:344`: `Resize` reverses the order of equal keys.
- `Container.cpp:44`, `Container.cpp:57`, `View.cpp:22`, `Vector.h:345`,
  `Window.cpp:67`: in the view tree:
  - the first child is lost;
  - `RemoveChild` deletes the child it removes, and `Window::RemoveChild`
    then calls the deleted child;
  - a constructed child is never listed, so deleting its parent leaves
    `m_parent` dangling;
  - `~Container`'s `Clear` deletes a child a second time through its
    `RemoveSelf`;
  - a deleted default control stays in `m_defaultControl`;
  - `SetFocusedControl` writes `m_defaultControl`.
- `Signal.h:178`, `Signal.h:187`: in the signals of the controls:
  - a slot that disconnects itself, or deletes the Button whose `Clicked`
    it serves, makes the loop read `c->next` from a freed node (8 steps);
  - a receiver deleted while connected is called by the next emission
    (9 steps).
  A Button deleted in its own slot also writes `m_clicked` after
  `KeyUp`'s `Clicked(Id())`. But the freed-node read always comes before
  that write, so the `touch` frames are never the first undefined
  behaviour.
  The run reports only the shortest trace. A separate scratch invariant
  for each path, one path at a time, showed TLC reaching every one of them.
- `String.cpp:34`: use after free in `s += s`. It is also a write past the
  capacity when `Single()` copies a body.

Each property of a passing run has a mutant in `PROJECT.json`: a plausible
bug in a mapped definition that TLC then finds (a dropped guard, a missing
reset, an off-by-one, a swapped order).

### Bounds

Looper:
- A queue of capacity 2 lets the ring wrap and be full. The program's
  queue holds 50 (`Looper::DEFAULT_CAPACITY`), and full-queue behaviour
  does not depend on the number.
- Two Views let destination, default handler and a third party differ.
- One heap address next to `WindowProc`'s static message lets two
  messages be pending at once, and lets the address be reused after a
  dispatch frees it. A second heap address pushed the run near 5 minutes.
- `MaxRegistrations = 2` allows a double registration.
- There is no symmetry reduction: it is unsound with the liveness property
  checked in the same run.

Entries:
- 5 entries make `Append` grow the capacity-4 array once.
- One name can then occur three times.

Dict:
- Three keys over table sizes 1 to 3 give both colliding and separate
  chains.
- `MaxCount = 3` allows two elements under one key next to a third.

List:
- Three node addresses and four element pointers, two of them with equal
  content, are enough for insertion at both ends and the middle, for a
  dangling iterator, and for `Find` and `FindRef` to differ.

View tree:
- One Window, one Container and one Control, a Button, let a Container sit
  in a Window and either hold the Button.
- Two connection addresses let a Signal hold two slots, or let a freed
  address be reused. One member function suffices, since `Disconnect`
  matches receiver and function together.
- `MaxStack = 4` lets a slot make a call that itself emits or deletes.
- A child list of at most 3 pointers leaves a written slot after the lost
  first one, and a stale slot after a `Take`. The real array holds 8 and
  never grows in these runs.
- With `NoUndefinedBehaviour` removed, the full space has over 4 million
  states once signals are included, and it was not run to the end.
  Without the signal actions it had about 4k states, and there every
  action fired. The new paths were each reached by a scratch invariant.
  A simulation of 4.7 million states found no pending `next` frame at a
  freed address that was left unmarked.

String:
- Three String objects, one of them `String::Empty`.
- Four body addresses.
- Two characters, lengths up to 3, and `Reserve` sizes 1 and 3.
- These let a body be shared three ways and be reallocated, and let a
  freed address be reused.

### Fairness

`WinApp::Run` calls `DispatchNextMessage` on every iteration while `m_quit`
is false, which gives weak fairness on it. A `MessageReceived` callback
returns, which gives weak fairness on `ReturnFromDispatch`.

Nothing else is fair. Posts, registrations and destruction are the
environment's choice. The container and string modules have no liveness
property: their operations are calls the client may or may not make.

## 4. Not modelled and why

- **Win32, drawing, controls, menus, bitmaps, resources** (most of
  `src/interface`, `src/platform`, `ResourceLoader`): thin wrappers over
  platform calls, with no state that the core reads. They are most of the
  code's lines, which is why the map covers a small share of `src/`. In
  the model they appear only as the Views that register with the Looper
  and receive messages from it, and as the objects of the view tree.
  `ViewTree` leaves out geometry (`FrameResized` computes a frame from the
  Container's own `Frame()`), menus, activation, and the platform window.
- **The `MessageReceived` switches of `View` and `Window`** (View.cpp:208,
  Window.cpp:133): `DispatchMessage` rewrites every kind to 0 or 1, and
  neither is a case, so no case body runs through dispatch. This includes
  `Window::Close`'s quit path. A callback in the Looper model may make any
  API call, which covers what those bodies could do.
- **`Handler`'s forwarding chain**: `Handler.cpp` is not in the repository,
  and nothing in `src/` calls `SetNextHandler`. Every chain therefore ends
  at the handler itself.
- **Views destroyed after the application object**: `View::~View` would
  then call `TheApp->RemoveHandler` through a null `TheApp`. The order is
  decided by the program's entry point, which is not in `src/`.
- **`MessageQueue(0)`**: this allocates a zero-length array while the slot
  loop uses slot 0, a latent defect. Every Looper in `src/` passes
  `DEFAULT_CAPACITY`, so it is never reached.
- **Message payload bytes and the copy constructor**:
  - Entries are name and type only.
  - `FindTyped` models `FindString`'s misread: the caller gets `GARBAGE`.
    No code calls `FindString`, so the runs use the type codes clients read
    (`INT_TYPE`, `BOOL_TYPE`).
  - `Vector::Resize`'s `false;` (a statement, not a return) is unreachable
    through `Grow`.
- **`Vector`'s other operations** (`Insert`, `Find`, `Swap`,
  `operator=`): nothing modelled uses them. `ViewTree` uses `Append`,
  `FindRef`, `Take`, `Remove(pos)` and `Clear`.
- **`List::Swap` and `ListIterator::Set`**: they do not compile when
  instantiated, so there is no behaviour to model.
- **`Dict::operator=` and `DoForEach`**: the copy keeps every chain as it
  is, and `DoForEach` changes nothing.
- **The FNV hash** (`Hash.h`): 32-bit arithmetic, replaced by a fixed
  key-to-integer function. Chain placement depends only on
  `hash % m_size`.
- **`String::FromBuffer` and `ToString`**:
  - `FromBuffer` fills a body from a platform buffer.
  - `ToString` formats into a static 256-byte buffer, whose overflow is
    arithmetic formatting.
- **Control and Button details**: `SetLabel`, `SetDefault` (only
  `m_isDefault` and a redraw), drawing, and `Button::MouseMoved`, which
  tests geometry (`Bounds().Contains`).
- **`ManagedPtr`**: used nowhere.
- **`Exception`**: a value type.
- **Two Loopers**: `Application` is the only Looper, a singleton
  (`TheApp`), and Views register only with it.
