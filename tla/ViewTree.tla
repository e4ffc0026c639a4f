------------------------------ MODULE ViewTree ------------------------------
(***************************************************************************)
(* The view hierarchy of src/interface: every View has m_parent, every     *)
(* Container a child list m_childList, a support/Vector<View> with        *)
(* AutoDelete on; Window is the top-level Container.                       *)
(*   life[v]   = "unborn", "alive", "dying" (its destructor runs) or       *)
(*               "dead"                                                    *)
(*   parent[v] = View::m_parent                                            *)
(*   vec[c]    = m_childList of Container c: its array slot (GARBAGE: a    *)
(*               pointer never written) and m_count                        *)
(*   stack     = the calls in progress below a client call: destructors,  *)
(*               the loop of Vector::Clear, and the code a call returns to *)
(*   fault     = the program has reached undefined behaviour (a call on,   *)
(*               or a delete of, an object that is not alive or a pointer  *)
(*               never written); nothing is modelled after it              *)
(*   win[v]    = View::m_window; dflt[w], focus[w] = m_defaultControl and  *)
(*               m_focusedControl of Window w                              *)
(*   val[x]    = Control::m_value; conn, head = the Signals ValueChanged   *)
(*               of every Control and Clicked of every Button (SignalList) *)
(* A slot connected to a Signal, while it runs, is client code: it may     *)
(* make any client call, and stack holds the emission it returns to.       *)
(* Registration with TheApp (the Looper module), the platform window and   *)
(* geometry are out of the model.                                          *)
(***************************************************************************)
EXTENDS Naturals, Sequences, FiniteSets, SignalList

CONSTANTS Views,       \* View objects (model values)
          Containers,  \* the Views that are Containers
          Windows,     \* the Containers that are Windows
          Controls,    \* the Views that are Controls
          Buttons,     \* the Controls that are Buttons
          GARBAGE,
          MaxCount,    \* bound on m_count of a child list for TLC
          MaxStack     \* no client call is made with more calls in progress

INITIAL_CAPACITY == 8   \* Vector<T>::INITIAL_CAPACITY, m_childList's

ASSUME Windows \subseteq Containers /\ Containers \subseteq Views
ASSUME Controls \subseteq Views \ Containers /\ Buttons \subseteq Controls
ASSUME MaxCount <= INITIAL_CAPACITY  \* Append never grows the array

VARIABLES life, parent, vec, stack, fault, win, dflt, focus, val

winVars == <<win, dflt, focus>>
sigVars == <<val, conn, head>>
vars == <<life, parent, vec, stack, fault, win, dflt, focus, val, conn, head>>

\* Control::ValueChanged and Button::Clicked, as <<object, member>>.
Sigs == (Controls \X {"ValueChanged"}) \cup (Buttons \X {"Clicked"})

SigsOf(x) == {sg \in Sigs : sg[1] = x}

Slot == 0 .. MaxCount - 1

Frame(op, v, i) == [op |-> op, v |-> v, i |-> i]

\* Container(): m_childList(), new View*[8] leaves the array uninitialised.
Init ==
    /\ life = [v \in Views |-> "unborn"]
    /\ parent = [v \in Views |-> NULL]
    /\ vec = [c \in Containers |-> [slot |-> [i \in Slot |-> GARBAGE], cnt |-> 0]]
    /\ stack = <<>>
    /\ fault = FALSE
    /\ win = [v \in Views |-> NULL]
    /\ dflt = [w \in Windows |-> NULL]
    /\ focus = [w \in Windows |-> NULL]
    /\ val = [x \in Controls |-> "OFF"]     \* Control(): m_value(CONTROL_OFF)
    /\ SigInit(Sigs)
-----------------------------------------------------------------------------
(* support/Vector<View>                                                    *)

\* Vector::Append: m_data[m_count - 1] = data; ++m_count.  With m_count 0
\* the index is UINT_MAX: the write lands outside the array and is lost.
VAppend(r, v) ==
    [slot |-> IF r.cnt = 0 THEN r.slot ELSE [r.slot EXCEPT ![r.cnt - 1] = v],
     cnt  |-> r.cnt + 1]

\* Vector::FindNextRef(data, pos): the first p < m_count with
\* m_data[p] == data, or m_count.  An uninitialised slot holds an
\* indeterminate pointer that may compare equal: a set of results.
RECURSIVE FindFrom(_, _, _)
FindFrom(r, v, p) ==
    IF p >= r.cnt THEN {r.cnt}
    ELSE IF r.slot[p] = v THEN {p}
    ELSE IF r.slot[p] = GARBAGE THEN {p} \cup FindFrom(r, v, p + 1)
    ELSE FindFrom(r, v, p + 1)

FindRef(r, v) == FindFrom(r, v, 0)

\* Vector::Take(pos): the slots behind pos move one to the front and
\* m_count drops; the last slot keeps its old pointer.
VTake(r, pos) ==
    [slot |-> [i \in Slot |-> IF pos <= i /\ i < r.cnt - 1 THEN r.slot[i + 1]
                              ELSE r.slot[i]],
     cnt  |-> r.cnt - 1]

Listed(c) == {vec[c].slot[i] : i \in 0 .. vec[c].cnt - 1}
-----------------------------------------------------------------------------
(* Calls                                                                   *)

\* The Views alive now.
Live == {v \in Views : life[v] = "alive"}

\* Some pointer a call dereferences does not point at a live View.
Bad(ptrs) == ~(ptrs \subseteq Live)

\* Container::AttachedToWindow / DetachedFromWindow of a live Container v:
\* every listed child is called (SetWindow and the virtual hook), and the
\* Container children recursively.
ReachedIn(vv, v) ==
    LET RECURSIVE R(_, _)
        R(x, d) ==
            IF x \notin Containers \/ d = 0 THEN {}
            ELSE UNION {{y} \cup (IF y \in Live
                                  THEN R(y, d - 1) ELSE {})
                        : y \in {vv[x].slot[i] : i \in 0 .. vv[x].cnt - 1}}
    IN R(v, Cardinality(Containers))

Reached(v) == ReachedIn(vec, v)

\* What those loops leave in m_window: SetWindow(window) with window the
\* Container's own m_window member, which shadows View's and is never set
\* from nullptr, and SetWindow(nullptr) on detaching: null either way.
Unwindowed(ptrs) == [y \in Views |-> IF y \in ptrs THEN NULL ELSE win[y]]

\* An emission loop whose current node is deleted will read c->next from
\* freed memory: its frame is marked, even if the address is reused.
MarkFreed(st, ns) ==
    [i \in DOMAIN st |-> IF st[i].op = "next" /\ st[i].v \in ns
                        THEN [st[i] EXCEPT !.op = "freed"] ELSE st[i]]

\* delete x, with `rest' the calls to return to: the members of a Control
\* or Button (its Signals, ~Signal) and of a Container (m_childList:
\* Clear() deletes every element, as AutoDelete is on) are destroyed
\* before ~View.  Deleting what is not a live View is undefined.
Delete(x, rest) ==
    IF x \in Live
    THEN /\ life' = [life EXCEPT ![x] = "dying"]
         /\ SigDestroy(SigsOf(x))
         /\ stack' = (IF x \in Containers THEN <<Frame("clear", x, 0)>> ELSE <<>>)
                     \o <<Frame("view", x, 0)>>
                     \o MarkFreed(rest, Owned(SigsOf(x)))
         /\ UNCHANGED fault
    ELSE /\ fault' = TRUE
         /\ UNCHANGED <<life, stack, conn, head>>

\* Container::RemoveChild(v), returning to `notFound' on false and to
\* `found' on true: pos = FindRef(v); false at End(); else
\* v->SetParent(nullptr) and m_childList.Remove(pos), which deletes the
\* pointer Take(pos) returns (AutoDelete).
ContainerRemoveChild(c, v, notFound, found) ==
    \E pos \in FindRef(vec[c], v) :
        IF pos = vec[c].cnt
        THEN /\ stack' = notFound
             /\ UNCHANGED <<life, parent, vec, fault, conn, head>>
        ELSE /\ parent' = [parent EXCEPT ![v] = NULL]
             /\ vec' = [vec EXCEPT ![c] = VTake(@, pos)]
             /\ Delete(vec[c].slot[pos], found)

\* c->RemoveChild(v) on a live v, returning to `after'.  Window's override
\* first calls v->DetachedFromWindow() and, when the Container version
\* returned true, v->SetWindow(nullptr).
RemoveChildCall(c, v, after) ==
    IF c \in Windows
    THEN IF Bad(Reached(v))
         THEN /\ fault' = TRUE
              /\ UNCHANGED <<life, parent, vec, stack, win, conn, head>>
         ELSE /\ win' = Unwindowed(Reached(v))
              /\ ContainerRemoveChild(c, v, after,
                                      <<Frame("setwindow", v, 0)>> \o after)
    ELSE /\ ContainerRemoveChild(c, v, after, after)
         /\ UNCHANGED win

Top == Head(stack)

\* The client may make a call: none is in progress, or a slot runs.
Callable ==
    /\ ~fault /\ Len(stack) < MaxStack
    /\ IF stack = <<>> THEN TRUE ELSE Top.op = "slot"
-----------------------------------------------------------------------------
(* Client calls                                                            *)

\* Window(frame, title, ...): Container() and Container::Init(..., nullptr,
\* ...): a top-level View without parent.
NewWindow(w) ==
    /\ Callable /\ w \in Windows /\ life[w] = "unborn"
    /\ life' = [life EXCEPT ![w] = "alive"]
    /\ UNCHANGED <<parent, vec, stack, fault, winVars, sigVars>>

\* View(parent, frame, alignMode) (and Container, Control built on it):
\* m_parent(parent) in the initializer list, then parent->AddChild(this),
\* which returns at once since view->Parent() != nullptr; Window::AddChild
\* then only calls SetWindow and View::AttachedToWindow on the new View.
NewView(v, p) ==
    /\ Callable /\ v \in Views \ Windows /\ life[v] = "unborn"
    /\ p = NULL \/ (p \in Containers /\ life[p] = "alive")
    /\ life' = [life EXCEPT ![v] = "alive"]
    /\ parent' = [parent EXCEPT ![v] = p]
    /\ win' = IF p \in Windows THEN [win EXCEPT ![v] = p] ELSE win
    /\ UNCHANGED <<vec, stack, fault, dflt, focus, sigVars>>

\* Container::AddChild(v): nothing when v has a parent or is c's parent;
\* else v->SetParent(c) and m_childList.Append(v).
ContainerAddChild(c, v) ==
    /\ parent[v] = NULL /\ v # parent[c]
    /\ parent' = [parent EXCEPT ![v] = c]
    /\ vec' = [vec EXCEPT ![c] = VAppend(@, v)]

\* c->AddChild(v) by the client; Window's override, after the Container
\* version, calls v->SetWindow(this) and v->AttachedToWindow() whenever
\* v->Parent() == this, also for a v built with this parent, which the
\* Container version leaves unlisted.
AddChild(c, v) ==
    /\ Callable /\ life[c] = "alive" /\ life[v] = "alive" /\ v # c
    /\ \/ /\ vec[c].cnt < MaxCount
          /\ ContainerAddChild(c, v)
       \/ /\ c \in Windows /\ parent[v] = c
          /\ UNCHANGED <<parent, vec>>
    /\ IF c \in Windows
       THEN /\ fault' = Bad(ReachedIn(vec', v))
            /\ win' = [Unwindowed(ReachedIn(vec', v)) EXCEPT ![v] = c]
       ELSE UNCHANGED <<fault, win>>
    /\ UNCHANGED <<life, stack, dflt, focus, sigVars>>

\* c->RemoveChild(v) called by the client.
RemoveChild(c, v) ==
    /\ Callable /\ life[c] = "alive" /\ life[v] = "alive"
    /\ RemoveChildCall(c, v, stack)
    /\ UNCHANGED <<dflt, focus, val>>

\* v->RemoveSelf(): false without parent; else m_parent->RemoveChild(this),
\* then m_parent = nullptr and m_platformWindow->SetParent(nullptr).
RemoveSelf(v) ==
    /\ Callable /\ life[v] = "alive" /\ parent[v] # NULL
    /\ IF life[parent[v]] = "alive"
       THEN RemoveChildCall(parent[v], v, <<Frame("selftail", v, 0)>> \o stack)
       ELSE /\ fault' = TRUE
            /\ UNCHANGED <<life, parent, vec, stack, win, conn, head>>
    /\ UNCHANGED <<dflt, focus, val>>

\* delete v by the client.
DeleteView(v) ==
    /\ Callable /\ life[v] = "alive"
    /\ Delete(v, stack)
    /\ UNCHANGED <<parent, vec, winVars, val>>

\* Container::FrameResized (the platform's resize of c): every listed
\* child is read (view->Parent(), AlignMode(), SetFrame()); with all of
\* them live it changes nothing the model holds.
FrameResized(c) ==
    /\ Callable /\ life[c] = "alive" /\ Bad(Listed(c))
    /\ fault' = TRUE
    /\ UNCHANGED <<life, parent, vec, stack, winVars, sigVars>>

\* Window::SetDefaultControl(control): the old default control is called
\* (SetDefault(false)); control becomes the default when
\* control->Window() == this, else there is none.  Control::SetDefault
\* only sets m_isDefault, which no property reads.
SetDefaultControl(w, ctl) ==
    /\ Callable /\ life[w] = "alive"
    /\ IF dflt[w] # NULL /\ dflt[w] \notin Live
       THEN /\ fault' = TRUE
            /\ UNCHANGED dflt
       ELSE /\ dflt' = [dflt EXCEPT ![w] = IF ctl # NULL /\ win[ctl] = w
                                            THEN ctl ELSE NULL]
            /\ UNCHANGED fault
    /\ UNCHANGED <<life, parent, vec, stack, win, focus, sigVars>>

\* Window::SetFocusedControl(control): the old focused control is called
\* (SetFocus(false)); for a control of this Window the code then sets
\* m_defaultControl (not m_focusedControl) and calls SetFocus(false) on
\* the platform window; otherwise m_focusedControl = nullptr.
SetFocusedControl(w, ctl) ==
    /\ Callable /\ life[w] = "alive"
    /\ IF focus[w] # NULL /\ focus[w] \notin Live
       THEN /\ fault' = TRUE
            /\ UNCHANGED <<dflt, focus>>
       ELSE IF ctl # NULL /\ win[ctl] = w
       THEN /\ dflt' = [dflt EXCEPT ![w] = ctl]
            /\ UNCHANGED <<fault, focus>>
       ELSE /\ focus' = [focus EXCEPT ![w] = NULL]
            /\ UNCHANGED <<fault, dflt>>
    /\ UNCHANGED <<life, parent, vec, stack, win, sigVars>>

\* Signal::Connect(receiver, fn) on a Signal of a live Control by the
\* client: the node goes to a free heap address n.
Connect(sg, r, fn) ==
    /\ Callable /\ sg[1] \in Live /\ r \in Live
    /\ \E n \in FreeConns : SigConnect(sg, r, fn, n)
    /\ UNCHANGED <<life, parent, vec, stack, fault, winVars, val>>

\* Signal::Disconnect(receiver, fn) by the client (a slot, too, may call
\* it): the node deleted may be the one an emission in progress is at.
Disconnect(sg, r, fn) ==
    /\ Callable /\ sg[1] \in Live
    /\ SigDisconnect(sg, r, fn)
    /\ stack' = MarkFreed(stack, {Disconnected(sg, r, fn)})
    /\ UNCHANGED <<life, parent, vec, fault, winVars, val>>

\* Control::SetValue(value): if (m_value != value) { m_value = value;
\* ValueChanged(m_id); }.  The calls it makes after the assignment.
ControlSetValue(x, value) ==
    IF val[x] # value THEN <<Frame("start", x, "ValueChanged")>> ELSE <<>>

\* The virtual SetValue: Button::SetValue is Control::SetValue, then
\* Invalidate() on this.
SetValueCall(x, value) ==
    ControlSetValue(x, value) \o
    (IF x \in Buttons THEN <<Frame("touch", x, 0)>> ELSE <<>>)

\* x->SetValue(value) by the client.
SetValue(x, value) ==
    /\ Callable /\ x \in Live
    /\ val' = [val EXCEPT ![x] = value]
    /\ stack' = SetValueCall(x, value) \o stack
    /\ UNCHANGED <<life, parent, vec, fault, winVars, conn, head>>

\* Button::KeyDown(KEY_SPACE or KEY_RETURN): SetValue(CONTROL_ON), then
\* m_clicked = true and Invalidate() on this (one touch stands for both).
KeyDown(b) ==
    /\ Callable /\ b \in Live
    /\ val' = [val EXCEPT ![b] = "ON"]
    /\ stack' = SetValueCall(b, "ON") \o <<Frame("touch", b, 0)>> \o stack
    /\ UNCHANGED <<life, parent, vec, fault, winVars, conn, head>>

\* Button::MouseDown: SetValue(CONTROL_ON), m_clicked = true, Invalidate(),
\* CaptureMouse() (the platform window of this).
MouseDown(b) ==
    /\ Callable /\ b \in Live
    /\ val' = [val EXCEPT ![b] = "ON"]
    /\ stack' = SetValueCall(b, "ON") \o <<Frame("touch", b, 0)>> \o stack
    /\ UNCHANGED <<life, parent, vec, fault, winVars, conn, head>>

\* Button::KeyUp(KEY_SPACE or KEY_RETURN): SetValue(CONTROL_OFF),
\* Invalidate(), Clicked(Id()), and then m_clicked = false on this.
KeyUp(b) ==
    /\ Callable /\ b \in Live
    /\ val' = [val EXCEPT ![b] = "OFF"]
    /\ stack' = SetValueCall(b, "OFF")
                \o <<Frame("touch", b, 0), Frame("start", b, "Clicked"),
                     Frame("touch", b, 0)>> \o stack
    /\ UNCHANGED <<life, parent, vec, fault, winVars, conn, head>>

\* Button::MouseUp: when Value() == CONTROL_ON, SetValue(CONTROL_OFF) and
\* Invalidate(); m_clicked = false, ReleaseMouse(); Clicked(Id()) last,
\* and only when the value was on.
MouseUp(b) ==
    /\ Callable /\ b \in Live
    /\ val' = [val EXCEPT ![b] = "OFF"]
    /\ stack' = IF val[b] = "ON"
                THEN SetValueCall(b, "OFF")
                     \o <<Frame("touch", b, 0), Frame("start", b, "Clicked")>>
                     \o stack
                ELSE <<Frame("touch", b, 0)>> \o stack
    /\ UNCHANGED <<life, parent, vec, fault, winVars, conn, head>>
-----------------------------------------------------------------------------
(* Calls in progress                                                       *)

\* Vector::Clear in ~Vector: for (i = 0; i < m_count; ++i)
\* DeleteItem(m_data[i]); m_count = 0.  m_count is read again on every
\* iteration, after the nested destructors have run.
StepClear ==
    /\ ~fault /\ stack # <<>> /\ Top.op = "clear"
    /\ LET c == Top.v  i == Top.i IN
       IF i < vec[c].cnt
       THEN /\ Delete(vec[c].slot[i], <<Frame("clear", c, i + 1)>> \o Tail(stack))
            /\ UNCHANGED <<parent, vec>>
       ELSE /\ vec' = [vec EXCEPT ![c].cnt = 0]
            /\ stack' = Tail(stack)
            /\ UNCHANGED <<life, parent, fault, conn, head>>
    /\ UNCHANGED <<winVars, val>>

\* ~View: TheApp->RemoveHandler(this) (Looper), then RemoveSelf().  The
\* parent is called through m_parent; while the parent's own destructor
\* runs, its Container::RemoveChild is the one called.  Finding the dying
\* View there deletes it a second time.
StepView ==
    /\ ~fault /\ stack # <<>> /\ Top.op = "view"
    /\ LET v == Top.v  p == parent[v] IN
       IF p = NULL
       THEN /\ life' = [life EXCEPT ![v] = "dead"]
            /\ stack' = Tail(stack)
            /\ UNCHANGED <<parent, vec, fault>>
       ELSE IF life[p] \in {"unborn", "dead"}
       THEN /\ fault' = TRUE
            /\ UNCHANGED <<life, parent, vec, stack>>
       ELSE \E pos \in FindRef(vec[p], v) :
               IF pos = vec[p].cnt
               THEN /\ life' = [life EXCEPT ![v] = "dead"]
                    /\ parent' = [parent EXCEPT ![v] = NULL]
                    /\ stack' = Tail(stack)
                    /\ UNCHANGED <<vec, fault>>
               ELSE /\ fault' = TRUE
                    /\ UNCHANGED <<life, parent, vec, stack>>
    /\ UNCHANGED <<winVars, sigVars>>

\* Window::RemoveChild after Container::RemoveChild returned true:
\* view->SetWindow(nullptr) on the View just deleted.
StepSetWindow ==
    /\ ~fault /\ stack # <<>> /\ Top.op = "setwindow"
    /\ IF life[Top.v] = "alive"
       THEN /\ stack' = Tail(stack)
            /\ UNCHANGED <<life, parent, vec, fault>>
       ELSE /\ fault' = TRUE
            /\ UNCHANGED <<life, parent, vec, stack>>
    /\ UNCHANGED <<winVars, sigVars>>

\* RemoveSelf after m_parent->RemoveChild(this): m_parent = nullptr.
StepSelfTail ==
    /\ ~fault /\ stack # <<>> /\ Top.op = "selftail"
    /\ IF life[Top.v] = "alive"
       THEN /\ parent' = [parent EXCEPT ![Top.v] = NULL]
            /\ stack' = Tail(stack)
            /\ UNCHANGED <<life, vec, fault>>
       ELSE /\ fault' = TRUE
            /\ UNCHANGED <<life, parent, vec, stack>>
    /\ UNCHANGED <<winVars, sigVars>>

\* Signal::operator()(arg) on member k of x: c = m_connections.
StepStart ==
    /\ ~fault /\ stack # <<>> /\ Top.op = "start"
    /\ IF Top.v \in Live
       THEN /\ stack' = <<Frame("emit", head[<<Top.v, Top.i>>], <<Top.v, Top.i>>)>>
                        \o Tail(stack)
            /\ UNCHANGED fault
       ELSE /\ fault' = TRUE
            /\ UNCHANGED stack
    /\ UNCHANGED <<life, parent, vec, winVars, sigVars>>

\* while (c != nullptr) c->EmitSignal(arg): (receiver->*fn)(arg), a slot
\* of the client, with `next' pending; a receiver deleted while still
\* connected is called all the same.
StepEmit ==
    /\ ~fault /\ stack # <<>> /\ Top.op = "emit"
    /\ LET n == Top.v IN
       IF n = NULL
       THEN /\ stack' = Tail(stack)
            /\ UNCHANGED fault
       ELSE IF conn[n].recv \in Live
       THEN /\ stack' = <<Frame("slot", conn[n].recv, 0), Frame("next", n, Top.i)>>
                        \o Tail(stack)
            /\ UNCHANGED fault
       ELSE /\ fault' = TRUE
            /\ UNCHANGED stack
    /\ UNCHANGED <<life, parent, vec, winVars, sigVars>>

\* The slot returns to the emission loop.
SlotReturn ==
    /\ ~fault /\ stack # <<>> /\ Top.op = "slot"
    /\ stack' = Tail(stack)
    /\ UNCHANGED <<life, parent, vec, fault, winVars, sigVars>>

\* c = c->next after the slot returned: a read of freed memory when the
\* slot deleted c, by Disconnect or by deleting the Signal's owner.
StepNext ==
    /\ ~fault /\ stack # <<>> /\ Top.op \in {"next", "freed"}
    /\ IF Top.op = "next"
       THEN /\ stack' = <<Frame("emit", conn[Top.v].next, Top.i)>> \o Tail(stack)
            /\ UNCHANGED fault
       ELSE /\ fault' = TRUE
            /\ UNCHANGED stack
    /\ UNCHANGED <<life, parent, vec, winVars, sigVars>>

\* A Button's code after a call that may have run slots: Invalidate() or
\* m_clicked = ... on this.
StepTouch ==
    /\ ~fault /\ stack # <<>> /\ Top.op = "touch"
    /\ IF Top.v \in Live
       THEN /\ stack' = Tail(stack)
            /\ UNCHANGED fault
       ELSE /\ fault' = TRUE
            /\ UNCHANGED stack
    /\ UNCHANGED <<life, parent, vec, winVars, sigVars>>

Next ==
    \/ \E w \in Windows : NewWindow(w)
    \/ \E v \in Views, p \in Containers \cup {NULL} : NewView(v, p)
    \/ \E c \in Containers, v \in Views :
          AddChild(c, v) \/ RemoveChild(c, v)
    \/ \E v \in Views : RemoveSelf(v) \/ DeleteView(v)
    \/ \E c \in Containers : FrameResized(c)
    \/ \E w \in Windows, ctl \in (Controls \cap Live) \cup {NULL} :
          SetDefaultControl(w, ctl) \/ SetFocusedControl(w, ctl)
    \/ \E x \in Controls, value \in {"OFF", "ON"} : SetValue(x, value)
    \/ \E b \in Buttons : KeyDown(b) \/ MouseDown(b) \/ KeyUp(b) \/ MouseUp(b)
    \/ \E sg \in Sigs, r \in Views, fn \in Fns :
          Connect(sg, r, fn) \/ Disconnect(sg, r, fn)
    \/ StepClear \/ StepView \/ StepSetWindow \/ StepSelfTail
    \/ StepStart \/ StepEmit \/ SlotReturn \/ StepNext \/ StepTouch

Spec == Init /\ [][Next]_vars
-----------------------------------------------------------------------------
(* Properties                                                              *)

\* No client call sequence leads the view code to call, or delete, a View
\* that is not alive or a child-list slot never written: not ~View
\* through a dangling m_parent, not ~Container's Clear, RemoveChild or
\* Window::RemoveChild, nor the loops over m_childList.
NoUndefinedBehaviour == ~fault
==============================================================================
