------------------------------ MODULE CowString ------------------------------
(***************************************************************************)
(* support/String over support/StringBody: String objects share reference- *)
(* counted bodies and copy one before writing to it (copy-on-write).       *)
(*   body[s] = String::m_body of String object s (NULL: not constructed)   *)
(*   heap[b] = the StringBody at address b: refCount, capacity and the     *)
(*             characters data[0 .. length-1]; FREE once deleted           *)
(*   fault   = some call read a deleted body or wrote past the capacity+1  *)
(*             bytes a body allocates                                      *)
(* Every action is one C++ statement a client can write, temporaries      *)
(* included: s = t.Left(n) allocates the result, assigns it to s and       *)
(* destroys the temporary.  The const String::Empty is in Consts.          *)
(***************************************************************************)
EXTENDS Naturals, Sequences, FiniteSets

CONSTANTS Strs,       \* String objects
          Consts,     \* String::Empty (String(0, ""))
          Bodies,     \* addresses a StringBody can be allocated at
          Chars, Literals, NULL, FREE,
          Sizes,      \* capacities passed to String(capacity, str), Reserve
          SelfAppend, \* whether s += s is among the client's calls
          MaxLength   \* bound on a string's length for TLC

DEFAULT_CAPACITY == 20   \* StringBody::DEFAULT_CAPACITY

Body == [refCount : Nat, capacity : Nat, data : Seq(Chars)]

VARIABLES body, heap, fault

vars == <<body, heap, fault>>

EmptyBody == CHOOSE b \in Bodies : TRUE

Init ==
    /\ body = [s \in Strs |-> IF s \in Consts THEN EmptyBody ELSE NULL]
    /\ heap = [b \in Bodies |->
                 IF b = EmptyBody
                 THEN [refCount |-> Cardinality(Consts), capacity |-> 0, data |-> <<>>]
                 ELSE FREE]
    /\ fault = FALSE
-----------------------------------------------------------------------------
(* support/StringBody                                                      *)

Prefix(str, n) == SubSeq(str, 1, IF n < Len(str) THEN n ELSE Len(str))

\* new StringBody(capacity, str): refCount 1, data = the first capacity
\* characters of str (strnlen(str, capacity)).
Alloc(h, b, capacity, str) ==
    [h EXCEPT ![b] = [refCount |-> 1, capacity |-> capacity,
                      data |-> Prefix(str, capacity)]]

\* new StringBody(str): capacity = length, or DEFAULT_CAPACITY for "".
AllocFor(h, b, str) ==
    Alloc(h, b, IF Len(str) > 0 THEN Len(str) ELSE DEFAULT_CAPACITY, str)

AddRef(h, b) == [h EXCEPT ![b].refCount = @ + 1]

\* Mutant: the body survives a count that drops to 0.
ReleaseRefBelowZero(h, b) ==
    IF h[b].refCount - 1 < 0 THEN [h EXCEPT ![b] = FREE]
    ELSE [h EXCEPT ![b].refCount = @ - 1]

\* ReleaseRef(): if (--refCount <= 0) delete this;
ReleaseRef(h, b) ==
    IF h[b].refCount - 1 <= 0 THEN [h EXCEPT ![b] = FREE]
    ELSE [h EXCEPT ![b].refCount = @ - 1]
-----------------------------------------------------------------------------
(* support/String                                                          *)

Constructed(s) == body[s] # NULL
Mutable(s) == Constructed(s) /\ s \notin Consts
FreeBodies == {b \in Bodies : heap[b] = FREE}
Chars0(s) == heap[body[s]].data

\* String(const char* str) and String(uint capacity, const char* str).
Construct(s, str) ==
    /\ ~Constructed(s)
    /\ \E b \in FreeBodies :
          /\ \/ heap' = AllocFor(heap, b, str)
             \/ \E c \in Sizes : heap' = Alloc(heap, b, c, str)
          /\ body' = [body EXCEPT ![s] = b]
    /\ UNCHANGED fault

\* Mutant: the copy shares the body without counting the new reference.
CopyConstructNoAddRef(s, t) ==
    /\ ~Constructed(s) /\ Constructed(t)
    /\ body' = [body EXCEPT ![s] = body[t]]
    /\ UNCHANGED <<heap, fault>>

\* String(const String& str): m_body(str.m_body) { m_body->AddRef(); }
CopyConstruct(s, t) ==
    /\ ~Constructed(s) /\ Constructed(t)
    /\ body' = [body EXCEPT ![s] = body[t]]
    /\ heap' = AddRef(heap, body[t])
    /\ UNCHANGED fault

\* ~String(): m_body->ReleaseRef();
Destroy(s) ==
    /\ Mutable(s)
    /\ heap' = ReleaseRef(heap, body[s])
    /\ body' = [body EXCEPT ![s] = NULL]
    /\ UNCHANGED fault

\* operator=(const String& str): if (this != &str) { AssignBody(str.m_body);
\* m_body->AddRef(); }, where AssignBody releases the old body first.
AssignString(s, t) ==
    /\ Mutable(s) /\ Constructed(t) /\ s # t
    /\ heap' = AddRef(ReleaseRef(heap, body[s]), body[t])
    /\ body' = [body EXCEPT ![s] = body[t]]
    /\ UNCHANGED fault

\* Body b, allocated while s's old body is still held, replaces it:
\* AssignBody(new StringBody(...)).  h already holds b.
Rebind(s, h, b) ==
    /\ heap' = ReleaseRef(h, body[s])
    /\ body' = [body EXCEPT ![s] = b]

\* operator=(const char* str): AssignBody(new StringBody(str)).
AssignLiteral(s, str) ==
    /\ Mutable(s)
    /\ \E b \in FreeBodies : Rebind(s, AllocFor(heap, b, str), b)
    /\ UNCHANGED fault

\* Reserve(size): if (size > capacity) AssignBody(new StringBody(size, data)).
\* Shrink(): if (capacity == length) return;
\*           AssignBody(new StringBody(length, data)).
Reserve(s, size) ==
    /\ Mutable(s)
    /\ size > heap[body[s]].capacity
    /\ \E b \in FreeBodies : Rebind(s, Alloc(heap, b, size, Chars0(s)), b)
    /\ UNCHANGED fault

Shrink(s) ==
    /\ Mutable(s)
    /\ heap[body[s]].capacity # Len(Chars0(s))
    /\ \E b \in FreeBodies : Rebind(s, Alloc(heap, b, Len(Chars0(s)), Chars0(s)), b)
    /\ UNCHANGED fault

\* Mutant: Single() copies only a body with more than two references.
SharedOffByOne(s) == heap[body[s]].refCount > 2

\* Single(): if (m_body->refCount > 1) { m_body->ReleaseRef();
\*     m_body = new StringBody(m_body->length, m_body->data); }
\* The copy gets capacity length: no room is left to grow in place.
Shared(s) == heap[body[s]].refCount > 1

\* The heap after Single() with nb as the new body's address, and the body
\* s holds afterwards.
Singled(s, nb) ==
    IF Shared(s) THEN Alloc(ReleaseRef(heap, body[s]), nb, Len(Chars0(s)), Chars0(s))
    ELSE heap
SingleBody(s, nb) == IF Shared(s) THEN nb ELSE body[s]

\* Addresses Single() or a reallocation may take.
NewBodyFor(s, realloc) == IF realloc THEN FreeBodies ELSE {body[s]}

\* s[i] = c through char& operator[](uint index) { Single(); return
\* m_body->data[index]; }
SetChar(s, i, c) ==
    /\ Mutable(s)
    /\ i \in 1 .. Len(Chars0(s))
    /\ \E nb \in NewBodyFor(s, Shared(s)) :
          LET b == SingleBody(s, nb) IN
          /\ heap' = [Singled(s, nb) EXCEPT ![b].data[i] = c]
          /\ body' = [body EXCEPT ![s] = b]
    /\ UNCHANGED fault

\* Append(str, len), called by operator+=(const char*) and by
\* operator+=(const String& t) with str = t.m_body->data, read before the
\* call (src is t's body, NULL for a literal):
\*     new_length = m_body->length + len;
\*     if (new_length > m_body->capacity)
\*         AssignBody(new StringBody(new_length, m_body->data));
\*     else Single();
\*     strncpy(m_body->data + m_body->length, str, len);
\*     m_body->length = new_length;
\* If AssignBody deleted src (s += s on an unshared body), strncpy reads
\* freed memory, whose first bytes the allocator may have overwritten: any
\* characters.  A new_length beyond the body's capacity writes past the
\* array and leaves data unterminated.
AppendChars(s, str, src) ==
    LET ob   == body[s]
        nl   == Len(Chars0(s)) + Len(str)
        grow == nl > heap[ob].capacity
    IN
    /\ Mutable(s)
    /\ nl <= MaxLength
    /\ \E nb \in NewBodyFor(s, grow \/ Shared(s)) :
          LET h1   == IF grow THEN ReleaseRef(Alloc(heap, nb, nl, Chars0(s)), ob)
                      ELSE Singled(s, nb)
              gone == src # NULL /\ h1[src] = FREE
          IN \E w \in IF gone THEN [1 .. Len(str) -> Chars] ELSE {str} :
                /\ heap' = [h1 EXCEPT ![nb].data = @ \o w]
                /\ body' = [body EXCEPT ![s] = nb]
                /\ fault' = (fault \/ gone \/ nl > h1[nb].capacity)

\* Left(count), Right(count), Mid(first, count): String new_str(count),
\* then count characters copied from the front, the back (from
\* data[length - count]) or from data[first].
LeftOf(d, count) == SubSeq(d, 1, count)
RightOf(d, count) == SubSeq(d, Len(d) - count + 1, Len(d))
MidOf(d, first, count) == SubSeq(d, first + 1, first + count)

\* operator+ (all three overloads): Concat builds String new_string(len1 +
\* len2) and copies both operands into it.
ConcatOf(d1, d2) == d1 \o d2

\* What a client can compute from the constructed Strings and literals;
\* counts beyond Length() are excluded (Right would index before data).
Results ==
    LET ds == {Chars0(t) : t \in {x \in Strs : Constructed(x)}} IN
    UNION {{LeftOf(d, n) : n \in 0 .. Len(d)} \cup {RightOf(d, n) : n \in 0 .. Len(d)}
           \cup UNION {{MidOf(d, f, n) : n \in 0 .. Len(d) - f} : f \in 0 .. Len(d)}
           : d \in ds}
    \cup {ConcatOf(d1, d2) : d1 \in ds, d2 \in ds \cup Literals}
    \cup {ConcatOf(d1, d2) : d1 \in Literals, d2 \in ds}

\* String s = expr, or s = expr for a constructed s: the result body
\* (capacity = its length) is allocated, operator= shares it with s, and
\* the temporary's destructor drops the extra reference.
AssignResult(s, r) ==
    /\ s \notin Consts
    /\ Len(r) <= MaxLength
    /\ \E b \in FreeBodies :
          IF Constructed(s)
          THEN Rebind(s, Alloc(heap, b, Len(r), r), b)
          ELSE /\ heap' = Alloc(heap, b, Len(r), r)
               /\ body' = [body EXCEPT ![s] = b]
    /\ UNCHANGED fault

Next ==
    \/ \E s \in Strs, str \in Literals :
          \/ Construct(s, str) \/ AssignLiteral(s, str)
          \/ AppendChars(s, str, NULL)
    \/ \E s, t \in Strs :
          \/ CopyConstruct(s, t) \/ AssignString(s, t)
          \/ /\ Constructed(t) /\ (SelfAppend \/ s # t)
             /\ AppendChars(s, Chars0(t), body[t])
    \/ \E s \in Strs : Destroy(s) \/ Shrink(s)
    \/ \E s \in Strs, size \in Sizes : Reserve(s, size)
    \/ \E s \in Strs, i \in 1 .. MaxLength, c \in Chars : SetChar(s, i, c)
    \/ \E s \in Strs, r \in Results : AssignResult(s, r)

Spec == Init /\ [][Next]_vars
-----------------------------------------------------------------------------
(* Properties                                                              *)

TypeOK ==
    /\ body \in [Strs -> Bodies \cup {NULL}]
    /\ \A b \in Bodies :
          \/ heap[b] = FREE
          \/ /\ heap[b] \in Body
             /\ heap[b].refCount \in 1 .. Cardinality(Strs)
    /\ fault \in BOOLEAN

Holders(b) == {s \in Strs : body[s] = b}

\* Every String's body is allocated, and every allocated body counts
\* exactly the String objects that hold it, of which there is at least one:
\* across copies, assignments (self-assignment and assigning a String that
\* already shares the body included), reallocations, Single() and
\* destruction, no body is deleted while held and none is leaked.
BodiesAccounted ==
    /\ \A s \in Strs : Constructed(s) => heap[body[s]] # FREE
    /\ \A b \in Bodies :
          heap[b] # FREE => heap[b].refCount = Cardinality(Holders(b)) /\ Holders(b) # {}

\* The value a String object has for its user.
Value(s) == IF ~Constructed(s) THEN NULL
            ELSE IF heap[body[s]] = FREE THEN <<>> ELSE Chars0(s)

Abstract == INSTANCE StringSpec WITH val <- [s \in Strs |-> Value(s)], NONE <- NULL

\* Strings behave like values (the class comment of String.h): whatever
\* bodies they share, an operation changes the value of the String it is
\* called on only, as StringSpec says, and copy-on-write is invisible.
StringRefinement == Abstract!Spec

\* "Automatically there is always enough memory reserved" (String.h):
\* no Append reads a deleted body or writes past the array of its own.
AppendStaysInBuffer == ~fault
==============================================================================
