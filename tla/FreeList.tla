------------------------------ MODULE FreeList ------------------------------
(***************************************************************************)
(* binaryFreeList: a channel of buffers that all goroutines share, and the *)
(* calls that go through it.  A call moves its elements one by one: borrow *)
(* a buffer, fill it (from the value, or from the reader), use it (write   *)
(* it, or convert it), return it.  UintN moves one element; writeElements  *)
(* goes through its elements and stops at the first error: integers and    *)
(* booleans take a buffer (PutUintN), any other type is written directly.  *)
(* A buffer the list has no room for is left to the garbage collector: its *)
(* memory may come back as a new buffer once nobody holds it.              *)
(***************************************************************************)
EXTENDS Naturals, Sequences

CONSTANTS
    Goroutines,
    Buffers,        \* memory for buffers
    Values,
    Zero,           \* what a new buffer holds
    None,           \* no buffer
    MaxItems,       \* binaryFreeListMaxItems
    Calls           \* the calls that are made: [op, elements]

ASSUME FreeListAssumption ==
    /\ None \notin Buffers
    /\ MaxItems \in Nat
    /\ Calls \subseteq [op : {"get", "put"}, elements : Seq(Values)]

VARIABLES
    free,           \* the channel
    content,        \* of each buffer
    pc,
    op,             \* "get" for UintN, "put" for writeElements
    elements,       \* of the call: values to write, or what the reader holds
    index,          \* the element it is at
    buf,            \* the buffer it holds, or None
    out,            \* what it wrote, or read
    err             \* whether it returns an error

fvars == <<free, content, pc, op, elements, index, buf, out, err>>

-----------------------------------------------------------------------------
Held == {buf[g] : g \in Goroutines}

Listed == {free[n] : n \in 1..Len(free)}

At(g, from, to) == pc[g] = from /\ pc' = [pc EXCEPT ![g] = to]

BeginCall(g, c) ==
    /\ At(g, "idle", "next")
    /\ op' = [op EXCEPT ![g] = c.op]
    /\ elements' = [elements EXCEPT ![g] = c.elements]
    /\ index' = [index EXCEPT ![g] = 1]
    /\ out' = [out EXCEPT ![g] = <<>>]
    /\ err' = [err EXCEPT ![g] = FALSE]
    /\ UNCHANGED <<free, content, buf>>

\* Borrow's case buf = <-l.
BorrowFree(g) ==
    /\ At(g, "next", "borrowed")
    /\ ~err[g] /\ index[g] <= Len(elements[g])
    /\ free # <<>>
    /\ buf' = [buf EXCEPT ![g] = Head(free)]
    /\ free' = Tail(free)
    /\ UNCHANGED <<content, op, elements, index, out, err>>

\* Mutant: Borrow's default makes nothing, buf stays nil.
BorrowNil(g) ==
    /\ At(g, "next", "borrowed")
    /\ ~err[g] /\ index[g] <= Len(elements[g])
    /\ free = <<>>
    /\ UNCHANGED <<free, content, op, elements, index, buf, out, err>>

\* Borrow's default: make.
BorrowNew(g) ==
    /\ At(g, "next", "borrowed")
    /\ ~err[g] /\ index[g] <= Len(elements[g])
    /\ free = <<>>
    /\ \E b \in Buffers \ (Held \cup Listed) :
        /\ buf' = [buf EXCEPT ![g] = b]
        /\ content' = [content EXCEPT ![b] = Zero]
    /\ UNCHANGED <<free, op, elements, index, out, err>>

\* byteOrder.PutUintN, or an io.ReadFull that gets all its bytes.
Fill(g) ==
    /\ At(g, "borrowed", "filled")
    /\ content' = [content EXCEPT ![buf[g]] = elements[g][index[g]]]
    /\ UNCHANGED <<free, op, elements, index, buf, out, err>>

\* io.ReadFull fails, having read nothing or some of the bytes.
ReadFails(g) ==
    /\ At(g, "borrowed", "failed")
    /\ op[g] = "get"
    /\ \E v \in Values \cup {Zero} : content' = [content EXCEPT ![buf[g]] = v]
    /\ err' = [err EXCEPT ![g] = TRUE]
    /\ UNCHANGED <<free, op, elements, index, buf, out>>

\* w.Write reads the buffer, or byteOrder.UintN converts it.
UseBuffer(g) ==
    /\ At(g, "filled", "used")
    /\ out' = [out EXCEPT ![g] = Append(@, content[buf[g]])]
    /\ UNCHANGED <<free, content, op, elements, index, buf, err>>

WriteFails(g) ==
    /\ At(g, "filled", "failed")
    /\ op[g] = "put"
    /\ err' = [err EXCEPT ![g] = TRUE]
    /\ UNCHANGED <<free, content, op, elements, index, buf, out>>

\* writeElement, for a type that has no PutUintN: w.Write or binary.Write.
WriteDirectly(g) ==
    /\ At(g, "next", "next")
    /\ op[g] = "put" /\ ~err[g] /\ index[g] <= Len(elements[g])
    /\ index' = [index EXCEPT ![g] = @ + 1]
    /\ \/ /\ out' = [out EXCEPT ![g] = Append(@, elements[g][index[g]])]
          /\ UNCHANGED err
       \/ /\ err' = [err EXCEPT ![g] = TRUE]
          /\ UNCHANGED out
    /\ UNCHANGED <<free, content, op, elements, buf>>

\* Mutant: a full list makes Return wait (no default).
ReturnWaits(g) ==
    /\ pc[g] \in {"used", "failed"}
    /\ Len(free) < MaxItems
    /\ free' = Append(free, buf[g])
    /\ pc' = [pc EXCEPT ![g] = "next"]
    /\ index' = [index EXCEPT ![g] = @ + 1]
    /\ buf' = [buf EXCEPT ![g] = None]
    /\ UNCHANGED <<content, op, elements, out, err>>

\* Mutant: Return comes before the buffer is used.
ReturnBeforeUse(g) ==
    \/ /\ pc[g] = "filled"
       /\ buf[g] \notin Listed
       /\ free' = IF Len(free) < MaxItems THEN Append(free, buf[g]) ELSE free
       /\ UNCHANGED <<content, pc, op, elements, index, buf, out, err>>
    \/ /\ pc[g] \in {"used", "failed"}
       /\ pc' = [pc EXCEPT ![g] = "next"]
       /\ index' = [index EXCEPT ![g] = @ + 1]
       /\ buf' = [buf EXCEPT ![g] = None]
       /\ UNCHANGED <<free, content, op, elements, out, err>>

\* Mutant: the error branch of UintN falls through to the second Return.
ReturnTwice(g) ==
    /\ pc[g] \in {"used", "failed"}
    /\ free' = IF Len(free) < MaxItems THEN Append(free, buf[g]) ELSE free
    /\ \/ /\ pc[g] = "failed"
          /\ pc' = [pc EXCEPT ![g] = "used"]
          /\ UNCHANGED <<index, buf>>
       \/ /\ pc[g] = "used"
          /\ pc' = [pc EXCEPT ![g] = "next"]
          /\ index' = [index EXCEPT ![g] = @ + 1]
          /\ buf' = [buf EXCEPT ![g] = None]
    /\ UNCHANGED <<content, op, elements, out, err>>

\* Return: its default drops the buffer if the list is full.
Return(g) ==
    /\ pc[g] \in {"used", "failed"}
    /\ free' = IF Len(free) < MaxItems THEN Append(free, buf[g]) ELSE free
    /\ pc' = [pc EXCEPT ![g] = "next"]
    /\ index' = [index EXCEPT ![g] = @ + 1]
    /\ buf' = [buf EXCEPT ![g] = None]
    /\ UNCHANGED <<content, op, elements, out, err>>

\* An error, or the last element, ends the call.
EndCall(g) ==
    /\ At(g, "next", "idle")
    /\ err[g] \/ index[g] > Len(elements[g])
    /\ UNCHANGED <<free, content, op, elements, index, buf, out, err>>

FInit ==
    /\ free = <<>>
    /\ content = [b \in Buffers |-> Zero]
    /\ pc = [g \in Goroutines |-> "idle"]
    /\ op = [g \in Goroutines |-> "put"]
    /\ elements = [g \in Goroutines |-> <<>>]
    /\ index = [g \in Goroutines |-> 1]
    /\ buf = [g \in Goroutines |-> None]
    /\ out = [g \in Goroutines |-> <<>>]
    /\ err = [g \in Goroutines |-> FALSE]

CallStep(g) ==
    \/ BorrowFree(g) \/ BorrowNew(g)
    \/ Fill(g) \/ ReadFails(g)
    \/ UseBuffer(g) \/ WriteFails(g) \/ WriteDirectly(g)
    \/ Return(g) \/ EndCall(g)

FNext == \E g \in Goroutines : CallStep(g) \/ \E c \in Calls : BeginCall(g, c)

FSpec == FInit /\ [][FNext]_fvars

\* Goroutines are scheduled, and the readers and writers (bytes.Buffers of the
\* hash calculations) answer; nobody has to begin another call.
FFairness == \A g \in Goroutines : WF_fvars(CallStep(g))

-----------------------------------------------------------------------------
\* Every variable holds what its Go declaration allows, and a goroutine has a
\* buffer exactly from its Borrow to its Return.
FTypeOK ==
    /\ free \in Seq(Buffers)
    /\ content \in [Buffers -> Values \cup {Zero}]
    /\ pc \in [Goroutines -> {"idle", "next", "borrowed", "filled", "used", "failed"}]
    /\ op \in [Goroutines -> {"get", "put"}]
    /\ elements \in [Goroutines -> Seq(Values)]
    /\ index \in [Goroutines -> Nat]
    /\ buf \in [Goroutines -> Buffers \cup {None}]
    /\ out \in [Goroutines -> Seq(Values \cup {Zero})]
    /\ err \in [Goroutines -> BOOLEAN]
    /\ \A g \in Goroutines : buf[g] = None <=> pc[g] \in {"idle", "next"}

\* Every buffer has one owner: it is in the list once, or one goroutine holds
\* it, or neither; and the list is never longer than its channel.
BuffersHaveOneOwner ==
    /\ Len(free) <= MaxItems
    /\ \A m, n \in 1..Len(free) : free[m] = free[n] => m = n
    /\ Held \cap Listed = {}
    /\ \A g, h \in Goroutines : buf[g] = buf[h] /\ buf[g] # None => g = h

Status(g) == IF pc[g] # "idle" THEN "running" ELSE IF err[g] THEN "failed" ELSE "ok"

\* The free list cannot be noticed: calls through it implement AtomicCodec.
Codec == INSTANCE AtomicCodec WITH status <- [g \in Goroutines |-> Status(g)]

ImplementsAtomicCodec == Codec!CSpec

\* Every call returns, with the list empty or full, and whoever else is or is
\* not using it.
CallsEnd == \A g \in Goroutines : pc[g] # "idle" ~> pc[g] = "idle"
=============================================================================
