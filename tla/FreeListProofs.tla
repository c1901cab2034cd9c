-------------------------- MODULE FreeListProofs --------------------------
(***************************************************************************)
(* Proofs about FreeList, for any number of goroutines and buffers and any *)
(* size of the list: no buffer has two owners, and therefore no call can   *)
(* notice that it shares its buffers with others.                          *)
(***************************************************************************)
EXTENDS FreeList, SequenceTheorems, TLAPS

(***************************************************************************)
(* The inductive invariant: ownership, and how far each call has come.     *)
(* That a filled buffer still holds its owner's element depends on no      *)
(* other goroutine holding it.                                             *)
(***************************************************************************)
CallsKeepTheirPlace ==
    \A g \in Goroutines :
        /\ index[g] >= 1
        /\ Len(out[g]) <= Len(elements[g])
        /\ err[g] => Len(out[g]) < Len(elements[g]) /\ pc[g] \in {"idle", "next", "failed"}
        /\ pc[g] = "failed" => err[g]
        /\ pc[g] = "idle" /\ ~err[g] => Len(out[g]) = Len(elements[g])
        /\ pc[g] = "next" /\ ~err[g] => Len(out[g]) = index[g] - 1
        /\ pc[g] \in {"borrowed", "filled"} =>
              Len(out[g]) = index[g] - 1 /\ index[g] <= Len(elements[g])
        /\ pc[g] = "filled" => content[buf[g]] = elements[g][index[g]]
        /\ pc[g] = "used" => Len(out[g]) = index[g]

FreeListInv == FTypeOK /\ BuffersHaveOneOwner /\ CallsKeepTheirPlace

\* What a list holds once a new element is at its end, and that it still holds
\* each once.
LEMMA ElementsOfAppend ==
    ASSUME NEW S, NEW s \in Seq(S), NEW x \in S, NEW t, t = Append(s, x)
    PROVE  /\ Len(t) = Len(s) + 1
           /\ {t[n] : n \in 1..Len(t)} \subseteq {s[n] : n \in 1..Len(s)} \cup {x}
           /\ (\A m, n \in 1..Len(s) : s[m] = s[n] => m = n) /\ x \notin {s[n] : n \in 1..Len(s)}
              => \A m, n \in 1..Len(t) : t[m] = t[n] => m = n
  <1>1. /\ Len(t) = Len(s) + 1
        /\ \A n \in 1..Len(s) : t[n] = s[n]
        /\ t[Len(s) + 1] = x
    BY AppendProperties
  <1>2. \A n \in 1..Len(t) : n \in 1..Len(s) \/ n = Len(s) + 1
    BY <1>1
  <1>3. {t[n] : n \in 1..Len(t)} \subseteq {s[n] : n \in 1..Len(s)} \cup {x}
    BY <1>1, <1>2
  <1>4. ASSUME \A m, n \in 1..Len(s) : s[m] = s[n] => m = n, x \notin {s[n] : n \in 1..Len(s)},
               NEW m \in 1..Len(t), NEW n \in 1..Len(t), t[m] = t[n]
        PROVE  m = n
    BY <1>1, <1>2, <1>4
  <1> QED
    BY <1>1, <1>3, <1>4

\* The invariant holds of the empty list.
LEMMA FreeListInvInit == FInit => FreeListInv
  <1> SUFFICES ASSUME FInit PROVE FreeListInv
    OBVIOUS
  <1> USE FreeListAssumption DEF FInit
  <1>1. FTypeOK
    BY DEF FTypeOK
  <1>2. BuffersHaveOneOwner
    BY DEF BuffersHaveOneOwner, Held, Listed
  <1>3. CallsKeepTheirPlace
    <2> SUFFICES ASSUME NEW g \in Goroutines PROVE CallsKeepTheirPlace!(g)
      BY DEF CallsKeepTheirPlace
    <2>1. index[g] = 1 /\ pc[g] = "idle" /\ err[g] = FALSE
      OBVIOUS
    <2>2. Len(out[g]) = 0 /\ Len(elements[g]) = 0
      OBVIOUS
    <2> QED
      BY ONLY <2>1, <2>2
  <1> QED
    BY <1>1, <1>2, <1>3 DEF FreeListInv

\* A step of a call keeps every variable's type.
LEMMA TypeStep ==
    ASSUME FreeListInv, NEW g \in Goroutines,
           CallStep(g) \/ \E c \in Calls : BeginCall(g, c)
    PROVE  FTypeOK'
  <1> USE FreeListAssumption DEF FreeListInv, FTypeOK, At
  <1>1. ASSUME NEW c \in Calls, BeginCall(g, c) PROVE FTypeOK'
    <2>1. c.op \in {"get", "put"} /\ c.elements \in Seq(Values)
      OBVIOUS
    <2> QED
      BY <1>1, <2>1 DEF BeginCall
  <1>2. CASE BorrowFree(g)
    <2>1. Head(free) \in Buffers /\ Tail(free) \in Seq(Buffers)
      BY <1>2 DEF BorrowFree
    <2> QED
      BY <1>2, <2>1 DEF BorrowFree
  <1>3. CASE BorrowNew(g)
    BY <1>3 DEF BorrowNew
  <1>4. CASE Fill(g)
    <2>1. elements[g][index[g]] \in Values
      BY <1>4 DEF Fill, CallsKeepTheirPlace
    <2> QED
      BY <1>4, <2>1 DEF Fill
  <1>5. CASE ReadFails(g)
    BY <1>5 DEF ReadFails
  <1>6. CASE UseBuffer(g)
    <2>1. buf[g] \in Buffers
      BY <1>6 DEF UseBuffer
    <2>2. Append(out[g], content[buf[g]]) \in Seq(Values \cup {Zero})
      BY <2>1
    <2> QED
      BY <1>6, <2>2 DEF UseBuffer
  <1>7. CASE WriteFails(g)
    BY <1>7 DEF WriteFails
  <1>8. CASE Return(g)
    <2>1. buf[g] \in Buffers
      BY <1>8 DEF Return
    <2>2. Append(free, buf[g]) \in Seq(Buffers)
      BY <2>1
    <2>3. free' \in Seq(Buffers)
      BY <1>8, <2>2 DEF Return
    <2> QED
      BY <1>8, <2>3 DEF Return
  <1>9. CASE EndCall(g)
    BY <1>9 DEF EndCall
  <1>10. CASE WriteDirectly(g)
    <2>1. elements[g][index[g]] \in Values
      BY <1>10 DEF WriteDirectly, CallsKeepTheirPlace
    <2>2. Append(out[g], elements[g][index[g]]) \in Seq(Values \cup {Zero})
      BY <2>1
    <2>3. out' \in [Goroutines -> Seq(Values \cup {Zero})]
      BY <1>10, <2>2 DEF WriteDirectly
    <2>4. err' \in [Goroutines -> BOOLEAN]
      BY <1>10 DEF WriteDirectly
    <2>5. pc' = pc /\ buf' = buf /\ index' \in [Goroutines -> Nat]
      BY <1>10 DEF WriteDirectly
    <2>6. UNCHANGED <<free, content, op, elements>>
      BY <1>10 DEF WriteDirectly
    <2> QED
      BY <2>3, <2>4, <2>5, <2>6
  <1> QED
    BY <1>1, <1>2, <1>3, <1>4, <1>5, <1>6, <1>7, <1>8, <1>9, <1>10 DEF CallStep

\* Borrow moves a buffer from the list, or from nowhere, to one goroutine,
\* and Return moves it back, if there is room.
LEMMA OwnerStep ==
    ASSUME FreeListInv, NEW g \in Goroutines,
           CallStep(g) \/ \E c \in Calls : BeginCall(g, c)
    PROVE  BuffersHaveOneOwner'
  <1> USE FreeListAssumption DEF FreeListInv, FTypeOK, At, BuffersHaveOneOwner
  <1>1. CASE UNCHANGED <<free, buf>>
    <2>1. free' = free /\ buf' = buf
      BY <1>1
    <2>2. Held' = Held /\ Listed' = Listed
      BY <2>1 DEF Held, Listed
    <2> QED
      BY <2>1, <2>2
  <1>2. CASE BorrowFree(g)
    <2>1. /\ Len(free') = Len(free) - 1
          /\ \A n \in 1..Len(free') : free'[n] = free[n + 1]
      BY <1>2 DEF BorrowFree
    <2>2. Head(free) = free[1] /\ 1 \in 1..Len(free)
      BY <1>2 DEF BorrowFree
    <2>3. Listed' \subseteq Listed \ {Head(free)}
      BY <2>1, <2>2 DEF Listed
    <2>4. Held' \subseteq Held \cup {Head(free)}
      BY <1>2 DEF BorrowFree, Held
    <2>5. Head(free) \in Listed
      BY <2>2 DEF Listed
    <2>6. \A h \in Goroutines : h # g => buf'[h] # Head(free)
      BY <1>2, <2>5 DEF BorrowFree, Held
    <2>7. \A h, k \in Goroutines : buf'[h] = buf'[k] /\ buf'[h] # None => h = k
      BY <1>2, <2>6 DEF BorrowFree
    <2>8. \A m, n \in 1..Len(free') : free'[m] = free'[n] => m = n
      <3> SUFFICES ASSUME NEW m \in 1..Len(free'), NEW n \in 1..Len(free'), free'[m] = free'[n]
                   PROVE  m = n
        OBVIOUS
      <3>1. Len(free) \in Nat /\ m + 1 \in 1..Len(free) /\ n + 1 \in 1..Len(free)
        BY <2>1
      <3>2. free[m + 1] = free[n + 1]
        BY <2>1
      <3> QED
        BY <3>1, <3>2
    <2> QED
      BY <2>1, <2>3, <2>4, <2>7, <2>8
  <1>3. CASE BorrowNew(g)
    <2> PICK b \in Buffers \ (Held \cup Listed) : buf' = [buf EXCEPT ![g] = b]
      BY <1>3 DEF BorrowNew
    <2>1. Listed' = Listed
      BY <1>3 DEF BorrowNew, Listed
    <2>2. Held' \subseteq Held \cup {b}
      BY DEF Held
    <2>3. \A h \in Goroutines : h # g => buf'[h] # b
      BY DEF Held
    <2>4. \A h, k \in Goroutines : buf'[h] = buf'[k] /\ buf'[h] # None => h = k
      BY <2>3
    <2>5. free' = free
      BY <1>3 DEF BorrowNew
    <2> QED
      BY <2>1, <2>2, <2>4, <2>5
  <1>4. CASE Return(g)
    <2> DEFINE b == buf[g]
    <2>1. b \in Buffers /\ b \in Held /\ b \notin Listed
      BY <1>4 DEF Return, Held
    <2>2. free \in Seq(Buffers) /\ Len(free) \in Nat /\ MaxItems \in Nat
      OBVIOUS
    <2>3. None \notin Listed
      BY DEF Listed
    <2>4. buf' = [buf EXCEPT ![g] = None]
      BY <1>4 DEF Return
    <2>5. Held' \subseteq (Held \ {b}) \cup {None}
      BY <2>1, <2>4 DEF Held
    <2>6. \A h, k \in Goroutines : buf'[h] = buf'[k] /\ buf'[h] # None => h = k
      BY <2>4
    <2>7. CASE Len(free) < MaxItems
      <3>1. free' = Append(free, b)
        BY <1>4, <2>7 DEF Return
      <3>2. \A m, n \in 1..Len(free) : free[m] = free[n] => m = n
        OBVIOUS
      <3>3. Held \cap Listed = {}
        OBVIOUS
      <3> HIDE DEF FTypeOK, BuffersHaveOneOwner, b
      <3>4. /\ Len(free') = Len(free) + 1
            /\ Listed' \subseteq Listed \cup {b}
            /\ \A m, n \in 1..Len(free') : free'[m] = free'[n] => m = n
        BY <2>1, <2>2, <3>1, <3>2, ElementsOfAppend DEF Listed
      <3>5. None \notin Listed'
        BY <2>1, <2>3, <3>4
      <3>6. Len(free') <= MaxItems
        BY <2>2, <2>7, <3>4
      <3>7. Held' \cap Listed' = {}
        BY <2>5, <3>3, <3>4, <3>5
      <3> QED
        BY <2>6, <3>4, <3>6, <3>7 DEF BuffersHaveOneOwner
    <2>8. CASE ~(Len(free) < MaxItems)
      <3>1. free' = free /\ Listed' = Listed
        BY <1>4, <2>8 DEF Return, Listed
      <3> QED
        BY <2>5, <2>6, <2>3, <3>1
    <2> QED
      BY <2>7, <2>8
  <1> QED
    BY <1>1, <1>2, <1>3, <1>4
       DEF CallStep, BeginCall, Fill, ReadFails, UseBuffer, WriteFails, WriteDirectly, EndCall

\* A step of one call leaves the others where they are: the only buffer whose
\* content it changes is its own, or nobody's.
LEMMA PlaceStep ==
    ASSUME FreeListInv, NEW g \in Goroutines,
           CallStep(g) \/ \E c \in Calls : BeginCall(g, c)
    PROVE  CallsKeepTheirPlace'
  <1> USE FreeListAssumption DEF FreeListInv, FTypeOK, At, CallsKeepTheirPlace
  <1>1. ASSUME NEW c \in Calls, BeginCall(g, c) PROVE CallsKeepTheirPlace'
    <2>1. c.elements \in Seq(Values) /\ Len(c.elements) >= 0
      OBVIOUS
    <2> QED
      BY <1>1, <2>1 DEF BeginCall
  <1>2. CASE BorrowFree(g)
    BY <1>2 DEF BorrowFree
  <1>3. CASE BorrowNew(g)
    <2> PICK b \in Buffers \ (Held \cup Listed) :
                /\ buf' = [buf EXCEPT ![g] = b]
                /\ content' = [content EXCEPT ![b] = Zero]
      BY <1>3 DEF BorrowNew
    <2>1. \A h \in Goroutines : buf[h] # b
      BY DEF Held
    <2>2. \A h \in Goroutines : pc'[h] = "filled" => content'[buf'[h]] = content[buf[h]]
      BY <1>3, <2>1 DEF BorrowNew
    <2> QED
      BY <1>3, <2>2 DEF BorrowNew
  <1>4. CASE Fill(g)
    <2>1. buf[g] \in Buffers
      BY <1>4 DEF Fill
    <2>2. \A h \in Goroutines : h # g => buf[h] # buf[g]
      BY <2>1 DEF BuffersHaveOneOwner
    <2>3. \A h \in Goroutines : h # g => content'[buf'[h]] = content[buf[h]]
      BY <1>4, <2>2 DEF Fill
    <2> QED
      BY <1>4, <2>1, <2>3 DEF Fill
  <1>5. CASE ReadFails(g)
    <2>1. buf[g] \in Buffers
      BY <1>5 DEF ReadFails
    <2>2. \A h \in Goroutines : h # g => buf[h] # buf[g]
      BY <2>1 DEF BuffersHaveOneOwner
    <2>3. \A h \in Goroutines : h # g => content'[buf'[h]] = content[buf[h]]
      BY <1>5, <2>2 DEF ReadFails
    <2> QED
      BY <1>5, <2>3 DEF ReadFails
  <1>6. CASE UseBuffer(g)
    <2>1. Len(out'[g]) = Len(out[g]) + 1
      BY <1>6 DEF UseBuffer
    <2> QED
      BY <1>6, <2>1 DEF UseBuffer
  <1>7. CASE WriteFails(g)
    BY <1>7 DEF WriteFails
  <1>8. CASE Return(g)
    BY <1>8 DEF Return
  <1>9. CASE EndCall(g)
    BY <1>9 DEF EndCall
  <1>10. CASE WriteDirectly(g)
    <2>1. Len(out[g]) = index[g] - 1 /\ index'[g] = index[g] + 1
      BY <1>10 DEF WriteDirectly
    <2>2. out' # out => Len(out'[g]) = Len(out[g]) + 1
      BY <1>10 DEF WriteDirectly
    <2> QED
      BY <1>10, <2>1, <2>2 DEF WriteDirectly
  <1> QED
    BY <1>1, <1>2, <1>3, <1>4, <1>5, <1>6, <1>7, <1>8, <1>9, <1>10 DEF CallStep

\* The invariant is inductive.
LEMMA FreeListInvNext == FreeListInv /\ [FNext]_fvars => FreeListInv'
  <1> SUFFICES ASSUME FreeListInv, [FNext]_fvars PROVE FreeListInv'
    OBVIOUS
  <1>1. ASSUME NEW g \in Goroutines, CallStep(g) \/ \E c \in Calls : BeginCall(g, c)
        PROVE  FreeListInv'
    BY <1>1, TypeStep, OwnerStep, PlaceStep DEF FreeListInv
  <1>2. CASE UNCHANGED fvars
    <2> USE <1>2 DEF fvars, FreeListInv
    <2>1. FTypeOK'
      BY DEF FTypeOK
    <2>2. Held' = Held /\ Listed' = Listed
      BY DEF Held, Listed
    <2>3. BuffersHaveOneOwner'
      BY <2>2 DEF BuffersHaveOneOwner
    <2>4. CallsKeepTheirPlace'
      BY DEF CallsKeepTheirPlace
    <2> QED
      BY <2>1, <2>3, <2>4
  <1> QED
    BY <1>1, <1>2 DEF FNext

\* The invariant holds at every moment.
LEMMA FreeListInvAlways == FSpec => []FreeListInv
  BY FreeListInvInit, FreeListInvNext, PTL DEF FSpec

\* A goroutine has a buffer exactly from its Borrow to its Return, and the
\* variables keep their types.
THEOREM FreeListTypeOK == FSpec => []FTypeOK
  <1>1. FreeListInv => FTypeOK
    BY DEF FreeListInv
  <1> QED
    BY <1>1, FreeListInvAlways, PTL

\* No two goroutines ever hold one buffer, no held buffer is in the list, and
\* the list holds none twice: Borrow and Return never hand out one buffer to two.
THEOREM NoBufferIsShared == FSpec => []BuffersHaveOneOwner
  <1>1. FreeListInv => BuffersHaveOneOwner
    BY DEF FreeListInv
  <1> QED
    BY <1>1, FreeListInvAlways, PTL

-----------------------------------------------------------------------------
\* No call has begun.
LEMMA CodecInit == FInit => Codec!CInit
  BY DEF FInit, Codec!CInit, Status

\* UseBuffer is the abstract CMove, since what it takes out of the buffer is its
\* own element, and so is WriteDirectly; borrowing, filling and returning cannot
\* be seen.
LEMMA CodecNext == FreeListInv /\ [FNext]_fvars => [Codec!CNext]_Codec!cvars
  <1> SUFFICES ASSUME FreeListInv, [FNext]_fvars PROVE [Codec!CNext]_Codec!cvars
    OBVIOUS
  <1> DEFINE status == [g \in Goroutines |-> Status(g)]
  <1> USE DEF FreeListInv, FTypeOK, At
  <1>1. ASSUME NEW g \in Goroutines, NEW c \in Calls, BeginCall(g, c) PROVE Codec!CNext
    <2>1. c.elements \in Seq(Values)
      BY FreeListAssumption
    <2>2. status[g] # "running"
      BY <1>1 DEF BeginCall, Status
    <2>3. status' = [status EXCEPT ![g] = "running"]
      BY <1>1 DEF BeginCall, Status
    <2>4. elements'[g] = c.elements
      BY <1>1 DEF BeginCall
    <2>5. Codec!CBegin(g)
      BY <1>1, <2>1, <2>2, <2>3, <2>4 DEF BeginCall, Codec!CBegin
    <2> QED
      BY <2>5 DEF Codec!CNext
  <1>2. ASSUME NEW g \in Goroutines, UseBuffer(g) PROVE Codec!CNext
    <2>1. Len(out[g]) < Len(elements[g]) /\ content[buf[g]] = elements[g][Len(out[g]) + 1]
      BY <1>2 DEF UseBuffer, CallsKeepTheirPlace
    <2>2. status[g] = "running" /\ status' = status
      BY <1>2 DEF UseBuffer, Status
    <2>3. out' = [out EXCEPT ![g] = Append(@, elements[g][Len(@) + 1])]
      BY <1>2, <2>1 DEF UseBuffer
    <2>4. Codec!CMove(g)
      BY <1>2, <2>1, <2>2, <2>3 DEF UseBuffer, Codec!CMove
    <2> QED
      BY <2>4 DEF Codec!CNext
  <1>3. ASSUME NEW g \in Goroutines, EndCall(g) PROVE Codec!CNext
    <2>1. err[g] <=> Len(out[g]) # Len(elements[g])
      BY <1>3 DEF EndCall, CallsKeepTheirPlace
    <2>2. status[g] = "running"
      BY <1>3 DEF EndCall, Status
    <2>3. status' = [status EXCEPT ![g] = IF Len(out[g]) = Len(elements[g]) THEN "ok" ELSE "failed"]
      BY <1>3, <2>1 DEF EndCall, Status
    <2>4. Codec!CEnd(g)
      BY <1>3, <2>2, <2>3 DEF EndCall, Codec!CEnd
    <2> QED
      BY <2>4 DEF Codec!CNext
  <1>4. ASSUME NEW g \in Goroutines,
               BorrowFree(g) \/ BorrowNew(g) \/ Fill(g) \/ ReadFails(g) \/ WriteFails(g) \/ Return(g)
        PROVE  UNCHANGED Codec!cvars
    <2>1. status' = status
      BY <1>4 DEF BorrowFree, BorrowNew, Fill, ReadFails, WriteFails, Return, Status
    <2>2. UNCHANGED <<elements, out>>
      BY <1>4 DEF BorrowFree, BorrowNew, Fill, ReadFails, WriteFails, Return
    <2> QED
      BY <2>1, <2>2 DEF Codec!cvars
  <1>5. CASE UNCHANGED fvars
    BY <1>5 DEF fvars, Codec!cvars, Status
  <1>6. ASSUME NEW g \in Goroutines, WriteDirectly(g) PROVE [Codec!CNext]_Codec!cvars
    <2>1. Len(out[g]) < Len(elements[g]) /\ index[g] = Len(out[g]) + 1
      BY <1>6 DEF WriteDirectly, CallsKeepTheirPlace
    <2>2. status[g] = "running" /\ status' = status
      BY <1>6 DEF WriteDirectly, Status
    <2>3. CASE out' = out
      BY <1>6, <2>2, <2>3 DEF WriteDirectly, Codec!cvars
    <2>4. CASE out' = [out EXCEPT ![g] = Append(@, elements[g][index[g]])]
      <3>1. Codec!CMove(g)
        BY <1>6, <2>1, <2>2, <2>4 DEF WriteDirectly, Codec!CMove
      <3> QED
        BY <3>1 DEF Codec!CNext
    <2> QED
      BY <1>6, <2>3, <2>4 DEF WriteDirectly
  <1> QED
    BY <1>1, <1>2, <1>3, <1>4, <1>5, <1>6 DEF FNext, CallStep

\* Calls through the free list implement AtomicCodec: each moves its own values
\* in order, and returns an error exactly if it did not move them all.
THEOREM FreeListImplementsAtomicCodec == FSpec => ImplementsAtomicCodec
  BY CodecInit, CodecNext, FreeListInvAlways, PTL
     DEF FSpec, ImplementsAtomicCodec, Codec!CSpec
=============================================================================
