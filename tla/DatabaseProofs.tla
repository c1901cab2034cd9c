-------------------------- MODULE DatabaseProofs --------------------------
(***************************************************************************)
(* Proofs about Database, for any set of blocks, any number of handlers    *)
(* and any number of kills and restarts.                                   *)
(***************************************************************************)
EXTENDS Database, TLAPS

(***************************************************************************)
(* The inductive invariant: the properties, and what a goroutine's place   *)
(* says of its request and of the block it has read.                       *)
(***************************************************************************)
PlacesFit ==
    \A p \in Goroutines :
        /\ pc[p] \in {"hello", "hello height"} => Is(p, {"hello"})
        /\ pc[p] \in {"store", "update"} => Is(p, {"hello", "genesis"})
        /\ pc[p] = "update" => req[p].arg \in bucket
        /\ pc[p] = "again" => Is(p, {"byIndex"})
        /\ pc[p] \in {"lookup", "again"} => latestBlockID # Nil
        /\ pc[p] = "delta" => block[p] \in bucket

\* What the history says of disk and memory: a stored block is filed or carried by
\* who is about to file it, and the index and the latest block are filed ones.
FiledFits ==
    /\ \A b \in bucket \ filed : \E p \in Goroutines : pc[p] = "update" /\ req[p].arg = b
    /\ \A n \in Heights : HasIndex(n) => blockIndexMap[n] \in filed
    /\ latestBlockID # Nil => latestBlockID \in filed
    /\ up => \A b \in filed : latestBlockID # Nil /\ HasIndex(b.height)
    /\ ~up => \A p \in Goroutines : pc[p] = "idle"

DatabaseInv ==
    TypeOK /\ PlacesFit /\ FiledFits /\ IndexMatchesBucket /\ ClockNeedsHeight

\* Blocks that handlers carry are blocks, and requests of the API and messages
\* have different names.
LEMMA RequestFields ==
    ASSUME NEW r \in Request
    PROVE  /\ r.op \in {"hello", "genesis"} => r.arg \in Blocks
           /\ r \in Queries => r.op \in {"latest", "byID", "byIndex"}
           /\ r \in Messages => r.op \in {"hello", "handshake", "referer"}
           /\ r \in CreateGenesis => r.op = "genesis"
  <1>1. r \in Queries => r.op \in {"latest", "byID", "byIndex"}
    BY DEF Queries, ShowBlock
  <1>2. r \in Messages => /\ r.op \in {"hello", "handshake", "referer"}
                          /\ r.op = "hello" => r.arg \in Blocks
    BY DEF Messages
  <1>3. r \in CreateGenesis => r.op = "genesis" /\ r.arg \in Blocks
    BY DatabaseAssumption DEF CreateGenesis
  <1> QED
    BY <1>1, <1>2, <1>3 DEF Request

\* What is asked for by index is a number.
LEMMA QueryIndexes ==
    ASSUME NEW r \in Request, r.op = "byIndex" PROVE r.arg \in Int
  <1>1. r \in Queries
    BY RequestFields DEF Request
  <1>2. PICK hash \in {b.hash : b \in Blocks} \cup {Nil},
             index \in Heights \cup {-1, MaxInt} : r \in ShowBlock(hash, index)
    BY <1>1 DEF Queries
  <1>3. r.arg = index
    BY <1>2 DEF ShowBlock
  <1>4. index \in Int
    BY DatabaseAssumption DEF Heights, MaxInt
  <1> QED
    BY <1>3, <1>4

\* Heights are indexes.
LEMMA BlockHeights ==
    ASSUME NEW b \in Blocks PROVE b.height \in Int /\ 0 <= b.height /\ b.height < IndexSpan
  BY DatabaseAssumption

\* A handler that begins.
Begins(p) ==
    \/ \E r \in Queries \cup CreateGenesis : BeginAPI(p, r)
    \/ \E r \in Messages : BeginMessage(p, r)

\* A step at which the process lives on and nothing is read or written but the
\* goroutine's place and the mutexes.
Moves(p) ==
    \/ Lock(p) \/ Return(p) \/ LookupFails(p)
    \/ HelloKnown(p) \/ HelloNew(p) \/ HelloHeightKnown(p) \/ HelloHeightNew(p)
    \/ HandshakeWithoutGenesis(p) \/ HandshakeLocks(p) \/ DeltaFails(p) \/ ClockHangs(p)

\* A step that reads a block.
Reads(p) ==
    \/ GenesisRefused(p) \/ GenesisAccepted(p) \/ AnswerLatest(p) \/ LookFurther(p)
    \/ LookupID(p) \/ LookupIndex(p) \/ LoopEnds(p) \/ LoopForEver(p) \/ RefererLatest(p)

\* Every step of the process.
LEMMA StepsByKind ==
    Next => \/ \E p \in Goroutines : Begins(p) \/ Moves(p) \/ Reads(p) \/ Store(p) \/ UpdateLatest(p)
            \/ Die \/ Restart
  <1> USE DEF Begins, Moves, Reads
  <1>1. ASSUME NEW p \in Goroutines, Step(p)
        PROVE  Moves(p) \/ Reads(p) \/ Store(p) \/ UpdateLatest(p) \/ Die
    BY <1>1 DEF Step, Query, CreateGenesisBlock, Message, RefererPanics
  <1>2. Crash => Die
    BY DEF Crash, Kill, ConcurrentMapReadAndWrite
  <1> QED
    BY <1>1, <1>2 DEF Next

\* The invariant holds of the empty database.
LEMMA DatabaseInvInit == Init => DatabaseInv
  <1> SUFFICES ASSUME Init PROVE DatabaseInv
    OBVIOUS
  <1> USE DatabaseAssumption DEF Init, Is
  <1>1. TypeOK
    BY DEF TypeOK, Request, Critical
  <1>2. PlacesFit
    BY DEF PlacesFit
  <1>3. IndexMatchesBucket
    BY DEF IndexMatchesBucket, HasIndex
  <1>4. ClockNeedsHeight
    BY DEF ClockNeedsHeight
  <1>5. FiledFits
    BY DEF FiledFits, HasIndex
  <1> QED
    BY <1>1, <1>2, <1>3, <1>4, <1>5 DEF DatabaseInv

-----------------------------------------------------------------------------
\* The variables keep their types, and the mutexes their owners.
LEMMA TypeBegins ==
    ASSUME DatabaseInv, NEW p \in Goroutines, Begins(p) PROVE TypeOK'
  <1> USE DatabaseAssumption DEF DatabaseInv, TypeOK, Critical, At, Is
  <1>1. ASSUME NEW r \in Queries \cup CreateGenesis, BeginAPI(p, r) PROVE TypeOK'
    <2>1. r \in Request
      BY DEF Request
    <2> QED
      BY <1>1, <2>1 DEF BeginAPI
  <1>2. ASSUME NEW r \in Messages, BeginMessage(p, r) PROVE TypeOK'
    <2>1. r \in Request
      BY DEF Request
    <2> QED
      BY <1>2, <2>1 DEF BeginMessage
  <1> QED
    BY <1>1, <1>2 DEF Begins

LEMMA TypeMoves ==
    ASSUME DatabaseInv, NEW p \in Goroutines, Moves(p) PROVE TypeOK'
  <1> USE DatabaseAssumption DEF DatabaseInv, TypeOK, Critical, At, Is, Unchanged
  <1>1. CASE Lock(p)
    BY <1>1 DEF Lock
  <1>2. CASE Return(p)
    BY <1>2 DEF Return
  <1>3. CASE LookupFails(p)
    BY <1>3 DEF LookupFails
  <1>4. CASE HelloKnown(p) \/ HelloNew(p) \/ HelloHeightKnown(p)
    BY <1>4 DEF HelloKnown, HelloNew, HelloHeightKnown
  <1>5. CASE HelloHeightNew(p)
    BY <1>5 DEF HelloHeightNew, PlacesFit
  <1>6. CASE HandshakeWithoutGenesis(p) \/ DeltaFails(p) \/ ClockHangs(p)
    BY <1>6 DEF HandshakeWithoutGenesis, DeltaFails, ClockHangs
  <1>7. CASE HandshakeLocks(p)
    BY <1>7 DEF HandshakeLocks
  <1> QED
    BY <1>1, <1>2, <1>3, <1>4, <1>5, <1>6, <1>7 DEF Moves

LEMMA TypeReads ==
    ASSUME DatabaseInv, NEW p \in Goroutines, Reads(p) PROVE TypeOK'
  <1> USE DEF DatabaseInv
  <1>1. block' \in [Goroutines -> Blocks \cup {Nil}]
    <2>1. ASSUME NEW hash PROVE GetByID(hash) \in Blocks \cup {Nil}
      BY DEF GetByID, TypeOK
    <2>2. \E b \in Blocks \cup {Nil} : block' = [block EXCEPT ![p] = b]
      BY <2>1 DEF Reads, GenesisRefused, GenesisAccepted, AnswerLatest, LookFurther, LookupID,
                  LookupIndex, LoopEnds, LoopForEver, RefererLatest, GetLatest, TypeOK
    <2> QED
      BY <2>2 DEF TypeOK
  <1>2. UNCHANGED <<up, bucket, filed, latestBlockID, blockIndexMap, latestMutex,
                    createBlockChainMutex, req>>
    BY DEF Reads, GenesisRefused, GenesisAccepted, AnswerLatest, LookFurther, LookupID,
           LookupIndex, LoopEnds, LoopForEver, RefererLatest, GetLatest, Unchanged
  <1>3. \/ \E to \in Critical : pc[p] \in Critical /\ pc' = [pc EXCEPT ![p] = to]
        \/ pc[p] = "latest" /\ Is(p, {"genesis"}) /\ pc' = [pc EXCEPT ![p] = "store"]
        \/ pc[p] = "referer" /\ pc' = [pc EXCEPT ![p] = "delta"]
    BY DEF Reads, GenesisRefused, GenesisAccepted, AnswerLatest, LookFurther, LookupID,
           LookupIndex, LoopEnds, LoopForEver, RefererLatest, At, Critical
  <1> QED
    BY <1>1, <1>2, <1>3 DEF TypeOK, Critical, Is

LEMMA TypeWrites ==
    ASSUME DatabaseInv, NEW p \in Goroutines, Store(p) \/ UpdateLatest(p) PROVE TypeOK'
  <1> USE DatabaseAssumption DEF DatabaseInv, TypeOK, Critical, At, Is
  <1>1. pc[p] \in {"store", "update"} => req[p].arg \in Blocks
    BY RequestFields DEF PlacesFit
  <1>2. CASE Store(p)
    BY <1>1, <1>2 DEF Store
  <1>3. CASE UpdateLatest(p)
    <2>1. blockIndexMap' \in [Heights -> Blocks \cup {Nil}]
      BY <1>1, <1>3 DEF UpdateLatest
    <2>2. filed' \subseteq bucket'
      BY <1>3 DEF UpdateLatest, PlacesFit
    <2>3. UNCHANGED <<up, bucket, latestMutex, createBlockChainMutex, req, block>>
      BY <1>3 DEF UpdateLatest
    <2>4. latestBlockID' \in Blocks
      BY <1>1, <1>3 DEF UpdateLatest
    <2>5. pc[p] = "update" /\ pc' = [pc EXCEPT ![p] = IF Is(p, {"genesis"}) THEN "return" ELSE "idle"]
      BY <1>3 DEF UpdateLatest
    <2> QED
      BY <2>1, <2>2, <2>3, <2>4, <2>5
  <1> QED
    BY <1>2, <1>3

LEMMA TypeProcess ==
    ASSUME DatabaseInv, Die \/ Restart PROVE TypeOK'
  <1> USE DatabaseAssumption DEF DatabaseInv, TypeOK, Critical, Is
  <1>1. CASE Die
    BY <1>1 DEF Die, Request
  <1>2. CASE Restart
    <2>1. blockIndexMap' \in [Heights -> Blocks \cup {Nil}]
      BY <1>2 DEF Restart, BuildIndex
    <2>2. latestBlockID' \in Blocks \cup {Nil}
      BY <1>2 DEF Restart, IsLast
    <2> QED
      BY <1>2, <2>1, <2>2 DEF Restart
  <1> QED
    BY <1>1, <1>2
-----------------------------------------------------------------------------
\* What each handler must know for the accesses it has still to make.
LEMMA PlacesStep ==
    ASSUME DatabaseInv,
           \/ \E p \in Goroutines : Begins(p) \/ Moves(p) \/ Reads(p) \/ Store(p) \/ UpdateLatest(p)
           \/ Die \/ Restart
    PROVE  PlacesFit'
  <1> USE DEF DatabaseInv, TypeOK, PlacesFit, At, Is
  <1>1. ASSUME NEW p \in Goroutines, Begins(p) PROVE PlacesFit'
    <2>1. ASSUME NEW r \in Queries \cup CreateGenesis, BeginAPI(p, r) PROVE PlacesFit'
      BY <2>1 DEF BeginAPI
    <2>2. ASSUME NEW r \in Messages, BeginMessage(p, r) PROVE PlacesFit'
      BY <2>2 DEF BeginMessage
    <2> QED
      BY <1>1, <2>1, <2>2 DEF Begins
  <1>2. ASSUME NEW p \in Goroutines, Moves(p) PROVE PlacesFit'
    <2>1. UNCHANGED <<bucket, latestBlockID, req, block>>
      BY <1>2 DEF Moves, Lock, Return, LookupFails, HelloKnown, HelloNew, HelloHeightKnown,
             HelloHeightNew, HandshakeWithoutGenesis, HandshakeLocks, DeltaFails, ClockHangs, Unchanged
    <2>2. \A q \in Goroutines \ {p} : pc'[q] = pc[q]
      BY <1>2 DEF Moves, Lock, Return, LookupFails, HelloKnown, HelloNew, HelloHeightKnown,
             HelloHeightNew, HandshakeWithoutGenesis, HandshakeLocks, DeltaFails, ClockHangs
    <2>3. \/ pc'[p] \in {"latest", "idle", "held", "clock"}
          \/ pc'[p] = "again" /\ Is(p, {"byIndex"}) /\ pc[p] = "lookup"
          \/ pc'[p] \in {"hello height", "store"} /\ Is(p, {"hello"})
      BY <1>2 DEF Moves, Lock, Return, LookupFails, HelloKnown, HelloNew, HelloHeightKnown,
             HelloHeightNew, HandshakeWithoutGenesis, HandshakeLocks, DeltaFails, ClockHangs
    <2> QED
      BY <2>1, <2>2, <2>3
  <1>3. ASSUME NEW p \in Goroutines, Reads(p) PROVE PlacesFit'
    <2>1. UNCHANGED <<bucket, latestBlockID, req>> /\ \A q \in Goroutines \ {p} : pc'[q] = pc[q] /\ block'[q] = block[q]
      BY <1>3 DEF Reads, GenesisRefused, GenesisAccepted, AnswerLatest, LookFurther, LookupID,
             LookupIndex, LoopEnds, LoopForEver, RefererLatest, GetLatest, Unchanged
    <2>2. \/ pc'[p] \in {"return", "spin"}
          \/ pc'[p] = "lookup" /\ latestBlockID # Nil
          \/ pc'[p] = "store" /\ Is(p, {"genesis"})
          \/ pc'[p] = "delta" /\ block'[p] \in bucket
      BY <1>3 DEF Reads, GenesisRefused, GenesisAccepted, AnswerLatest, LookFurther, LookupID,
             LookupIndex, LoopEnds, LoopForEver, RefererLatest, GetLatest, IndexMatchesBucket
    <2> QED
      BY <2>1, <2>2
  <1>4. ASSUME NEW p \in Goroutines, Store(p) PROVE PlacesFit'
    BY <1>4 DEF Store
  <1>5. ASSUME NEW p \in Goroutines, UpdateLatest(p) PROVE PlacesFit'
    <2>1. pc[p] = "update" /\ bucket \subseteq Blocks
      BY <1>5 DEF UpdateLatest
    <2>2. req[p].arg \in bucket /\ req[p].arg # Nil
      BY <2>1, DatabaseAssumption
    <2> QED
      BY <1>5, <2>2 DEF UpdateLatest
  <1>6. CASE Die
    BY <1>6 DEF Die
  <1>7. CASE Restart
    BY <1>7 DEF Restart, FiledFits
  <1> QED
    BY <1>1, <1>2, <1>3, <1>4, <1>5, <1>6, <1>7

\* A step that leaves memory and disk as they are leaves every carrier in place.
LEMMA FiledStays ==
    ASSUME DatabaseInv, NEW p \in Goroutines, Begins(p) \/ Moves(p) \/ Reads(p)
    PROVE  /\ UNCHANGED <<up, bucket, filed, latestBlockID, blockIndexMap>>
           /\ \A q \in Goroutines : pc[q] = "update" => pc'[q] = "update" /\ req'[q] = req[q]
           /\ up
  <1> USE DEF DatabaseInv, TypeOK, At
  <1>1. CASE Begins(p)
    BY <1>1 DEF Begins, BeginAPI, BeginMessage
  <1>2. CASE Moves(p)
    <2>1. up
      BY <1>2 DEF FiledFits, Moves, Lock, Return, LookupFails, HelloKnown, HelloNew,
             HelloHeightKnown, HelloHeightNew, HandshakeWithoutGenesis, HandshakeLocks,
             DeltaFails, ClockHangs
    <2> QED
      BY <1>2, <2>1 DEF Moves, Lock, Return, LookupFails, HelloKnown, HelloNew, HelloHeightKnown,
             HelloHeightNew, HandshakeWithoutGenesis, HandshakeLocks, DeltaFails, ClockHangs, Unchanged
  <1>3. CASE Reads(p)
    <2>1. up
      BY <1>3 DEF FiledFits, Reads, GenesisRefused, GenesisAccepted, AnswerLatest, LookFurther,
             LookupID, LookupIndex, LoopEnds, LoopForEver, RefererLatest
    <2> QED
      BY <1>3, <2>1 DEF Reads, GenesisRefused, GenesisAccepted, AnswerLatest, LookFurther, LookupID,
             LookupIndex, LoopEnds, LoopForEver, RefererLatest, GetLatest, Unchanged
  <1> QED
    BY <1>1, <1>2, <1>3

\* Store leaves a carrier for what it stores, UpdateLatest files what it carries,
\* and what nobody carries any more when the process ends is filed at its start.
LEMMA FiledStep ==
    ASSUME DatabaseInv,
           \/ \E p \in Goroutines : Begins(p) \/ Moves(p) \/ Reads(p) \/ Store(p) \/ UpdateLatest(p)
           \/ Die \/ Restart
    PROVE  FiledFits'
  <1>0. /\ FiledFits /\ PlacesFit
        /\ bucket \subseteq Blocks /\ filed \subseteq bucket /\ Nil \notin Blocks
        /\ blockIndexMap \in [Heights -> Blocks \cup {Nil}]
        /\ pc = [p \in Goroutines |-> pc[p]]
    BY DatabaseAssumption DEF DatabaseInv, TypeOK
  <1>1. ASSUME NEW p \in Goroutines, Begins(p) \/ Moves(p) \/ Reads(p) PROVE FiledFits'
    <2>1. /\ UNCHANGED <<up, bucket, filed, latestBlockID, blockIndexMap>>
          /\ \A q \in Goroutines : pc[q] = "update" => pc'[q] = "update" /\ req'[q] = req[q]
          /\ up
      BY <1>1, FiledStays
    <2>2. \A n : HasIndex(n)' = HasIndex(n)
      BY <2>1 DEF HasIndex
    <2> QED
      BY <1>0, <2>1, <2>2 DEF FiledFits
  <1>2. ASSUME NEW p \in Goroutines, Store(p) PROVE FiledFits'
    <2>1. /\ bucket' = bucket \cup {req[p].arg}
          /\ UNCHANGED <<up, filed, latestBlockID, blockIndexMap, req>>
          /\ pc[p] = "store" /\ pc' = [pc EXCEPT ![p] = "update"]
      BY <1>2 DEF Store, At
    <2>2. \A n : HasIndex(n)' = HasIndex(n)
      BY <2>1 DEF HasIndex
    <2>3. up
      BY <1>0, <2>1 DEF FiledFits
    <2>4. \A b \in bucket' \ filed' : \E q \in Goroutines : pc'[q] = "update" /\ req'[q].arg = b
      BY <1>0, <2>1 DEF FiledFits
    <2> QED
      BY <1>0, <2>1, <2>2, <2>3, <2>4 DEF FiledFits
  <1>3. ASSUME NEW p \in Goroutines, UpdateLatest(p) PROVE FiledFits'
    <2>1. /\ latestBlockID' = req[p].arg
          /\ blockIndexMap' = [blockIndexMap EXCEPT ![req[p].arg.height] = req[p].arg]
          /\ filed' = filed \cup {req[p].arg}
          /\ UNCHANGED <<up, bucket, req>>
          /\ pc[p] = "update"
          /\ \A q \in Goroutines \ {p} : pc'[q] = pc[q]
      BY <1>3 DEF UpdateLatest, At
    <2>2. req[p].arg \in bucket /\ req[p].arg # Nil /\ req[p].arg.height \in Heights
      BY <1>0, <2>1 DEF PlacesFit, Heights
    <2>3. HasIndex(req[p].arg.height)' /\ \A n : HasIndex(n) => HasIndex(n)'
      BY <1>0, <2>1, <2>2 DEF HasIndex
    <2>4. \A n \in Heights : HasIndex(n)' => blockIndexMap'[n] \in filed'
      BY <1>0, <2>1, <2>2 DEF HasIndex, FiledFits
    <2>5. \A b \in bucket' \ filed' : \E q \in Goroutines : pc'[q] = "update" /\ req'[q].arg = b
      BY <1>0, <2>1 DEF FiledFits
    <2>6. up
      BY <1>0, <2>1 DEF FiledFits
    <2> QED
      BY <1>0, <2>1, <2>2, <2>3, <2>4, <2>5, <2>6 DEF FiledFits
  <1>4. CASE Die
    BY <1>0, <1>4 DEF Die, HasIndex, FiledFits
  <1>5. CASE Restart
    <2>1. ~up /\ up' /\ UNCHANGED <<bucket, filed, pc, req>> /\ filed = bucket
      BY <1>0, <1>5 DEF Restart, FiledFits
    <2>2. IF bucket = {} THEN latestBlockID' = Nil ELSE latestBlockID' \in bucket
      BY <1>5 DEF Restart, IsLast
    <2>3. \A n \in Heights : IF OfHeight(n) = {} THEN blockIndexMap'[n] = Nil
                                                 ELSE blockIndexMap'[n] \in OfHeight(n)
      BY <1>5 DEF Restart, BuildIndex, IsLast
    <2>4. Nil \notin bucket /\ \A n : OfHeight(n) \subseteq bucket
      BY <1>0 DEF OfHeight
    <2>5. \A n \in Heights : HasIndex(n)' => blockIndexMap'[n] \in bucket
      BY <2>3, <2>4 DEF HasIndex
    <2>6. ASSUME NEW b \in bucket PROVE HasIndex(b.height)'
      <3>1. b.height \in Heights /\ b \in OfHeight(b.height)
        BY <1>0 DEF Heights, OfHeight
      <3> QED
        BY <2>3, <2>4, <3>1 DEF HasIndex
    <2> QED
      BY <2>1, <2>2, <2>4, <2>5, <2>6 DEF FiledFits
  <1> QED
    BY <1>1, <1>2, <1>3, <1>4, <1>5

\* A stored block is filed by its handler's UpdateLatest or, if the process
\* does not live to see it, by BuildIndex.
LEMMA IndexStep ==
    ASSUME DatabaseInv,
           \/ \E p \in Goroutines : Begins(p) \/ Moves(p) \/ Reads(p) \/ Store(p) \/ UpdateLatest(p)
           \/ Die \/ Restart
    PROVE  IndexMatchesBucket'
  <1> USE DatabaseAssumption DEF DatabaseInv, TypeOK, IndexMatchesBucket
  <1>1. ASSUME NEW p \in Goroutines, Begins(p) \/ Moves(p) \/ Reads(p) PROVE IndexMatchesBucket'
    <2>1. UNCHANGED <<up, bucket, latestBlockID, blockIndexMap>>
      BY <1>1 DEF Begins, BeginAPI, BeginMessage, Moves, Lock, Return, LookupFails, HelloKnown,
             HelloNew, HelloHeightKnown, HelloHeightNew, HandshakeWithoutGenesis, HandshakeLocks,
             DeltaFails, ClockHangs, Reads, GenesisRefused, GenesisAccepted, AnswerLatest,
             LookFurther, LookupID, LookupIndex, LoopEnds, LoopForEver, RefererLatest, GetLatest,
             Unchanged
    <2>2. \A q \in Goroutines : pc[q] = "update" => pc'[q] = "update" /\ req'[q] = req[q]
      BY <1>1 DEF Begins, BeginAPI, BeginMessage, Moves, Lock, Return, LookupFails, HelloKnown,
             HelloNew, HelloHeightKnown, HelloHeightNew, HandshakeWithoutGenesis, HandshakeLocks,
             DeltaFails, ClockHangs, Reads, GenesisRefused, GenesisAccepted, AnswerLatest,
             LookFurther, LookupID, LookupIndex, LoopEnds, LoopForEver, RefererLatest, GetLatest,
             Unchanged, At
    <2>3. \A n : HasIndex(n)' = HasIndex(n) /\ OfHeight(n)' = OfHeight(n)
      BY <2>1 DEF HasIndex, OfHeight
    <2>4. ASSUME up, NEW b \in bucket
          PROVE  \/ latestBlockID # Nil /\ HasIndex(b.height)
                 \/ \E q \in Goroutines : pc'[q] = "update" /\ req'[q].arg.height = b.height
      <3>1. CASE latestBlockID # Nil /\ HasIndex(b.height)
        BY <3>1
      <3>2. CASE \E q \in Goroutines : pc[q] = "update" /\ req[q].arg.height = b.height
        BY <2>2, <3>2
      <3> QED
        BY <2>4, <3>1, <3>2
    <2> QED
      BY <2>1, <2>3, <2>4
  <1>2. ASSUME NEW p \in Goroutines, Store(p) PROVE IndexMatchesBucket'
    <2>1. /\ bucket' = bucket \cup {req[p].arg}
          /\ UNCHANGED <<up, latestBlockID, blockIndexMap, req>>
          /\ pc[p] = "store" /\ pc' = [pc EXCEPT ![p] = "update"]
      BY <1>2 DEF Store, At
    <2>2. \A n : HasIndex(n)' = HasIndex(n) /\ OfHeight(n) \subseteq OfHeight(n)'
      BY <2>1 DEF HasIndex, OfHeight
    <2> QED
      BY <2>1, <2>2
  <1>3. ASSUME NEW p \in Goroutines, UpdateLatest(p) PROVE IndexMatchesBucket'
    <2>1. /\ latestBlockID' = req[p].arg
          /\ blockIndexMap' = [blockIndexMap EXCEPT ![req[p].arg.height] = req[p].arg]
          /\ UNCHANGED <<up, bucket, req>>
          /\ \A q \in Goroutines \ {p} : pc'[q] = pc[q]
      BY <1>3 DEF UpdateLatest, At
    <2>2. req[p].arg \in bucket /\ req[p].arg # Nil /\ req[p].arg.height \in Heights
      BY <1>3 DEF UpdateLatest, At, PlacesFit, Heights
    <2>3. \A n \in Heights : HasIndex(n)' => blockIndexMap'[n] \in OfHeight(n)'
      BY <2>1, <2>2 DEF HasIndex, OfHeight
    <2>4. HasIndex(req[p].arg.height)' /\ \A n : HasIndex(n) => HasIndex(n)'
      BY <2>1, <2>2 DEF HasIndex
    <2>5. ASSUME up, NEW b \in bucket
          PROVE  \/ HasIndex(b.height)'
                 \/ \E q \in Goroutines : pc'[q] = "update" /\ req'[q].arg.height = b.height
      <3>1. CASE HasIndex(b.height)
        BY <2>4, <3>1
      <3>2. CASE \E q \in Goroutines : pc[q] = "update" /\ req[q].arg.height = b.height
        BY <2>1, <2>4, <3>2
      <3> QED
        BY <2>5, <3>1, <3>2
    <2> QED
      BY <2>1, <2>2, <2>3, <2>5
  <1>4. CASE Die
    BY <1>4 DEF Die, HasIndex
  <1>5. CASE Restart
    <2>1. bucket' = bucket /\ (bucket # {} => latestBlockID' \in bucket)
      BY <1>5 DEF Restart, IsLast
    <2>2. bucket = {} => latestBlockID' = Nil
      BY <1>5 DEF Restart
    <2>3. \A n \in Heights : IF OfHeight(n) = {} THEN blockIndexMap'[n] = Nil
                                                 ELSE blockIndexMap'[n] \in OfHeight(n)
      BY <1>5 DEF Restart, BuildIndex, IsLast
    <2>4. \A n : OfHeight(n)' = OfHeight(n) /\ OfHeight(n) \subseteq bucket
      BY <2>1 DEF OfHeight
    <2>5. Nil \notin bucket
      OBVIOUS
    <2>6. \A n \in Heights : HasIndex(n)' => blockIndexMap'[n] \in OfHeight(n)'
      BY <2>3, <2>4 DEF HasIndex
    <2>7. ASSUME NEW b \in bucket PROVE HasIndex(b.height)'
      <3>1. b.height \in Heights /\ b \in OfHeight(b.height)
        BY DEF Heights, OfHeight
      <3> QED
        BY <2>3, <2>4, <2>5, <3>1 DEF HasIndex
    <2> QED
      BY <2>1, <2>2, <2>5, <2>6, <2>7
  <1> QED
    BY <1>1, <1>2, <1>3, <1>4, <1>5
-----------------------------------------------------------------------------
\* What every step leaves to the other goroutines, and what it never takes off
\* the disk.
LEMMA OthersStay ==
    ASSUME DatabaseInv, NEW p \in Goroutines,
           Begins(p) \/ Moves(p) \/ Reads(p) \/ Store(p) \/ UpdateLatest(p)
    PROVE  /\ bucket \subseteq bucket'
           /\ \A q \in Goroutines \ {p} : pc'[q] = pc[q] /\ req'[q] = req[q] /\ block'[q] = block[q]
  <1> USE DEF DatabaseInv, TypeOK, At
  <1>1. CASE Begins(p)
    BY <1>1 DEF Begins, BeginAPI, BeginMessage
  <1>2. CASE Moves(p)
    BY <1>2 DEF Moves, Lock, Return, LookupFails, HelloKnown, HelloNew, HelloHeightKnown,
           HelloHeightNew, HandshakeWithoutGenesis, HandshakeLocks, DeltaFails, ClockHangs, Unchanged
  <1>3. CASE Reads(p)
    BY <1>3 DEF Reads, GenesisRefused, GenesisAccepted, AnswerLatest, LookFurther, LookupID,
           LookupIndex, LoopEnds, LoopForEver, RefererLatest, GetLatest, Unchanged
  <1>4. CASE Store(p) \/ UpdateLatest(p)
    BY <1>4 DEF Store, UpdateLatest
  <1> QED
    BY <1>1, <1>2, <1>3, <1>4

\* The block that a query has read when it returns, or that it could not find.
LEMMA AnswerOfReads ==
    ASSUME DatabaseInv, NEW p \in Goroutines, Reads(p), pc'[p] = "return", ~Is(p, {"genesis"})
    PROVE  MayAnswer(p)
  <1> USE DatabaseAssumption DEF DatabaseInv, TypeOK, At, Is
  <1>1. /\ latestBlockID # Nil => latestBlockID \in bucket
        /\ filed \subseteq bucket /\ bucket \subseteq Blocks
        /\ pc[p] # "idle" /\ latestBlockID = Nil => filed = {}
    BY DEF IndexMatchesBucket, FiledFits
  <1>2. \A b \in bucket : b.height \in Int
    BY BlockHeights
  <1>3. CASE AnswerLatest(p)
    <2>1. /\ pc[p] # "idle" /\ block'[p] = latestBlockID
          /\ \/ Is(p, {"latest"})
             \/ Is(p, {"byID"}) /\ latestBlockID = Nil
             \/ Is(p, {"byIndex"}) /\ (latestBlockID # Nil => latestBlockID.height <= req[p].arg)
      BY <1>3 DEF AnswerLatest, GetLatest
    <2>2. CASE latestBlockID = Nil
      BY <1>1, <2>1, <2>2 DEF MayAnswer
    <2>3. CASE Is(p, {"latest"}) /\ latestBlockID # Nil
      BY <1>1, <2>1, <2>3 DEF MayAnswer, Asked
    <2>4. CASE Is(p, {"byIndex"}) /\ latestBlockID # Nil
      <3>1. latestBlockID \in bucket /\ latestBlockID.height \in Int
        BY <1>1, <1>2, <2>4
      <3>2. latestBlockID.height <= req[p].arg
        BY <2>1, <2>4
      <3>3. CASE latestBlockID.height = req[p].arg
        BY <2>1, <2>4, <3>1, <3>3 DEF MayAnswer, Asked, OfHeight
      <3>4. CASE latestBlockID.height # req[p].arg
        <4>1. req[p].arg \in Int
          BY <2>4, <1>1, QueryIndexes
        <4>2. latestBlockID.height < req[p].arg
          BY ONLY <3>1, <3>2, <3>4, <4>1
        <4> QED
          BY <2>1, <2>4, <4>2 DEF MayAnswer, AboveLatest
      <3> QED
        BY <3>3, <3>4
    <2> QED
      BY <2>1, <2>2, <2>3, <2>4
  <1>4. CASE LookupID(p)
    <2>1. Is(p, {"byID"}) /\ block'[p] = GetByID(req[p].arg)
      BY <1>4 DEF LookupID
    <2>2. CASE \E b \in bucket : b.hash = req[p].arg
      <3>1. block'[p] \in {b \in bucket : b.hash = req[p].arg}
        BY <2>1, <2>2 DEF GetByID
      <3> QED
        BY <2>1, <3>1 DEF MayAnswer, Asked
    <2>3. CASE ~\E b \in bucket : b.hash = req[p].arg
      <3>1. block'[p] = Nil /\ {b \in bucket : b.hash = req[p].arg} = {}
        BY <2>1, <2>3 DEF GetByID
      <3> QED
        BY <2>1, <3>1 DEF MayAnswer, Asked
    <2> QED
      BY <2>2, <2>3
  <1>5. CASE LookupIndex(p)
    <2>1. /\ HasIndex(req[p].arg) /\ Is(p, {"byIndex"})
          /\ block'[p] = GetByID(blockIndexMap[req[p].arg].hash)
      BY <1>5 DEF LookupIndex
    <2>2. blockIndexMap[req[p].arg] \in OfHeight(req[p].arg)
      BY <2>1 DEF HasIndex, IndexMatchesBucket
    <2>3. GetByID(blockIndexMap[req[p].arg].hash) = blockIndexMap[req[p].arg]
      BY <2>2 DEF GetByID, OfHeight
    <2>4. Asked(p) = OfHeight(req[p].arg)
      BY <2>1 DEF Asked
    <2> QED
      BY ONLY <2>1, <2>2, <2>3, <2>4 DEF MayAnswer
  <1>6. CASE LoopEnds(p)
    <2>1. /\ Is(p, {"byIndex"}) /\ latestBlockID # Nil
          /\ latestBlockID.height = req[p].arg /\ block'[p] = latestBlockID
      BY <1>6 DEF LoopEnds, GetLatest, PlacesFit
    <2>2. Asked(p) = OfHeight(req[p].arg)
      BY <2>1 DEF Asked
    <2> QED
      BY <1>1, <2>1, <2>2 DEF MayAnswer, OfHeight
  <1>7. CASE GenesisRefused(p) \/ GenesisAccepted(p) \/ LookFurther(p) \/ LoopForEver(p) \/ RefererLatest(p)
    BY <1>7 DEF GenesisRefused, GenesisAccepted, LookFurther, LoopForEver, RefererLatest
  <1> QED
    BY <1>3, <1>4, <1>5, <1>6, <1>7 DEF Reads

\* Nothing but a read brings a query to its answer, whatever arrives between
\* the reads.
LEMMA AnswersNext ==
    ASSUME DatabaseInv, [Next]_vars, NEW p \in Goroutines,
           pc[p] # "return", pc'[p] = "return", ~Is(p, {"genesis"})
    PROVE  MayAnswer(p)
  <1>1. ASSUME NEW q \in Goroutines, Begins(q) \/ Moves(q) \/ Store(q) PROVE q # p
    BY <1>1 DEF Begins, BeginAPI, BeginMessage, Messages, At, Moves, Lock, Return, LookupFails,
           HelloKnown, HelloNew, HelloHeightKnown, HelloHeightNew, HandshakeWithoutGenesis,
           HandshakeLocks, DeltaFails, ClockHangs, Store, DatabaseInv, TypeOK
  <1>2. ASSUME NEW q \in Goroutines, UpdateLatest(q) PROVE q # p
    BY <1>2 DEF UpdateLatest, At, DatabaseInv, TypeOK
  <1>3. ASSUME NEW q \in Goroutines,
               Begins(q) \/ Moves(q) \/ Reads(q) \/ Store(q) \/ UpdateLatest(q)
        PROVE  q = p
    BY <1>3, OthersStay
  <1>4. ~Die
    BY DEF Die
  <1>5. ~Restart /\ ~UNCHANGED vars
    BY DEF Restart, vars
  <1> QED
    BY <1>1, <1>2, <1>3, <1>4, <1>5, StepsByKind, AnswerOfReads

\* Numbers that wrap, and numbers that do not.
LEMMA Wrap ==
    ASSUME NEW a \in Int, NEW n \in Nat \ {0}, -n <= a, a < n
    PROVE  a % n = IF a < 0 THEN a + n ELSE a
  OBVIOUS

\* The wrapped difference of a height below CosiMembers is not below it, for
\* the index space is at least twice as large.
LEMMA DifferenceIsHigh ==
    ASSUME NEW h \in Int, 0 <= h, h < IndexSpan
    PROVE  h < CosiMembers => (h - CosiMembers) % IndexSpan >= CosiMembers
  <1> SUFFICES ASSUME h < CosiMembers PROVE (h - CosiMembers) % IndexSpan >= CosiMembers
    OBVIOUS
  <1>1. IndexSpan \in Nat \ {0} /\ CosiMembers \in Nat /\ 2 * CosiMembers <= IndexSpan
    BY DatabaseAssumption
  <1> DEFINE a == h - CosiMembers
  <1>2. a \in Int /\ -IndexSpan <= a /\ a < IndexSpan /\ a < 0
    BY <1>1
  <1> HIDE DEF a
  <1>3. a % IndexSpan = a + IndexSpan
    BY <1>1, <1>2, Wrap
  <1> QED
    BY <1>1, <1>2, <1>3 DEF a

\* No clock is reached below height CosiMembers.
LEMMA ClockStep ==
    ASSUME DatabaseInv,
           \/ \E p \in Goroutines : Begins(p) \/ Moves(p) \/ Reads(p) \/ Store(p) \/ UpdateLatest(p)
           \/ Die \/ Restart
    PROVE  ClockNeedsHeight'
  <1> USE DEF DatabaseInv, TypeOK, ClockNeedsHeight
  <1>1. ASSUME NEW p \in Goroutines, ClockHangs(p)
        PROVE  \E b \in bucket : b.height >= CosiMembers
    <2>1. block[p] \in bucket /\ block[p] \in Blocks /\ HasIndex(PreIndex(p))
      BY <1>1 DEF ClockHangs, At, PlacesFit
    <2>2. PICK b \in bucket : b.height = PreIndex(p)
      BY <2>1 DEF HasIndex, IndexMatchesBucket, OfHeight
    <2>3. /\ block[p].height \in Int /\ 0 <= block[p].height /\ block[p].height < IndexSpan
          /\ CosiMembers \in Nat
      BY <2>1, BlockHeights, DatabaseAssumption
    <2> HIDE DEF DatabaseInv, TypeOK, ClockNeedsHeight
    <2>4. CASE block[p].height >= CosiMembers
      BY <2>1, <2>4
    <2>5. CASE block[p].height < CosiMembers
      <3>1. PreIndex(p) >= CosiMembers
        BY <2>3, <2>5, DifferenceIsHigh DEF PreIndex
      <3> QED
        BY <2>2, <3>1
    <2> QED
      BY <2>3, <2>4, <2>5
  <1>2. ASSUME NEW p \in Goroutines,
               Begins(p) \/ Moves(p) \/ Reads(p) \/ Store(p) \/ UpdateLatest(p), pc'[p] = "clock"
        PROVE  ClockHangs(p)
    BY <1>2 DEF Begins, BeginAPI, BeginMessage, Messages, At, Moves, Lock, Return, LookupFails,
           HelloKnown, HelloNew, HelloHeightKnown, HelloHeightNew, HandshakeWithoutGenesis,
           HandshakeLocks, DeltaFails, Store, UpdateLatest, Reads, GenesisRefused,
           GenesisAccepted, AnswerLatest, LookFurther, LookupID, LookupIndex, LoopEnds,
           LoopForEver, RefererLatest
  <1>3. ASSUME NEW p \in Goroutines,
               Begins(p) \/ Moves(p) \/ Reads(p) \/ Store(p) \/ UpdateLatest(p)
        PROVE  ClockNeedsHeight'
    BY <1>1, <1>2, <1>3, OthersStay
  <1>4. CASE Die
    BY <1>4 DEF Die
  <1>5. CASE Restart
    BY <1>5 DEF Restart
  <1> QED
    BY <1>3, <1>4, <1>5

-----------------------------------------------------------------------------
\* The invariant is inductive.
LEMMA DatabaseInvNext == DatabaseInv /\ [Next]_vars => DatabaseInv'
  <1> SUFFICES ASSUME DatabaseInv, [Next]_vars PROVE DatabaseInv'
    OBVIOUS
  <1>1. CASE Next
    BY <1>1, StepsByKind, TypeBegins, TypeMoves, TypeReads, TypeWrites, TypeProcess,
       PlacesStep, FiledStep, IndexStep, ClockStep DEF DatabaseInv
  <1>2. CASE UNCHANGED vars
    <2> USE <1>2 DEF vars, DatabaseInv, Is
    <2>1. TypeOK' /\ PlacesFit' /\ ClockNeedsHeight'
      BY DEF TypeOK, PlacesFit, ClockNeedsHeight
    <2>2. IndexMatchesBucket'
      BY DEF IndexMatchesBucket, HasIndex, OfHeight
    <2>3. FiledFits'
      BY DEF FiledFits, HasIndex
    <2> QED
      BY <2>1, <2>2, <2>3
  <1> QED
    BY <1>1, <1>2

\* The invariant holds at every moment.
LEMMA DatabaseInvAlways == Spec => []DatabaseInv
  BY DatabaseInvInit, DatabaseInvNext, PTL DEF Spec

\* The two mutexes belong to the goroutine between Lock and Unlock, and the
\* variables keep their types.
THEOREM DatabaseTypeOK == Spec => []TypeOK
  <1>1. DatabaseInv => TypeOK
    BY DEF DatabaseInv
  <1> QED
    BY <1>1, DatabaseInvAlways, PTL

\* Whatever is stored, and whenever the process is killed and started again,
\* index and latest block of a running process match the bucket.
THEOREM IndexSurvivesCrashes == Spec => []IndexMatchesBucket
  <1>1. DatabaseInv => IndexMatchesBucket
    BY DEF DatabaseInv
  <1> QED
    BY <1>1, DatabaseInvAlways, PTL

\* A query that races with arriving blocks answers with a block of the hash or
\* the index asked for, or with an error when there is none; but an index above
\* the latest block's is answered with the latest block.
THEOREM QueriesMissOnlyAboveLatest == Spec => AnswersMissOnlyAboveLatest
  <1>1. DatabaseInv /\ [Next]_vars =>
          [\A p \in Goroutines :
              pc[p] # "return" /\ pc'[p] = "return" /\ ~Is(p, {"genesis"}) => MayAnswer(p)]_vars
    BY AnswersNext
  <1> QED
    BY <1>1, DatabaseInvAlways, PTL DEF Spec, AnswersMissOnlyAboveLatest

\* On a chain below height CosiMembers calcDelta never reaches the clock that
\* waits for itself, wrapped subtraction or not.
THEOREM NoClockBelowCosiMembers == Spec => []ClockNeedsHeight
  <1>1. DatabaseInv => ClockNeedsHeight
    BY DEF DatabaseInv
  <1> QED
    BY <1>1, DatabaseInvAlways, PTL

-----------------------------------------------------------------------------
\* An empty database is an empty one.
LEMMA AtomicInit == Init => Atomic!AInit
  BY DEF Init, Atomic!AInit, Atomic!Heights, Heights, Adding

\* The steps that decide to add a block.
Decides(p) == GenesisAccepted(p) \/ HelloHeightNew(p)

\* They decide for a block of a free height: where there is no latest block,
\* nothing is filed, and the genesis block's height is free as well.
LEMMA DecidesFits ==
    ASSUME DatabaseInv, NEW p \in Goroutines, Decides(p)
    PROVE  /\ up
           /\ pc[p] \in {"latest", "hello height"} /\ pc' = [pc EXCEPT ![p] = "store"]
           /\ req[p].arg \in Blocks
           /\ blockIndexMap[req[p].arg.height] = Nil
           /\ UNCHANGED <<up, filed, latestBlockID, blockIndexMap, req>>
  <1>1. UNCHANGED <<up, filed, latestBlockID, blockIndexMap, req>>
    BY DEF Decides, GenesisAccepted, HelloHeightNew, GetLatest, Unchanged
  <1>2. pc[p] \in {"latest", "hello height"} /\ pc' = [pc EXCEPT ![p] = "store"]
    BY DEF Decides, GenesisAccepted, HelloHeightNew, At
  <1>3. req[p] \in Request /\ Is(p, {"hello", "genesis"})
    BY DEF Decides, GenesisAccepted, HelloHeightNew, At, DatabaseInv, TypeOK, PlacesFit, Is
  <1>4. req[p].arg \in Blocks
    BY <1>3, RequestFields DEF Is
  <1>5. up
    BY <1>2 DEF DatabaseInv, FiledFits
  <1>6. ~HasIndex(req[p].arg.height)
    <2>1. CASE HelloHeightNew(p)
      BY <2>1 DEF HelloHeightNew
    <2>2. CASE GenesisAccepted(p)
      <3>1. latestBlockID = Nil
        BY <2>2 DEF GenesisAccepted
      <3>2. filed = {}
        BY <1>5, <3>1 DEF DatabaseInv, FiledFits
      <3> QED
        BY <3>2 DEF DatabaseInv, FiledFits, HasIndex
    <2> QED
      BY <2>1, <2>2 DEF Decides
  <1>7. req[p].arg.height \in Heights
    BY <1>4 DEF Heights
  <1> QED
    BY <1>1, <1>2, <1>4, <1>5, <1>6, <1>7 DEF HasIndex

\* All other steps but UpdateLatest leave who adds what as it is, Store included:
\* its block counts as being added until it is filed.
LEMMA AddingStays ==
    ASSUME DatabaseInv, NEW p \in Goroutines,
           Begins(p) \/ Moves(p) \/ Reads(p) \/ Store(p), ~Decides(p)
    PROVE  /\ UNCHANGED <<up, filed, latestBlockID, blockIndexMap>>
           /\ \A q \in Goroutines : Adding(q)' = Adding(q)
  <1>1. CASE Store(p)
    BY <1>1 DEF Store, At, Adding, DatabaseInv, TypeOK
  <1>2. CASE Begins(p) \/ Moves(p) \/ Reads(p)
    <2>1. UNCHANGED <<up, filed, latestBlockID, blockIndexMap>>
      BY <1>2, FiledStays
    <2>2. \A q \in Goroutines \ {p} : pc'[q] = pc[q] /\ req'[q] = req[q]
      BY <1>2, OthersStay
    <2>3. pc[p] \notin {"store", "update"}
      BY <1>2 DEF Begins, BeginAPI, BeginMessage, Moves, Lock, Return, LookupFails, HelloKnown,
             HelloNew, HelloHeightKnown, HelloHeightNew, HandshakeWithoutGenesis, HandshakeLocks,
             DeltaFails, ClockHangs, Reads, GenesisRefused, GenesisAccepted, AnswerLatest,
             LookFurther, LookupID, LookupIndex, LoopEnds, LoopForEver, RefererLatest, At
    <2>4. pc'[p] \notin {"store", "update"}
      <3>1. CASE Begins(p)
        BY <3>1 DEF Begins, BeginAPI, BeginMessage, At, DatabaseInv, TypeOK
      <3>2. CASE Moves(p)
        BY <3>2 DEF Decides, Moves, Lock, Return, LookupFails, HelloKnown, HelloNew,
               HelloHeightKnown, HandshakeWithoutGenesis, HandshakeLocks, DeltaFails, ClockHangs,
               At, DatabaseInv, TypeOK
      <3>3. CASE Reads(p)
        BY <3>3 DEF Decides, Reads, GenesisRefused, AnswerLatest, LookFurther, LookupID,
               LookupIndex, LoopEnds, LoopForEver, RefererLatest, At, DatabaseInv, TypeOK
      <3> QED
        BY <1>2, <3>1, <3>2, <3>3
    <2> QED
      BY <2>1, <2>2, <2>3, <2>4 DEF Adding
  <1> QED
    BY <1>1, <1>2

\* UpdateLatest is Add, the decisions are Decide, the end of the process keeps of
\* the blocks being added exactly the stored ones, and Restart is Start.
LEMMA AtomicNext == DatabaseInv /\ [Next]_vars => [Atomic!ANext]_Atomic!avars
  <1> SUFFICES ASSUME DatabaseInv, [Next]_vars PROVE [Atomic!ANext]_Atomic!avars
    OBVIOUS
  <1> DEFINE adding == [p \in Goroutines |-> Adding(p)]
  <1>0. /\ bucket \subseteq Blocks /\ filed \subseteq bucket /\ Nil \notin Blocks
        /\ pc = [p \in Goroutines |-> pc[p]]
        /\ Atomic!Heights = Heights
    BY DatabaseAssumption DEF DatabaseInv, TypeOK, Heights, Atomic!Heights
  <1>1. ASSUME NEW p \in Goroutines, Decides(p) PROVE Atomic!ANext
    <2>1. /\ up
          /\ pc[p] \in {"latest", "hello height"} /\ pc' = [pc EXCEPT ![p] = "store"]
          /\ req[p].arg \in Blocks
          /\ blockIndexMap[req[p].arg.height] = Nil
          /\ UNCHANGED <<up, filed, latestBlockID, blockIndexMap, req>>
      BY <1>1, DecidesFits
    <2>2. adding[p] = Nil /\ adding' = [adding EXCEPT ![p] = req[p].arg]
      BY <1>0, <2>1 DEF Adding
    <2>3. Atomic!Decide(p)
      BY <2>1, <2>2 DEF Atomic!Decide
    <2> QED
      BY <2>3 DEF Atomic!ANext
  <1>2. ASSUME NEW p \in Goroutines, UpdateLatest(p) PROVE Atomic!ANext
    <2>1. /\ pc[p] = "update"
          /\ pc' = [pc EXCEPT ![p] = IF Is(p, {"genesis"}) THEN "return" ELSE "idle"]
          /\ latestBlockID' = req[p].arg
          /\ blockIndexMap' = [blockIndexMap EXCEPT ![req[p].arg.height] = req[p].arg]
          /\ filed' = filed \cup {req[p].arg}
          /\ UNCHANGED <<up, req>>
      BY <1>2 DEF UpdateLatest, At
    <2>2. req[p].arg \in bucket
      BY <2>1 DEF DatabaseInv, PlacesFit
    <2>3. adding[p] = req[p].arg /\ adding[p] # Nil
      BY <1>0, <2>1, <2>2 DEF Adding
    <2>4. adding' = [adding EXCEPT ![p] = Nil]
      BY <1>0, <2>1 DEF Adding
    <2>5. Atomic!Add(p)
      BY <2>1, <2>3, <2>4 DEF Atomic!Add
    <2> QED
      BY <2>5 DEF Atomic!ANext
  <1>3. CASE Die
    <2>1. /\ up /\ ~up' /\ filed' = bucket /\ latestBlockID' = Nil
          /\ blockIndexMap' = [n \in Heights |-> Nil]
          /\ pc' = [p \in Goroutines |-> "idle"]
      BY <1>3 DEF Die
    <2>2. adding' = [p \in Goroutines |-> Nil]
      BY <2>1 DEF Adding
    <2>3. \A b \in bucket \ filed : b \in {adding[p] : p \in Goroutines}
      BY DEF DatabaseInv, FiledFits, Adding
    <2>4. Atomic!End
      BY <1>0, <1>3, <2>1, <2>2, <2>3 DEF Atomic!End, Die
    <2> QED
      BY <2>4 DEF Atomic!ANext
  <1>4. CASE Restart
    <2>1. /\ ~up /\ up' = TRUE /\ BuildIndex /\ UNCHANGED <<filed, pc, req>>
          /\ IF bucket = {} THEN latestBlockID' = Nil ELSE IsLast(latestBlockID', bucket)
      BY <1>4 DEF Restart
    <2>2. filed = bucket
      BY <1>0, <2>1 DEF DatabaseInv, FiledFits
    <2>3. adding' = adding
      BY <2>1 DEF Adding
    <2>4. IF filed = {} THEN latestBlockID' = Nil ELSE Atomic!IsLastOf(latestBlockID', filed)
      BY <2>1, <2>2 DEF IsLast, Atomic!IsLastOf
    <2>5. /\ blockIndexMap' = [n \in Heights |-> blockIndexMap'[n]]
          /\ \A n \in Heights :
              IF {b \in filed : b.height = n} = {} THEN blockIndexMap'[n] = Nil
              ELSE Atomic!IsLastOf(blockIndexMap'[n], {b \in filed : b.height = n})
      BY <2>1, <2>2 DEF BuildIndex, OfHeight, IsLast, Atomic!IsLastOf
    <2>6. Atomic!Start
      BY <1>0, <2>1, <2>3, <2>4, <2>5 DEF Atomic!Start
    <2> QED
      BY <2>6 DEF Atomic!ANext
  <1>5. ASSUME NEW p \in Goroutines, Begins(p) \/ Moves(p) \/ Reads(p) \/ Store(p), ~Decides(p)
        PROVE  UNCHANGED Atomic!avars
    BY <1>5, AddingStays DEF Atomic!avars
  <1>6. CASE UNCHANGED vars
    BY <1>6 DEF vars, Atomic!avars, Adding
  <1> QED
    BY <1>1, <1>2, <1>3, <1>4, <1>5, <1>6, StepsByKind

\* Store and UpdateLatest, called one after the other by handlers that overlap
\* and may be killed between them, implement the one step that LeaderRound takes.
THEOREM DatabaseImplementsAtomicBlockDB == Spec => ImplementsAtomicBlockDB
  BY AtomicInit, AtomicNext, DatabaseInvAlways, PTL DEF Spec, ImplementsAtomicBlockDB, Atomic!ASpec
=============================================================================
