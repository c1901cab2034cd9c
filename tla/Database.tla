------------------------------ MODULE Database ------------------------------
(***************************************************************************)
(* BlockDB of one conode and the handlers that share it, one goroutine     *)
(* each: queries and genesis creation under createBlockChainMutex,         *)
(* NewLeaderHelloBlocks, and the two handlers that can stop for good, of a *)
(* HandshakeMessage and of a RefererBlock (calcDelta).  LeaderRound takes  *)
(* Store and UpdateLatest as one step; here they are two, every database   *)
(* access is a step, and the process may be killed between any two.        *)
(***************************************************************************)
EXTENDS Integers

CONSTANTS
    Goroutines,
    Nil,
    Blocks,          \* [hash, height]: the blocks that can arrive; hashes are ordered
    Genesis,         \* bc.GetGenesisBlock()
    CosiMembers,     \* COSI_MEMBERS, the Size of the private clock
    IndexSpan        \* a block's Index is a number modulo IndexSpan, 2^64 in the code

ASSUME DatabaseAssumption ==
    /\ Nil \notin Goroutines
    /\ Nil \notin Blocks
    /\ Genesis \in Blocks
    /\ Genesis.height = 0
    /\ \A b \in Blocks : b.hash \in Nat /\ b.height \in 0..(IndexSpan - 1)
    /\ \A b, c \in Blocks : b.hash = c.hash => b = c
    /\ CosiMembers \in Nat \ {0}
    /\ IndexSpan \in Nat
    /\ 2 * CosiMembers <= IndexSpan

Heights == {b.height : b \in Blocks}

VARIABLES
    up,
    bucket,          \* on disk
    latestBlockID,   \* as the block, or Nil
    blockIndexMap,   \* by height, Nil where it has no entry
    latestMutex,     \* who holds it over more than one step, or Nil
    createBlockChainMutex,
    pc,
    req,             \* the goroutine's request: [op, arg]
    block,           \* its local variable, and in the end its answer
    filed            \* history: the stored blocks whose UpdateLatest was called, by their
                     \* handler or, once the process has ended, by the next BuildIndex

vars == <<up, bucket, latestBlockID, blockIndexMap, latestMutex, createBlockChainMutex,
          pc, req, block, filed>>

-----------------------------------------------------------------------------
\* What the command line asks for: by hash or by index, not by both, else the
\* latest block; --index is -1 if it is not given.
ShowBlock(hash, index) ==
    IF index >= 0 /\ hash # Nil THEN {}
    ELSE IF hash # Nil THEN {[op |-> "byID", arg |-> hash]}
    ELSE IF index >= 0 THEN {[op |-> "byIndex", arg |-> index]}
    ELSE {[op |-> "latest", arg |-> Nil]}

\* The greatest value of the int that --index is read into.
MaxInt == (IndexSpan \div 2) - 1

Queries ==
    UNION {ShowBlock(hash, index) : hash \in {b.hash : b \in Blocks} \cup {Nil},
                                    index \in Heights \cup {-1, MaxInt}}

Messages ==
    {[op |-> "hello", arg |-> b] : b \in Blocks} \cup
    {[op |-> "handshake", arg |-> Nil], [op |-> "referer", arg |-> Nil]}

CreateGenesis == {[op |-> "genesis", arg |-> Genesis]}

At(p, from, to) == pc[p] = from /\ pc' = [pc EXCEPT ![p] = to]

Is(p, ops) == req[p].op \in ops

\* A handler of the service API takes createBlockChainMutex first.
BeginAPI(p, r) ==
    /\ At(p, "idle", "lock")
    /\ up
    /\ r.op \in {"genesis", "latest", "byID", "byIndex"}
    /\ req' = [req EXCEPT ![p] = r]
    /\ block' = [block EXCEPT ![p] = Nil]
    /\ UNCHANGED <<up, bucket, filed, latestBlockID, blockIndexMap, latestMutex, createBlockChainMutex>>

BeginMessage(p, r) ==
    /\ At(p, "idle", r.op)
    /\ up
    /\ r.op \in {"hello", "handshake", "referer"}
    /\ req' = [req EXCEPT ![p] = r]
    /\ block' = [block EXCEPT ![p] = Nil]
    /\ UNCHANGED <<up, bucket, filed, latestBlockID, blockIndexMap, latestMutex, createBlockChainMutex>>

\* Mutant: the handlers do not lock.
LockNothing(p) ==
    /\ At(p, "lock", "latest")
    /\ createBlockChainMutex' = p
    /\ UNCHANGED <<up, bucket, filed, latestBlockID, blockIndexMap, latestMutex, req, block>>

Lock(p) ==
    /\ At(p, "lock", "latest")
    /\ createBlockChainMutex = Nil
    /\ createBlockChainMutex' = p
    /\ UNCHANGED <<up, bucket, filed, latestBlockID, blockIndexMap, latestMutex, req, block>>

\* Unlock is deferred: it comes with every return.
Return(p) ==
    /\ At(p, "return", "idle")
    /\ createBlockChainMutex = p
    /\ createBlockChainMutex' = Nil
    /\ UNCHANGED <<up, bucket, filed, latestBlockID, blockIndexMap, latestMutex, req, block>>

-----------------------------------------------------------------------------
GetByID(hash) == IF \E b \in bucket : b.hash = hash
                 THEN CHOOSE b \in bucket : b.hash = hash ELSE Nil

GetLatest(p) ==
    /\ latestMutex = Nil
    /\ block' = [block EXCEPT ![p] = latestBlockID]
    /\ UNCHANGED <<up, bucket, filed, latestBlockID, blockIndexMap, latestMutex, createBlockChainMutex, req>>

HasIndex(n) == n \in Heights /\ blockIndexMap[n] # Nil

\* Mutant: the error return of CreateGenesisBlock forgets the mutex.
GenesisRefusedLocked(p) ==
    /\ At(p, "latest", "idle")
    /\ Is(p, {"genesis"}) /\ latestBlockID # Nil
    /\ GetLatest(p)

\* "you have already joined blockchain"
GenesisRefused(p) ==
    /\ At(p, "latest", "return")
    /\ Is(p, {"genesis"}) /\ latestBlockID # Nil
    /\ GetLatest(p)

GenesisAccepted(p) ==
    /\ At(p, "latest", "store")
    /\ Is(p, {"genesis"}) /\ latestBlockID = Nil
    /\ GetLatest(p)

\* "Blockchain not actived", or the latest block is the answer: it was asked
\* for, or it is not above the index asked for.
AnswerLatest(p) ==
    /\ At(p, "latest", "return")
    /\ \/ Is(p, {"latest"})
       \/ Is(p, {"byID"}) /\ latestBlockID = Nil
       \/ Is(p, {"byIndex"}) /\ (latestBlockID # Nil => latestBlockID.height <= req[p].arg)
    /\ GetLatest(p)

LookFurther(p) ==
    /\ At(p, "latest", "lookup")
    /\ latestBlockID # Nil
    /\ Is(p, {"byIndex"}) => latestBlockID.height > req[p].arg
    /\ Is(p, {"byID", "byIndex"})
    /\ GetLatest(p)

Unchanged == <<up, bucket, filed, latestBlockID, blockIndexMap, latestMutex, createBlockChainMutex, req>>

LookupID(p) ==
    /\ At(p, "lookup", "return")
    /\ Is(p, {"byID"})
    /\ block' = [block EXCEPT ![p] = GetByID(req[p].arg)]
    /\ UNCHANGED Unchanged

\* Mutant: the highest entry is taken.
LookupIndexHighest(p) ==
    /\ At(p, "lookup", "return")
    /\ Is(p, {"byIndex"})
    /\ \E n \in Heights :
        /\ HasIndex(n)
        /\ \A m \in Heights : HasIndex(m) => m <= n
        /\ block' = [block EXCEPT ![p] = blockIndexMap[n]]
    /\ UNCHANGED Unchanged

LookupIndex(p) ==
    /\ At(p, "lookup", "return")
    /\ Is(p, {"byIndex"})
    /\ HasIndex(req[p].arg)
    /\ block' = [block EXCEPT ![p] = GetByID(blockIndexMap[req[p].arg].hash)]
    /\ UNCHANGED Unchanged

LookupFails(p) ==
    /\ At(p, "lookup", "again")
    /\ Is(p, {"byIndex"})
    /\ ~HasIndex(req[p].arg)
    /\ UNCHANGED <<block, Unchanged>>

\* The loop starts at the latest block, which may be another one by now ...
LoopEnds(p) ==
    /\ At(p, "again", "return")
    /\ latestBlockID.height = req[p].arg
    /\ GetLatest(p)

\* ... and goes from each block to the block of its own Hash: itself.
LoopForEver(p) ==
    /\ At(p, "again", "spin")
    /\ latestBlockID.height # req[p].arg
    /\ GetLatest(p)

-----------------------------------------------------------------------------
\* NewLeaderHelloBlock: nothing to do if the block, or one of its height, is known.
HelloKnown(p) ==
    /\ At(p, "hello", "idle")
    /\ req[p].arg \in bucket
    /\ UNCHANGED <<block, Unchanged>>

HelloNew(p) ==
    /\ At(p, "hello", "hello height")
    /\ req[p].arg \notin bucket
    /\ UNCHANGED <<block, Unchanged>>

HelloHeightKnown(p) ==
    /\ At(p, "hello height", "idle")
    /\ HasIndex(req[p].arg.height)
    /\ UNCHANGED <<block, Unchanged>>

HelloHeightNew(p) ==
    /\ At(p, "hello height", "store")
    /\ ~HasIndex(req[p].arg.height)
    /\ UNCHANGED <<block, Unchanged>>

\* Mutant: the transaction fails, which Store logs and does not return.
StoreMayFail(p) ==
    /\ At(p, "store", "update")
    /\ bucket' \in {bucket, bucket \cup {req[p].arg}}
    /\ UNCHANGED <<up, filed, latestBlockID, blockIndexMap, latestMutex, createBlockChainMutex, req, block>>

Store(p) ==
    /\ At(p, "store", "update")
    /\ bucket' = bucket \cup {req[p].arg}
    /\ UNCHANGED <<up, filed, latestBlockID, blockIndexMap, latestMutex, createBlockChainMutex, req, block>>

\* CreateGenesisBlock still holds its mutex; the handler of a block is done.
UpdateLatest(p) ==
    /\ At(p, "update", IF Is(p, {"genesis"}) THEN "return" ELSE "idle")
    /\ latestMutex = Nil
    /\ latestBlockID' = req[p].arg
    /\ blockIndexMap' = [blockIndexMap EXCEPT ![req[p].arg.height] = req[p].arg]
    /\ filed' = filed \cup {req[p].arg}
    /\ UNCHANGED <<up, bucket, latestMutex, createBlockChainMutex, req, block>>

\* HandshakeMessage on a node without a genesis block: nothing to do here.
HandshakeWithoutGenesis(p) ==
    /\ At(p, "handshake", "idle")
    /\ ~HasIndex(0)
    /\ UNCHANGED <<block, Unchanged>>

\* On any other node: Lock, then GetLatest, which locks again.
HandshakeLocks(p) ==
    /\ At(p, "handshake", "held")
    /\ HasIndex(0)
    /\ latestMutex = Nil
    /\ latestMutex' = p
    /\ UNCHANGED <<up, bucket, filed, latestBlockID, blockIndexMap, createBlockChainMutex, req, block>>

\* RefererBlock: calcDelta.
RefererLatest(p) ==
    /\ At(p, "referer", "delta")
    /\ latestBlockID # Nil
    /\ GetLatest(p)

\* Mutant: the difference is signed, so that the test for a negative one works.
PreIndexSigned(p) ==
    IF block[p].height < CosiMembers THEN 0 ELSE block[p].height - CosiMembers

\* latestBlock.Index - uint64(Size) wraps, and is never below 0.
PreIndex(p) == (block[p].height - CosiMembers) % IndexSpan

DeltaFails(p) ==
    /\ At(p, "delta", "idle")
    /\ ~HasIndex(PreIndex(p))
    /\ UNCHANGED <<block, Unchanged>>

\* PrivateClock.Clock locks its mutex and calls lockLen, which locks it again.
ClockHangs(p) ==
    /\ At(p, "delta", "clock")
    /\ HasIndex(PreIndex(p))
    /\ UNCHANGED <<block, Unchanged>>

-----------------------------------------------------------------------------
\* The process ends, and with it everything but the bucket.
Die ==
    /\ up
    /\ up' = FALSE
    /\ latestBlockID' = Nil
    /\ blockIndexMap' = [n \in Heights |-> Nil]
    /\ latestMutex' = Nil
    /\ createBlockChainMutex' = Nil
    /\ pc' = [p \in Goroutines |-> "idle"]
    /\ req' = [p \in Goroutines |-> [op |-> "none", arg |-> Nil]]
    /\ block' = [p \in Goroutines |-> Nil]
    /\ filed' = bucket
    /\ UNCHANGED bucket

\* From outside, at any time.
Kill == Die

\* calcDelta on a node without blocks: latestBlock.Index of a nil block.
RefererPanics(p) ==
    /\ pc[p] = "referer" /\ latestMutex = Nil /\ latestBlockID = Nil
    /\ Die

\* One goroutine is at a lookup in blockIndexMap, which takes no lock, while
\* another writes it: the Go runtime may stop the process.
ConcurrentMapReadAndWrite(p, q) ==
    /\ pc[p] \in {"lookup", "hello height", "handshake", "delta"} /\ ~Is(p, {"byID"})
    /\ pc[q] = "update" /\ latestMutex = Nil
    /\ Die

OfHeight(n) == {b \in bucket : b.height = n}

IsLast(b, bs) == b \in bs /\ \A c \in bs : c.hash <= b.hash

\* The entries that UpdateLatest leaves behind, called in the order of the hashes.
BuildIndex ==
    /\ blockIndexMap' \in [Heights -> bucket \cup {Nil}]
    /\ \A n \in Heights :
        IF OfHeight(n) = {} THEN blockIndexMap'[n] = Nil ELSE IsLast(blockIndexMap'[n], OfHeight(n))

\* Mutant: BuildIndex only fills the map (its commented line), not the latest ID.
RestartWithoutLatest ==
    /\ ~up
    /\ up' = TRUE
    /\ BuildIndex
    /\ UNCHANGED <<bucket, filed, latestBlockID, latestMutex, createBlockChainMutex, pc, req, block>>

\* newService: the chain is read back from the bucket.
Restart ==
    /\ ~up
    /\ up' = TRUE
    /\ BuildIndex
    /\ IF bucket = {} THEN latestBlockID' = Nil
                      ELSE \E b \in bucket : IsLast(b, bucket) /\ latestBlockID' = b
    /\ UNCHANGED <<bucket, filed, latestMutex, createBlockChainMutex, pc, req, block>>

Init ==
    /\ up = TRUE
    /\ bucket = {}
    /\ latestBlockID = Nil
    /\ blockIndexMap = [n \in Heights |-> Nil]
    /\ latestMutex = Nil
    /\ createBlockChainMutex = Nil
    /\ pc = [p \in Goroutines |-> "idle"]
    /\ req = [p \in Goroutines |-> [op |-> "none", arg |-> Nil]]
    /\ block = [p \in Goroutines |-> Nil]
    /\ filed = {}

Query(p) ==
    \/ AnswerLatest(p) \/ LookFurther(p) \/ LookupID(p)
    \/ LookupIndex(p) \/ LookupFails(p) \/ LoopEnds(p) \/ LoopForEver(p)

CreateGenesisBlock(p) == GenesisRefused(p) \/ GenesisAccepted(p)

Message(p) ==
    \/ HelloKnown(p) \/ HelloNew(p) \/ HelloHeightKnown(p) \/ HelloHeightNew(p)
    \/ HandshakeWithoutGenesis(p) \/ HandshakeLocks(p)
    \/ RefererLatest(p) \/ RefererPanics(p) \/ DeltaFails(p) \/ ClockHangs(p)

Step(p) ==
    \/ Lock(p) \/ Query(p) \/ CreateGenesisBlock(p) \/ Message(p)
    \/ Store(p) \/ UpdateLatest(p) \/ Return(p)

Crash ==
    \/ Kill
    \/ \E p, q \in Goroutines : ConcurrentMapReadAndWrite(p, q)

Next ==
    \/ \E p \in Goroutines, r \in Queries \cup CreateGenesis : BeginAPI(p, r)
    \/ \E p \in Goroutines, r \in Messages : BeginMessage(p, r)
    \/ \E p \in Goroutines : Step(p)
    \/ Crash
    \/ Restart

Spec == Init /\ [][Next]_vars

\* Goroutines are scheduled; Go hands a mutex to the one that has waited
\* longest, so nobody waits for ever for a mutex that is released.
FairSpec ==
    /\ Spec
    /\ \A p \in Goroutines : WF_vars(Step(p)) /\ SF_vars(Lock(p))

-----------------------------------------------------------------------------
Request == Queries \cup CreateGenesis \cup Messages \cup {[op |-> "none", arg |-> Nil]}

Critical == {"latest", "lookup", "again", "spin", "return"}

\* Every variable holds what its Go declaration allows, and the two mutexes
\* belong to the goroutine that is between its Lock and its Unlock.
TypeOK ==
    /\ up \in BOOLEAN
    /\ bucket \subseteq Blocks
    /\ filed \subseteq bucket
    /\ latestBlockID \in Blocks \cup {Nil}
    /\ blockIndexMap \in [Heights -> Blocks \cup {Nil}]
    /\ req \in [Goroutines -> Request]
    /\ block \in [Goroutines -> Blocks \cup {Nil}]
    /\ pc \in [Goroutines -> Critical \cup
               {"idle", "lock", "hello", "hello height", "store", "update",
                "handshake", "held", "referer", "delta", "clock"}]
    /\ \A p \in Goroutines :
        /\ createBlockChainMutex = p
              <=> pc[p] \in Critical \/ (Is(p, {"genesis"}) /\ pc[p] \in {"store", "update"})
        /\ latestMutex = p <=> pc[p] = "held"

\* What is in memory matches the disk at every moment of a running process,
\* a restart after any kill included: the index and the latest block are
\* stored blocks, filed under their height; and once a block is stored there is
\* a latest block and the stored one's height is in the index, unless a handler
\* of that height is between Store and UpdateLatest.
IndexMatchesBucket ==
    /\ \A n \in Heights : HasIndex(n) => blockIndexMap[n] \in OfHeight(n)
    /\ latestBlockID # Nil => latestBlockID \in bucket
    /\ up => \A b \in bucket :
        \/ latestBlockID # Nil /\ HasIndex(b.height)
        \/ \E p \in Goroutines : pc[p] = "update" /\ req[p].arg.height = b.height

\* The stored blocks that a query asks for; the latest block may be any of them.
Asked(p) ==
    IF Is(p, {"byID"}) THEN {b \in bucket : b.hash = req[p].arg}
    ELSE IF Is(p, {"byIndex"}) THEN OfHeight(req[p].arg)
    ELSE bucket

\* An index above the latest block's is not looked up (service.go:556).
AboveLatest(p) ==
    Is(p, {"byIndex"}) /\ latestBlockID # Nil /\ latestBlockID.height < req[p].arg

MayAnswer(p) ==
    \/ block'[p] \in Asked(p)
    \/ block'[p] = Nil /\ Asked(p) \cap filed = {}
    \/ AboveLatest(p) /\ block'[p] = latestBlockID

\* Whatever blocks arrive and are replaced between the accesses of a query,
\* and after any kill: it answers with a stored block of the hash or the index
\* asked for, or with an error when no such block is filed.  The one exception
\* is the code's own: an index above the latest block's is answered with the
\* latest block, be there a block of that index or not (StoredIndexIsAnswered).
AnswersMissOnlyAboveLatest ==
    [][\A p \in Goroutines :
        pc[p] # "return" /\ pc'[p] = "return" /\ ~Is(p, {"genesis"}) => MayAnswer(p)]_vars

\* The wrapped difference of calcDelta names no block below height
\* CosiMembers, so the clock that would hang is not reached there.
ClockNeedsHeight ==
    \A p \in Goroutines : pc[p] = "clock" => \E b \in bucket : b.height >= CosiMembers

\* The block that a handler has decided to add.
Adding(p) == IF pc[p] \in {"store", "update"} THEN req[p].arg ELSE Nil

Atomic == INSTANCE AtomicBlockDB WITH
    blocks <- filed, latest <- latestBlockID, index <- blockIndexMap,
    adding <- [p \in Goroutines |-> Adding(p)]

\* Store and UpdateLatest look like one step to whoever reads the index or
\* comes after a crash: with handlers that add the same block, or another one
\* of its height, at the same time, and a process that ends between the two.
ImplementsAtomicBlockDB == Atomic!ASpec

\* Every request ends, or the process does; only a HandshakeMessage that
\* keeps latestMutex, or a query that spins under createBlockChainMutex, can
\* stop the others.  A clock that hangs stops only its own handler.
RequestsEnd ==
    \A p \in Goroutines :
        pc[p] # "idle" ~>
            \/ pc[p] \in {"idle", "clock"}
            \/ latestMutex # Nil
            \/ \E q \in Goroutines : pc[q] = "spin"

\* cmd.go: "Get latest block or a block given by an index": unless a handshake
\* keeps latestMutex, a query by index comes back.
QueryReturns ==
    [](latestMutex = Nil) => \A p \in Goroutines : pc[p] = "lookup" ~> pc[p] = "idle"

\* cmd.go: "a block given by an index", and the error is "No such block": the
\* answer to a query for the index of a stored block is a block of that index.
StoredIndexIsAnswered ==
    \A p \in Goroutines :
        pc[p] = "return" /\ Is(p, {"byIndex"}) /\ block[p] # Nil /\ OfHeight(req[p].arg) # {}
            => block[p].height = req[p].arg
=============================================================================
