-------------------------------- MODULE Sync --------------------------------
(***************************************************************************)
(* Chain synchronisation between conodes: a node that starts shakes hands  *)
(* with the peers tryLoad found, a processMessage goroutine gathers their  *)
(* answers for a while and asks one peer for blocks.                       *)
(*                                                                         *)
(* There is one genesis block and one block per height; a block is its     *)
(* height, and blocks also arrive by BlockMessage (module LeaderRound).    *)
(* handleHandshakeMessage locks latestMutex and then calls GetLatest, which *)
(* locks it again: from then on the mutex is never free, and what follows  *)
(* in that handler, the answer to the handshake included, is unreachable.  *)
(***************************************************************************)
EXTENDS Naturals, FiniteSets

CONSTANTS
    Nodes,
    Nil,
    Peers,         \* the peer table each node loads
    Heights,       \* blocks of the chain; 0 is the genesis block
    Stored,        \* what the nodes may have on disk at first
    MaxPerOnce,    \* MAX_BLOCK_PERONCE
    Workers,       \* bound: concurrent processMessage goroutines
    MaxStarts      \* bound: starts of each process

ASSUME SyncAssumption ==
    /\ IsFiniteSet(Nodes)
    /\ Peers \in [Nodes -> SUBSET Nodes]
    /\ Heights \subseteq Nat /\ 0 \in Heights
    /\ Stored \subseteq SUBSET Heights
    /\ MaxPerOnce \in Nat \ {0}
    /\ MaxStarts \in [Nodes -> Nat]

VARIABLES
    up,
    bucket,         \* blocks on disk
    blockIndexMap,  \* heights in BlockDB.blockIndexMap
    latest,         \* height of latestBlockID, or Nil
    mutexHeld,      \* latestMutex is held by a handler that waits for it
    calls,          \* goroutines at the start of handshake
    greeting,       \* peers the handshake under way has to greet, or Nil
    workers,        \* processMessage goroutines
    sending,        \* handlers about to send into synChan
    synChan,        \* the one entry of synChan, or Nil
    net,
    starts

dbVars   == <<bucket, blockIndexMap, latest, mutexHeld>>
syncVars == <<calls, greeting, workers, sending, synChan>>
vars     == <<up, dbVars, syncVars, net, starts>>

-----------------------------------------------------------------------------
HasGenesis(n) == 0 \in blockIndexMap[n]

Free == {w \in Workers : workers[w] = Nil}

Min(a, b) == IF a < b THEN a ELSE b

\* SendRaw: an error when the peer is down.
Send(m) == IF up[m.to] THEN {m} ELSE {}

\* The process ends: memory is lost, the bucket stays.
Stop(n) ==
    /\ up' = [up EXCEPT ![n] = FALSE]
    /\ blockIndexMap' = [blockIndexMap EXCEPT ![n] = {}]
    /\ latest' = [latest EXCEPT ![n] = Nil]
    /\ mutexHeld' = [mutexHeld EXCEPT ![n] = FALSE]
    /\ calls' = [calls EXCEPT ![n] = 0]
    /\ greeting' = [greeting EXCEPT ![n] = Nil]
    /\ workers' = [w \in Workers |-> IF workers[w] # Nil /\ workers[w].node = n
                                     THEN Nil ELSE workers[w]]
    /\ sending' = [sending EXCEPT ![n] = {}]
    /\ synChan' = [synChan EXCEPT ![n] = Nil]
    /\ UNCHANGED <<bucket, starts>>

Crash(n) == up[n] /\ Stop(n) /\ UNCHANGED net

\* newService: BuildIndex, whose last block depends on the order of the
\* hashes, then tryLoad, which ends in a handshake.
Start(n) ==
    /\ ~up[n]
    /\ starts[n] < MaxStarts[n]
    /\ starts' = [starts EXCEPT ![n] = @ + 1]
    /\ up' = [up EXCEPT ![n] = TRUE]
    /\ blockIndexMap' = [blockIndexMap EXCEPT ![n] = bucket[n]]
    /\ \E b \in IF bucket[n] = {} THEN {Nil} ELSE bucket[n] : latest' = [latest EXCEPT ![n] = b]
    /\ calls' = [calls EXCEPT ![n] = 1]
    /\ UNCHANGED <<bucket, mutexHeld, greeting, workers, sending, synChan, net>>

\* A NewLeaderHelloBlock from a peer: Store needs no mutex, UpdateLatest does.
HandleBlockMessage(n, p, b) ==
    /\ up[n] /\ up[p] /\ n \in Peers[p]
    /\ b \in bucket[p] \ bucket[n]
    /\ bucket' = [bucket EXCEPT ![n] = @ \cup {b}]
    /\ IF mutexHeld[n]
       THEN UNCHANGED <<blockIndexMap, latest>>
       ELSE /\ blockIndexMap' = [blockIndexMap EXCEPT ![n] = @ \cup {b}]
            /\ latest' = [latest EXCEPT ![n] = b]
    /\ UNCHANGED <<up, mutexHeld, syncVars, net, starts>>

-----------------------------------------------------------------------------
(***************************************************************************)
(* handshake, under the lock of peerStorage.                               *)
(***************************************************************************)
HandshakeBegin(n) ==
    /\ calls[n] > 0
    /\ greeting[n] = Nil
    /\ calls' = [calls EXCEPT ![n] = @ - 1]
    /\ greeting' = [greeting EXCEPT ![n] = Peers[n]]
    /\ IF Peers[n] = {}
       THEN UNCHANGED workers
       ELSE \E w \in Free :
              workers' = [workers EXCEPT ![w] =
                [node |-> n, pc |-> "collect", left |-> Cardinality(Peers[n]),
                 remotes |-> {}, remote |-> Nil]]
    /\ UNCHANGED <<up, dbVars, sending, synChan, net, starts>>

\* GetLatest needs the mutex.
HandshakeSend(n) ==
    /\ greeting[n] # Nil
    /\ ~mutexHeld[n]
    /\ \E p \in greeting[n] :
         /\ greeting' = [greeting EXCEPT ![n] = @ \ {p}]
         /\ net' = net \cup Send([type |-> "Handshake", from |-> n, to |-> p,
                                  genesis |-> HasGenesis(n), latest |-> latest[n]])
    /\ UNCHANGED <<up, dbVars, calls, workers, sending, synChan, starts>>

HandshakeEnd(n) ==
    /\ greeting[n] = {}
    /\ greeting' = [greeting EXCEPT ![n] = Nil]
    /\ UNCHANGED <<up, dbVars, calls, workers, sending, synChan, net, starts>>

Receive(m, type) == m \in net /\ m.type = type /\ up[m.to]

\* A node without a chain takes note of a peer that has one; a node with a
\* chain takes latestMutex and keeps it.
HandleHandshakeMessage(m) ==
    LET n == m.to IN
    /\ Receive(m, "Handshake")
    /\ net' = net \ {m}
    /\ mutexHeld' = [mutexHeld EXCEPT ![n] = @ \/ HasGenesis(n)]
    /\ sending' = IF HasGenesis(n) \/ ~m.genesis \/ m.latest = Nil
                  THEN sending
                  ELSE [sending EXCEPT ![n] = @ \cup {[node |-> m.from, index |-> m.latest]}]
    /\ UNCHANGED <<up, bucket, blockIndexMap, latest, calls, greeting, workers, synChan, starts>>

\* The handler's send goes through when synChan has room.
SynSend(n) ==
    /\ synChan[n] = Nil
    /\ \E r \in sending[n] :
         /\ synChan' = [synChan EXCEPT ![n] = r]
         /\ sending' = [sending EXCEPT ![n] = @ \ {r}]
    /\ UNCHANGED <<up, dbVars, calls, greeting, workers, net, starts>>

-----------------------------------------------------------------------------
(***************************************************************************)
(* processMessage.                                                         *)
(***************************************************************************)
At(w, pc) == workers[w] # Nil /\ workers[w].pc = pc

CollectRemote(w) ==
    LET n == workers[w].node IN
    /\ At(w, "collect")
    /\ workers[w].left > 0
    /\ synChan[n] # Nil
    /\ workers' = [workers EXCEPT ![w].pc = "compare", ![w].remote = synChan[n]]
    /\ synChan' = [synChan EXCEPT ![n] = Nil]
    /\ UNCHANGED <<up, dbVars, calls, greeting, sending, net, starts>>

\* Keep the remote when it is ahead of the latest block of this moment.
CompareRemote(w) ==
    LET t == workers[w]
        ahead == latest[t.node] = Nil \/ t.remote.index > latest[t.node]
    IN
    /\ At(w, "compare")
    /\ ~mutexHeld[t.node]
    /\ workers' = [workers EXCEPT ![w] = [t EXCEPT
            !.pc = "collect", !.left = @ - 1, !.remote = Nil,
            !.remotes = IF ahead THEN @ \cup {t.remote} ELSE @]]
    /\ UNCHANGED <<up, dbVars, calls, greeting, sending, synChan, net, starts>>

\* Every peer was heard, or five seconds passed without one.
CollectEnd(w) ==
    /\ At(w, "collect")
    /\ workers' = [workers EXCEPT ![w].pc = "choose"]
    /\ UNCHANGED <<up, dbVars, calls, greeting, sending, synChan, net, starts>>

\* Mutant: a new handshake whenever no remote is left, an empty list included.
NoRemoteRetries(w) ==
    LET n == workers[w].node IN
    /\ At(w, "choose")
    /\ workers[w].remotes = {}
    /\ workers' = [workers EXCEPT ![w] = Nil]
    /\ calls' = [calls EXCEPT ![n] = @ + 1]
    /\ UNCHANGED <<up, dbVars, greeting, sending, synChan, net, starts>>

\* Nobody is ahead: synDone.
NoRemote(w) ==
    /\ At(w, "choose")
    /\ workers[w].remotes = {}
    /\ workers' = [workers EXCEPT ![w] = Nil]
    /\ UNCHANGED <<up, dbVars, calls, greeting, sending, synChan, net, starts>>

\* Mutant: no test for a node without blocks.
LatestHeight(n) == latest[n]

\* Start of the request: the height of the latest block, 0 without one.
DownloadStart(n) == IF latest[n] = Nil THEN 0 ELSE latest[n]

\* Ask a random remote for blocks; when it is down try another one, and
\* after the last one shake hands again.
AskRemote(w) ==
    LET t == workers[w]
        n == t.node
    IN
    /\ At(w, "choose")
    /\ ~mutexHeld[n]
    /\ \E r \in t.remotes :
         IF up[r.node]
         THEN /\ net' = net \cup {[type |-> "Request", from |-> n, to |-> r.node,
                                   genesis |-> HasGenesis(n),
                                   start |-> DownloadStart(n),
                                   size |-> Min(r.index, MaxPerOnce)]}
              /\ workers' = [workers EXCEPT ![w] = Nil]
              /\ UNCHANGED calls
         ELSE /\ UNCHANGED net
              /\ IF t.remotes = {r}
                 THEN /\ workers' = [workers EXCEPT ![w] = Nil]
                      /\ calls' = [calls EXCEPT ![n] = @ + 1]
                 ELSE /\ workers' = [workers EXCEPT ![w].remotes = @ \ {r}]
                      /\ UNCHANGED calls
    /\ UNCHANGED <<up, dbVars, greeting, sending, synChan, starts>>

-----------------------------------------------------------------------------
\* Mutant: Size is a number of blocks, not the height to stop at.
ServedBySize(n, start, size) ==
    {b \in blockIndexMap[n] : start <= b /\ b <= start + size}

\* The loop of handleDownloadBlockRequest: from Start to Size, up to the
\* first height that is missing.
Served(n, start, size) ==
    {b \in blockIndexMap[n] :
        /\ start <= b /\ b < size
        /\ \A i \in start..b : i \in blockIndexMap[n]}

HandleDownloadBlockRequest(m) ==
    LET n == m.to
        blocks == Served(n, m.start, m.size)
    IN
    /\ Receive(m, "Request")
    /\ net' = (net \ {m}) \cup
              (IF m.genesis = HasGenesis(n) /\ blocks # {}
               THEN Send([type |-> "Response", from |-> n, to |-> m.from,
                          genesis |-> HasGenesis(n), blocks |-> blocks])
               ELSE {})
    /\ UNCHANGED <<up, dbVars, syncVars, starts>>

\* A block that is not stored yet is a nil dereference: the lookup shadows
\* the block received.  What is stored is the node's own block, so the
\* bucket stays as it is; Blocks[index] of a response that goes above height
\* 0 is the block of that height only when the response starts at 0.
HandleDownloadBlockResponse(m) ==
    LET n == m.to
        accepted == m.genesis = HasGenesis(n)
        panics == ~(m.blocks \subseteq blockIndexMap[n]) \/ 0 \notin m.blocks
        top == CHOOSE b \in m.blocks : \A i \in m.blocks : i <= b
    IN
    /\ Receive(m, "Response")
    /\ accepted /\ top > 0 => ~mutexHeld[n]
    /\ net' = net \ {m}
    /\ IF accepted /\ panics
       THEN Stop(n)
       ELSE /\ latest' = IF accepted /\ top > 0 THEN [latest EXCEPT ![n] = top] ELSE latest
            /\ calls' = IF accepted THEN [calls EXCEPT ![n] = @ + 1] ELSE calls
            /\ UNCHANGED <<up, bucket, blockIndexMap, mutexHeld, greeting, workers, sending,
                           synChan, starts>>

Lose(m) ==
    /\ m \in net
    /\ ~up[m.to]
    /\ net' = net \ {m}
    /\ UNCHANGED <<up, dbVars, syncVars, starts>>

-----------------------------------------------------------------------------
Init ==
    /\ up = [n \in Nodes |-> FALSE]
    /\ bucket \in [Nodes -> Stored]
    /\ blockIndexMap = [n \in Nodes |-> {}]
    /\ latest = [n \in Nodes |-> Nil]
    /\ mutexHeld = [n \in Nodes |-> FALSE]
    /\ calls = [n \in Nodes |-> 0]
    /\ greeting = [n \in Nodes |-> Nil]
    /\ workers = [w \in Workers |-> Nil]
    /\ sending = [n \in Nodes |-> {}]
    /\ synChan = [n \in Nodes |-> Nil]
    /\ net = {}
    /\ starts = [n \in Nodes |-> 0]

HandshakeStep(n) == HandshakeBegin(n) \/ HandshakeSend(n) \/ HandshakeEnd(n)

WorkerStep(w) ==
    CollectRemote(w) \/ CompareRemote(w) \/ CollectEnd(w) \/ NoRemote(w) \/ AskRemote(w)

HandleMessage(m) ==
    \/ HandleHandshakeMessage(m)
    \/ HandleDownloadBlockRequest(m)
    \/ HandleDownloadBlockResponse(m)
    \/ Lose(m)

Next ==
    \/ \E n \in Nodes : Start(n) \/ Crash(n) \/ HandshakeStep(n) \/ SynSend(n)
    \/ \E n, p \in Nodes : \E b \in Heights : HandleBlockMessage(n, p, b)
    \/ \E w \in Workers : WorkerStep(w)
    \/ \E m \in net : HandleMessage(m)

Spec == Init /\ [][Next]_vars

\* Goroutines and handlers are scheduled and messages arrive; no process has
\* to start or crash, and no block has to be announced.
FairSpec ==
    /\ Spec
    /\ \A n \in Nodes : WF_vars(HandshakeStep(n)) /\ WF_vars(SynSend(n))
    /\ \A w \in Workers : WF_vars(WorkerStep(w))
    /\ WF_vars(\E m \in net : HandleMessage(m))

-----------------------------------------------------------------------------
Remote == [node : Nodes, index : Heights]

Worker ==
    [node : Nodes, pc : {"collect", "compare", "choose"}, left : Nat,
     remotes : SUBSET Remote, remote : Remote \cup {Nil}]

Message ==
    [type : {"Handshake"}, from : Nodes, to : Nodes, genesis : BOOLEAN,
     latest : Heights \cup {Nil}] \cup
    [type : {"Request"}, from : Nodes, to : Nodes, genesis : BOOLEAN,
     start : Heights, size : 0..MaxPerOnce] \cup
    [type : {"Response"}, from : Nodes, to : Nodes, genesis : BOOLEAN, blocks : SUBSET Heights]

\* Every variable holds what its Go declaration allows; the index of a node
\* is part of its bucket and is lost with the process.
TypeOK ==
    /\ up \in [Nodes -> BOOLEAN]
    /\ bucket \in [Nodes -> SUBSET Heights]
    /\ blockIndexMap \in [Nodes -> SUBSET Heights]
    /\ \A n \in Nodes : blockIndexMap[n] \subseteq IF up[n] THEN bucket[n] ELSE {}
    /\ latest \in [Nodes -> Heights \cup {Nil}]
    /\ mutexHeld \in [Nodes -> BOOLEAN]
    /\ calls \in [Nodes -> Nat]
    /\ greeting \in [Nodes -> (SUBSET Nodes) \cup {Nil}]
    /\ workers \in [Workers -> Worker \cup {Nil}]
    /\ sending \in [Nodes -> SUBSET Remote]
    /\ synChan \in [Nodes -> Remote \cup {Nil}]
    /\ net \subseteq Message
    /\ starts \in [Nodes -> Nat]
    /\ \A n \in Nodes : starts[n] <= MaxStarts[n]

\* A request asks from the latest height on, a response stops below Size, and
\* a node without a genesis block cannot name the chain it wants: whatever is
\* downloaded is on the receiver's disk already, so no response ever reaches
\* the nil dereference of handleDownloadBlockResponse.
DownloadsBringNothing ==
    \A m \in net : m.type = "Response" => m.blocks \subseteq bucket[m.to]

\* The exchange dies out: handshakes, retries after failed requests and the
\* handshake that follows each response do not feed one another for ever.
SyncEnds == <>[](net = {} /\ \A n \in Nodes : calls[n] = 0 \/ mutexHeld[n])

\* service.go: "Sync block with other peer node".  A running node that knows
\* a running peer with a block it lacks ends up with the block.
SyncCatchesUp ==
    \A n, p \in Nodes : \A b \in Heights :
        (up[n] /\ up[p] /\ p \in Peers[n] /\ n \in Peers[p] /\ b \in bucket[p])
            ~> (b \in bucket[n] \/ ~up[n] \/ ~up[p])
=============================================================================
