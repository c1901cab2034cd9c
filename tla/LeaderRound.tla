---------------------------- MODULE LeaderRound ----------------------------
(***************************************************************************)
(* One round of LotMint on a network of conodes: a NewLeaderHelloBlock     *)
(* starts the miners and the leader's timer, mined candidates reach the    *)
(* leader's buffer, the leader de-forks them (RefererBlock) and the winner *)
(* publishes the next NewLeaderHelloBlock.                                 *)
(*                                                                         *)
(* Each conode is a process whose goroutines interleave at every wait:     *)
(* startTimer and startNewLeaderHelloBlock are threads with a program      *)
(* counter; CreateGenesisBlock and the handlers of a NewLeaderHelloBlock   *)
(* and of a RefererBlock have a step before and a step after what they     *)
(* test; the other handlers are one step.  A nil dereference ends the      *)
(* process (Panic); run_nodes.sh starts it again.                          *)
(***************************************************************************)
EXTENDS Blocks

CONSTANTS
    Nodes,         \* public keys of the conodes
    GenesisKey,    \* the key in the genesis block
    Peers,         \* peerStorage.peerNodeMap of each node
    Addresses,     \* gateways named in the genesis block, all parsable
    Hashes,        \* possible hashes of NewLeaderHelloBlocks (bucket order: <)
    GenesisHash,
    GenesisPrev,   \* genesis PrevBlock: zero-length (Nil) or a zero hash
    PowHashes,     \* possible hashes of mined blocks
    GenesisPowHash,
    CosiMembers,   \* COSI_MEMBERS
    Founders,      \* conodes whose operator asks for the genesis block
    Supervised,    \* conodes that may be killed, and that run_nodes.sh restarts
    TimerSlots,    \* bound: concurrent startTimer goroutines
    HelloSlots     \* bound: concurrent startNewLeaderHelloBlock goroutines

ASSUME ConstantsAssumption ==
    /\ GenesisKey \in Nodes
    /\ Peers \in [Nodes -> SUBSET Nodes]
    /\ Addresses \subseteq Nodes
    /\ Hashes \subseteq Nat
    /\ GenesisHash \in Hashes
    /\ GenesisPrev \notin Hashes
    /\ GenesisPowHash \in PowHashes
    /\ CosiMembers \in Nat \ {0}
    /\ Founders \subseteq Nodes
    /\ Supervised \subseteq Nodes
    /\ Nil \notin Nodes
    /\ Nil \notin Hashes

VARIABLES
    up,             \* is the conode process running
    bucket,         \* BlockDB on disk: hash -> block
    latestBlockID,  \* BlockDB.latestBlockID
    blockIndexMap,  \* BlockDB.blockIndexMap: index -> hash
    creating,       \* conodes whose CreateGenesisBlock passed its check
    storing,        \* blocks whose handler passed the existence checks
    blockBuffer,    \* signed candidates
    timerRunning,
    deForkBlock,    \* the RefererBlock of this round, or Nil
    referring,      \* RefererBlock messages whose handler found no deForkBlock
    miner,          \* [starting, started, gens]: `go startMiner' calls, mining.Miner
    timers,         \* goroutines in startTimer
    hellos,         \* goroutines in startNewLeaderHelloBlock
    net,            \* messages in flight
    usedHashes,     \* hashes of NewLeaderHelloBlocks produced so far
    usedPow         \* hashes of mined blocks produced so far

dbVars    == <<bucket, latestBlockID, blockIndexMap, creating, storing>>
roundVars == <<blockBuffer, timerRunning, deForkBlock, referring, miner>>
vars      == <<up, dbVars, roundVars, timers, hellos, net, usedHashes, usedPow>>

-----------------------------------------------------------------------------
(***************************************************************************)
(* Genesis.  GetGenesisBlock is not in the repository at this commit; its  *)
(* callers need an index 0 block with an unsigned PoW block in it.         *)
(***************************************************************************)
GenesisPow == [hash |-> GenesisPowHash, publicKey |-> GenesisKey,
               prev |-> GenesisPrev, coll |-> <<>>]

GetGenesisBlock ==
    [hash |-> GenesisHash, index |-> 0, prev |-> GenesisPrev, publicKey |-> GenesisKey,
     block |-> [head |-> GenesisPow, order |-> {GenesisPow}]]

(***************************************************************************)
(* BlockDB.                                                                *)
(***************************************************************************)
\* GetByID: nil, or a Copy of what Unmarshal returns.
GetByID(n, h) == IF h \in DOMAIN bucket[n] THEN CopyHello(bucket[n][h]) ELSE Nil

GetLatest(n) == GetByID(n, latestBlockID[n])

GetBlockByIndex(n, i) ==
    IF i \in DOMAIN blockIndexMap[n] THEN GetByID(n, blockIndexMap[n][i]) ELSE Nil

\* Mutant: a defensive Copy is stored.
StoreCopy(n, b) == bucket' = [bucket EXCEPT ![n] = MapPut(@, b.hash, CopyHello(b))]

Store(n, b) == bucket' = [bucket EXCEPT ![n] = MapPut(@, b.hash, b)]

UpdateLatest(n, b) ==
    /\ latestBlockID' = [latestBlockID EXCEPT ![n] = b.hash]
    /\ blockIndexMap' = [blockIndexMap EXCEPT ![n] = MapPut(@, b.index, b.hash)]

\* Store followed by UpdateLatest, as every caller does.
StoreAndUpdateLatest(n, b) == Store(n, b) /\ UpdateLatest(n, b)

\* isLeader: the winner of the latest DeForkBlock is this node.
IsLeader(n) == GetLatest(n) # Nil /\ GetLatest(n).block.head.publicKey = n

\* The walk of isBFTMember: h is one of the last CosiMembers blocks.
AmongLatest(n, h) ==
    LET back[k \in 0..(CosiMembers - 1)] ==
            IF k = 0 THEN latestBlockID[n]
            ELSE IF back[k - 1] \in DOMAIN bucket[n] THEN bucket[n][back[k - 1]].prev
            ELSE Nil
    IN  \E k \in 0..(CosiMembers - 1) : back[k] = h

\* Mutant: the key is not compared.
AnyoneIsBFTMember(n) == latestBlockID[n] # Nil

\* isBFTMember: this node's key is on one of the last CosiMembers blocks.
IsBFTMember(n) ==
    \E h \in DOMAIN bucket[n] : bucket[n][h].publicKey = n /\ AmongLatest(n, h)

\* getLatestPublicKeyMap copies the latest block, which panics when that
\* copy meets a nil Collection.
LatestKeyMapPanics(n) == GetLatest(n) # Nil /\ CopyHelloPanics(GetLatest(n))

(***************************************************************************)
(* Network and goroutines.  SendRaw is reliable while the peer is up.      *)
(***************************************************************************)
BroadcastBlock(n, type, b) ==
    {[type |-> type, from |-> n, to |-> p, block |-> b] : p \in Peers[n]}

HasSlot(thr) == \E s \in DOMAIN thr : thr[s] = Nil

\* `go f(...)': occupy a free slot.
Spawn(thr, t) == [thr EXCEPT ![CHOOSE s \in DOMAIN thr : thr[s] = Nil] = t]

Exit(thr, s) == [thr EXCEPT ![s] = Nil]

Timer(n, pc, b) == [node |-> n, pc |-> pc, block |-> b]

Hello(n, pc, d, latest) == [node |-> n, pc |-> pc, deFork |-> d, latest |-> latest]

MinerIdle == [starting |-> {}, started |-> FALSE, gens |-> {}]

\* A nil dereference in any goroutine ends the process: memory is lost, the
\* bbolt file stays.
Panic(n) ==
    /\ up' = [up EXCEPT ![n] = FALSE]
    /\ latestBlockID' = [latestBlockID EXCEPT ![n] = Nil]
    /\ blockIndexMap' = [blockIndexMap EXCEPT ![n] = EmptyMap]
    /\ creating' = creating \ {n}
    /\ storing' = [storing EXCEPT ![n] = {}]
    /\ blockBuffer' = [blockBuffer EXCEPT ![n] = {}]
    /\ timerRunning' = [timerRunning EXCEPT ![n] = FALSE]
    /\ deForkBlock' = [deForkBlock EXCEPT ![n] = Nil]
    /\ referring' = {m \in referring : m.to # n}
    /\ miner' = [miner EXCEPT ![n] = MinerIdle]
    /\ timers' = [s \in TimerSlots |-> IF timers[s] # Nil /\ timers[s].node = n
                                       THEN Nil ELSE timers[s]]
    /\ hellos' = [s \in HelloSlots |-> IF hellos[s] # Nil /\ hellos[s].node = n
                                       THEN Nil ELSE hellos[s]]
    /\ UNCHANGED <<bucket, usedHashes, usedPow>>

-----------------------------------------------------------------------------
(***************************************************************************)
(* Mining.  AbstractMiner specifies this view of mining.Miner: Stop marks  *)
(* the running generators, a marked one may still report a last block.     *)
(***************************************************************************)
\* Mutant: the template does not take over the header.
TemplateWithoutHeader(b) == [publicKey |-> Nil, prev |-> b.hash]

\* Mutant: the template keeps the winner's PrevBlock.
TemplateOfSamePrev(b) ==
    [publicKey |-> b.block.head.publicKey, prev |-> b.block.head.prev]

\* startMiner: the template is the winner's header with a new PrevBlock.
Template(b) == [publicKey |-> b.block.head.publicKey,
                prev |-> CopyInto(b.block.head.prev, b.hash)]

\* Mutant: Start does not look at started.
StartMinerUnchecked(n, tmpl) ==
    /\ tmpl \in miner[n].starting
    /\ miner' = [miner EXCEPT
            ![n].starting = @ \ {tmpl},
            ![n].started = TRUE,
            ![n].gens = @ \cup {[tmpl |-> tmpl, quit |-> FALSE]}]
    /\ UNCHANGED <<up, dbVars, blockBuffer, timerRunning, deForkBlock, referring, timers, hellos,
                   net, usedHashes, usedPow>>

\* The startMiner goroutine reaches Miner.Start: nothing to do when already
\* started.
StartMiner(n, tmpl) ==
    /\ tmpl \in miner[n].starting
    /\ miner' = [miner EXCEPT
            ![n].starting = @ \ {tmpl},
            ![n].started = TRUE,
            ![n].gens = IF miner[n].started THEN @ ELSE @ \cup {[tmpl |-> tmpl, quit |-> FALSE]}]
    /\ UNCHANGED <<up, dbVars, blockBuffer, timerRunning, deForkBlock, referring, timers, hellos,
                   net, usedHashes, usedPow>>

\* Miner.Stop: nothing to do when not started.
StopMiner(n) ==
    IF miner[n].started
    THEN [miner EXCEPT ![n].started = FALSE,
                       ![n].gens = {[g EXCEPT !.quit = TRUE] : g \in @}]
    ELSE miner

\* solveBlock finds a nonce and minerCallback broadcasts the candidate.
Solve(n, g) ==
    /\ g \in miner[n].gens
    /\ \E h \in PowHashes \ usedPow :
         /\ usedPow' = usedPow \cup {h}
         /\ net' = net \cup BroadcastBlock(n, "Candidate",
                [hash |-> h, publicKey |-> g.tmpl.publicKey, prev |-> g.tmpl.prev, coll |-> <<>>])
    /\ miner' = [miner EXCEPT ![n].gens = @ \ {g}]
    /\ UNCHANGED <<up, dbVars, blockBuffer, timerRunning, deForkBlock, referring, timers, hellos,
                   usedHashes>>

\* A generator sees its quit channel closed.
QuitMining(n, g) ==
    /\ g \in miner[n].gens
    /\ g.quit
    /\ miner' = [miner EXCEPT ![n].gens = @ \ {g}]
    /\ UNCHANGED <<up, dbVars, blockBuffer, timerRunning, deForkBlock, referring, timers, hellos,
                   net, usedHashes, usedPow>>

-----------------------------------------------------------------------------
(***************************************************************************)
(* Requests and messages.                                                  *)
(***************************************************************************)
\* CreateGenesisBlock, up to the check.  It holds createBlockChainMutex, which a
\* NewLeaderHelloBlock handler does not take: one may store a block meanwhile.
CreateGenesisBlock(n) ==
    /\ up[n]
    /\ n \notin creating
    /\ GetLatest(n) = Nil
    /\ creating' = creating \cup {n}
    /\ UNCHANGED <<up, bucket, latestBlockID, blockIndexMap, storing, roundVars, timers, hellos,
                   net, usedHashes, usedPow>>

\* CreateGenesisBlock, after the check: store, broadcast, start the timer.
StoreGenesisBlock(n) ==
    /\ n \in creating
    /\ HasSlot(timers)
    /\ StoreAndUpdateLatest(n, GetGenesisBlock)
    /\ creating' = creating \ {n}
    /\ net' = net \cup BroadcastBlock(n, "Hello", GetGenesisBlock)
    /\ timers' = Spawn(timers, Timer(n, "begin", GetGenesisBlock))
    /\ UNCHANGED <<up, storing, roundVars, hellos, usedHashes, usedPow>>

Receive(m, type) ==
    /\ m \in net
    /\ m.type = type
    /\ up[m.to]

\* Mutant: the candidate is signed before it is copied.
HandleCandidateBlockSignFirst(m) ==
    LET n == m.to
        signed == CopyBlock([m.block EXCEPT !.coll = Sign(@, n)])
    IN
    /\ Receive(m, "Candidate")
    /\ IF timerRunning[n] /\ ~BufferHas(blockBuffer[n], m.block.hash)
       THEN /\ blockBuffer' = [blockBuffer EXCEPT ![n] = BufferPut(@, signed)]
            /\ net' = (net \ {m}) \cup BroadcastBlock(n, "Candidate", m.block)
       ELSE /\ net' = net \ {m}
            /\ UNCHANGED blockBuffer
    /\ UNCHANGED <<up, dbVars, timerRunning, deForkBlock, referring, miner, timers, hellos,
                   usedHashes, usedPow>>

\* CandidateBlock: dropped unless the timer runs and the block is new; then
\* a signed copy is buffered and the unsigned block relayed.
HandleCandidateBlock(m) ==
    LET n == m.to
        signed == [CopyBlock(m.block) EXCEPT !.coll = Sign(@, n)]
    IN
    /\ Receive(m, "Candidate")
    /\ IF timerRunning[n] /\ ~BufferHas(blockBuffer[n], m.block.hash)
       THEN /\ blockBuffer' = [blockBuffer EXCEPT ![n] = BufferPut(@, signed)]
            /\ net' = (net \ {m}) \cup BroadcastBlock(n, "Candidate", m.block)
       ELSE /\ net' = net \ {m}
            /\ UNCHANGED blockBuffer
    /\ UNCHANGED <<up, dbVars, timerRunning, deForkBlock, referring, miner, timers, hellos,
                   usedHashes, usedPow>>

\* RefererBlock, up to the test of deForkBlock: Hash is never set, so any
\* DeForkBlock equals the one already held.  No lock is held: several handlers
\* may find none.
HandleRefererBlock(m) ==
    /\ Receive(m, "Referer")
    /\ referring' = IF deForkBlock[m.to] = Nil THEN referring \cup {m} ELSE referring
    /\ net' = net \ {m}
    /\ UNCHANGED <<up, dbVars, blockBuffer, timerRunning, deForkBlock, miner, timers, hellos,
                   usedHashes, usedPow>>

\* calcDelta past its underflowing index: PrivateClock.Clock locks its mutex
\* twice and never returns.
CalcDeltaHangs(n) ==
    /\ GetLatest(n).index >= CosiMembers
    /\ GetLatest(n).index - CosiMembers \in DOMAIN blockIndexMap[n]

\* RefererBlock, after the test: calcDelta, then the block is recorded, relayed
\* and, by the leader, published.
RecordRefererBlock(m) ==
    LET n == m.to IN
    /\ m \in referring
    /\ GetLatest(n) # Nil
    /\ ~CalcDeltaHangs(n)
    /\ deForkBlock' = [deForkBlock EXCEPT ![n] = m.block]
    /\ referring' = referring \ {m}
    /\ net' = net \cup BroadcastBlock(n, "Referer", m.block)
    /\ IF IsLeader(n)
       THEN /\ HasSlot(hellos)
            /\ hellos' = Spawn(hellos, Hello(n, "begin", m.block, Nil))
       ELSE UNCHANGED hellos
    /\ UNCHANGED <<up, dbVars, blockBuffer, timerRunning, miner, timers, usedHashes, usedPow>>

\* calcDelta dereferences the latest block.
RefererBlockPanics(m) ==
    /\ m \in referring
    /\ GetLatest(m.to) = Nil
    /\ Panic(m.to)
    /\ UNCHANGED net

RefererBlockHangs(m) ==
    /\ m \in referring
    /\ GetLatest(m.to) # Nil
    /\ CalcDeltaHangs(m.to)
    /\ referring' = referring \ {m}
    /\ UNCHANGED <<up, dbVars, blockBuffer, timerRunning, deForkBlock, miner, timers, hellos,
                   net, usedHashes, usedPow>>

\* NewLeaderHelloBlock, up to the two existence checks.
HandleNewLeaderHelloBlock(m) ==
    LET n == m.to
        exists == GetByID(n, m.block.hash) # Nil \/ GetBlockByIndex(n, m.block.index) # Nil
    IN
    /\ Receive(m, "Hello")
    /\ deForkBlock' = [deForkBlock EXCEPT ![n] = Nil]
    /\ storing' = IF exists THEN storing ELSE [storing EXCEPT ![n] = @ \cup {m.block}]
    /\ net' = net \ {m}
    /\ UNCHANGED <<up, bucket, latestBlockID, blockIndexMap, creating, blockBuffer, timerRunning,
                   referring, miner, timers, hellos, usedHashes, usedPow>>

\* NewLeaderHelloBlock, after the checks: store, relay, start the timer.
StoreNewLeaderHelloBlock(n, b) ==
    /\ b \in storing[n]
    /\ HasSlot(timers)
    /\ StoreAndUpdateLatest(n, b)
    /\ storing' = [storing EXCEPT ![n] = @ \ {b}]
    /\ net' = net \cup BroadcastBlock(n, "Hello", b)
    /\ timers' = Spawn(timers, Timer(n, "begin", b))
    /\ UNCHANGED <<up, creating, roundVars, hellos, usedHashes, usedPow>>

\* ProxyRequest at a gateway: getLatestPublicKeyMap runs first; proxyStorage
\* is empty (see bftMemberGroup below), so nothing is forwarded.
HandleProxyRequest(m) ==
    /\ Receive(m, "Proxy")
    /\ net' = net \ {m}
    /\ IF LatestKeyMapPanics(m.to)
       THEN Panic(m.to)
       ELSE UNCHANGED <<up, dbVars, roundVars, timers, hellos, usedHashes, usedPow>>

\* SendRaw fails, or the connection breaks, while the receiver is down.
Lose(m) ==
    /\ m \in net
    /\ ~up[m.to]
    /\ net' = net \ {m}
    /\ UNCHANGED <<up, dbVars, roundVars, timers, hellos, usedHashes, usedPow>>

-----------------------------------------------------------------------------
(***************************************************************************)
(* startTimer(block).  Its goroutine bftMemberGroup changes nothing: it    *)
(* skips every address that parses (`if err == nil ... continue') and its  *)
(* clean-up finds proxyStorage empty, since only a TunnelMessage fills it  *)
(* and only the skipped code sends one.                                    *)
(***************************************************************************)
\* Up to the test of timerRunning.
TimerBegin(s) ==
    LET t == timers[s] IN
    /\ t # Nil /\ t.pc = "begin"
    /\ miner' = [miner EXCEPT ![t.node].starting = @ \cup {Template(t.block)}]
    /\ timers' = IF IsBFTMember(t.node) /\ ~timerRunning[t.node]
                 THEN [timers EXCEPT ![s].pc = "arm"]
                 ELSE Exit(timers, s)
    /\ UNCHANGED <<up, dbVars, blockBuffer, timerRunning, deForkBlock, referring, hellos, net,
                   usedHashes, usedPow>>

\* timerRunning = true, not atomic with the test.
TimerArm(s) ==
    LET t == timers[s] IN
    /\ t # Nil /\ t.pc = "arm"
    /\ timerRunning' = [timerRunning EXCEPT ![t.node] = TRUE]
    /\ timers' = [timers EXCEPT ![s].pc = "running"]
    /\ UNCHANGED <<up, dbVars, blockBuffer, deForkBlock, referring, miner, hellos, net,
                   usedHashes, usedPow>>

\* The 60 seconds are over.
TimerExpire(s) ==
    LET t == timers[s] IN
    /\ t # Nil /\ t.pc = "running"
    /\ miner' = StopMiner(t.node)
    /\ timerRunning' = [timerRunning EXCEPT ![t.node] = FALSE]
    /\ timers' = IF IsBFTMember(t.node)
                 THEN [timers EXCEPT ![s].pc = "announce"]
                 ELSE Exit(timers, s)
    /\ UNCHANGED <<up, dbVars, blockBuffer, deForkBlock, referring, hellos, net, usedHashes,
                   usedPow>>

\* Mutant: no new timer when there are no candidates.
TimerAnnounceOnce(s) ==
    LET t == timers[s] IN
    /\ t # Nil /\ t.pc = "announce"
    /\ timers' = IF IsLeader(t.node) THEN [timers EXCEPT ![s].pc = "defork"] ELSE Exit(timers, s)
    /\ UNCHANGED <<up, dbVars, roundVars, hellos, net, usedHashes, usedPow>>

\* The member's announcement: nothing without a gateway, a new timer without
\* candidates, else a ProxyRequest to every gateway.  A leader then waits.
TimerAnnounce(s) ==
    LET t     == timers[s]
        n     == t.node
        after == IF IsLeader(n) THEN [timers EXCEPT ![s].pc = "defork"] ELSE Exit(timers, s)
        again == Addresses # {} /\ blockBuffer[n] = {}
    IN
    /\ t # Nil /\ t.pc = "announce"
    /\ again => HasSlot(after)
    /\ timers' = IF again THEN Spawn(after, Timer(n, "begin", t.block)) ELSE after
    /\ net' = IF blockBuffer[n] = {} THEN net
              ELSE net \cup {[type |-> "Proxy", from |-> n, to |-> a, blocks |-> blockBuffer[n]] :
                             a \in Addresses}
    /\ UNCHANGED <<up, dbVars, roundVars, hellos, usedHashes, usedPow>>

\* COSI_MEMBERS or the height of the chain, whichever is smaller.
MemberLen(n) ==
    IF GetLatest(n).index < CosiMembers THEN GetLatest(n).index ELSE CosiMembers

\* The leader's 30 seconds are over: de-fork the candidates with enough
\* collections, in map order, or give up.
DeFork(s) ==
    LET t == timers[s]
        n == t.node
        blocks == IF GetLatest(n) = Nil THEN {} ELSE HalfMore(blockBuffer[n], MemberLen(n))
    IN
    /\ t # Nil /\ t.pc = "defork"
    /\ timers' = Exit(timers, s)
    /\ IF blocks = {}
       THEN UNCHANGED <<net, hellos>>
       ELSE \E head \in blocks :
              LET d == [head |-> head, order |-> blocks] IN
              /\ HasSlot(hellos)
              /\ net' = net \cup BroadcastBlock(n, "Referer", d)
              /\ hellos' = Spawn(hellos, Hello(n, "begin", d, Nil))
    /\ UNCHANGED <<up, dbVars, roundVars, usedHashes, usedPow>>

-----------------------------------------------------------------------------
(***************************************************************************)
(* startNewLeaderHelloBlock(block).                                        *)
(***************************************************************************)
\* Mutant: the test of the winner's key is inverted.
HelloBeginInverted(s) ==
    LET t == hellos[s] IN
    /\ t # Nil /\ t.pc = "begin"
    /\ hellos' = IF t.deFork.head.publicKey # t.node /\ GetLatest(t.node) # Nil
                 THEN [hellos EXCEPT ![s] = Hello(t.node, "wait", t.deFork, GetLatest(t.node))]
                 ELSE Exit(hellos, s)
    /\ UNCHANGED <<up, dbVars, roundVars, timers, net, usedHashes, usedPow>>

\* The winner reads the latest block, then waits 30 seconds.
HelloBegin(s) ==
    LET t == hellos[s] IN
    /\ t # Nil /\ t.pc = "begin"
    /\ hellos' = IF t.deFork.head.publicKey = t.node /\ GetLatest(t.node) # Nil
                 THEN [hellos EXCEPT ![s] = Hello(t.node, "wait", t.deFork, GetLatest(t.node))]
                 ELSE Exit(hellos, s)
    /\ UNCHANGED <<up, dbVars, roundVars, timers, net, usedHashes, usedPow>>

\* After the wait: extend a copy of the block read before it.
HelloPublish(s) ==
    LET t == hellos[s]
        n == t.node
    IN
    /\ t # Nil /\ t.pc = "wait"
    /\ ~CopyHelloPanics(t.latest)
    /\ HasSlot(timers)
    /\ \E h \in Hashes \ usedHashes :
         LET b == [hash |-> h, index |-> t.latest.index + 1,
                   prev |-> CopyInto(t.latest.prev, t.latest.hash),
                   publicKey |-> t.deFork.head.publicKey, block |-> t.deFork]
         IN  /\ usedHashes' = usedHashes \cup {h}
             /\ StoreAndUpdateLatest(n, b)
             /\ net' = net \cup BroadcastBlock(n, "Hello", b)
             /\ timers' = Spawn(timers, Timer(n, "begin", b))
    /\ hellos' = Exit(hellos, s)
    /\ UNCHANGED <<up, creating, storing, roundVars, usedPow>>

HelloPanics(s) ==
    LET t == hellos[s] IN
    /\ t # Nil /\ t.pc = "wait"
    /\ CopyHelloPanics(t.latest)
    /\ Panic(t.node)
    /\ UNCHANGED net

-----------------------------------------------------------------------------
\* The process is killed.
Crash(n) ==
    /\ up[n]
    /\ Panic(n)
    /\ UNCHANGED net

\* Mutant: newService does not call BuildIndex.
RestartWithoutIndex(n) ==
    /\ ~up[n]
    /\ up' = [up EXCEPT ![n] = TRUE]
    /\ UNCHANGED <<dbVars, roundVars, timers, hellos, net, usedHashes, usedPow>>

\* ForEach visits the bucket in key order and ends with the greatest hash.
IsLast(h, S) == h \in S /\ \A g \in S : g <= h

\* run_nodes.sh starts the process again; newService builds the index in
\* bucket order, so the block with the greatest hash becomes the latest.
\* Nothing starts a timer.
Restart(n) ==
    LET stored == DOMAIN bucket[n]
        indexes == {bucket[n][h].index : h \in stored}
    IN
    /\ ~up[n]
    /\ up' = [up EXCEPT ![n] = TRUE]
    /\ \E latest \in stored \cup {Nil} :
         /\ stored # {} => IsLast(latest, stored)
         /\ latestBlockID' = [latestBlockID EXCEPT ![n] = latest]
    /\ \E map \in [indexes -> stored] :
         /\ \A i \in indexes : IsLast(map[i], {h \in stored : bucket[n][h].index = i})
         /\ blockIndexMap' = [blockIndexMap EXCEPT ![n] = map]
    /\ UNCHANGED <<bucket, creating, storing, roundVars, timers, hellos, net, usedHashes, usedPow>>

Init ==
    /\ up = [n \in Nodes |-> TRUE]
    /\ bucket = [n \in Nodes |-> EmptyMap]
    /\ latestBlockID = [n \in Nodes |-> Nil]
    /\ blockIndexMap = [n \in Nodes |-> EmptyMap]
    /\ creating = {}
    /\ storing = [n \in Nodes |-> {}]
    /\ blockBuffer = [n \in Nodes |-> {}]
    /\ timerRunning = [n \in Nodes |-> FALSE]
    /\ deForkBlock = [n \in Nodes |-> Nil]
    /\ referring = {}
    /\ miner = [n \in Nodes |-> MinerIdle]
    /\ timers = [s \in TimerSlots |-> Nil]
    /\ hellos = [s \in HelloSlots |-> Nil]
    /\ net = {}
    /\ usedHashes = {GenesisHash}
    /\ usedPow = {GenesisPowHash}

TimerStep(s) ==
    TimerBegin(s) \/ TimerArm(s) \/ TimerExpire(s) \/ TimerAnnounce(s) \/ DeFork(s)

HelloStep(s) == HelloBegin(s) \/ HelloPublish(s) \/ HelloPanics(s)

RefererStep(m) == RecordRefererBlock(m) \/ RefererBlockPanics(m) \/ RefererBlockHangs(m)

HandleMessage(m) ==
    \/ HandleCandidateBlock(m)
    \/ HandleRefererBlock(m)
    \/ HandleNewLeaderHelloBlock(m)
    \/ HandleProxyRequest(m)
    \/ Lose(m)

Next ==
    \/ \E n \in Founders : CreateGenesisBlock(n)
    \/ \E n \in creating : StoreGenesisBlock(n)
    \/ \E n \in Nodes : \E b \in storing[n] : StoreNewLeaderHelloBlock(n, b)
    \/ \E n \in Nodes : \E tmpl \in miner[n].starting : StartMiner(n, tmpl)
    \/ \E n \in Nodes : \E g \in miner[n].gens : Solve(n, g) \/ QuitMining(n, g)
    \/ \E m \in net : HandleMessage(m)
    \/ \E m \in referring : RefererStep(m)
    \/ \E s \in TimerSlots : TimerStep(s)
    \/ \E s \in HelloSlots : HelloStep(s)
    \/ \E n \in Supervised : Crash(n) \/ Restart(n)

Spec == Init /\ [][Next]_vars

\* Goroutines keep running and timers fire; nothing obliges a client to ask
\* for a genesis block, a miner to find a nonce or an operator to restart.
Fairness ==
    /\ \A s \in TimerSlots : WF_vars(TimerStep(s))
    /\ \A s \in HelloSlots : WF_vars(HelloStep(s))
    /\ \A n \in Nodes : WF_vars(\E b \in storing[n] : StoreNewLeaderHelloBlock(n, b))
    /\ \A n \in Nodes : WF_vars(\E m \in referring : m.to = n /\ RefererStep(m))
    /\ \A n \in Nodes : WF_vars(StoreGenesisBlock(n))
    /\ \A n \in Nodes : WF_vars(\E m \in net : m.to = n /\ HandleMessage(m))

FairSpec == Spec /\ Fairness

-----------------------------------------------------------------------------
(***************************************************************************)
(* Types.                                                                  *)
(***************************************************************************)
Prev == Hashes \cup {Nil, GenesisPrev}

PowBlock == [hash : PowHashes, publicKey : Nodes, prev : Prev, coll : Seq(Nodes \cup {Nil})]

DeForkBlock == [head : PowBlock, order : SUBSET PowBlock]

HelloBlock ==
    [hash : Hashes, index : Nat, prev : Prev, publicKey : Nodes, block : DeForkBlock]

MinerTemplate == [publicKey : Nodes, prev : Prev]

Miner ==
    [starting : SUBSET MinerTemplate, started : BOOLEAN,
     gens : SUBSET [tmpl : MinerTemplate, quit : BOOLEAN]]

TimerThread ==
    [node : Nodes, pc : {"begin", "arm", "running", "announce", "defork"}, block : HelloBlock]

HelloThread ==
    [node : Nodes, pc : {"begin", "wait"}, deFork : DeForkBlock, latest : HelloBlock \cup {Nil}]

Message ==
    [type : {"Candidate"}, from : Nodes, to : Nodes, block : PowBlock] \cup
    [type : {"Referer"}, from : Nodes, to : Nodes, block : DeForkBlock] \cup
    [type : {"Hello"}, from : Nodes, to : Nodes, block : HelloBlock] \cup
    [type : {"Proxy"}, from : Nodes, to : Nodes, blocks : SUBSET PowBlock]

IsMap(f, K, V) ==
    /\ f = [k \in DOMAIN f |-> f[k]]
    /\ DOMAIN f \subseteq K
    /\ \A k \in DOMAIN f : f[k] \in V

\* Every variable holds what its Go declaration allows, and a block is filed
\* under its own hash.
TypeOK ==
    /\ up \in [Nodes -> BOOLEAN]
    /\ bucket = [n \in Nodes |-> bucket[n]]
    /\ \A n \in Nodes : IsMap(bucket[n], Hashes, HelloBlock)
    /\ \A n \in Nodes : \A h \in DOMAIN bucket[n] : bucket[n][h].hash = h
    /\ latestBlockID \in [Nodes -> Hashes \cup {Nil}]
    /\ blockIndexMap = [n \in Nodes |-> blockIndexMap[n]]
    /\ \A n \in Nodes : IsMap(blockIndexMap[n], Nat, Hashes)
    /\ creating \subseteq Nodes
    /\ storing \in [Nodes -> SUBSET HelloBlock]
    /\ blockBuffer \in [Nodes -> SUBSET PowBlock]
    /\ timerRunning \in [Nodes -> BOOLEAN]
    /\ deForkBlock \in [Nodes -> DeForkBlock \cup {Nil}]
    /\ referring \subseteq Message
    /\ miner \in [Nodes -> Miner]
    /\ timers \in [TimerSlots -> TimerThread \cup {Nil}]
    /\ hellos \in [HelloSlots -> HelloThread \cup {Nil}]
    /\ net \subseteq Message
    /\ usedHashes \subseteq Hashes
    /\ usedPow \subseteq PowHashes

-----------------------------------------------------------------------------
(***************************************************************************)
(* What holds.                                                             *)
(***************************************************************************)
\* startMiner copies the winner's header, PublicKey included, into the next
\* template, so every block ever mined carries the key of the genesis block:
\* no other node is ever a BFT member, a leader or the owner of a candidate
\* buffer, however many candidates it mines.
OnlyGenesisLeads ==
    \A n \in Nodes :
        IsLeader(n) \/ IsBFTMember(n) \/ timerRunning[n] \/ blockBuffer[n] # {}
            => n = GenesisKey

\* Block.Copy leaves a nil entry for each collection; a block of height 1
\* holds signed candidates, so startNewLeaderHelloBlock panics on the copy of
\* a copy (GetLatest copies once) and no node ever stores a block of height 2.
ChainStopsAtOne ==
    \A n \in Nodes : \A h \in DOMAIN bucket[n] : bucket[n][h].index <= 1

\* The candidates a block of height 1 was elected from carry the leader's
\* signature and no other: the quorum of the round is the leader alone.
LeaderIsTheQuorum ==
    \A n \in Nodes : \A h \in DOMAIN bucket[n] :
        bucket[n][h].index > 0 =>
            \A b \in bucket[n][h].block.order : b.coll = <<GenesisKey>>

\* latestBlockID and blockIndexMap point at stored blocks of the right height
\* across races, panics and restarts, and a running node that has stored a
\* block has a latest one, so CreateGenesisBlock refuses it a second chain.
IndexMatchesBucket ==
    \A n \in Nodes :
        /\ \A i \in DOMAIN blockIndexMap[n] :
              /\ blockIndexMap[n][i] \in DOMAIN bucket[n]
              /\ bucket[n][blockIndexMap[n][i]].index = i
        /\ latestBlockID[n] # Nil =>
              /\ latestBlockID[n] \in DOMAIN bucket[n]
              /\ bucket[n][latestBlockID[n]].index \in DOMAIN blockIndexMap[n]
        /\ up[n] /\ DOMAIN bucket[n] # {} => latestBlockID[n] # Nil

OnDisk(n) == {bucket[n][h] : h \in DOMAIN bucket[n]}

\* The NewLeaderHelloBlocks that are stored, about to be, or on their way.
HelloBlocks ==
    (UNION {OnDisk(n) \cup storing[n] : n \in Nodes}) \cup
    {m.block : m \in {msg \in net : msg.type = "Hello"}}

\* A hash names one block, on all nodes and on the way between them.  Its hash
\* covers neither a block's candidates nor their collections, and every read of
\* the database returns a copy that differs in them, so this rests on the fresh
\* timestamp of a new block and on no copy being relayed, stored or published.
HashNamesOneBlock ==
    \A b, c \in HelloBlocks : b.hash = c.hash => b = c

RoundLedger == INSTANCE Ledger WITH
    Leader <- GenesisKey, Genesis <- GetGenesisBlock, stored <- [n \in Nodes |-> OnDisk(n)]

\* What a block goes through between two disks (copies, relays, handlers that pass
\* each other's checks, panics, restarts, lost messages) does not show: disks only
\* gain blocks, and gain nothing that the leader, or a founder, did not put on its
\* own disk first.
ImplementsLedger == RoundLedger!LSpec

\* A candidate a block was elected from was mined on the block it extends or,
\* at worst, on a rival: another block of the same height that the leader had
\* stored.  Nothing clears the buffer and a BlockMessage may carry candidates of
\* any age, so what keeps a block from being elected out of its own descendants,
\* or out of work on a block the leader never had, is where templates come from
\* and the copies between them.  The rival is real: see MCRoundCrash.
CandidatesComeFromTheChain ==
    \A n \in Nodes : \A b \in OnDisk(n) : b.index > 0 =>
        \A c \in b.block.order :
            \/ c.prev = b.prev
            \/ \E d \in OnDisk(GenesisKey) : d # b /\ d.index = b.index /\ c.prev = d.hash

\* A node that is not a BFT member never reaches stopMiner, so its Miner stays
\* started: once it has reported its block it never mines again while the
\* process lives, whatever new blocks arrive.
IdleMinerStaysIdle ==
    [][\A n \in Nodes \ {GenesisKey} :
          up[n] /\ up'[n] /\ miner[n].started /\ miner[n].gens = {}
            => miner'[n].started /\ miner'[n].gens = {}]_vars

\* While the leader knows only the genesis block and has no candidate, its
\* timer runs again and again ("No candidate blocks: reset again").
RoundPersists ==
    (up[GenesisKey] /\ DOMAIN bucket[GenesisKey] = {GenesisHash} /\ blockBuffer[GenesisKey] = {})
        ~> (timerRunning[GenesisKey] \/ blockBuffer[GenesisKey] # {} \/ ~up[GenesisKey])

\* An election is never lost: once the leader has a DeForkBlock to publish,
\* it stores a block of height 1, or its process ends.
ElectionPublishes ==
    (\E s \in HelloSlots : hellos[s] # Nil /\ hellos[s].node = GenesisKey)
        ~> (1 \in DOMAIN blockIndexMap[GenesisKey] \/ ~up[GenesisKey])

(***************************************************************************)
(* What the repository says and the code does not do.                      *)
(***************************************************************************)
\* README.md: the candidates of an epoch are "deterministically de-forked";
\* all conodes have one block at each height.
OneBlockPerHeight ==
    \A n, p \in Nodes : \A h \in DOMAIN bucket[n], g \in DOMAIN bucket[p] :
        bucket[n][h].index = bucket[p][g].index => h = g

\* service.go, when the de-fork finds no block with enough collections: "No
\* candidate blocks: reset again".
DeForkResets ==
    (\E s \in TimerSlots :
        /\ timers[s] # Nil /\ timers[s].node = GenesisKey /\ timers[s].pc = "defork"
        /\ HalfMore(blockBuffer[GenesisKey], MemberLen(GenesisKey)) = {})
        ~> (timerRunning[GenesisKey] \/ ~up[GenesisKey])

\* struct.go: "GetLatest searches for the latest available block".
LatestIsHighest ==
    \A n \in Nodes : \A h \in DOMAIN bucket[n] :
        up[n] => bucket[n][h].index <= GetLatest(n).index
=============================================================================
