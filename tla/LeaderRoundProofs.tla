------------------------- MODULE LeaderRoundProofs -------------------------
(***************************************************************************)
(* Proofs about LeaderRound, for any network, any gateways, any bounds and *)
(* any number of crashes.  All results rest on one inductive invariant     *)
(* which types every block in memory, on disk and in flight by its stage   *)
(* of the round: mined, signed by the leader, elected, chained.            *)
(***************************************************************************)
EXTENDS LeaderRound, SequenceTheorems, TLAPS

\* A candidate as its miner broadcasts it (and the genesis PoW block).
MinedBlock == [hash : PowHashes, publicKey : {GenesisKey}, prev : Prev, coll : {<<>>}]

\* A candidate in the leader's buffer.
SignedBlock == [hash : PowHashes, publicKey : {GenesisKey}, prev : Prev, coll : {<<GenesisKey>>}]

\* A RefererBlock: never empty, and of signed candidates.
Elected == {d \in [head : SignedBlock, order : SUBSET SignedBlock] : d.head \in d.order}

\* A stored or broadcast NewLeaderHelloBlock.
ChainBlock ==
    {GetGenesisBlock} \cup
    [hash : Hashes \ {GenesisHash}, index : {1}, prev : Prev, publicKey : {GenesisKey},
     block : Elected]

\* What GetLatest returns: a copy that cannot be copied again unless genesis.
LatestCopy == {hb \in HelloBlock : hb.index = 0 \/ (hb.index = 1 /\ CopyHelloPanics(hb))}

DbInv ==
    /\ up \in [Nodes -> BOOLEAN]
    /\ bucket = [n \in Nodes |-> bucket[n]]
    /\ \A n \in Nodes : IsMap(bucket[n], Hashes, ChainBlock)
    /\ \A n \in Nodes : \A h \in DOMAIN bucket[n] : bucket[n][h].hash = h
    /\ latestBlockID \in [Nodes -> Hashes \cup {Nil}]
    /\ blockIndexMap = [n \in Nodes |-> blockIndexMap[n]]
    /\ \A n \in Nodes : IsMap(blockIndexMap[n], Nat, Hashes)
    /\ creating \subseteq Founders
    /\ storing \in [Nodes -> SUBSET ChainBlock]

LeaderTemplate == [publicKey : {GenesisKey}, prev : Prev]

LeaderMiner ==
    [starting : SUBSET LeaderTemplate, started : BOOLEAN,
     gens : SUBSET [tmpl : LeaderTemplate, quit : BOOLEAN]]

\* A RefererBlock, on its way or in the hands of its handler.
RoundReferer == [type : {"Referer"}, from : Nodes, to : Nodes, block : Elected]

RoundInv ==
    /\ blockBuffer \in [Nodes -> SUBSET SignedBlock]
    /\ timerRunning \in [Nodes -> BOOLEAN]
    /\ \A n \in Nodes : timerRunning[n] \/ blockBuffer[n] # {} => n = GenesisKey
    /\ deForkBlock \in [Nodes -> Elected \cup {Nil}]
    /\ referring \subseteq RoundReferer
    /\ miner \in [Nodes -> LeaderMiner]

RoundTimer ==
    [node : Nodes, pc : {"begin"}, block : ChainBlock] \cup
    [node : {GenesisKey}, pc : {"arm", "running", "announce", "defork"}, block : ChainBlock]

RoundHello ==
    [node : Nodes, pc : {"begin"}, deFork : Elected, latest : {Nil}] \cup
    [node : Nodes, pc : {"wait"}, deFork : Elected, latest : LatestCopy]

ThreadInv ==
    /\ timers \in [TimerSlots -> RoundTimer \cup {Nil}]
    /\ hellos \in [HelloSlots -> RoundHello \cup {Nil}]

RoundMessage ==
    [type : {"Candidate"}, from : Nodes, to : Nodes, block : MinedBlock] \cup
    RoundReferer \cup
    [type : {"Hello"}, from : Nodes, to : Nodes, block : ChainBlock] \cup
    [type : {"Proxy"}, from : Nodes, to : Nodes, blocks : SUBSET SignedBlock]

NetInv ==
    /\ net \subseteq RoundMessage
    /\ usedHashes \subseteq Hashes
    /\ GenesisHash \in usedHashes
    /\ usedPow \subseteq PowHashes

RoundIInv == DbInv /\ RoundInv /\ ThreadInv /\ NetInv

-----------------------------------------------------------------------------
(***************************************************************************)
(* Blocks and their copies.                                                *)
(***************************************************************************)
\* The copy of an unsigned block is the block: Copy of the candidate adds no
\* nil entry.
LEMMA CopyUnsigned ==
    ASSUME NEW b \in MinedBlock
    PROVE  CopyBlock(b) = b
  <1>1. b.coll = <<>>
    BY DEF MinedBlock
  <1>2. CopyCollections(<<>>) = <<>>
    BY DEF CopyCollections
  <1> QED
    BY <1>1, <1>2 DEF CopyBlock, MinedBlock

\* The leader's signature on a candidate is its only collection.
LEMMA SignOnce ==
    ASSUME NEW b \in MinedBlock
    PROVE  [CopyBlock(b) EXCEPT !.coll = Sign(@, GenesisKey)] \in SignedBlock
  <1>1. Sign(<<>>, GenesisKey) = <<GenesisKey>>
    BY DEF Sign
  <1>2. CopyBlock(b) = b
    BY CopyUnsigned
  <1> QED
    BY <1>1, <1>2 DEF MinedBlock, SignedBlock

\* The copy of a signed block has a nil collection in front of the signature.
LEMMA CopySigned ==
    ASSUME NEW b \in SignedBlock
    PROVE  CopyBlock(b) \in PowBlock /\ CopyPanics(CopyBlock(b).coll)
  <1>1. b.coll = <<GenesisKey>>
    BY DEF SignedBlock
  <1> DEFINE c == CopyCollections(<<GenesisKey>>)
  <1>2. c = [i \in 1..2 |-> IF i <= 1 THEN Nil ELSE <<GenesisKey>>[i - 1]]
    BY DEF CopyCollections
  <1>3. c \in [1..2 -> Nodes \cup {Nil}] /\ c[1] = Nil
    BY <1>2, ConstantsAssumption
  <1>4. c \in Seq(Nodes \cup {Nil}) /\ CopyPanics(c)
    <2>1. 1 \in DOMAIN c
      BY <1>3
    <2>2. c \in Seq(Nodes \cup {Nil})
      <3> HIDE DEF c
      <3>1. c \in UNION {[1..k -> Nodes \cup {Nil}] : k \in Nat}
        BY <1>3
      <3> QED
        BY <3>1, SeqDef
    <2> QED
      BY <1>3, <2>1, <2>2 DEF CopyPanics
  <1>5. CopyBlock(b) = [b EXCEPT !.coll = c]
    BY <1>1 DEF CopyBlock
  <1> HIDE DEF c
  <1> QED
    BY <1>4, <1>5, ConstantsAssumption DEF SignedBlock, PowBlock

\* Its copy is the genesis block itself.
LEMMA CopyGenesis == GenesisPow \in MinedBlock /\ CopyHello(GetGenesisBlock) = GetGenesisBlock
  <1>1. GenesisPow \in MinedBlock
    BY ConstantsAssumption DEF GenesisPow, MinedBlock, Prev
  <1>2. CopyDeFork(GetGenesisBlock.block) = GetGenesisBlock.block
    BY <1>1, CopyUnsigned DEF GetGenesisBlock, CopyDeFork
  <1> QED
    BY <1>1, <1>2 DEF GetGenesisBlock, CopyHello

\* What GetByID returns of a chained block can be copied again only when it is
\* the genesis block.
LEMMA CopyChained ==
    ASSUME NEW b \in ChainBlock
    PROVE  /\ CopyHello(b) \in LatestCopy
           /\ CopyHello(b).block.head.publicKey = GenesisKey
           /\ CopyHello(b).publicKey = GenesisKey
  <1>1. CASE b = GetGenesisBlock
    <2>1. GenesisPow \in MinedBlock /\ GenesisPow \in PowBlock
      BY ConstantsAssumption DEF GenesisPow, MinedBlock, PowBlock, Prev
    <2>3. CopyHello(b) = b
      BY <1>1, CopyGenesis
    <2> QED
      <3>1. b.block \in DeForkBlock
        BY <1>1, <2>1 DEF GetGenesisBlock, DeForkBlock
      <3>2. b \in HelloBlock /\ b.index = 0
        BY <1>1, <3>1, ConstantsAssumption DEF GetGenesisBlock, HelloBlock, Prev
      <3>3. b.publicKey = GenesisKey /\ b.block.head.publicKey = GenesisKey
        BY <1>1 DEF GetGenesisBlock, GenesisPow
      <3> QED
        BY <2>3, <3>2, <3>3 DEF LatestCopy
  <1>2. CASE b \in [hash : Hashes, index : {1}, prev : Prev, publicKey : {GenesisKey},
                    block : Elected]
    <2> DEFINE d == CopyDeFork(b.block)
    <2>1. b.block \in Elected /\ b.block.head \in SignedBlock /\ b.block.head \in b.block.order
          /\ b.block.order \subseteq SignedBlock
      BY <1>2 DEF Elected
    <2>2. d = [head |-> CopyBlock(b.block.head), order |-> {CopyBlock(x) : x \in b.block.order}]
      BY DEF CopyDeFork
    <2>3. CopyBlock(b.block.head) \in PowBlock /\ CopyPanics(CopyBlock(b.block.head).coll)
      BY <2>1, CopySigned
    <2>4. {CopyBlock(x) : x \in b.block.order} \subseteq PowBlock
      BY <2>1, CopySigned
    <2>5. d \in DeForkBlock /\ \E x \in d.order : CopyPanics(x.coll)
      BY <2>1, <2>2, <2>3, <2>4 DEF DeForkBlock
    <2>6. CopyBlock(b.block.head).publicKey = GenesisKey
      BY <2>1 DEF CopyBlock, SignedBlock
    <2>7. CopyHello(b) = [b EXCEPT !.block = d]
      BY DEF CopyHello
    <2>8. CopyHello(b) \in HelloBlock
      BY <1>2, <2>5, <2>7, ConstantsAssumption DEF HelloBlock
    <2>9. CopyHello(b).index = 1 /\ CopyHello(b).publicKey = GenesisKey /\ CopyHello(b).block = d
      BY <1>2, <2>7
    <2> QED
      BY <2>2, <2>5, <2>6, <2>8, <2>9 DEF LatestCopy, CopyHelloPanics
  <1> QED
    BY <1>1, <1>2 DEF ChainBlock

-----------------------------------------------------------------------------
(***************************************************************************)
(* The database, the threads and the network.                              *)
(***************************************************************************)
\* GetLatest returns nil or a copy of a chained block.
LEMMA LatestIsCopy ==
    ASSUME DbInv, NEW n \in Nodes, GetLatest(n) # Nil
    PROVE  /\ GetLatest(n) \in LatestCopy
           /\ GetLatest(n).block.head.publicKey = GenesisKey
  <1> DEFINE h == latestBlockID[n]
  <1>1. h \in DOMAIN bucket[n] /\ GetLatest(n) = CopyHello(bucket[n][h])
    BY DEF GetLatest, GetByID
  <1>2. bucket[n][h] \in ChainBlock
    BY <1>1 DEF DbInv, IsMap
  <1> QED
    BY <1>1, <1>2, CopyChained

\* The roles of a round belong to the owner of the genesis key.
LEMMA RolesAreGenesis ==
    ASSUME DbInv, NEW n \in Nodes
    PROVE  IsLeader(n) \/ IsBFTMember(n) => n = GenesisKey
  <1>1. IsLeader(n) => n = GenesisKey
    BY LatestIsCopy DEF IsLeader
  <1>2. ASSUME NEW h \in DOMAIN bucket[n], bucket[n][h].publicKey = n PROVE n = GenesisKey
    <2>1. bucket[n][h] \in ChainBlock
      BY <1>2 DEF DbInv, IsMap
    <2>2. bucket[n][h].publicKey = GenesisKey
      BY <2>1 DEF ChainBlock, GetGenesisBlock
    <2> QED
      BY <1>2, <2>2
  <1>3. IsBFTMember(n) => n = GenesisKey
    BY <1>2 DEF IsBFTMember
  <1> QED
    BY <1>1, <1>3

\* Putting one entry keeps a map a map.
LEMMA MapPutIsMap ==
    ASSUME NEW f, NEW D, NEW V, IsMap(f, D, V), NEW k \in D, NEW v \in V
    PROVE  IsMap(MapPut(f, k, v), D, V)
  BY DEF IsMap, MapPut

\* Store followed by UpdateLatest files a chained block under its own hash.
LEMMA StoreKeepsDb ==
    ASSUME DbInv, NEW n \in Nodes, NEW b \in ChainBlock, StoreAndUpdateLatest(n, b),
           UNCHANGED up, creating' \subseteq creating, storing' \in [Nodes -> SUBSET ChainBlock]
    PROVE  DbInv'
  <1>1. b.hash \in Hashes /\ b.index \in Nat
    BY ConstantsAssumption DEF ChainBlock, GetGenesisBlock
  <1>2. bucket' = [bucket EXCEPT ![n] = MapPut(bucket[n], b.hash, b)]
        /\ blockIndexMap' = [blockIndexMap EXCEPT ![n] = MapPut(blockIndexMap[n], b.index, b.hash)]
        /\ latestBlockID' = [latestBlockID EXCEPT ![n] = b.hash]
    BY DEF StoreAndUpdateLatest, Store, UpdateLatest
  <1>3. bucket' = [m \in Nodes |-> bucket'[m]] /\ blockIndexMap' = [m \in Nodes |-> blockIndexMap'[m]]
    BY <1>2 DEF DbInv
  <1>4. ASSUME NEW m \in Nodes
        PROVE  /\ IsMap(bucket'[m], Hashes, ChainBlock)
               /\ \A h \in DOMAIN bucket'[m] : bucket'[m][h].hash = h
               /\ IsMap(blockIndexMap'[m], Nat, Hashes)
    <2>1. CASE m # n
      <3>1. bucket'[m] = bucket[m] /\ blockIndexMap'[m] = blockIndexMap[m]
        BY <1>2, <2>1 DEF DbInv
      <3> QED
        BY <3>1 DEF DbInv
    <2>2. CASE m = n
      <3>1. bucket'[m] = MapPut(bucket[n], b.hash, b)
            /\ blockIndexMap'[m] = MapPut(blockIndexMap[n], b.index, b.hash)
        BY <1>2, <2>2 DEF DbInv
      <3>2. IsMap(bucket'[m], Hashes, ChainBlock) /\ IsMap(blockIndexMap'[m], Nat, Hashes)
        <4>1. IsMap(bucket[n], Hashes, ChainBlock) /\ IsMap(blockIndexMap[n], Nat, Hashes)
          BY DEF DbInv
        <4>2. IsMap(MapPut(bucket[n], b.hash, b), Hashes, ChainBlock)
          BY <1>1, <4>1, MapPutIsMap
        <4>3. IsMap(MapPut(blockIndexMap[n], b.index, b.hash), Nat, Hashes)
          BY <1>1, <4>1, MapPutIsMap
        <4> QED
          BY <3>1, <4>2, <4>3
      <3>3. ASSUME NEW h \in DOMAIN bucket'[m] PROVE bucket'[m][h].hash = h
        <4>1. bucket'[m] = [k \in DOMAIN bucket[n] \cup {b.hash} |->
                               IF k = b.hash THEN b ELSE bucket[n][k]]
          BY <3>1 DEF MapPut
        <4>2. bucket'[m][h] = IF h = b.hash THEN b ELSE bucket[n][h]
          BY <3>3, <4>1
        <4>3. h # b.hash => h \in DOMAIN bucket[n]
          BY <3>3, <4>1
        <4> QED
          BY <4>2, <4>3 DEF DbInv
      <3> QED
        BY <3>2, <3>3
    <2> QED
      BY <2>1, <2>2
  <1>5. latestBlockID' \in [Nodes -> Hashes \cup {Nil}]
    BY <1>1, <1>2 DEF DbInv
  <1> QED
    BY <1>3, <1>4, <1>5 DEF DbInv

\* A spawned goroutine takes a slot.
LEMMA SpawnTyped ==
    ASSUME NEW S, NEW T, NEW thr \in [S -> T \cup {Nil}], NEW t \in T, HasSlot(thr)
    PROVE  Spawn(thr, t) \in [S -> T \cup {Nil}]
  <1> DEFINE free == CHOOSE s \in DOMAIN thr : thr[s] = Nil
  <1>1. free \in S
    BY DEF HasSlot
  <1> QED
    BY <1>1 DEF Spawn

\* A goroutine that returns frees its slot.
LEMMA ExitTyped ==
    ASSUME NEW S, NEW T, NEW thr \in [S -> T \cup {Nil}], NEW s \in S
    PROVE  Exit(thr, s) \in [S -> T \cup {Nil}]
  BY DEF Exit

\* BroadcastBlock sends well-typed messages to known peers.
LEMMA BroadcastTyped ==
    ASSUME NEW n \in Nodes, NEW b
    PROVE  /\ b \in MinedBlock => BroadcastBlock(n, "Candidate", b) \subseteq RoundMessage
           /\ b \in Elected => BroadcastBlock(n, "Referer", b) \subseteq RoundMessage
           /\ b \in ChainBlock => BroadcastBlock(n, "Hello", b) \subseteq RoundMessage
  <1>1. Peers[n] \subseteq Nodes
    BY ConstantsAssumption
  <1>2. b \in MinedBlock => BroadcastBlock(n, "Candidate", b) \subseteq RoundMessage
    BY <1>1 DEF BroadcastBlock, RoundMessage
  <1>3. b \in Elected => BroadcastBlock(n, "Referer", b) \subseteq RoundMessage
    BY <1>1 DEF BroadcastBlock, RoundMessage, RoundReferer
  <1>4. b \in ChainBlock => BroadcastBlock(n, "Hello", b) \subseteq RoundMessage
    BY <1>1 DEF BroadcastBlock, RoundMessage
  <1> QED
    BY <1>2, <1>3, <1>4

\* Steps that leave a group of variables alone keep its part of the invariant.
LEMMA Unchanged ==
    /\ DbInv /\ UNCHANGED <<up, dbVars>> => DbInv'
    /\ RoundInv /\ UNCHANGED roundVars => RoundInv'
    /\ ThreadInv /\ UNCHANGED <<timers, hellos>> => ThreadInv'
    /\ NetInv /\ UNCHANGED <<net, usedHashes, usedPow>> => NetInv'
  <1>1. DbInv /\ UNCHANGED <<up, dbVars>> => DbInv'
    BY DEF DbInv, dbVars, IsMap
  <1>2. RoundInv /\ UNCHANGED roundVars => RoundInv'
    BY DEF RoundInv, roundVars
  <1>3. ThreadInv /\ UNCHANGED <<timers, hellos>> => ThreadInv'
    BY DEF ThreadInv
  <1>4. NetInv /\ UNCHANGED <<net, usedHashes, usedPow>> => NetInv'
    BY DEF NetInv
  <1> QED
    BY <1>1, <1>2, <1>3, <1>4

\* A panic or a kill empties memory and leaves the disk.
LEMMA PanicKeeps ==
    ASSUME RoundIInv, NEW n \in Nodes, Panic(n), net' \subseteq net
    PROVE  RoundIInv'
  <1>1. DbInv'
    <2>1. IsMap(EmptyMap, Nat, Hashes)
      BY DEF EmptyMap, IsMap
    <2>2. blockIndexMap' = [blockIndexMap EXCEPT ![n] = EmptyMap]
      BY DEF Panic
    <2>3. blockIndexMap' = [m \in Nodes |-> blockIndexMap'[m]]
          /\ \A m \in Nodes : IsMap(blockIndexMap'[m], Nat, Hashes)
      BY <2>1, <2>2 DEF RoundIInv, DbInv
    <2>4. up' \in [Nodes -> BOOLEAN] /\ latestBlockID' \in [Nodes -> Hashes \cup {Nil}]
          /\ storing' \in [Nodes -> SUBSET ChainBlock] /\ bucket' = bucket
          /\ creating' \subseteq Founders
      BY DEF Panic, RoundIInv, DbInv
    <2> QED
      BY <2>3, <2>4 DEF RoundIInv, DbInv
  <1>2. RoundInv'
    <2>1. MinerIdle \in LeaderMiner
      BY DEF MinerIdle, LeaderMiner
    <2>2. miner' \in [Nodes -> LeaderMiner]
      BY <2>1 DEF Panic, RoundIInv, RoundInv
    <2> QED
      BY <2>2 DEF Panic, RoundIInv, RoundInv
  <1>3. ThreadInv'
    BY DEF Panic, RoundIInv, ThreadInv
  <1>4. NetInv'
    BY DEF Panic, RoundIInv, NetInv
  <1> QED
    BY <1>1, <1>2, <1>3, <1>4 DEF RoundIInv

-----------------------------------------------------------------------------
(***************************************************************************)
(* The invariant, action by action.                                        *)
(***************************************************************************)
\* Every node starts with an empty database and no goroutine.
LEMMA RoundIInvInit == Init => RoundIInv
  <1> SUFFICES ASSUME Init PROVE RoundIInv
    OBVIOUS
  <1>1. DbInv
    <2>1. IsMap(EmptyMap, Nat, Hashes) /\ IsMap(EmptyMap, Hashes, ChainBlock) /\ DOMAIN EmptyMap = {}
      BY DEF EmptyMap, IsMap
    <2>2. up \in [Nodes -> BOOLEAN] /\ latestBlockID \in [Nodes -> Hashes \cup {Nil}]
          /\ storing \in [Nodes -> SUBSET ChainBlock] /\ creating \subseteq Founders
      BY DEF Init
    <2>3. bucket = [n \in Nodes |-> EmptyMap] /\ blockIndexMap = [n \in Nodes |-> EmptyMap]
      BY DEF Init
    <2>4. bucket = [n \in Nodes |-> bucket[n]] /\ blockIndexMap = [n \in Nodes |-> blockIndexMap[n]]
          /\ \A n \in Nodes : bucket[n] = EmptyMap /\ blockIndexMap[n] = EmptyMap
      BY <2>3
    <2> QED
      BY <2>1, <2>2, <2>4 DEF DbInv
  <1>2. RoundInv
    <2>1. MinerIdle \in LeaderMiner
      BY DEF MinerIdle, LeaderMiner
    <2> QED
      BY <2>1 DEF Init, RoundInv
  <1>3. ThreadInv
    BY DEF Init, ThreadInv
  <1>4. NetInv
    BY ConstantsAssumption DEF Init, NetInv
  <1> QED
    BY <1>1, <1>2, <1>3, <1>4 DEF RoundIInv

\* A new timer for a chained block.
LEMMA NewTimer ==
    ASSUME ThreadInv, NEW n \in Nodes, NEW b \in ChainBlock, HasSlot(timers),
           timers' = Spawn(timers, Timer(n, "begin", b))
    PROVE  timers' \in [TimerSlots -> RoundTimer \cup {Nil}]
  <1>1. Timer(n, "begin", b) \in RoundTimer
    BY DEF Timer, RoundTimer
  <1> QED
    BY <1>1, SpawnTyped DEF ThreadInv

\* The genesis block is a chained block.
LEMMA GenesisChained == GetGenesisBlock \in ChainBlock
  BY DEF ChainBlock

\* CreateGenesisBlock, before and after its check.
LEMMA CreateGenesisBlockKeeps ==
    ASSUME RoundIInv, NEW n \in Founders, CreateGenesisBlock(n)
    PROVE  RoundIInv'
  <1>1. DbInv'
    BY DEF CreateGenesisBlock, RoundIInv, DbInv, IsMap
  <1> QED
    BY <1>1, Unchanged DEF CreateGenesisBlock, RoundIInv

LEMMA StoreGenesisBlockKeeps ==
    ASSUME RoundIInv, NEW n \in creating, StoreGenesisBlock(n)
    PROVE  RoundIInv'
  <1>0. n \in Nodes
    BY ConstantsAssumption DEF RoundIInv, DbInv
  <1>1. DbInv'
    <2>1. /\ StoreAndUpdateLatest(n, GetGenesisBlock)
          /\ UNCHANGED <<up, storing>>
          /\ creating' \subseteq creating
      BY DEF StoreGenesisBlock
    <2> QED
      BY <1>0, <2>1, StoreKeepsDb, GenesisChained DEF RoundIInv, DbInv
  <1>2. RoundInv'
    BY Unchanged DEF RoundIInv, StoreGenesisBlock
  <1>3. ThreadInv'
    BY <1>0, NewTimer, GenesisChained DEF RoundIInv, StoreGenesisBlock, ThreadInv
  <1>4. NetInv'
    BY <1>0, BroadcastTyped, GenesisChained DEF RoundIInv, StoreGenesisBlock, NetInv
  <1> QED
    BY <1>1, <1>2, <1>3, <1>4 DEF RoundIInv

\* The second half of a NewLeaderHelloBlock handler.
LEMMA StoreNewLeaderHelloBlockKeeps ==
    ASSUME RoundIInv, NEW n \in Nodes, NEW b \in storing[n], StoreNewLeaderHelloBlock(n, b)
    PROVE  RoundIInv'
  <1>1. b \in ChainBlock
    BY DEF RoundIInv, DbInv
  <1>2. DbInv'
    <2>1. StoreAndUpdateLatest(n, b) /\ UNCHANGED <<up, creating>>
      BY DEF StoreNewLeaderHelloBlock
    <2>2. storing' \in [Nodes -> SUBSET ChainBlock]
      BY DEF StoreNewLeaderHelloBlock, RoundIInv, DbInv
    <2> QED
      BY <1>1, <2>1, <2>2, StoreKeepsDb DEF RoundIInv
  <1>3. RoundInv'
    BY Unchanged DEF RoundIInv, StoreNewLeaderHelloBlock
  <1>4. ThreadInv'
    BY <1>1, NewTimer DEF RoundIInv, StoreNewLeaderHelloBlock, ThreadInv
  <1>5. NetInv'
    BY <1>1, BroadcastTyped DEF RoundIInv, StoreNewLeaderHelloBlock, NetInv
  <1> QED
    BY <1>2, <1>3, <1>4, <1>5 DEF RoundIInv

\* The fields of a Miner may be assigned one by one.
LEMMA MinerTyped ==
    ASSUME NEW m \in LeaderMiner, NEW v \in BOOLEAN, NEW starting \in SUBSET LeaderTemplate,
           NEW gens \in SUBSET [tmpl : LeaderTemplate, quit : BOOLEAN]
    PROVE  [m EXCEPT !.starting = starting, !.started = v, !.gens = gens] \in LeaderMiner
  BY DEF LeaderMiner

\* Mining: startMiner's goroutine, a solved block, a generator that gives up.
LEMMA MiningKeeps ==
    ASSUME RoundIInv, NEW n \in Nodes,
           \/ \E tmpl \in miner[n].starting : StartMiner(n, tmpl)
           \/ \E g \in miner[n].gens : Solve(n, g) \/ QuitMining(n, g)
    PROVE  RoundIInv'
  <1>0. miner[n] \in LeaderMiner
    BY DEF RoundIInv, RoundInv
  <1>1. ASSUME NEW tmpl \in miner[n].starting, StartMiner(n, tmpl) PROVE RoundIInv'
    <2> DEFINE gens == IF miner[n].started THEN miner[n].gens
                       ELSE miner[n].gens \cup {[tmpl |-> tmpl, quit |-> FALSE]}
               new == [miner[n] EXCEPT !.starting = miner[n].starting \ {tmpl}, !.started = TRUE,
                                       !.gens = gens]
    <2>1. gens \subseteq [tmpl : LeaderTemplate, quit : BOOLEAN]
      <3>1. tmpl \in LeaderTemplate /\ miner[n].gens \subseteq [tmpl : LeaderTemplate, quit : BOOLEAN]
        BY <1>0, <1>1 DEF LeaderMiner
      <3>2. [tmpl |-> tmpl, quit |-> FALSE] \in [tmpl : LeaderTemplate, quit : BOOLEAN]
        BY <3>1
      <3> QED
        BY <3>1, <3>2
    <2>2. new \in LeaderMiner
      <3> HIDE DEF gens
      <3>1. miner[n].starting \ {tmpl} \subseteq LeaderTemplate
        BY <1>0 DEF LeaderMiner
      <3> QED
        BY <1>0, <2>1, <3>1, MinerTyped
    <2>3. miner' \in [Nodes -> LeaderMiner]
      <3>1. miner' = [miner EXCEPT ![n].starting = @ \ {tmpl}, ![n].started = TRUE,
                                   ![n].gens = gens]
        BY <1>1 DEF StartMiner
      <3> HIDE DEF gens
      <3>2. miner' = [miner EXCEPT ![n] = new]
        BY <3>1 DEF RoundIInv, RoundInv
      <3> HIDE DEF new
      <3> QED
        BY <2>2, <3>2 DEF RoundIInv, RoundInv
    <2> HIDE DEF gens, new
    <2>4. RoundInv'
      BY <1>1, <2>3 DEF RoundIInv, RoundInv, StartMiner
    <2> QED
      BY <1>1, <2>4, Unchanged DEF RoundIInv, StartMiner
  <1>2. ASSUME NEW g \in miner[n].gens, miner' = [miner EXCEPT ![n].gens = @ \ {g}],
               UNCHANGED <<blockBuffer, timerRunning, deForkBlock, referring>>
        PROVE  RoundInv'
    <2>1. [miner[n] EXCEPT !.gens = @ \ {g}] \in LeaderMiner
      BY <1>0 DEF LeaderMiner
    <2>2. miner' \in [Nodes -> LeaderMiner]
      BY <1>2, <2>1 DEF RoundIInv, RoundInv
    <2> QED
      BY <1>2, <2>2 DEF RoundIInv, RoundInv
  <1>3. ASSUME NEW g \in miner[n].gens, Solve(n, g) PROVE RoundIInv'
    <2>1. RoundInv'
      BY <1>2, <1>3 DEF Solve
    <2>2. NetInv'
      <3>1. PICK h \in PowHashes \ usedPow :
              /\ usedPow' = usedPow \cup {h}
              /\ net' = net \cup BroadcastBlock(n, "Candidate",
                   [hash |-> h, publicKey |-> g.tmpl.publicKey, prev |-> g.tmpl.prev, coll |-> <<>>])
        BY <1>3 DEF Solve
      <3>2. g.tmpl \in LeaderTemplate
        BY <1>0 DEF LeaderMiner
      <3>3. [hash |-> h, publicKey |-> g.tmpl.publicKey, prev |-> g.tmpl.prev, coll |-> <<>>]
              \in MinedBlock
        BY <3>2 DEF LeaderTemplate, MinedBlock
      <3> QED
        BY <1>3, <3>1, <3>3, BroadcastTyped DEF Solve, RoundIInv, NetInv
    <2> QED
      BY <1>3, <2>1, <2>2, Unchanged DEF RoundIInv, Solve
  <1>4. ASSUME NEW g \in miner[n].gens, QuitMining(n, g) PROVE RoundIInv'
    <2>1. RoundInv'
      BY <1>2, <1>4 DEF QuitMining
    <2> QED
      BY <1>4, <2>1, Unchanged DEF RoundIInv, QuitMining
  <1> QED
    BY <1>1, <1>3, <1>4

\* Removing the handled message keeps the network typed.
LEMMA ConsumeTyped ==
    ASSUME NetInv, NEW m, NEW sent, sent \subseteq RoundMessage, net' = (net \ {m}) \cup sent,
           UNCHANGED <<usedHashes, usedPow>>
    PROVE  NetInv'
  BY DEF NetInv

\* A message names a node, and its type decides its block.
LEMMA MessageTyped ==
    ASSUME NetInv, NEW m \in net
    PROVE  /\ m.to \in Nodes
           /\ m.type = "Candidate" => m.block \in MinedBlock
           /\ m.type = "Referer" => m.block \in Elected
           /\ m.type = "Hello" => m.block \in ChainBlock
           /\ m.type = "Referer" => m \in RoundReferer
  BY DEF NetInv, RoundMessage, RoundReferer

\* CandidateBlock
LEMMA HandleCandidateBlockKeeps ==
    ASSUME RoundIInv, NEW m \in net, HandleCandidateBlock(m)
    PROVE  RoundIInv'
  <1> DEFINE n == m.to
             signed == [CopyBlock(m.block) EXCEPT !.coll = Sign(@, n)]
  <1>1. n \in Nodes /\ m.block \in MinedBlock
    BY MessageTyped DEF RoundIInv, HandleCandidateBlock, Receive
  <1>2. RoundInv'
    <2>1. CASE timerRunning[n] /\ ~BufferHas(blockBuffer[n], m.block.hash)
      <3>1. n = GenesisKey
        BY <1>1, <2>1 DEF RoundIInv, RoundInv
      <3>2. signed \in SignedBlock
        BY <1>1, <3>1, SignOnce
      <3>3. blockBuffer' = [blockBuffer EXCEPT ![n] = BufferPut(blockBuffer[n], signed)]
        BY <2>1 DEF HandleCandidateBlock
      <3> HIDE DEF signed
      <3>4. BufferPut(blockBuffer[n], signed) \subseteq SignedBlock
        BY <1>1, <3>2 DEF BufferPut, RoundIInv, RoundInv
      <3>5. blockBuffer' \in [Nodes -> SUBSET SignedBlock]
        BY <3>3, <3>4 DEF RoundIInv, RoundInv
      <3>6. \A p \in Nodes : p # n => blockBuffer'[p] = blockBuffer[p]
        BY <3>3 DEF RoundIInv, RoundInv
      <3> QED
        BY <3>1, <3>5, <3>6 DEF HandleCandidateBlock, RoundIInv, RoundInv
    <2>2. CASE ~(timerRunning[n] /\ ~BufferHas(blockBuffer[n], m.block.hash))
      <3>1. UNCHANGED roundVars
        BY <2>2 DEF HandleCandidateBlock, roundVars
      <3> QED
        BY <3>1, Unchanged DEF RoundIInv
    <2> QED
      BY <2>1, <2>2
  <1>3. NetInv'
    <2>1. net' = (net \ {m}) \cup BroadcastBlock(n, "Candidate", m.block) \/ net' = net \ {m}
      BY DEF HandleCandidateBlock
    <2>2. BroadcastBlock(n, "Candidate", m.block) \subseteq RoundMessage
      BY <1>1, BroadcastTyped
    <2>3. net' \subseteq net \cup BroadcastBlock(n, "Candidate", m.block)
      BY <2>1
    <2>4. UNCHANGED <<usedHashes, usedPow>>
      BY DEF HandleCandidateBlock
    <2> QED
      BY <2>2, <2>3, <2>4 DEF RoundIInv, NetInv
  <1> QED
    BY <1>2, <1>3, Unchanged DEF HandleCandidateBlock, RoundIInv

\* RefererBlock, up to the test.
LEMMA HandleRefererBlockKeeps ==
    ASSUME RoundIInv, NEW m \in net, HandleRefererBlock(m)
    PROVE  RoundIInv'
  <1>1. m \in RoundReferer
    BY MessageTyped DEF RoundIInv, HandleRefererBlock, Receive
  <1>2. RoundInv'
    BY <1>1 DEF HandleRefererBlock, RoundIInv, RoundInv
  <1>3. NetInv'
    BY DEF HandleRefererBlock, RoundIInv, NetInv
  <1> QED
    BY <1>2, <1>3, Unchanged DEF HandleRefererBlock, RoundIInv

\* RefererBlock after the test: recorded, hanging or fatal.
LEMMA RefererStepKeeps ==
    ASSUME RoundIInv, NEW m \in referring, RefererStep(m)
    PROVE  RoundIInv'
  <1> DEFINE n == m.to
  <1>1. n \in Nodes /\ m.block \in Elected
    BY DEF RoundIInv, RoundInv, RoundReferer
  <1>2. CASE RecordRefererBlock(m)
    <2>1. RoundInv'
      BY <1>1, <1>2 DEF RecordRefererBlock, RoundIInv, RoundInv
    <2>2. ThreadInv'
      <3>1. Hello(n, "begin", m.block, Nil) \in RoundHello
        BY <1>1 DEF Hello, RoundHello
      <3>2. HasSlot(hellos) => Spawn(hellos, Hello(n, "begin", m.block, Nil))
                                 \in [HelloSlots -> RoundHello \cup {Nil}]
        BY <3>1, SpawnTyped DEF RoundIInv, ThreadInv
      <3> QED
        BY <1>2, <3>2 DEF RecordRefererBlock, RoundIInv, ThreadInv
    <2>3. NetInv'
      <3>1. BroadcastBlock(n, "Referer", m.block) \subseteq RoundMessage
        BY <1>1, BroadcastTyped
      <3> QED
        BY <1>2, <3>1 DEF RecordRefererBlock, RoundIInv, NetInv
    <2> QED
      BY <1>2, <2>1, <2>2, <2>3, Unchanged DEF RecordRefererBlock, RoundIInv
  <1>3. CASE RefererBlockHangs(m)
    <2>1. RoundInv'
      BY <1>3 DEF RefererBlockHangs, RoundIInv, RoundInv
    <2> QED
      BY <1>3, <2>1, Unchanged DEF RefererBlockHangs, RoundIInv
  <1>4. CASE RefererBlockPanics(m)
    BY <1>1, <1>4, PanicKeeps DEF RefererBlockPanics
  <1> QED
    BY <1>2, <1>3, <1>4 DEF RefererStep

\* The first half of a NewLeaderHelloBlock handler.
LEMMA HandleNewLeaderHelloBlockKeeps ==
    ASSUME RoundIInv, NEW m \in net, HandleNewLeaderHelloBlock(m)
    PROVE  RoundIInv'
  <1> DEFINE n == m.to
  <1>1. n \in Nodes /\ m.block \in ChainBlock
    BY MessageTyped DEF RoundIInv, HandleNewLeaderHelloBlock, Receive
  <1>2. DbInv'
    <2>1. storing' \in [Nodes -> SUBSET ChainBlock]
      BY <1>1 DEF HandleNewLeaderHelloBlock, RoundIInv, DbInv
    <2>2. UNCHANGED <<up, bucket, latestBlockID, blockIndexMap, creating>>
      BY DEF HandleNewLeaderHelloBlock
    <2> QED
      BY <2>1, <2>2 DEF RoundIInv, DbInv
  <1>3. RoundInv'
    BY <1>1 DEF HandleNewLeaderHelloBlock, RoundIInv, RoundInv
  <1>4. NetInv'
    BY DEF HandleNewLeaderHelloBlock, RoundIInv, NetInv
  <1> QED
    BY <1>2, <1>3, <1>4, Unchanged DEF HandleNewLeaderHelloBlock, RoundIInv

\* ProxyRequest and lost messages.
LEMMA ProxyRequestKeeps ==
    ASSUME RoundIInv, NEW m \in net, HandleProxyRequest(m) \/ Lose(m)
    PROVE  RoundIInv'
  <1>1. m.to \in Nodes
    BY MessageTyped DEF RoundIInv
  <1>2. net' \subseteq net
    BY DEF HandleProxyRequest, Lose
  <1>3. CASE Panic(m.to)
    BY <1>1, <1>2, <1>3, PanicKeeps
  <1>4. CASE UNCHANGED <<up, dbVars, roundVars, timers, hellos, usedHashes, usedPow>>
    <2>1. NetInv'
      BY <1>2, <1>4 DEF RoundIInv, NetInv
    <2> QED
      BY <1>4, <2>1, Unchanged DEF RoundIInv
  <1> QED
    BY <1>3, <1>4 DEF HandleProxyRequest, Lose

-----------------------------------------------------------------------------
\* startMiner's template carries the genesis key.
LEMMA TemplateTyped ==
    ASSUME NEW b \in ChainBlock
    PROVE  Template(b) \in LeaderTemplate
  <1>1. b.hash \in Hashes /\ b.block.head.publicKey = GenesisKey /\ b.block.head.prev \in Prev
    <2>1. CASE b = GetGenesisBlock
      BY <2>1, ConstantsAssumption DEF GetGenesisBlock, GenesisPow, Prev
    <2>2. CASE b # GetGenesisBlock
      <3>1. b.hash \in Hashes /\ b.block.head \in SignedBlock
        BY <2>2 DEF ChainBlock, Elected
      <3> QED
        BY <3>1 DEF SignedBlock
    <2> QED
      BY <2>1, <2>2
  <1> QED
    BY <1>1 DEF Template, LeaderTemplate, CopyInto, Prev

\* A timer past its first step is the leader's.
LEMMA TimerTyped ==
    ASSUME ThreadInv, NEW s \in TimerSlots, timers[s] # Nil
    PROVE  /\ timers[s] \in RoundTimer
           /\ timers[s].node \in Nodes
           /\ timers[s].block \in ChainBlock
           /\ timers[s].pc # "begin" => timers[s].node = GenesisKey
  BY ConstantsAssumption DEF ThreadInv, RoundTimer

\* Moving the leader's timer on.
LEMMA MoveTimer ==
    ASSUME ThreadInv, NEW s \in TimerSlots, timers[s] # Nil, timers[s].node = GenesisKey,
           NEW pc \in {"arm", "running", "announce", "defork"}
    PROVE  [timers EXCEPT ![s].pc = pc] \in [TimerSlots -> RoundTimer \cup {Nil}]
  <1>1. [timers[s] EXCEPT !.pc = pc] \in RoundTimer
    BY TimerTyped DEF RoundTimer
  <1> QED
    BY <1>1 DEF ThreadInv

\* startTimer up to the test of timerRunning.
LEMMA TimerBeginKeeps ==
    ASSUME RoundIInv, NEW s \in TimerSlots, TimerBegin(s)
    PROVE  RoundIInv'
  <1> DEFINE t == timers[s]
  <1>1. t # Nil /\ t.node \in Nodes /\ t.block \in ChainBlock
    BY TimerTyped DEF RoundIInv, TimerBegin
  <1>2. RoundInv'
    <2>1. miner[t.node] \in LeaderMiner /\ Template(t.block) \in LeaderTemplate
      BY <1>1, TemplateTyped DEF RoundIInv, RoundInv
    <2> DEFINE new == [miner[t.node] EXCEPT !.starting = @ \cup {Template(t.block)}]
    <2>2. new \in LeaderMiner
      BY <2>1 DEF LeaderMiner
    <2>3. miner' = [miner EXCEPT ![t.node] = new]
      BY <1>1 DEF TimerBegin, RoundIInv, RoundInv
    <2> HIDE DEF new
    <2>4. miner' \in [Nodes -> LeaderMiner]
      BY <2>2, <2>3 DEF RoundIInv, RoundInv
    <2> QED
      BY <2>4 DEF TimerBegin, RoundIInv, RoundInv
  <1>3. ThreadInv'
    <2>1. IsBFTMember(t.node) => [timers EXCEPT ![s].pc = "arm"] \in [TimerSlots -> RoundTimer \cup {Nil}]
      BY <1>1, RolesAreGenesis, MoveTimer DEF RoundIInv
    <2>2. Exit(timers, s) \in [TimerSlots -> RoundTimer \cup {Nil}]
      BY ExitTyped DEF RoundIInv, ThreadInv
    <2>3. timers' = IF IsBFTMember(t.node) /\ ~timerRunning[t.node]
                    THEN [timers EXCEPT ![s].pc = "arm"] ELSE Exit(timers, s)
      BY DEF TimerBegin
    <2>4. timers' \in [TimerSlots -> RoundTimer \cup {Nil}]
      BY <2>1, <2>2, <2>3
    <2> QED
      BY <2>4 DEF TimerBegin, RoundIInv, ThreadInv
  <1> QED
    BY <1>2, <1>3, Unchanged DEF TimerBegin, RoundIInv

\* timerRunning = true
LEMMA TimerArmKeeps ==
    ASSUME RoundIInv, NEW s \in TimerSlots, TimerArm(s)
    PROVE  RoundIInv'
  <1>1. timers[s] # Nil /\ timers[s].node = GenesisKey
    BY TimerTyped DEF RoundIInv, TimerArm
  <1>2. RoundInv'
    BY <1>1, ConstantsAssumption DEF TimerArm, RoundIInv, RoundInv
  <1>3. ThreadInv'
    BY <1>1, MoveTimer DEF TimerArm, RoundIInv, ThreadInv
  <1> QED
    BY <1>2, <1>3, Unchanged DEF TimerArm, RoundIInv

\* Miner.Stop keeps the templates.
LEMMA StopMinerTyped ==
    ASSUME RoundInv, NEW n \in Nodes
    PROVE  StopMiner(n) \in [Nodes -> LeaderMiner]
  <1> DEFINE m == miner[n]
             gens == {[g EXCEPT !.quit = TRUE] : g \in m.gens}
             new == [m EXCEPT !.starting = m.starting, !.started = FALSE, !.gens = gens]
  <1>1. m \in LeaderMiner
    BY DEF RoundInv
  <1>2. gens \subseteq [tmpl : LeaderTemplate, quit : BOOLEAN]
    BY <1>1 DEF LeaderMiner
  <1>3. new \in LeaderMiner
    <2> HIDE DEF gens
    <2>1. m.starting \subseteq LeaderTemplate
      BY <1>1 DEF LeaderMiner
    <2> QED
      BY <1>1, <1>2, <2>1, MinerTyped
  <1>4. miner[n].started => StopMiner(n) = [miner EXCEPT ![n] = new]
    BY <1>1 DEF StopMiner, RoundInv, LeaderMiner
  <1> HIDE DEF new
  <1>5. miner[n].started => StopMiner(n) \in [Nodes -> LeaderMiner]
    BY <1>3, <1>4 DEF RoundInv
  <1>6. ~miner[n].started => StopMiner(n) \in [Nodes -> LeaderMiner]
    BY DEF StopMiner, RoundInv
  <1> QED
    BY <1>5, <1>6

\* The end of the timer.
LEMMA TimerExpireKeeps ==
    ASSUME RoundIInv, NEW s \in TimerSlots, TimerExpire(s)
    PROVE  RoundIInv'
  <1>1. timers[s] # Nil /\ timers[s].node = GenesisKey /\ GenesisKey \in Nodes
    BY TimerTyped, ConstantsAssumption DEF RoundIInv, TimerExpire
  <1>2. RoundInv'
    <2>1. miner' \in [Nodes -> LeaderMiner]
      BY <1>1, StopMinerTyped DEF TimerExpire, RoundIInv
    <2> QED
      BY <1>1, <2>1 DEF TimerExpire, RoundIInv, RoundInv
  <1>3. ThreadInv'
    <2>1. [timers EXCEPT ![s].pc = "announce"] \in [TimerSlots -> RoundTimer \cup {Nil}]
      BY <1>1, MoveTimer DEF RoundIInv
    <2>2. Exit(timers, s) \in [TimerSlots -> RoundTimer \cup {Nil}]
      BY ExitTyped DEF RoundIInv, ThreadInv
    <2> QED
      BY <2>1, <2>2 DEF TimerExpire, RoundIInv, ThreadInv
  <1> QED
    BY <1>2, <1>3, Unchanged DEF TimerExpire, RoundIInv

\* The announcement, with its new timer when there are no candidates.
LEMMA TimerAnnounceKeeps ==
    ASSUME RoundIInv, NEW s \in TimerSlots, TimerAnnounce(s)
    PROVE  RoundIInv'
  <1> DEFINE t == timers[s]
             n == t.node
             after == IF IsLeader(n) THEN [timers EXCEPT ![s].pc = "defork"] ELSE Exit(timers, s)
  <1>1. t # Nil /\ n = GenesisKey /\ n \in Nodes /\ t.block \in ChainBlock
    BY TimerTyped, ConstantsAssumption DEF RoundIInv, TimerAnnounce
  <1>2. after \in [TimerSlots -> RoundTimer \cup {Nil}]
    <2>1. [timers EXCEPT ![s].pc = "defork"] \in [TimerSlots -> RoundTimer \cup {Nil}]
      BY <1>1, MoveTimer DEF RoundIInv
    <2>2. Exit(timers, s) \in [TimerSlots -> RoundTimer \cup {Nil}]
      BY ExitTyped DEF RoundIInv, ThreadInv
    <2> QED
      BY <2>1, <2>2
  <1>3. \/ timers' = after
        \/ HasSlot(after) /\ timers' = Spawn(after, Timer(n, "begin", t.block))
    BY DEF TimerAnnounce
  <1>4. Timer(n, "begin", t.block) \in RoundTimer
    BY <1>1 DEF Timer, RoundTimer
  <1> HIDE DEF after
  <1>5. timers' \in [TimerSlots -> RoundTimer \cup {Nil}]
    <2>1. HasSlot(after) => Spawn(after, Timer(n, "begin", t.block))
                              \in [TimerSlots -> RoundTimer \cup {Nil}]
      BY <1>2, <1>4, SpawnTyped
    <2> QED
      BY <1>2, <1>3, <2>1
  <1>6. ThreadInv'
    BY <1>5 DEF TimerAnnounce, RoundIInv, ThreadInv
  <1>7. NetInv'
    <2> DEFINE sent == {[type |-> "Proxy", from |-> n, to |-> a, blocks |-> blockBuffer[n]] :
                        a \in Addresses}
    <2>1. blockBuffer[n] \subseteq SignedBlock
      BY <1>1 DEF RoundIInv, RoundInv
    <2>2. sent \subseteq RoundMessage
      BY <1>1, <2>1, ConstantsAssumption DEF RoundMessage
    <2>3. net' \subseteq net \cup sent /\ UNCHANGED <<usedHashes, usedPow>>
      BY DEF TimerAnnounce
    <2> QED
      BY <2>2, <2>3 DEF RoundIInv, NetInv
  <1> QED
    BY <1>6, <1>7, Unchanged DEF TimerAnnounce, RoundIInv

\* The de-fork elects signed candidates only.
LEMMA DeForkKeeps ==
    ASSUME RoundIInv, NEW s \in TimerSlots, DeFork(s)
    PROVE  RoundIInv'
  <1> DEFINE n == timers[s].node
             blocks == IF GetLatest(n) = Nil THEN {} ELSE HalfMore(blockBuffer[n], MemberLen(n))
  <1>1. n \in Nodes
    BY TimerTyped DEF RoundIInv, DeFork
  <1>2. blocks \subseteq SignedBlock
    BY <1>1 DEF HalfMore, RoundIInv, RoundInv
  <1>3. timers' \in [TimerSlots -> RoundTimer \cup {Nil}]
    BY ExitTyped DEF DeFork, RoundIInv, ThreadInv
  <1>4. CASE UNCHANGED <<net, hellos>>
    <2>1. ThreadInv'
      BY <1>3, <1>4 DEF RoundIInv, ThreadInv
    <2> QED
      BY <1>4, <2>1, Unchanged DEF DeFork, RoundIInv
  <1>5. ASSUME NEW head \in blocks, HasSlot(hellos),
               net' = net \cup BroadcastBlock(n, "Referer", [head |-> head, order |-> blocks]),
               hellos' = Spawn(hellos, Hello(n, "begin", [head |-> head, order |-> blocks], Nil))
        PROVE  RoundIInv'
    <2> HIDE DEF blocks
    <2> DEFINE d == [head |-> head, order |-> blocks]
    <2>1. d \in Elected
      BY <1>2, <1>5 DEF Elected
    <2>2. Hello(n, "begin", d, Nil) \in RoundHello
      BY <1>1, <2>1 DEF Hello, RoundHello
    <2>3. BroadcastBlock(n, "Referer", d) \subseteq RoundMessage
      BY <1>1, <2>1, BroadcastTyped
    <2>4. net' = net \cup BroadcastBlock(n, "Referer", d)
          /\ hellos' = Spawn(hellos, Hello(n, "begin", d, Nil))
      BY <1>5
    <2> HIDE DEF d
    <2>5. hellos' \in [HelloSlots -> RoundHello \cup {Nil}]
      <3>1. hellos \in [HelloSlots -> RoundHello \cup {Nil}]
        BY DEF RoundIInv, ThreadInv
      <3>2. Spawn(hellos, Hello(n, "begin", d, Nil)) \in [HelloSlots -> RoundHello \cup {Nil}]
        BY <1>5, <2>2, <3>1, SpawnTyped
      <3> QED
        BY <2>4, <3>2
    <2>6. ThreadInv'
      BY <1>3, <2>5 DEF ThreadInv
    <2>7. NetInv'
      BY <2>3, <2>4 DEF DeFork, RoundIInv, NetInv
    <2> QED
      BY <2>6, <2>7, Unchanged DEF DeFork, RoundIInv
  <1> QED
    BY <1>4, <1>5 DEF DeFork

-----------------------------------------------------------------------------
\* startNewLeaderHelloBlock has an elected block to publish.
LEMMA HelloTyped ==
    ASSUME ThreadInv, NEW s \in HelloSlots, hellos[s] # Nil
    PROVE  /\ hellos[s].node \in Nodes
           /\ hellos[s].deFork \in Elected
           /\ hellos[s].pc = "wait" => hellos[s].latest \in LatestCopy
  BY DEF ThreadInv, RoundHello

\* startNewLeaderHelloBlock up to its wait.
LEMMA HelloBeginKeeps ==
    ASSUME RoundIInv, NEW s \in HelloSlots, HelloBegin(s)
    PROVE  RoundIInv'
  <1> DEFINE t == hellos[s]
             waiting == Hello(t.node, "wait", t.deFork, GetLatest(t.node))
  <1>1. t # Nil /\ t.node \in Nodes /\ t.deFork \in Elected
    BY HelloTyped DEF RoundIInv, HelloBegin
  <1>2. GetLatest(t.node) # Nil => waiting \in RoundHello
    <2>1. SUFFICES ASSUME GetLatest(t.node) # Nil PROVE waiting \in RoundHello
      OBVIOUS
    <2>2. GetLatest(t.node) \in LatestCopy
      BY <1>1, <2>1, LatestIsCopy DEF RoundIInv
    <2> QED
      BY <1>1, <2>2 DEF Hello, RoundHello
  <1>3. \/ GetLatest(t.node) # Nil /\ hellos' = [hellos EXCEPT ![s] = waiting]
        \/ hellos' = Exit(hellos, s)
    BY DEF HelloBegin
  <1> HIDE DEF waiting
  <1>4. hellos' \in [HelloSlots -> RoundHello \cup {Nil}]
    <2>1. hellos \in [HelloSlots -> RoundHello \cup {Nil}]
      BY DEF RoundIInv, ThreadInv
    <2>2. Exit(hellos, s) \in [HelloSlots -> RoundHello \cup {Nil}]
      BY <2>1, ExitTyped
    <2>3. waiting \in RoundHello =>
            [hellos EXCEPT ![s] = waiting] \in [HelloSlots -> RoundHello \cup {Nil}]
      BY <2>1
    <2> QED
      BY <1>2, <1>3, <2>2, <2>3
  <1>5. ThreadInv'
    BY <1>4 DEF HelloBegin, RoundIInv, ThreadInv
  <1> QED
    BY <1>5, Unchanged DEF HelloBegin, RoundIInv

\* The new block: its predecessor could be copied, so it is the genesis block.
LEMMA HelloPublishKeeps ==
    ASSUME RoundIInv, NEW s \in HelloSlots, HelloPublish(s)
    PROVE  RoundIInv'
  <1> DEFINE t == hellos[s]
             n == t.node
             new(h) == [hash |-> h, index |-> t.latest.index + 1,
                        prev |-> CopyInto(t.latest.prev, t.latest.hash),
                        publicKey |-> t.deFork.head.publicKey, block |-> t.deFork]
  <1>1. t # Nil /\ n \in Nodes /\ t.deFork \in Elected /\ t.latest \in LatestCopy
    BY HelloTyped DEF RoundIInv, HelloPublish
  <1>2. t.latest.index = 0
    BY <1>1 DEF HelloPublish, LatestCopy
  <1>3. t.latest.hash \in Hashes
    BY <1>1 DEF LatestCopy, HelloBlock
  <1>4. t.deFork.head.publicKey = GenesisKey
    BY <1>1 DEF Elected, SignedBlock
  <1>5. PICK h \in Hashes \ usedHashes :
           /\ usedHashes' = usedHashes \cup {h}
           /\ StoreAndUpdateLatest(n, new(h))
           /\ net' = net \cup BroadcastBlock(n, "Hello", new(h))
           /\ timers' = Spawn(timers, Timer(n, "begin", new(h)))
    BY DEF HelloPublish
  <1> DEFINE b == new(h)
  <1>6. b \in ChainBlock
    BY <1>1, <1>2, <1>3, <1>4, <1>5 DEF ChainBlock, CopyInto, Prev, RoundIInv, NetInv
  <1> HIDE DEF b
  <1>7. StoreAndUpdateLatest(n, b) /\ net' = net \cup BroadcastBlock(n, "Hello", b)
        /\ timers' = Spawn(timers, Timer(n, "begin", b))
    BY <1>5 DEF b
  <1> HIDE DEF new
  <1>8. DbInv'
    <2>1. UNCHANGED <<up, creating, storing>>
      BY DEF HelloPublish
    <2> QED
      BY <1>1, <1>6, <1>7, <2>1, StoreKeepsDb DEF RoundIInv, DbInv
  <1>9. ThreadInv'
    <2>1. timers' \in [TimerSlots -> RoundTimer \cup {Nil}]
      BY <1>1, <1>6, <1>7, NewTimer DEF HelloPublish, RoundIInv
    <2>2. hellos' \in [HelloSlots -> RoundHello \cup {Nil}]
      BY ExitTyped DEF HelloPublish, RoundIInv, ThreadInv
    <2> QED
      BY <2>1, <2>2 DEF ThreadInv
  <1>10. NetInv'
    <2>1. BroadcastBlock(n, "Hello", b) \subseteq RoundMessage
      BY <1>1, <1>6, BroadcastTyped
    <2>2. usedPow' = usedPow
      BY DEF HelloPublish
    <2> QED
      BY <1>5, <1>7, <2>1, <2>2 DEF RoundIInv, NetInv
  <1> QED
    BY <1>8, <1>9, <1>10, Unchanged DEF HelloPublish, RoundIInv

\* BuildIndex reads only what is in the bucket.
LEMMA RestartKeeps ==
    ASSUME RoundIInv, NEW n \in Nodes, Restart(n)
    PROVE  RoundIInv'
  <1> DEFINE stored == DOMAIN bucket[n]
             indexes == {bucket[n][h].index : h \in stored}
  <1>1. stored \subseteq Hashes /\ \A h \in stored : bucket[n][h] \in ChainBlock
    BY DEF RoundIInv, DbInv, IsMap
  <1>2. indexes \subseteq Nat
    BY <1>1 DEF ChainBlock, GetGenesisBlock
  <1>3. latestBlockID' \in [Nodes -> Hashes \cup {Nil}]
    BY <1>1 DEF Restart, RoundIInv, DbInv
  <1>4. PICK map \in [indexes -> stored] : blockIndexMap' = [blockIndexMap EXCEPT ![n] = map]
    BY DEF Restart
  <1>5. IsMap(map, Nat, Hashes)
    BY <1>1, <1>2, <1>4 DEF IsMap
  <1> HIDE DEF stored, indexes
  <1>6. blockIndexMap' = [m \in Nodes |-> blockIndexMap'[m]]
        /\ \A m \in Nodes : blockIndexMap'[m] = IF m = n THEN map ELSE blockIndexMap[m]
    BY <1>4 DEF RoundIInv, DbInv
  <1>7. \A m \in Nodes : IsMap(blockIndexMap'[m], Nat, Hashes)
    BY <1>5, <1>6 DEF RoundIInv, DbInv
  <1>8. up' \in [Nodes -> BOOLEAN] /\ UNCHANGED <<bucket, creating, storing>>
    BY DEF Restart, RoundIInv, DbInv
  <1>9. DbInv'
    BY <1>3, <1>6, <1>7, <1>8 DEF RoundIInv, DbInv
  <1> QED
    BY <1>9, Unchanged DEF Restart, RoundIInv

-----------------------------------------------------------------------------
\* Every step keeps the invariant.
LEMMA RoundIInvNext == RoundIInv /\ [Next]_vars => RoundIInv'
  <1> SUFFICES ASSUME RoundIInv, [Next]_vars PROVE RoundIInv'
    OBVIOUS
  <1>1. ASSUME NEW n \in Founders, CreateGenesisBlock(n) PROVE RoundIInv'
    BY <1>1, CreateGenesisBlockKeeps
  <1>g. ASSUME NEW n \in creating, StoreGenesisBlock(n) PROVE RoundIInv'
    BY <1>g, StoreGenesisBlockKeeps
  <1>2. ASSUME NEW n \in Nodes, NEW b \in storing[n], StoreNewLeaderHelloBlock(n, b)
        PROVE  RoundIInv'
    BY <1>2, StoreNewLeaderHelloBlockKeeps
  <1>3. ASSUME NEW n \in Nodes, NEW tmpl \in miner[n].starting, StartMiner(n, tmpl)
        PROVE  RoundIInv'
    BY <1>3, MiningKeeps
  <1>4. ASSUME NEW n \in Nodes, NEW g \in miner[n].gens, Solve(n, g) \/ QuitMining(n, g)
        PROVE  RoundIInv'
    BY <1>4, MiningKeeps
  <1>5. ASSUME NEW m \in net, HandleMessage(m) PROVE RoundIInv'
    BY <1>5, HandleCandidateBlockKeeps, HandleRefererBlockKeeps, HandleNewLeaderHelloBlockKeeps,
       ProxyRequestKeeps DEF HandleMessage
  <1>r. ASSUME NEW m \in referring, RefererStep(m) PROVE RoundIInv'
    BY <1>r, RefererStepKeeps
  <1>6. ASSUME NEW s \in TimerSlots, TimerStep(s) PROVE RoundIInv'
    BY <1>6, TimerBeginKeeps, TimerArmKeeps, TimerExpireKeeps, TimerAnnounceKeeps, DeForkKeeps
       DEF TimerStep
  <1>7. ASSUME NEW s \in HelloSlots, HelloStep(s) PROVE RoundIInv'
    <2>1. CASE HelloPanics(s)
      <3>1. hellos[s].node \in Nodes
        BY <2>1, HelloTyped DEF HelloPanics, RoundIInv
      <3> QED
        BY <2>1, <3>1, PanicKeeps DEF HelloPanics
    <2> QED
      BY <1>7, <2>1, HelloBeginKeeps, HelloPublishKeeps DEF HelloStep
  <1>8. ASSUME NEW n \in Supervised, Crash(n) \/ Restart(n) PROVE RoundIInv'
    <2>1. n \in Nodes
      BY ConstantsAssumption
    <2>2. CASE Crash(n)
      BY <2>1, <2>2, PanicKeeps DEF Crash
    <2> QED
      BY <1>8, <2>1, <2>2, RestartKeeps
  <1>9. CASE UNCHANGED vars
    BY <1>9, Unchanged DEF vars, RoundIInv
  <1> QED
    BY <1>1, <1>g, <1>2, <1>3, <1>4, <1>5, <1>r, <1>6, <1>7, <1>8, <1>9 DEF Next

\* The invariant holds in every reachable state.
LEMMA RoundIInvAlways == Spec => []RoundIInv
  BY RoundIInvInit, RoundIInvNext, PTL DEF Spec

\* The stages of a block are PoW, DeFork and hello blocks.
LEMMA StagesTyped ==
    /\ MinedBlock \subseteq PowBlock
    /\ SignedBlock \subseteq PowBlock
    /\ Elected \subseteq DeForkBlock
    /\ ChainBlock \subseteq HelloBlock
    /\ LatestCopy \subseteq HelloBlock
  <1> DEFINE S == Nodes \cup {Nil}
  <1>1. <<>> \in Seq(S) /\ <<GenesisKey>> \in Seq(S)
    BY ConstantsAssumption
  <1>2. MinedBlock \subseteq PowBlock /\ SignedBlock \subseteq PowBlock
    BY <1>1, ConstantsAssumption DEF MinedBlock, SignedBlock, PowBlock
  <1>3. Elected \subseteq DeForkBlock
    BY <1>2 DEF Elected, DeForkBlock
  <1>4. GetGenesisBlock \in HelloBlock
    <2>1. GenesisPow \in MinedBlock
      BY ConstantsAssumption DEF GenesisPow, MinedBlock, Prev
    <2>2. [head |-> GenesisPow, order |-> {GenesisPow}] \in DeForkBlock
      BY <1>2, <2>1 DEF DeForkBlock
    <2> QED
      BY <2>2, ConstantsAssumption DEF GetGenesisBlock, HelloBlock, Prev
  <1>5. ChainBlock \subseteq HelloBlock
    BY <1>3, <1>4, ConstantsAssumption DEF ChainBlock, HelloBlock
  <1>6. LatestCopy \subseteq HelloBlock
    BY DEF LatestCopy
  <1> QED
    BY <1>2, <1>3, <1>5, <1>6

\* Every variable of every conode keeps its type.
THEOREM RoundTypeOK == Spec => []TypeOK
  <1>1. RoundIInv => TypeOK
    <2> SUFFICES ASSUME RoundIInv PROVE TypeOK
      OBVIOUS
    <2>1. \A n \in Nodes : IsMap(bucket[n], Hashes, HelloBlock)
      BY StagesTyped DEF RoundIInv, DbInv, IsMap
    <2>2. storing \in [Nodes -> SUBSET HelloBlock]
      BY StagesTyped DEF RoundIInv, DbInv
    <2>3. blockBuffer \in [Nodes -> SUBSET PowBlock] /\ deForkBlock \in [Nodes -> DeForkBlock \cup {Nil}]
      BY StagesTyped DEF RoundIInv, RoundInv
    <2>4. miner \in [Nodes -> Miner]
      <3>1. LeaderTemplate \subseteq MinerTemplate
        BY ConstantsAssumption DEF LeaderTemplate, MinerTemplate
      <3>2. LeaderMiner \subseteq Miner
        BY <3>1 DEF LeaderMiner, Miner
      <3> QED
        BY <3>2 DEF RoundIInv, RoundInv
    <2>5. timers \in [TimerSlots -> TimerThread \cup {Nil}]
      <3>1. RoundTimer \subseteq TimerThread
        BY StagesTyped, ConstantsAssumption DEF RoundTimer, TimerThread
      <3> QED
        BY <3>1 DEF RoundIInv, ThreadInv
    <2>6. hellos \in [HelloSlots -> HelloThread \cup {Nil}]
      <3>1. RoundHello \subseteq HelloThread
        BY StagesTyped DEF RoundHello, HelloThread
      <3> QED
        BY <3>1 DEF RoundIInv, ThreadInv
    <2>7. net \subseteq Message /\ referring \subseteq Message /\ creating \subseteq Nodes
      <3>1. RoundMessage \subseteq Message
        BY StagesTyped DEF RoundMessage, RoundReferer, Message
      <3> QED
        BY <3>1, ConstantsAssumption DEF RoundIInv, NetInv, RoundInv, DbInv, RoundMessage
    <2> QED
      BY <2>1, <2>2, <2>3, <2>4, <2>5, <2>6, <2>7
         DEF RoundIInv, DbInv, RoundInv, NetInv, TypeOK
  <1> QED
    BY <1>1, RoundIInvAlways, PTL

\* No node but the owner of the genesis key is ever a leader, a BFT member or
\* in charge of a timer or a candidate: in every network, for ever.
THEOREM GenesisLeadsForEver == Spec => []OnlyGenesisLeads
  <1>1. RoundIInv => OnlyGenesisLeads
    BY RolesAreGenesis DEF OnlyGenesisLeads, RoundIInv, RoundInv
  <1> QED
    BY <1>1, RoundIInvAlways, PTL

\* No conode ever stores a block of height 2, whatever the network, the
\* messages and the crashes.
THEOREM NoSecondRound == Spec => []ChainStopsAtOne
  <1>1. RoundIInv => ChainStopsAtOne
    <2> SUFFICES ASSUME RoundIInv, NEW n \in Nodes, NEW h \in DOMAIN bucket[n]
                 PROVE  bucket[n][h].index <= 1
      BY DEF ChainStopsAtOne
    <2>1. bucket[n][h] \in ChainBlock
      BY DEF RoundIInv, DbInv, IsMap
    <2> QED
      BY <2>1 DEF ChainBlock, GetGenesisBlock
  <1> QED
    BY <1>1, RoundIInvAlways, PTL

\* A block of height 1 was elected with the leader's signature alone.
THEOREM QuorumOfOne == Spec => []LeaderIsTheQuorum
  <1>1. RoundIInv => LeaderIsTheQuorum
    <2> SUFFICES ASSUME RoundIInv, NEW n \in Nodes, NEW h \in DOMAIN bucket[n],
                        bucket[n][h].index > 0
                 PROVE  \A b \in bucket[n][h].block.order : b.coll = <<GenesisKey>>
      BY DEF LeaderIsTheQuorum
    <2>1. bucket[n][h] \in ChainBlock
      BY DEF RoundIInv, DbInv, IsMap
    <2>2. bucket[n][h].block \in Elected
      BY <2>1 DEF ChainBlock, GetGenesisBlock
    <2> QED
      BY <2>2 DEF Elected, SignedBlock
  <1> QED
    BY <1>1, RoundIInvAlways, PTL

-----------------------------------------------------------------------------
(***************************************************************************)
(* Index and bucket.  A chained block's hash decides its height: genesis   *)
(* hash for 0, any other for 1.  So a Store never moves a filed block.     *)
(***************************************************************************)
\* HelloPublish stores a chained block.
LEMMA PublishesChained ==
    ASSUME RoundIInv, NEW s \in HelloSlots, HelloPublish(s)
    PROVE  \E n \in Nodes, b \in ChainBlock : StoreAndUpdateLatest(n, b)
  <1> DEFINE t == hellos[s]
             new(h) == [hash |-> h, index |-> t.latest.index + 1,
                        prev |-> CopyInto(t.latest.prev, t.latest.hash),
                        publicKey |-> t.deFork.head.publicKey, block |-> t.deFork]
  <1>1. t # Nil /\ t.node \in Nodes /\ t.deFork \in Elected /\ t.latest \in LatestCopy
    BY HelloTyped DEF RoundIInv, HelloPublish
  <1>2. t.latest.index = 0
    BY <1>1 DEF HelloPublish, LatestCopy
  <1>3. t.latest.hash \in Hashes /\ t.deFork.head.publicKey = GenesisKey
    BY <1>1 DEF LatestCopy, HelloBlock, Elected, SignedBlock
  <1>4. PICK h \in Hashes \ usedHashes : StoreAndUpdateLatest(t.node, new(h))
    BY DEF HelloPublish
  <1>5. new(h) \in ChainBlock
    BY <1>1, <1>2, <1>3, <1>4 DEF ChainBlock, CopyInto, Prev, RoundIInv, NetInv
  <1> HIDE DEF new
  <1> QED
    BY <1>1, <1>4, <1>5

\* What a step does to bucket, index and latest block.
LEMMA StepsOfDb ==
    ASSUME RoundIInv, [Next]_vars
    PROVE  \/ UNCHANGED <<up, bucket, latestBlockID, blockIndexMap>>
           \/ up' = up /\ \E n \in Nodes, b \in ChainBlock : StoreAndUpdateLatest(n, b)
           \/ \E n \in Nodes : Panic(n) \/ Restart(n)
  <1> DEFINE Still   == UNCHANGED <<up, bucket, latestBlockID, blockIndexMap>>
             Stores  == up' = up /\ \E n \in Nodes, b \in ChainBlock : StoreAndUpdateLatest(n, b)
             Process == \E n \in Nodes : Panic(n) \/ Restart(n)
  <1>1. ASSUME NEW n, CreateGenesisBlock(n) PROVE Still
    BY <1>1 DEF CreateGenesisBlock
  <1>g. ASSUME NEW n \in creating, StoreGenesisBlock(n) PROVE Stores
    <2>1. n \in Nodes
      BY ConstantsAssumption DEF RoundIInv, DbInv
    <2> QED
      BY <1>g, <2>1, GenesisChained DEF StoreGenesisBlock
  <1>2. ASSUME NEW n \in Nodes, NEW b \in storing[n], StoreNewLeaderHelloBlock(n, b) PROVE Stores
    <2>1. b \in ChainBlock
      BY DEF RoundIInv, DbInv
    <2> QED
      BY <1>2, <2>1 DEF StoreNewLeaderHelloBlock
  <1>3. ASSUME NEW n, NEW tmpl, StartMiner(n, tmpl) PROVE Still
    BY <1>3 DEF StartMiner, dbVars
  <1>4. ASSUME NEW n, NEW g, Solve(n, g) \/ QuitMining(n, g) PROVE Still
    BY <1>4 DEF Solve, QuitMining, dbVars
  <1>5. ASSUME NEW m \in net, HandleMessage(m) PROVE Still \/ Process
    <2>1. m.to \in Nodes
      BY MessageTyped DEF RoundIInv
    <2>2. CASE HandleCandidateBlock(m) \/ HandleRefererBlock(m) \/ Lose(m)
      BY <2>2 DEF HandleCandidateBlock, HandleRefererBlock, Lose, dbVars
    <2>3. CASE HandleNewLeaderHelloBlock(m)
      BY <2>3 DEF HandleNewLeaderHelloBlock
    <2>4. CASE HandleProxyRequest(m)
      BY <2>1, <2>4 DEF HandleProxyRequest, dbVars
    <2> QED
      BY <1>5, <2>2, <2>3, <2>4 DEF HandleMessage
  <1>r. ASSUME NEW m \in referring, RefererStep(m) PROVE Still \/ Process
    <2>1. m.to \in Nodes
      BY DEF RoundIInv, RoundInv, RoundReferer
    <2> QED
      BY <1>r, <2>1 DEF RefererStep, RecordRefererBlock, RefererBlockPanics, RefererBlockHangs, dbVars
  <1>6. ASSUME NEW s, TimerStep(s) PROVE Still
    BY <1>6 DEF TimerStep, TimerBegin, TimerArm, TimerExpire, TimerAnnounce, DeFork, dbVars
  <1>7. ASSUME NEW s \in HelloSlots, HelloStep(s) PROVE Still \/ Stores \/ Process
    <2>1. CASE HelloBegin(s)
      BY <2>1 DEF HelloBegin, dbVars
    <2>2. CASE HelloPublish(s)
      BY <2>2, PublishesChained DEF HelloPublish
    <2>3. CASE HelloPanics(s)
      BY <2>3, HelloTyped DEF HelloPanics, RoundIInv
    <2> QED
      BY <1>7, <2>1, <2>2, <2>3 DEF HelloStep
  <1>8. ASSUME NEW n \in Supervised, Crash(n) \/ Restart(n) PROVE Process
    BY <1>8, ConstantsAssumption DEF Crash
  <1>9. ASSUME UNCHANGED vars PROVE Still
    BY <1>9 DEF vars, dbVars
  <1> HIDE DEF Still, Stores, Process
  <1>10. Still \/ Stores \/ Process
    BY <1>1, <1>g, <1>2, <1>3, <1>4, <1>5, <1>r, <1>6, <1>7, <1>8, <1>9 DEF Next
  <1> QED
    BY <1>10 DEF Still, Stores, Process

\* IndexMatchesBucket, of one node.
IndexAt(n) ==
    /\ \A i \in DOMAIN blockIndexMap[n] :
          /\ blockIndexMap[n][i] \in DOMAIN bucket[n]
          /\ bucket[n][blockIndexMap[n][i]].index = i
    /\ latestBlockID[n] # Nil =>
          /\ latestBlockID[n] \in DOMAIN bucket[n]
          /\ bucket[n][latestBlockID[n]].index \in DOMAIN blockIndexMap[n]
    /\ up[n] /\ DOMAIN bucket[n] # {} => latestBlockID[n] # Nil

LEMMA IndexStores ==
    ASSUME DbInv, NEW n \in Nodes, IndexAt(n), NEW b \in ChainBlock, StoreAndUpdateLatest(n, b)
    PROVE  IndexAt(n)'
  <1>1. b.hash \in Hashes /\ b.index \in Nat
    BY ConstantsAssumption DEF ChainBlock, GetGenesisBlock
  <1>2. bucket'[n] = MapPut(bucket[n], b.hash, b)
        /\ blockIndexMap'[n] = MapPut(blockIndexMap[n], b.index, b.hash)
        /\ latestBlockID'[n] = b.hash
    BY DEF StoreAndUpdateLatest, Store, UpdateLatest, DbInv
  <1>3. DOMAIN bucket'[n] = DOMAIN bucket[n] \cup {b.hash}
        /\ DOMAIN blockIndexMap'[n] = DOMAIN blockIndexMap[n] \cup {b.index}
    BY <1>2 DEF MapPut
  <1>4. \A h \in DOMAIN bucket'[n] : bucket'[n][h] = IF h = b.hash THEN b ELSE bucket[n][h]
    BY <1>2 DEF MapPut
  <1>5. \A i \in DOMAIN blockIndexMap'[n] :
            blockIndexMap'[n][i] = IF i = b.index THEN b.hash ELSE blockIndexMap[n][i]
    BY <1>2 DEF MapPut
  <1>6. b.hash \in DOMAIN bucket[n] => bucket[n][b.hash].index = b.index
    <2>1. \A c, d \in ChainBlock : c.hash = d.hash => c.index = d.index
      BY DEF ChainBlock, GetGenesisBlock
    <2> QED
      BY <2>1 DEF DbInv, IsMap
  <1>7. ASSUME NEW i \in DOMAIN blockIndexMap'[n]
        PROVE  /\ blockIndexMap'[n][i] \in DOMAIN bucket'[n]
               /\ bucket'[n][blockIndexMap'[n][i]].index = i
    <2>1. CASE i = b.index
      BY <1>3, <1>4, <1>5, <2>1
    <2>2. CASE i # b.index
      BY <1>3, <1>4, <1>5, <1>6, <2>2 DEF IndexAt
    <2> QED
      BY <2>1, <2>2
  <1>8. latestBlockID'[n] \in DOMAIN bucket'[n] /\ latestBlockID'[n] # Nil
        /\ bucket'[n][latestBlockID'[n]].index \in DOMAIN blockIndexMap'[n]
    BY <1>1, <1>2, <1>3, <1>4, ConstantsAssumption
  <1> QED
    BY <1>7, <1>8 DEF IndexAt

LEMMA IndexRestarts ==
    ASSUME DbInv, NEW n \in Nodes, Restart(n)
    PROVE  IndexAt(n)'
  <1> DEFINE stored == DOMAIN bucket[n]
             indexes == {bucket[n][h].index : h \in stored}
  <1>1. PICK latest \in stored \cup {Nil} :
            /\ stored # {} => IsLast(latest, stored)
            /\ latestBlockID' = [latestBlockID EXCEPT ![n] = latest]
    BY DEF Restart
  <1>2. PICK map \in [indexes -> stored] :
            /\ \A i \in indexes : IsLast(map[i], {h \in stored : bucket[n][h].index = i})
            /\ blockIndexMap' = [blockIndexMap EXCEPT ![n] = map]
    BY DEF Restart
  <1>3. latestBlockID'[n] = latest /\ blockIndexMap'[n] = map /\ bucket' = bucket
    BY <1>1, <1>2 DEF Restart, DbInv
  <1>4. \A i \in indexes : map[i] \in stored /\ bucket[n][map[i]].index = i
    BY <1>2 DEF IsLast
  <1>5. stored # {} => latest \in stored
    BY <1>1 DEF IsLast
  <1>6. Nil \notin stored
    BY ConstantsAssumption DEF DbInv, IsMap
  <1>7. latest # Nil => latest \in stored /\ bucket[n][latest].index \in indexes
    BY <1>1, Zenon
  <1>8. DOMAIN map = indexes
    OBVIOUS
  <1> HIDE DEF stored, indexes
  <1> QED
    BY <1>3, <1>4, <1>5, <1>6, <1>7, <1>8 DEF IndexAt, stored

LEMMA IndexNext ==
    ASSUME RoundIInv, IndexMatchesBucket, [Next]_vars
    PROVE  IndexMatchesBucket'
  <1>1. \A n \in Nodes : IndexAt(n)
    BY DEF IndexMatchesBucket, IndexAt
  <1>2. ASSUME NEW n \in Nodes, UNCHANGED <<up, bucket, latestBlockID, blockIndexMap>>
        PROVE  IndexAt(n)'
    BY <1>1, <1>2 DEF IndexAt
  <1>3. ASSUME NEW n \in Nodes, UNCHANGED <<up[n], bucket[n], latestBlockID[n], blockIndexMap[n]>>
        PROVE  IndexAt(n)'
    BY <1>1, <1>3 DEF IndexAt
  <1>4. ASSUME NEW n \in Nodes, NEW k \in Nodes, NEW b \in ChainBlock,
               StoreAndUpdateLatest(k, b), up' = up
        PROVE  IndexAt(n)'
    <2>1. n # k => UNCHANGED <<up[n], bucket[n], latestBlockID[n], blockIndexMap[n]>>
      BY <1>4 DEF StoreAndUpdateLatest, Store, UpdateLatest, RoundIInv, DbInv
    <2> QED
      BY <1>1, <1>3, <1>4, <2>1, IndexStores DEF RoundIInv
  <1>5. ASSUME NEW n \in Nodes, NEW k \in Nodes, Panic(k)
        PROVE  IndexAt(n)'
    <2>1. n # k => UNCHANGED <<up[n], bucket[n], latestBlockID[n], blockIndexMap[n]>>
      BY <1>5 DEF Panic, RoundIInv, DbInv
    <2>2. n = k => /\ latestBlockID'[n] = Nil /\ ~up'[n]
                   /\ blockIndexMap'[n] = EmptyMap /\ DOMAIN EmptyMap = {}
      BY <1>5 DEF Panic, EmptyMap, RoundIInv, DbInv
    <2> QED
      BY <1>3, <2>1, <2>2 DEF IndexAt
  <1>6. ASSUME NEW n \in Nodes, NEW k \in Nodes, Restart(k)
        PROVE  IndexAt(n)'
    <2>1. n # k => UNCHANGED <<up[n], bucket[n], latestBlockID[n], blockIndexMap[n]>>
      BY <1>6 DEF Restart, RoundIInv, DbInv
    <2> QED
      BY <1>3, <1>6, <2>1, IndexRestarts DEF RoundIInv
  <1>7. \A n \in Nodes : IndexAt(n)'
    BY <1>2, <1>4, <1>5, <1>6, StepsOfDb
  <1> QED
    BY <1>7 DEF IndexMatchesBucket, IndexAt

-----------------------------------------------------------------------------
\* Whatever is stored by whom, and however often processes end and start again,
\* the index of every node agrees with its bucket, and a running node with a
\* block has a latest one: in every network.
THEOREM IndexAlwaysMatches == Spec => []IndexMatchesBucket
  <1>1. Init => IndexMatchesBucket
    <2>1. DOMAIN EmptyMap = {}
      BY DEF EmptyMap
    <2> QED
      BY <2>1 DEF Init, IndexMatchesBucket
  <1> QED
    BY <1>1, IndexNext, RoundIInvAlways, PTL DEF Spec

-----------------------------------------------------------------------------
\* A Miner that is started and has no generator, and keeps so unless its process ends.
IdleStep(n) ==
    up'[n] /\ miner[n].started /\ miner[n].gens = {} => miner'[n].started /\ miner'[n].gens = {}

\* Only stopMiner resets `started', and only the timer of the leader calls it.
LEMMA IdleNext ==
    ASSUME RoundIInv, [Next]_vars, NEW n \in Nodes, n # GenesisKey
    PROVE  IdleStep(n)
  <1>1. miner \in [Nodes -> LeaderMiner]
    BY DEF RoundIInv, RoundInv
  <1>2. ASSUME miner' = miner PROVE IdleStep(n)
    BY <1>2 DEF IdleStep
  <1>3. ASSUME NEW k \in Nodes, Panic(k) PROVE IdleStep(n)
    BY <1>3 DEF Panic, IdleStep, RoundIInv, DbInv
  <1>4. ASSUME NEW k \in Nodes, NEW tmpl \in miner[k].starting, StartMiner(k, tmpl)
        PROVE  IdleStep(n)
    BY <1>1, <1>4 DEF StartMiner, IdleStep, LeaderMiner
  <1>5. ASSUME NEW k \in Nodes, NEW g \in miner[k].gens, Solve(k, g) \/ QuitMining(k, g)
        PROVE  IdleStep(n)
    BY <1>1, <1>5 DEF Solve, QuitMining, IdleStep, LeaderMiner
  <1>6. ASSUME NEW s \in TimerSlots, TimerStep(s) PROVE IdleStep(n)
    <2>1. CASE TimerBegin(s)
      <3>1. timers[s].node \in Nodes
        BY <2>1, TimerTyped DEF TimerBegin, RoundIInv
      <3> QED
        BY <1>1, <2>1, <3>1 DEF TimerBegin, IdleStep, LeaderMiner
    <2>2. CASE TimerExpire(s)
      <3>1. timers[s].node = GenesisKey
        BY <2>2, TimerTyped DEF TimerExpire, RoundIInv
      <3> QED
        BY <1>1, <2>2, <3>1 DEF TimerExpire, StopMiner, IdleStep
    <2>3. CASE TimerArm(s) \/ TimerAnnounce(s) \/ DeFork(s)
      BY <1>2, <2>3 DEF TimerArm, TimerAnnounce, DeFork, roundVars
    <2> QED
      BY <1>6, <2>1, <2>2, <2>3 DEF TimerStep
  <1>7. ASSUME NEW m \in net, HandleMessage(m) PROVE IdleStep(n)
    <2>1. m.to \in Nodes
      BY MessageTyped DEF RoundIInv
    <2>2. miner' = miner \/ Panic(m.to)
      BY <1>7 DEF HandleMessage, HandleCandidateBlock, HandleRefererBlock, Lose,
                  HandleNewLeaderHelloBlock, HandleProxyRequest, roundVars
    <2> QED
      BY <1>2, <1>3, <2>1, <2>2
  <1>r. ASSUME NEW m \in referring, RefererStep(m) PROVE IdleStep(n)
    <2>1. m.to \in Nodes
      BY DEF RoundIInv, RoundInv, RoundReferer
    <2>2. miner' = miner \/ Panic(m.to)
      BY <1>r DEF RefererStep, RecordRefererBlock, RefererBlockPanics, RefererBlockHangs
    <2> QED
      BY <1>2, <1>3, <2>1, <2>2
  <1>8. ASSUME NEW s \in HelloSlots, HelloStep(s) PROVE IdleStep(n)
    <2>1. CASE HelloBegin(s) \/ HelloPublish(s)
      BY <1>2, <2>1 DEF HelloBegin, HelloPublish, roundVars
    <2>2. CASE HelloPanics(s)
      BY <1>3, <2>2, HelloTyped DEF HelloPanics, RoundIInv
    <2> QED
      BY <1>8, <2>1, <2>2 DEF HelloStep
  <1>9. ASSUME NEW k \in Nodes, Crash(k) \/ Restart(k) PROVE IdleStep(n)
    <2>1. miner' = miner \/ Panic(k)
      BY <1>9 DEF Crash, Restart, roundVars
    <2> QED
      BY <1>2, <1>3, <2>1
  <1>g. ASSUME NEW k, CreateGenesisBlock(k) \/ StoreGenesisBlock(k) PROVE IdleStep(n)
    BY <1>2, <1>g DEF CreateGenesisBlock, StoreGenesisBlock, roundVars
  <1>10. ASSUME NEW k \in Nodes, NEW b, StoreNewLeaderHelloBlock(k, b) PROVE IdleStep(n)
    BY <1>2, <1>10 DEF StoreNewLeaderHelloBlock, roundVars
  <1>11. ASSUME UNCHANGED vars PROVE IdleStep(n)
    BY <1>2, <1>11 DEF vars, roundVars
  <1> QED
    BY <1>4, <1>5, <1>6, <1>7, <1>r, <1>8, <1>9, <1>g, <1>10, <1>11, ConstantsAssumption DEF Next

\* In every network, a node that is not the leader mines once in the life of its
\* process: nothing but the leader's timer stops a Miner, whatever arrives.
THEOREM OneMiningPerProcess == Spec => IdleMinerStaysIdle
  <1>1. ASSUME RoundIInv, [Next]_vars
        PROVE  [\A n \in Nodes \ {GenesisKey} :
                  up[n] /\ up'[n] /\ miner[n].started /\ miner[n].gens = {}
                    => miner'[n].started /\ miner'[n].gens = {}]_vars
    BY <1>1, IdleNext DEF IdleStep
  <1> QED
    BY <1>1, RoundIInvAlways, PTL DEF Spec, IdleMinerStaysIdle

-----------------------------------------------------------------------------
(***************************************************************************)
(* One block per hash.                                                     *)
(***************************************************************************)
\* Where a block is.
Stored(n, b) == b \in OnDisk(n)

Sent(b) == \E m \in net : m.type = "Hello" /\ m.block = b

LEMMA HelloBlocksAre ==
    ASSUME NEW b
    PROVE  b \in HelloBlocks <=> (\E n \in Nodes : Stored(n, b) \/ b \in storing[n]) \/ Sent(b)
  BY DEF HelloBlocks, Stored, OnDisk, Sent

LEMMA HelloBlocksArePrime ==
    ASSUME NEW b
    PROVE  b \in HelloBlocks' <=> (\E n \in Nodes : Stored(n, b)' \/ b \in storing'[n]) \/ Sent(b)'
  BY DEF HelloBlocks, Stored, OnDisk, Sent

\* They are chained blocks.
LEMMA HelloBlocksChained == RoundIInv => HelloBlocks \subseteq ChainBlock
  <1> SUFFICES ASSUME RoundIInv, NEW b \in HelloBlocks PROVE b \in ChainBlock
    OBVIOUS
  <1>1. ASSUME NEW n \in Nodes, Stored(n, b) \/ b \in storing[n] PROVE b \in ChainBlock
    BY <1>1 DEF Stored, OnDisk, RoundIInv, DbInv, IsMap
  <1>2. ASSUME Sent(b) PROVE b \in ChainBlock
    BY <1>2 DEF Sent, RoundIInv, NetInv, RoundMessage, RoundReferer
  <1> QED
    BY <1>1, <1>2, HelloBlocksAre

\* Storing and broadcasting a block makes no other known.
LEMMA StoresOne ==
    ASSUME DbInv, NEW n \in Nodes, NEW b, StoreAndUpdateLatest(n, b),
           \A k \in Nodes : storing'[k] \subseteq storing[k],
           net' = net \cup BroadcastBlock(n, "Hello", b)
    PROVE  HelloBlocks' \subseteq HelloBlocks \cup {b}
  <1>1. ASSUME NEW k \in Nodes, NEW c, Stored(k, c)' PROVE c = b \/ Stored(k, c)
    <2>1. bucket' = [bucket EXCEPT ![n] = MapPut(bucket[n], b.hash, b)]
      BY DEF StoreAndUpdateLatest, Store, UpdateLatest
    <2>2. bucket'[k] = IF k = n THEN MapPut(bucket[n], b.hash, b) ELSE bucket[k]
      BY <2>1 DEF DbInv
    <2> QED
      BY <1>1, <2>2 DEF Stored, OnDisk, MapPut
  <1>2. ASSUME NEW c, Sent(c)' PROVE c = b \/ Sent(c)
    BY <1>2 DEF Sent, BroadcastBlock
  <1> QED
    BY <1>1, <1>2, HelloBlocksAre, HelloBlocksArePrime

\* Every other step moves known blocks, or loses some.
LEMMA MovesBlocks ==
    ASSUME bucket' = bucket,
           \A k \in Nodes : storing'[k] \subseteq HelloBlocks,
           \A m \in net' \ net : m.type # "Hello"
    PROVE  HelloBlocks' \subseteq HelloBlocks
  <1>1. ASSUME NEW k \in Nodes, NEW c, Stored(k, c)' PROVE Stored(k, c)
    BY <1>1 DEF Stored, OnDisk
  <1>2. ASSUME NEW c, Sent(c)' PROVE Sent(c)
    BY <1>2 DEF Sent
  <1> QED
    BY <1>1, <1>2, HelloBlocksAre, HelloBlocksArePrime

LEMMA StoringKnown == \A k \in Nodes : storing[k] \subseteq HelloBlocks
  BY HelloBlocksAre

\* Someone stores a block and broadcasts it.
Files(n, b) ==
    /\ StoreAndUpdateLatest(n, b)
    /\ net' = net \cup BroadcastBlock(n, "Hello", b)
    /\ \A k \in Nodes : storing'[k] \subseteq storing[k]

\* What the winner in slot s publishes.
Successor(s, h) ==
    [hash |-> h, index |-> hellos[s].latest.index + 1,
     prev |-> CopyInto(hellos[s].latest.prev, hellos[s].latest.hash),
     publicKey |-> hellos[s].deFork.head.publicKey, block |-> hellos[s].deFork]

Winner(s) == hellos[s] # Nil /\ hellos[s].pc = "wait" /\ ~CopyHelloPanics(hellos[s].latest)

\* A step files a block (one that is known, a founder's genesis block, or a winner's
\* new one), or moves known blocks and may lose some.
FilesKnown   == UNCHANGED usedHashes /\ \E n \in Nodes, b \in HelloBlocks : Files(n, b)
FilesGenesis == UNCHANGED usedHashes /\ \E n \in Founders : Files(n, GetGenesisBlock)
FilesNew ==
    \E s \in HelloSlots : \E h \in Hashes \ usedHashes :
        /\ Winner(s)
        /\ Files(hellos[s].node, Successor(s, h))
        /\ usedHashes' = usedHashes \cup {h}
MovesOnly ==
    /\ UNCHANGED <<bucket, usedHashes>>
    /\ \A k \in Nodes : storing'[k] \subseteq HelloBlocks
    /\ \A m \in net' \ net : m.type # "Hello"

LEMMA BlocksOfStep ==
    ASSUME RoundIInv, [Next]_vars
    PROVE  FilesKnown \/ FilesGenesis \/ FilesNew \/ MovesOnly
  <1> USE DEF MovesOnly
  <1>1. ASSUME NEW n, CreateGenesisBlock(n) PROVE MovesOnly
    BY <1>1, StoringKnown DEF CreateGenesisBlock
  <1>g. ASSUME NEW n \in creating, StoreGenesisBlock(n) PROVE FilesGenesis
    <2>1. /\ StoreAndUpdateLatest(n, GetGenesisBlock)
          /\ net' = net \cup BroadcastBlock(n, "Hello", GetGenesisBlock)
          /\ UNCHANGED <<storing, usedHashes>>
      BY <1>g DEF StoreGenesisBlock
    <2>2. Files(n, GetGenesisBlock)
      BY <2>1 DEF Files
    <2>3. n \in Founders
      BY DEF RoundIInv, DbInv
    <2> QED
      BY <2>1, <2>2, <2>3 DEF FilesGenesis
  <1>2. ASSUME NEW n \in Nodes, NEW b \in storing[n], StoreNewLeaderHelloBlock(n, b) PROVE FilesKnown
    <2>1. /\ StoreAndUpdateLatest(n, b)
          /\ net' = net \cup BroadcastBlock(n, "Hello", b)
          /\ storing' = [storing EXCEPT ![n] = storing[n] \ {b}]
          /\ UNCHANGED usedHashes
      BY <1>2 DEF StoreNewLeaderHelloBlock
    <2>2. \A k \in Nodes : storing'[k] \subseteq storing[k]
      BY <2>1 DEF RoundIInv, DbInv
    <2>3. b \in HelloBlocks
      BY StoringKnown
    <2>4. Files(n, b)
      BY <2>1, <2>2 DEF Files
    <2> QED
      BY <2>1, <2>3, <2>4 DEF FilesKnown
  <1>3. ASSUME NEW n, NEW tmpl, StartMiner(n, tmpl) PROVE MovesOnly
    BY <1>3, StoringKnown DEF StartMiner, dbVars
  <1>4. ASSUME NEW n, NEW g, Solve(n, g) \/ QuitMining(n, g) PROVE MovesOnly
    BY <1>4, StoringKnown DEF Solve, QuitMining, dbVars, BroadcastBlock
  <1>5. ASSUME NEW n \in Nodes, Panic(n), net' \subseteq net PROVE MovesOnly
    BY <1>5, StoringKnown DEF Panic, RoundIInv, DbInv
  <1>6. ASSUME NEW m \in net, HandleMessage(m) PROVE MovesOnly
    <2>1. m.to \in Nodes
      BY MessageTyped DEF RoundIInv
    <2>2. CASE HandleCandidateBlock(m)
      BY <2>2, StoringKnown DEF HandleCandidateBlock, dbVars, BroadcastBlock
    <2>3. CASE HandleRefererBlock(m) \/ Lose(m)
      BY <2>3, StoringKnown DEF HandleRefererBlock, Lose, dbVars
    <2>4. CASE HandleNewLeaderHelloBlock(m)
      <3>1. m.block \in HelloBlocks
        BY <2>4, HelloBlocksAre DEF HandleNewLeaderHelloBlock, Receive, Sent
      <3>2. \A k \in Nodes : storing'[k] \subseteq storing[k] \cup {m.block}
        BY <2>1, <2>4 DEF HandleNewLeaderHelloBlock, RoundIInv, DbInv
      <3>3. UNCHANGED <<bucket, usedHashes>> /\ net' = net \ {m}
        BY <2>4 DEF HandleNewLeaderHelloBlock
      <3> QED
        BY <3>1, <3>2, <3>3, StoringKnown
    <2>5. CASE HandleProxyRequest(m)
      <3>1. net' = net \ {m} /\ (Panic(m.to) \/ UNCHANGED <<dbVars, usedHashes>>)
        BY <2>5 DEF HandleProxyRequest
      <3>2. CASE Panic(m.to)
        BY <1>5, <2>1, <3>1, <3>2
      <3>3. CASE UNCHANGED <<dbVars, usedHashes>>
        BY <3>1, <3>3, StoringKnown DEF dbVars
      <3> QED
        BY <3>1, <3>2, <3>3
    <2> QED
      BY <1>6, <2>2, <2>3, <2>4, <2>5 DEF HandleMessage
  <1>r. ASSUME NEW m \in referring, RefererStep(m) PROVE MovesOnly
    <2>1. m.to \in Nodes
      BY DEF RoundIInv, RoundInv, RoundReferer
    <2>2. CASE RecordRefererBlock(m)
      BY <2>2, StoringKnown DEF RecordRefererBlock, dbVars, BroadcastBlock
    <2>3. CASE RefererBlockPanics(m)
      BY <1>5, <2>1, <2>3 DEF RefererBlockPanics
    <2>4. CASE RefererBlockHangs(m)
      BY <2>4, StoringKnown DEF RefererBlockHangs, dbVars
    <2> QED
      BY <1>r, <2>2, <2>3, <2>4 DEF RefererStep
  <1>7. ASSUME NEW s, TimerStep(s) PROVE MovesOnly
    <2>1. UNCHANGED <<dbVars, usedHashes>>
      BY <1>7 DEF TimerStep, TimerBegin, TimerArm, TimerExpire, TimerAnnounce, DeFork
    <2>2. \A m \in net' \ net : m.type # "Hello"
      <3>1. CASE TimerBegin(s) \/ TimerArm(s) \/ TimerExpire(s)
        BY <3>1 DEF TimerBegin, TimerArm, TimerExpire
      <3>2. CASE TimerAnnounce(s)
        BY <3>2 DEF TimerAnnounce
      <3>3. CASE DeFork(s)
        <4>1. net' = net \/ \E n, d : net' = net \cup BroadcastBlock(n, "Referer", d)
          BY <3>3, Zenon DEF DeFork
        <4> QED
          BY <4>1 DEF BroadcastBlock
      <3> QED
        BY <1>7, <3>1, <3>2, <3>3 DEF TimerStep
    <2> QED
      BY <2>1, <2>2, StoringKnown DEF dbVars
  <1>8. ASSUME NEW s \in HelloSlots, HelloPublish(s) PROVE FilesNew
    <2>1. PICK h \in Hashes \ usedHashes :
             /\ usedHashes' = usedHashes \cup {h}
             /\ StoreAndUpdateLatest(hellos[s].node, Successor(s, h))
             /\ net' = net \cup BroadcastBlock(hellos[s].node, "Hello", Successor(s, h))
      BY <1>8 DEF HelloPublish, Successor
    <2>2. Winner(s) /\ storing' = storing
      BY <1>8 DEF HelloPublish, Winner
    <2>3. Files(hellos[s].node, Successor(s, h))
      BY <2>1, <2>2 DEF Files
    <2> QED
      BY <2>1, <2>2, <2>3 DEF FilesNew
  <1>9. ASSUME NEW s \in HelloSlots, HelloBegin(s) \/ HelloPanics(s) PROVE MovesOnly
    <2>1. CASE HelloBegin(s)
      BY <2>1, StoringKnown DEF HelloBegin, dbVars
    <2>2. CASE HelloPanics(s)
      BY <1>5, <2>2, HelloTyped DEF HelloPanics, RoundIInv
    <2> QED
      BY <1>9, <2>1, <2>2
  <1>10. ASSUME NEW n \in Supervised, Crash(n) \/ Restart(n) PROVE MovesOnly
    <2>1. CASE Crash(n)
      BY <1>5, <2>1, ConstantsAssumption DEF Crash
    <2>2. CASE Restart(n)
      BY <2>2, StoringKnown DEF Restart
    <2> QED
      BY <1>10, <2>1, <2>2
  <1>11. ASSUME UNCHANGED vars PROVE MovesOnly
    BY <1>11, StoringKnown DEF vars, dbVars
  <1> HIDE DEF MovesOnly
  <1>12. FilesKnown \/ FilesGenesis \/ FilesNew \/ MovesOnly
    BY <1>1, <1>g, <1>2, <1>3, <1>4, <1>6, <1>r, <1>7, <1>8, <1>9, <1>10, <1>11 DEF Next, HelloStep
  <1> QED
    BY <1>12

\* The hashes of known blocks have been produced, each for one block.
HashesInv ==
    /\ \A b \in HelloBlocks : b.hash \in usedHashes
    /\ HashNamesOneBlock

LEMMA GenesisHashIsItsOwn ==
    ASSUME RoundIInv
    PROVE  \A b \in HelloBlocks : b.hash = GetGenesisBlock.hash => b = GetGenesisBlock
  <1>1. GetGenesisBlock.hash = GenesisHash
    BY DEF GetGenesisBlock
  <1>2. \A b \in HelloBlocks : b = GetGenesisBlock \/ b.hash # GenesisHash
    BY HelloBlocksChained DEF ChainBlock
  <1> QED
    BY <1>1, <1>2

LEMMA HashesNext == RoundIInv /\ HashesInv /\ [Next]_vars => HashesInv'
  <1> SUFFICES ASSUME RoundIInv, HashesInv, [Next]_vars PROVE HashesInv'
    OBVIOUS
  <1>1. CASE FilesKnown
    <2>1. HelloBlocks' \subseteq HelloBlocks
      BY <1>1, StoresOne DEF FilesKnown, Files, RoundIInv
    <2> QED
      BY <1>1, <2>1 DEF FilesKnown, HashesInv, HashNamesOneBlock
  <1>2. CASE FilesGenesis
    <2>1. HelloBlocks' \subseteq HelloBlocks \cup {GetGenesisBlock}
      BY <1>2, StoresOne, ConstantsAssumption DEF FilesGenesis, Files, RoundIInv
    <2>2. GetGenesisBlock.hash \in usedHashes
      BY DEF GetGenesisBlock, RoundIInv, NetInv
    <2> HIDE DEF GetGenesisBlock
    <2> QED
      BY <1>2, <2>1, <2>2, GenesisHashIsItsOwn DEF FilesGenesis, HashesInv, HashNamesOneBlock
  <1>3. CASE FilesNew
    <2>1. PICK s \in HelloSlots, h \in Hashes \ usedHashes :
             Winner(s) /\ Files(hellos[s].node, Successor(s, h)) /\ usedHashes' = usedHashes \cup {h}
      BY <1>3 DEF FilesNew
    <2>2. hellos[s].node \in Nodes
      BY <2>1, HelloTyped DEF Winner, RoundIInv
    <2>3. HelloBlocks' \subseteq HelloBlocks \cup {Successor(s, h)}
      BY <2>1, <2>2, StoresOne DEF Files, RoundIInv
    <2>4. Successor(s, h).hash = h
      BY DEF Successor
    <2> QED
      BY <2>1, <2>3, <2>4 DEF HashesInv, HashNamesOneBlock
  <1>4. CASE MovesOnly
    <2>1. HelloBlocks' \subseteq HelloBlocks
      BY <1>4, MovesBlocks DEF MovesOnly
    <2> QED
      BY <1>4, <2>1 DEF MovesOnly, HashesInv, HashNamesOneBlock
  <1> QED
    BY <1>1, <1>2, <1>3, <1>4, BlocksOfStep

LEMMA NothingKnownAtFirst == Init => HelloBlocks = {}
  <1>1. DOMAIN EmptyMap = {}
    BY DEF EmptyMap
  <1> QED
    BY <1>1 DEF Init, HelloBlocks, OnDisk

\* In every network, whatever is copied, relayed, stored again or published at the
\* same time, two blocks with one hash are one block on all nodes.
THEOREM OneBlockPerHash == Spec => []HashNamesOneBlock
  <1>1. Init => HashesInv
    BY NothingKnownAtFirst DEF HashesInv, HashNamesOneBlock
  <1>2. HashesInv => HashNamesOneBlock
    BY DEF HashesInv
  <1> QED
    BY <1>1, <1>2, HashesNext, RoundIInvAlways, PTL DEF Spec

-----------------------------------------------------------------------------
(***************************************************************************)
(* The rounds implement Ledger.  What is on its way must be on some disk,  *)
(* and whoever is about to publish must be the leader with the genesis     *)
(* block in hand: the copy of any other block cannot be copied again.      *)
(***************************************************************************)
CopiesOfStored == \A b \in HelloBlocks : \E n \in Nodes : Stored(n, b)

WinnersFit ==
    \A s \in HelloSlots : Winner(s) =>
        /\ hellos[s].node = GenesisKey
        /\ hellos[s].latest = GetGenesisBlock
        /\ Stored(GenesisKey, GetGenesisBlock)

LedgerInv == RoundIInv /\ HashesInv /\ CopiesOfStored /\ WinnersFit

DiskGains(n, b) ==
    \A k \in Nodes : OnDisk(k)' = IF k = n THEN OnDisk(n) \cup {b} ELSE OnDisk(k)

\* Storing a block adds it to a disk and replaces nothing, for no other block has
\* its hash.
LEMMA StoreAddsToDisk ==
    ASSUME DbInv, NEW n \in Nodes, NEW b, StoreAndUpdateLatest(n, b),
           \A c \in OnDisk(n) : c.hash = b.hash => c = b
    PROVE  DiskGains(n, b)
  <1>1. bucket' = [bucket EXCEPT ![n] = MapPut(bucket[n], b.hash, b)]
    BY DEF StoreAndUpdateLatest, Store, UpdateLatest
  <1>2. \A k \in Nodes : bucket'[k] = IF k = n THEN MapPut(bucket[n], b.hash, b) ELSE bucket[k]
    BY <1>1 DEF DbInv
  <1>3. \A k \in Nodes : k # n => OnDisk(k)' = OnDisk(k)
    BY <1>2 DEF OnDisk
  <1>4. OnDisk(n)' = OnDisk(n) \cup {b}
    <2> DEFINE map == MapPut(bucket[n], b.hash, b)
    <2>1. OnDisk(n)' = {map[h] : h \in DOMAIN map}
      BY <1>2 DEF OnDisk
    <2>2. DOMAIN map = DOMAIN bucket[n] \cup {b.hash}
          /\ \A h \in DOMAIN map : map[h] = IF h = b.hash THEN b ELSE bucket[n][h]
      BY DEF MapPut
    <2>3. \A h \in DOMAIN bucket[n] : bucket[n][h].hash = h
      BY DEF DbInv
    <2> HIDE DEF map
    <2>4. ASSUME NEW c \in OnDisk(n) PROVE \E h \in DOMAIN map : c = map[h]
      <3>1. PICK h \in DOMAIN bucket[n] : c = bucket[n][h]
        BY <2>4 DEF OnDisk
      <3>2. h = b.hash => c = b
        BY <2>3, <2>4, <3>1
      <3> QED
        BY <2>2, <3>1, <3>2
    <2>5. \E h \in DOMAIN map : b = map[h]
      BY <2>2
    <2>6. \A h \in DOMAIN map : map[h] = b \/ map[h] \in OnDisk(n)
      BY <2>2 DEF OnDisk
    <2> QED
      BY <2>1, <2>4, <2>5, <2>6
  <1> QED
    BY <1>3, <1>4 DEF DiskGains

LEMMA FilesGains ==
    ASSUME RoundIInv, HashesInv, NEW n \in Nodes, NEW b, Files(n, b),
           b \in HelloBlocks \/ b = GetGenesisBlock \/ b.hash \notin usedHashes
    PROVE  DiskGains(n, b) /\ HelloBlocks' \subseteq HelloBlocks \cup {b}
  <1>1. OnDisk(n) \subseteq HelloBlocks
    BY HelloBlocksAre DEF Stored
  <1>2. \A c \in HelloBlocks : c.hash = b.hash => c = b
    BY GenesisHashIsItsOwn DEF HashesInv, HashNamesOneBlock
  <1>3. DiskGains(n, b)
    BY <1>1, <1>2, StoreAddsToDisk DEF Files, RoundIInv
  <1> QED
    BY <1>3, StoresOne DEF Files, RoundIInv

\* A step adds to one disk a known block, a founder's genesis block or the leader's
\* new one, or changes none; and no block but that becomes known.
LedgerStep(n, b) == DiskGains(n, b) /\ HelloBlocks' \subseteq HelloBlocks \cup {b}

LEMMA DisksOfStep ==
    ASSUME LedgerInv, [Next]_vars
    PROVE  \/ \E n \in Nodes, b \in HelloBlocks : LedgerStep(n, b)
           \/ \E n \in Founders : LedgerStep(n, GetGenesisBlock)
           \/ \E s \in HelloSlots : \E h \in Hashes \ usedHashes :
                 Winner(s) /\ LedgerStep(GenesisKey, Successor(s, h))
           \/ bucket' = bucket /\ HelloBlocks' \subseteq HelloBlocks
  <1>1. CASE FilesKnown
    BY <1>1, FilesGains DEF FilesKnown, LedgerStep, LedgerInv
  <1>2. CASE FilesGenesis
    <2>1. PICK n \in Founders : Files(n, GetGenesisBlock)
      BY <1>2 DEF FilesGenesis
    <2>2. LedgerStep(n, GetGenesisBlock)
      BY <2>1, FilesGains, ConstantsAssumption DEF LedgerStep, LedgerInv
    <2> QED
      BY <2>2
  <1>3. CASE FilesNew
    <2>1. PICK s \in HelloSlots, h \in Hashes \ usedHashes :
             Winner(s) /\ Files(hellos[s].node, Successor(s, h))
      BY <1>3 DEF FilesNew
    <2>2. hellos[s].node = GenesisKey
      BY <2>1 DEF LedgerInv, WinnersFit
    <2>3. Successor(s, h).hash \notin usedHashes
      BY DEF Successor
    <2>4. LedgerStep(GenesisKey, Successor(s, h))
      BY <2>1, <2>2, <2>3, FilesGains, ConstantsAssumption DEF LedgerStep, LedgerInv
    <2> QED
      BY <2>1, <2>4
  <1>4. CASE MovesOnly
    BY <1>4, MovesBlocks DEF MovesOnly
  <1> QED
    BY <1>1, <1>2, <1>3, <1>4, BlocksOfStep DEF LedgerInv

\* Disks only gain blocks.
LEMMA StaysStored ==
    ASSUME LedgerInv, [Next]_vars, NEW n \in Nodes, NEW b, Stored(n, b)
    PROVE  Stored(n, b)'
  <1>1. ASSUME NEW k, NEW c, DiskGains(k, c) PROVE Stored(n, b)'
    BY <1>1 DEF DiskGains, Stored
  <1>2. ASSUME bucket' = bucket PROVE Stored(n, b)'
    BY <1>2 DEF Stored, OnDisk
  <1> QED
    BY <1>1, <1>2, DisksOfStep DEF LedgerStep

LEMMA CopiesNext ==
    ASSUME LedgerInv, [Next]_vars
    PROVE  CopiesOfStored'
  <1>1. \A b \in HelloBlocks : \E n \in Nodes : Stored(n, b)'
    BY StaysStored DEF LedgerInv, CopiesOfStored
  <1>2. ASSUME NEW n \in Nodes, NEW c, LedgerStep(n, c) PROVE CopiesOfStored'
    <2>1. Stored(n, c)'
      BY <1>2 DEF LedgerStep, DiskGains, Stored
    <2>2. HelloBlocks' \subseteq HelloBlocks \cup {c}
      BY <1>2 DEF LedgerStep
    <2> QED
      BY <1>1, <2>1, <2>2 DEF CopiesOfStored
  <1>3. ASSUME HelloBlocks' \subseteq HelloBlocks PROVE CopiesOfStored'
    BY <1>1, <1>3 DEF CopiesOfStored
  <1> QED
    BY <1>2, <1>3, DisksOfStep, ConstantsAssumption

\* A goroutine reaches its wait only by HelloBegin.
LEMMA HellosOfStep ==
    ASSUME RoundIInv, [Next]_vars, NEW s \in HelloSlots
    PROVE  hellos'[s] \in {Nil, hellos[s]} \/ hellos'[s].pc = "begin" \/ HelloBegin(s)
  <1> DEFINE Calm == hellos'[s] \in {Nil, hellos[s]}
             Starts == hellos'[s].pc = "begin"
  <1>0. hellos \in [HelloSlots -> RoundHello \cup {Nil}]
    BY DEF RoundIInv, ThreadInv
  <1>1. ASSUME NEW n, Panic(n) PROVE Calm
    BY <1>1 DEF Panic
  <1>2. ASSUME NEW n, NEW d, hellos' = Spawn(hellos, Hello(n, "begin", d, Nil)) PROVE Calm \/ Starts
    <2> DEFINE t == Hello(n, "begin", d, Nil)
    <2>1. t.pc = "begin" /\ hellos' = Spawn(hellos, t)
      BY <1>2 DEF Hello
    <2> HIDE DEF t
    <2>2. hellos'[s] = t \/ hellos'[s] = hellos[s]
      BY <1>0, <2>1 DEF Spawn
    <2> QED
      BY <2>1, <2>2
  <1>3. ASSUME NEW r \in HelloSlots, hellos' = Exit(hellos, r) PROVE Calm
    BY <1>0, <1>3 DEF Exit
  <1>4. ASSUME NEW n, CreateGenesisBlock(n) \/ StoreGenesisBlock(n) PROVE Calm
    BY <1>4 DEF CreateGenesisBlock, StoreGenesisBlock
  <1>5. ASSUME NEW n, NEW b, StoreNewLeaderHelloBlock(n, b) PROVE Calm
    BY <1>5 DEF StoreNewLeaderHelloBlock
  <1>6. ASSUME NEW n, NEW g, StartMiner(n, g) \/ Solve(n, g) \/ QuitMining(n, g) PROVE Calm
    BY <1>6 DEF StartMiner, Solve, QuitMining
  <1>7. ASSUME NEW m, HandleMessage(m) PROVE Calm
    <2>1. CASE HandleCandidateBlock(m) \/ HandleRefererBlock(m) \/ Lose(m)
      BY <2>1 DEF HandleCandidateBlock, HandleRefererBlock, Lose
    <2>2. CASE HandleNewLeaderHelloBlock(m)
      BY <2>2 DEF HandleNewLeaderHelloBlock
    <2>3. CASE HandleProxyRequest(m)
      BY <1>1, <2>3 DEF HandleProxyRequest
    <2> QED
      BY <1>7, <2>1, <2>2, <2>3 DEF HandleMessage
  <1>r. ASSUME NEW m, RefererStep(m) PROVE Calm \/ Starts
    <2>1. hellos' = hellos \/ hellos' = Spawn(hellos, Hello(m.to, "begin", m.block, Nil)) \/ Panic(m.to)
      BY <1>r DEF RefererStep, RecordRefererBlock, RefererBlockPanics, RefererBlockHangs
    <2> QED
      BY <1>1, <1>2, <2>1
  <1>8. ASSUME NEW r, TimerStep(r) PROVE Calm \/ Starts
    <2>1. CASE DeFork(r)
      <3>1. hellos' = hellos \/ \E n, d : hellos' = Spawn(hellos, Hello(n, "begin", d, Nil))
        BY <2>1, Zenon DEF DeFork
      <3> QED
        BY <1>2, <3>1
    <2>2. CASE TimerBegin(r) \/ TimerArm(r) \/ TimerExpire(r) \/ TimerAnnounce(r)
      BY <2>2 DEF TimerBegin, TimerArm, TimerExpire, TimerAnnounce
    <2> QED
      BY <1>8, <2>1, <2>2 DEF TimerStep
  <1>9. ASSUME NEW r \in HelloSlots, HelloStep(r) PROVE Calm \/ HelloBegin(s)
    <2>1. CASE HelloBegin(r) /\ r # s
      BY <1>0, <2>1 DEF HelloBegin, Exit
    <2>2. CASE HelloPublish(r)
      BY <1>3, <2>2 DEF HelloPublish
    <2>3. CASE HelloPanics(r)
      BY <1>1, <2>3 DEF HelloPanics
    <2> QED
      BY <1>9, <2>1, <2>2, <2>3 DEF HelloStep
  <1>10. ASSUME NEW n, Crash(n) \/ Restart(n) PROVE Calm
    BY <1>1, <1>10 DEF Crash, Restart
  <1>11. ASSUME UNCHANGED vars PROVE Calm
    BY <1>11 DEF vars
  <1> HIDE DEF Calm, Starts
  <1>12. Calm \/ Starts \/ HelloBegin(s)
    BY <1>4, <1>5, <1>6, <1>7, <1>r, <1>8, <1>9, <1>10, <1>11 DEF Next
  <1> QED
    BY <1>12 DEF Calm, Starts

\* If the copy of a stored block can be copied again, both are the genesis block.
LEMMA CopiesOfGenesis ==
    ASSUME NEW b \in ChainBlock, ~CopyHelloPanics(CopyHello(b))
    PROVE  b = GetGenesisBlock /\ CopyHello(b) = b
  <1>1. CopyHello(b).index = b.index
    BY DEF CopyHello, ChainBlock, GetGenesisBlock
  <1>2. CopyHello(b).index = 0
    BY CopyChained DEF LatestCopy
  <1>3. b = GetGenesisBlock \/ b.index = 1
    BY DEF ChainBlock
  <1> QED
    BY <1>1, <1>2, <1>3, CopyGenesis

LEMMA WinnersNext ==
    ASSUME LedgerInv, [Next]_vars
    PROVE  WinnersFit'
  <1> SUFFICES ASSUME NEW s \in HelloSlots, Winner(s)'
               PROVE  /\ hellos'[s].node = GenesisKey
                      /\ hellos'[s].latest = GetGenesisBlock
                      /\ Stored(GenesisKey, GetGenesisBlock)'
    BY DEF WinnersFit
  <1>1. hellos'[s] # Nil /\ hellos'[s].pc = "wait" /\ ~CopyHelloPanics(hellos'[s].latest)
    BY DEF Winner
  <1>2. CASE hellos'[s] = hellos[s]
    <2>1. Winner(s)
      BY <1>1, <1>2 DEF Winner
    <2> QED
      BY <1>2, <2>1, StaysStored, ConstantsAssumption DEF LedgerInv, WinnersFit
  <1>3. CASE HelloBegin(s)
    <2> DEFINE t == hellos[s]
               n == t.node
               h == latestBlockID[n]
    <2>1. t # Nil /\ n \in Nodes /\ t.deFork \in Elected
      BY <1>3, HelloTyped DEF LedgerInv, RoundIInv, HelloBegin
    <2>2. t.deFork.head.publicKey = GenesisKey
      BY <2>1 DEF Elected, SignedBlock
    <2>3. hellos \in [HelloSlots -> RoundHello \cup {Nil}]
      BY DEF LedgerInv, RoundIInv, ThreadInv
    <2>4. n = GenesisKey /\ GetLatest(n) # Nil /\ hellos'[s].node = n /\ hellos'[s].latest = GetLatest(n)
      BY <1>1, <1>3, <2>2, <2>3 DEF HelloBegin, Hello, Exit
    <2>5. h \in DOMAIN bucket[n] /\ GetLatest(n) = CopyHello(bucket[n][h])
      BY <2>4 DEF GetLatest, GetByID
    <2>6. bucket[n][h] \in ChainBlock
      BY <2>1, <2>5 DEF LedgerInv, RoundIInv, DbInv, IsMap
    <2>7. bucket[n][h] = GetGenesisBlock /\ GetLatest(n) = GetGenesisBlock
      BY <1>1, <2>4, <2>5, <2>6, CopiesOfGenesis
    <2>8. Stored(n, GetGenesisBlock)
      BY <2>5, <2>7 DEF Stored, OnDisk
    <2> HIDE DEF n
    <2> QED
      BY <2>4, <2>7, <2>8, StaysStored, ConstantsAssumption
  <1> QED
    BY <1>1, <1>2, <1>3, HellosOfStep DEF LedgerInv

LEMMA LedgerInvAlways == Spec => []LedgerInv
  <1>1. Init => HashesInv /\ CopiesOfStored /\ WinnersFit
    BY NothingKnownAtFirst DEF Init, HashesInv, HashNamesOneBlock, CopiesOfStored, WinnersFit, Winner
  <1>2. LedgerInv /\ [Next]_vars => (HashesInv /\ CopiesOfStored /\ WinnersFit)'
    BY HashesNext, CopiesNext, WinnersNext DEF LedgerInv
  <1> QED
    BY <1>1, <1>2, RoundIInvAlways, PTL DEF Spec, LedgerInv

\* A new block is one that Ledger lets the leader publish.
LEMMA WinnerPublishes ==
    ASSUME LedgerInv, NEW s \in HelloSlots, NEW h \in Hashes \ usedHashes, Winner(s),
           DiskGains(GenesisKey, Successor(s, h))
    PROVE  RoundLedger!LNext
  <1> DEFINE b == Successor(s, h)
             disks == [n \in Nodes |-> OnDisk(n)]
  <1>1. hellos[s].latest = GetGenesisBlock /\ Stored(GenesisKey, GetGenesisBlock)
    BY DEF LedgerInv, WinnersFit
  <1>2. hellos[s].deFork \in Elected
    BY HelloTyped DEF Winner, LedgerInv, RoundIInv
  <1>3. /\ b.index = GetGenesisBlock.index + 1
        /\ GetGenesisBlock.prev # Nil => b.prev = GetGenesisBlock.hash
    BY <1>1 DEF Successor, CopyInto
  <1>4. /\ b.publicKey = GenesisKey
        /\ b.block.head \in b.block.order
        /\ \A c \in b.block.order : c.coll = <<GenesisKey>>
    BY <1>2 DEF Successor, Elected, SignedBlock
  <1>5. b.hash \notin usedHashes
    BY DEF Successor
  <1>6. \A c \in RoundLedger!Ledger \cup {GetGenesisBlock} : c.hash \in usedHashes
    <2>1. GetGenesisBlock.hash \in usedHashes
      BY DEF GetGenesisBlock, LedgerInv, RoundIInv, NetInv
    <2>2. RoundLedger!Ledger \subseteq HelloBlocks
      BY HelloBlocksAre DEF RoundLedger!Ledger, Stored
    <2> QED
      BY <2>1, <2>2 DEF LedgerInv, HashesInv
  <1> HIDE DEF b
  <1>7. disks' = [disks EXCEPT ![GenesisKey] = @ \cup {b}] /\ b \in disks'[GenesisKey]
    BY ConstantsAssumption DEF DiskGains, b
  <1>8. GetGenesisBlock \in disks[GenesisKey]
    BY <1>1, ConstantsAssumption DEF Stored
  <1>9. RoundLedger!Publish(b)
    BY <1>3, <1>4, <1>5, <1>6, <1>7, <1>8 DEF RoundLedger!Publish, RoundLedger!Put
  <1> QED
    BY <1>7, <1>9 DEF RoundLedger!LNext

LEMMA LedgerSteps ==
    ASSUME LedgerInv, [Next]_vars
    PROVE  RoundLedger!LNext \/ UNCHANGED [n \in Nodes |-> OnDisk(n)]
  <1> DEFINE disks == [n \in Nodes |-> OnDisk(n)]
  <1>1. ASSUME NEW n \in Nodes, NEW b \in HelloBlocks, LedgerStep(n, b) PROVE RoundLedger!LNext
    <2>1. disks' = [disks EXCEPT ![n] = @ \cup {b}]
      BY <1>1 DEF LedgerStep, DiskGains
    <2>2. b \in RoundLedger!Ledger
      BY DEF LedgerInv, CopiesOfStored, Stored, RoundLedger!Ledger
    <2>3. RoundLedger!Learn(n, b)
      BY <2>1, <2>2 DEF RoundLedger!Learn, RoundLedger!Put
    <2> QED
      BY <2>2, <2>3 DEF RoundLedger!LNext
  <1>2. ASSUME NEW n \in Founders, LedgerStep(n, GetGenesisBlock) PROVE RoundLedger!LNext
    <2>1. n \in Nodes
      BY ConstantsAssumption
    <2>2. disks' = [disks EXCEPT ![n] = @ \cup {GetGenesisBlock}]
      BY <1>2, <2>1 DEF LedgerStep, DiskGains
    <2>3. RoundLedger!Found(n)
      BY <2>2 DEF RoundLedger!Found, RoundLedger!Put
    <2> QED
      BY <2>1, <2>3 DEF RoundLedger!LNext
  <1>3. ASSUME bucket' = bucket PROVE UNCHANGED disks
    BY <1>3 DEF OnDisk
  <1> HIDE DEF disks
  <1>4. RoundLedger!LNext \/ UNCHANGED disks
    BY <1>1, <1>2, <1>3, DisksOfStep, WinnerPublishes DEF LedgerStep
  <1> QED
    BY <1>4 DEF disks

\* Every execution of the rounds, with its copies, races, panics and restarts, is
\* one of Ledger: a disk gains the genesis block, a block the leader signed and
\* publishes, or one that some disk has, and loses none.
THEOREM RoundsImplementLedger == Spec => ImplementsLedger
  <1>1. Init => RoundLedger!LInit
    BY DEF Init, EmptyMap, OnDisk, RoundLedger!LInit
  <1>2. LedgerInv /\ [Next]_vars => [RoundLedger!LNext]_([n \in Nodes |-> OnDisk(n)])
    BY LedgerSteps
  <1> QED
    BY <1>1, <1>2, LedgerInvAlways, PTL DEF Spec, ImplementsLedger, RoundLedger!LSpec
-----------------------------------------------------------------------------
(***************************************************************************)
(* The age of candidates.  Whatever is mined, sent, buffered or elected    *)
(* extends the genesis block or a block that the leader has on its disk:   *)
(* a template is made of a block that somebody filed, and the winner alone *)
(* makes such blocks, on its own disk first.  What it elects may be as old *)
(* as its buffer; it is never the work on the block that it is to publish. *)
(***************************************************************************)
\* The PrevBlock of what extends the genesis block.
GenesisNext == CopyInto(GenesisPrev, GenesisHash)

\* What a candidate may extend.
Ages ==
    {GenesisNext} \cup
    {CopyInto(GenesisPrev, d.hash) : d \in {c \in OnDisk(GenesisKey) : c.index # 0}}

\* The leader has every block it made.
LeaderHas == \A b \in HelloBlocks : b.index # 0 => b \in OnDisk(GenesisKey)

\* The candidates of a block extend what it extends, or a rival of it.
Rival(d, b, c) == d # b /\ d.index = b.index /\ c.prev = CopyInto(GenesisPrev, d.hash)

Fits(b) ==
    /\ b.prev = GenesisNext
    /\ \A c \in b.block.order :
          c.prev = GenesisNext \/ \E d \in OnDisk(GenesisKey) : Rival(d, b, c)

StoredFits == \A b \in OnDisk(GenesisKey) : b.index # 0 => Fits(b)

MinersIn(A) ==
    \A n \in Nodes :
        /\ \A t \in miner[n].starting : t.prev \in A
        /\ \A g \in miner[n].gens : g.tmpl.prev \in A

CandidatesIn(A) ==
    /\ \A m \in net : m.type = "Candidate" => m.block.prev \in A
    /\ \A n \in Nodes : \A c \in blockBuffer[n] : c.prev \in A

TimersIn(A) == \A s \in TimerSlots : timers[s] # Nil => Template(timers[s].block).prev \in A

MinedIn(A) == MinersIn(A) /\ CandidatesIn(A) /\ TimersIn(A)

AllIn(d, A) == \A c \in d.order : c.prev \in A

ElectedIn(A) ==
    /\ \A m \in net : m.type = "Referer" => AllIn(m.block, A)
    /\ \A m \in referring : AllIn(m.block, A)
    /\ \A s \in HelloSlots : hellos[s] # Nil => AllIn(hellos[s].deFork, A)

AgeInv == LeaderHas /\ StoredFits /\ MinedIn(Ages) /\ ElectedIn(Ages)

\* Disks only gain blocks, and so do the ages.
LEMMA AgesGrow ==
    ASSUME LedgerInv, [Next]_vars
    PROVE  Ages \subseteq Ages' /\ OnDisk(GenesisKey) \subseteq OnDisk(GenesisKey)'
  <1>1. OnDisk(GenesisKey) \subseteq OnDisk(GenesisKey)'
    BY StaysStored, ConstantsAssumption DEF Stored
  <1> QED
    BY <1>1 DEF Ages

\* What the leader publishes extends the genesis block.
LEMMA SuccessorFits ==
    ASSUME LedgerInv, ElectedIn(Ages), NEW s \in HelloSlots, NEW h \in Hashes \ usedHashes, Winner(s)
    PROVE  Fits(Successor(s, h)) /\ Successor(s, h).index = 1
  <1> DEFINE b == Successor(s, h)
  <1>1. hellos[s].latest = GetGenesisBlock /\ AllIn(hellos[s].deFork, Ages)
    BY DEF LedgerInv, WinnersFit, ElectedIn, Winner
  <1>2. b.index = 1 /\ b.prev = GenesisNext /\ b.block = hellos[s].deFork /\ b.hash = h
    BY <1>1 DEF Successor, GetGenesisBlock, GenesisNext
  <1> HIDE DEF b
  <1>3. ASSUME NEW d \in OnDisk(GenesisKey), d.index # 0 PROVE d # b /\ d.index = b.index
    <2>1. d \in HelloBlocks
      BY HelloBlocksAre, ConstantsAssumption DEF Stored
    <2>2. d.hash \in usedHashes
      BY <2>1 DEF LedgerInv, HashesInv
    <2>3. d.index = 1
      BY <1>3, <2>1, HelloBlocksChained DEF LedgerInv, ChainBlock, GetGenesisBlock
    <2> QED
      BY <1>2, <2>2, <2>3
  <1>4. ASSUME NEW c \in b.block.order
        PROVE  c.prev = GenesisNext \/ \E d \in OnDisk(GenesisKey) : Rival(d, b, c)
    <2>1. c.prev \in Ages
      BY <1>1, <1>2 DEF AllIn
    <2> QED
      BY <1>3, <2>1 DEF Ages, Rival
  <1>5. Fits(b)
    BY <1>2, <1>4 DEF Fits
  <1> QED
    BY <1>2, <1>5 DEF b

LEMMA LeaderHasNext ==
    ASSUME LedgerInv, LeaderHas, [Next]_vars
    PROVE  LeaderHas'
  <1>1. \A b \in HelloBlocks : b.index # 0 => b \in OnDisk(GenesisKey)'
    BY AgesGrow DEF LeaderHas
  <1>2. ASSUME NEW n, NEW b \in HelloBlocks, LedgerStep(n, b) PROVE LeaderHas'
    BY <1>1, <1>2 DEF LedgerStep, LeaderHas
  <1>3. ASSUME NEW n, LedgerStep(n, GetGenesisBlock) PROVE LeaderHas'
    <2>1. GetGenesisBlock.index = 0
      BY DEF GetGenesisBlock
    <2> HIDE DEF GetGenesisBlock
    <2> QED
      BY <1>1, <1>3, <2>1 DEF LedgerStep, LeaderHas
  <1>4. ASSUME NEW b, LedgerStep(GenesisKey, b) PROVE LeaderHas'
    <2>1. b \in OnDisk(GenesisKey)'
      BY <1>4, ConstantsAssumption DEF LedgerStep, DiskGains
    <2> QED
      BY <1>1, <1>4, <2>1 DEF LedgerStep, LeaderHas
  <1>5. ASSUME HelloBlocks' \subseteq HelloBlocks PROVE LeaderHas'
    BY <1>1, <1>5 DEF LeaderHas
  <1> QED
    BY <1>2, <1>3, <1>4, <1>5, DisksOfStep

LEMMA StoredFitsNext ==
    ASSUME LedgerInv, LeaderHas, StoredFits, ElectedIn(Ages), [Next]_vars
    PROVE  StoredFits'
  <1>1. OnDisk(GenesisKey) \subseteq OnDisk(GenesisKey)'
    BY AgesGrow
  <1>2. ASSUME NEW b, Fits(b) PROVE Fits(b)'
    BY <1>1, <1>2 DEF Fits, Rival
  <1>3. ASSUME NEW b \in OnDisk(GenesisKey), b.index # 0 PROVE Fits(b)'
    BY <1>2, <1>3 DEF StoredFits
  <1>4. ASSUME NEW n \in Nodes, NEW b, LedgerStep(n, b), b.index # 0 => Fits(b)' PROVE StoredFits'
    BY <1>3, <1>4, ConstantsAssumption DEF LedgerStep, DiskGains, StoredFits
  <1>5. \A b \in HelloBlocks : b.index # 0 => Fits(b)'
    BY <1>3 DEF LeaderHas
  <1>6. GetGenesisBlock.index = 0
    BY DEF GetGenesisBlock
  <1>7. ASSUME NEW s \in HelloSlots, NEW h \in Hashes \ usedHashes, Winner(s),
               LedgerStep(GenesisKey, Successor(s, h))
        PROVE  StoredFits'
    <2>1. PICK b : b = Successor(s, h)
      OBVIOUS
    <2>2. Fits(b)
      BY <1>7, <2>1, SuccessorFits
    <2>3. Fits(b)'
      BY <1>2, <2>2
    <2> QED
      BY <1>4, <1>7, <2>1, <2>3, ConstantsAssumption
  <1>8. ASSUME bucket' = bucket PROVE StoredFits'
    <2>1. OnDisk(GenesisKey)' = OnDisk(GenesisKey)
      BY <1>8 DEF OnDisk
    <2> QED
      BY <1>3, <2>1 DEF StoredFits
  <1>9. ASSUME NEW n \in Nodes, LedgerStep(n, GetGenesisBlock) PROVE StoredFits'
    BY <1>4, <1>6, <1>9
  <1>10. ASSUME NEW n \in Nodes, NEW b \in HelloBlocks, LedgerStep(n, b) PROVE StoredFits'
    BY <1>4, <1>5, <1>10
  <1> QED
    BY <1>7, <1>8, <1>9, <1>10, DisksOfStep, ConstantsAssumption
LEMMA SpawnStays ==
    /\ \A t : timers' = Spawn(timers, t) /\ timers = [s \in TimerSlots |-> timers[s]] =>
          \A s \in TimerSlots : timers'[s] \in {timers[s], t}
    /\ \A t : hellos' = Spawn(hellos, t) /\ hellos = [s \in HelloSlots |-> hellos[s]] =>
          \A s \in HelloSlots : hellos'[s] \in {hellos[s], t}
  BY DEF Spawn

\* The parts of MinedIn that a step leaves alone.
LEMMA MinedStays ==
    ASSUME NEW A, MinedIn(A)
    PROVE  /\ UNCHANGED miner => MinersIn(A)'
           /\ /\ UNCHANGED blockBuffer
              /\ \A m \in net' \ net : m.type # "Candidate"
              => CandidatesIn(A)'
           /\ UNCHANGED timers => TimersIn(A)'
  BY DEF MinedIn, MinersIn, CandidatesIn, TimersIn

\* What a Miner takes up, or drops, was in its hands.
LEMMA MiningNext ==
    ASSUME RoundIInv, NEW A, MinedIn(A), NEW n \in Nodes,
           NEW g, StartMiner(n, g) \/ Solve(n, g) \/ QuitMining(n, g)
    PROVE  MinedIn(A)'
  <1>0. miner = [k \in Nodes |-> miner[k]] /\ miner[n] \in LeaderMiner
    BY DEF RoundIInv, RoundInv
  <1>1. CASE StartMiner(n, g)
    <2> DEFINE gens == IF miner[n].started THEN miner[n].gens
                       ELSE miner[n].gens \cup {[tmpl |-> g, quit |-> FALSE]}
               new == [miner[n] EXCEPT !.starting = miner[n].starting \ {g},
                                       !.started = TRUE, !.gens = gens]
    <2>1. g \in miner[n].starting /\ miner' = [miner EXCEPT ![n] = new]
      BY <1>1 DEF StartMiner
    <2>2. new.starting \subseteq miner[n].starting
          /\ \A r \in new.gens : r \in miner[n].gens \/ r.tmpl = g
      BY <1>0 DEF LeaderMiner
    <2> HIDE DEF new, gens
    <2>3. MinersIn(A)'
      BY <1>0, <2>1, <2>2 DEF MinedIn, MinersIn
    <2> QED
      BY <1>1, <2>3, MinedStays DEF StartMiner, MinedIn
  <1>2. CASE Solve(n, g) \/ QuitMining(n, g)
    <2> DEFINE new == [miner[n] EXCEPT !.gens = miner[n].gens \ {g}]
    <2>1. g \in miner[n].gens /\ miner' = [miner EXCEPT ![n] = new]
      BY <1>2 DEF Solve, QuitMining
    <2>2. new.starting = miner[n].starting /\ new.gens = miner[n].gens \ {g}
      BY <1>0 DEF LeaderMiner
    <2> HIDE DEF new
    <2>3. MinersIn(A)' /\ g.tmpl.prev \in A
      BY <1>0, <2>1, <2>2 DEF MinedIn, MinersIn
    <2>4. UNCHANGED <<blockBuffer, timers>>
      BY <1>2 DEF Solve, QuitMining
    <2>5. \A m \in net' \ net : m.block.prev \in A
      <3>1. CASE Solve(n, g)
        <4>1. PICK h \in PowHashes \ usedPow :
                 net' = net \cup BroadcastBlock(n, "Candidate",
                   [hash |-> h, publicKey |-> g.tmpl.publicKey, prev |-> g.tmpl.prev, coll |-> <<>>])
          BY <3>1 DEF Solve
        <4> QED
          BY <2>3, <4>1 DEF BroadcastBlock
      <3>2. CASE QuitMining(n, g)
        BY <3>2 DEF QuitMining
      <3> QED
        BY <1>2, <3>1, <3>2
    <2> QED
      BY <2>3, <2>4, <2>5, MinedStays DEF CandidatesIn, MinedIn
  <1> QED
    BY <1>1, <1>2

\* A candidate is buffered and relayed as it came.
LEMMA CandidateNext ==
    ASSUME RoundIInv, NEW A, MinedIn(A), NEW m \in net, HandleCandidateBlock(m)
    PROVE  MinedIn(A)'
  <1> DEFINE n == m.to
             signed == [CopyBlock(m.block) EXCEPT !.coll = Sign(@, n)]
  <1>0. blockBuffer = [k \in Nodes |-> blockBuffer[k]]
    BY DEF RoundIInv, RoundInv
  <1>1. m.block \in MinedBlock /\ m.block.prev \in A
    BY MessageTyped DEF HandleCandidateBlock, Receive, RoundIInv, MinedIn, CandidatesIn
  <1>2. signed.prev \in A
    BY <1>1 DEF CopyBlock, MinedBlock
  <1>3. \/ blockBuffer' = blockBuffer /\ net' = net \ {m}
        \/ /\ blockBuffer' = [blockBuffer EXCEPT ![n] = BufferPut(blockBuffer[n], signed)]
           /\ net' = (net \ {m}) \cup BroadcastBlock(n, "Candidate", m.block)
    BY DEF HandleCandidateBlock
  <1> HIDE DEF signed, n
  <1>4. CandidatesIn(A)'
    BY <1>0, <1>1, <1>2, <1>3 DEF MinedIn, CandidatesIn, BufferPut, BroadcastBlock
  <1>5. UNCHANGED <<miner, timers>>
    BY DEF HandleCandidateBlock
  <1> QED
    BY <1>4, <1>5, MinedStays DEF MinedIn

\* A timer hands its template to the Miner, and goes on with its block.
LEMMA TimerNext ==
    ASSUME RoundIInv, NEW A, MinedIn(A), NEW s \in TimerSlots, TimerStep(s)
    PROVE  MinedIn(A)'
  <1> DEFINE t == timers[s]
  <1>0. miner = [n \in Nodes |-> miner[n]] /\ timers = [r \in TimerSlots |-> timers[r]]
    BY DEF RoundIInv, RoundInv, ThreadInv
  <1>1. t # Nil /\ UNCHANGED blockBuffer
    BY DEF TimerStep, TimerBegin, TimerArm, TimerExpire, TimerAnnounce, DeFork, roundVars
  <1>2. t \in RoundTimer /\ t.node \in Nodes /\ miner[t.node] \in LeaderMiner
        /\ Template(t.block).prev \in A
    BY <1>1, TimerTyped DEF RoundIInv, RoundInv, MinedIn, TimersIn
  <1>3. \A m \in net' \ net : m.type # "Candidate"
    <2>1. CASE TimerBegin(s) \/ TimerArm(s) \/ TimerExpire(s)
      BY <2>1 DEF TimerBegin, TimerArm, TimerExpire
    <2>2. CASE TimerAnnounce(s)
      BY <2>2 DEF TimerAnnounce
    <2>3. CASE DeFork(s)
      <3>1. net' = net \/ \E n, d : net' = net \cup BroadcastBlock(n, "Referer", d)
        BY <2>3, Zenon DEF DeFork
      <3> QED
        BY <3>1 DEF BroadcastBlock
    <2> QED
      BY <2>1, <2>2, <2>3 DEF TimerStep
  <1>4. MinersIn(A)'
    <2>1. CASE TimerBegin(s)
      <3> DEFINE added == miner[t.node].starting \cup {Template(t.block)}
                 new == [miner[t.node] EXCEPT !.starting = added]
      <3>1. new.starting = added /\ new.gens = miner[t.node].gens
        BY <1>2 DEF LeaderMiner
      <3>2. miner' = [miner EXCEPT ![t.node] = new]
        BY <2>1 DEF TimerBegin
      <3> HIDE DEF new, t
      <3> QED
        BY <1>0, <1>2, <3>1, <3>2 DEF MinedIn, MinersIn
    <2>2. CASE TimerExpire(s)
      <3> DEFINE quit == {[g EXCEPT !.quit = TRUE] : g \in miner[t.node].gens}
                 new == [miner[t.node] EXCEPT !.started = FALSE, !.gens = quit]
      <3>1. new.starting = miner[t.node].starting /\ new.gens = quit
        BY <1>2 DEF LeaderMiner
      <3>2. \A g \in quit : g.tmpl.prev \in A
        <4> SUFFICES ASSUME NEW r \in quit PROVE r.tmpl.prev \in A
          OBVIOUS
        <4>1. PICK g \in miner[t.node].gens : r = [g EXCEPT !.quit = TRUE]
          OBVIOUS
        <4>2. g \in [tmpl : LeaderTemplate, quit : BOOLEAN]
          BY <1>2 DEF LeaderMiner
        <4> HIDE DEF quit, new
        <4>3. r.tmpl = g.tmpl
          BY <4>1, <4>2
        <4>4. g.tmpl.prev \in A
          BY <1>2 DEF MinedIn, MinersIn
        <4> QED
          BY <4>3, <4>4
      <3>3. miner' = miner \/ miner' = [miner EXCEPT ![t.node] = new]
        BY <2>2 DEF TimerExpire, StopMiner
      <3> HIDE DEF new, quit, t
      <3> QED
        BY <1>0, <1>2, <3>1, <3>2, <3>3 DEF MinedIn, MinersIn
    <2>3. CASE TimerArm(s) \/ TimerAnnounce(s) \/ DeFork(s)
      BY <2>3, MinedStays DEF TimerArm, TimerAnnounce, DeFork, roundVars
    <2> QED
      BY <2>1, <2>2, <2>3 DEF TimerStep
  <1>5. TimersIn(A)'
    <2>1. \A pc : [t EXCEPT !.pc = pc].block = t.block
      BY <1>2 DEF RoundTimer
    <2>2. ASSUME NEW new, timers' = [timers EXCEPT ![s] = new], new = Nil \/ new.block = t.block
          PROVE  TimersIn(A)'
      BY <1>0, <1>2, <2>2 DEF MinedIn, TimersIn
    <2>3. CASE TimerBegin(s) \/ TimerArm(s) \/ TimerExpire(s) \/ DeFork(s)
      <3>1. timers' = [timers EXCEPT ![s] = Nil]
            \/ \E pc : timers' = [timers EXCEPT ![s] = [t EXCEPT !.pc = pc]]
        BY <2>3 DEF TimerBegin, TimerArm, TimerExpire, DeFork, Exit
      <3> HIDE DEF t
      <3> QED
        BY <2>1, <2>2, <3>1
    <2>4. CASE TimerAnnounce(s)
      <3> DEFINE moved == [t EXCEPT !.pc = "defork"]
                 after == IF IsLeader(t.node) THEN [timers EXCEPT ![s].pc = "defork"]
                                              ELSE Exit(timers, s)
                 new == Timer(t.node, "begin", t.block)
      <3>1. timers' = after \/ timers' = Spawn(after, new)
        BY <2>4, Zenon DEF TimerAnnounce
      <3>2. moved.block = t.block /\ new.block = t.block
        BY <2>1 DEF Timer
      <3>3. after = [timers EXCEPT ![s] = moved] \/ after = [timers EXCEPT ![s] = Nil]
        BY DEF Exit
      <3> HIDE DEF moved, after, new, t
      <3>4. after = [r \in TimerSlots |-> after[r]]
            /\ \A r \in TimerSlots : after[r] # Nil => Template(after[r].block).prev \in A
        BY <1>0, <1>2, <3>2, <3>3 DEF MinedIn, TimersIn
      <3>5. \A r \in TimerSlots : timers'[r] = after[r] \/ timers'[r] = new
        BY <3>1, <3>4 DEF Spawn
      <3> QED
        BY <1>2, <3>2, <3>4, <3>5 DEF TimersIn
    <2> QED
      BY <2>3, <2>4 DEF TimerStep
  <1> QED
    BY <1>1, <1>3, <1>4, <1>5, MinedStays DEF MinedIn

LEMMA MinedNext ==
    ASSUME RoundIInv, NEW A, MinedIn(A), [Next]_vars,
           \A n \in Nodes : \A b : Files(n, b) => Template(b).prev \in A
    PROVE  MinedIn(A)'
  <1>0. /\ blockBuffer = [n \in Nodes |-> blockBuffer[n]]
        /\ miner = [n \in Nodes |-> miner[n]]
        /\ timers = [s \in TimerSlots |-> timers[s]]
    BY DEF RoundIInv, RoundInv, ThreadInv
  <1>1. ASSUME NEW n, Panic(n), net' \subseteq net PROVE MinedIn(A)'
    <2>1. MinersIn(A)'
      BY <1>0, <1>1 DEF Panic, MinedIn, MinersIn, MinerIdle
    <2>2. CandidatesIn(A)'
      BY <1>0, <1>1 DEF Panic, MinedIn, CandidatesIn
    <2>3. TimersIn(A)'
      BY <1>1 DEF Panic, MinedIn, TimersIn
    <2> QED
      BY <2>1, <2>2, <2>3 DEF MinedIn
  <1>2. ASSUME NEW n \in Nodes, NEW b, Files(n, b), UNCHANGED roundVars,
               timers' = Spawn(timers, Timer(n, "begin", b))
        PROVE  MinedIn(A)'
    <2> DEFINE t == Timer(n, "begin", b)
    <2>1. Template(t.block).prev \in A /\ timers' = Spawn(timers, t)
      BY <1>2 DEF Timer
    <2> HIDE DEF t
    <2>2. \A s \in TimerSlots : timers'[s] \in {timers[s], t}
      BY <1>0, <2>1, SpawnStays
    <2>3. TimersIn(A)'
      BY <2>1, <2>2 DEF MinedIn, TimersIn
    <2>4. MinersIn(A)' /\ CandidatesIn(A)'
      BY <1>2, MinedStays DEF roundVars, Files, BroadcastBlock
    <2> QED
      BY <2>3, <2>4 DEF MinedIn
  <1>3. ASSUME NEW n, CreateGenesisBlock(n) PROVE MinedIn(A)'
    BY <1>3, MinedStays DEF CreateGenesisBlock, roundVars, MinedIn
  <1>4. ASSUME NEW n \in creating, StoreGenesisBlock(n) PROVE MinedIn(A)'
    <2>1. n \in Nodes
      BY ConstantsAssumption DEF RoundIInv, DbInv
    <2>2. Files(n, GetGenesisBlock)
      BY <1>4 DEF StoreGenesisBlock, Files
    <2> HIDE DEF GetGenesisBlock
    <2> QED
      BY <1>2, <1>4, <2>1, <2>2 DEF StoreGenesisBlock
  <1>5. ASSUME NEW n \in Nodes, NEW b \in storing[n], StoreNewLeaderHelloBlock(n, b)
        PROVE  MinedIn(A)'
    <2>1. \A k \in Nodes : storing'[k] \subseteq storing[k]
      BY <1>5 DEF StoreNewLeaderHelloBlock, RoundIInv, DbInv
    <2>2. Files(n, b)
      BY <1>5, <2>1 DEF StoreNewLeaderHelloBlock, Files
    <2> QED
      BY <1>2, <1>5, <2>2 DEF StoreNewLeaderHelloBlock
  <1>6. ASSUME NEW m \in net, HandleMessage(m) PROVE MinedIn(A)'
    <2>1. CASE HandleRefererBlock(m) \/ Lose(m) \/ HandleNewLeaderHelloBlock(m)
      <3>1. UNCHANGED <<blockBuffer, miner, timers>> /\ net' \subseteq net
        BY <2>1 DEF HandleRefererBlock, Lose, HandleNewLeaderHelloBlock, roundVars
      <3> QED
        BY <3>1, MinedStays DEF MinedIn
    <2>2. CASE HandleProxyRequest(m)
      <3>1. net' \subseteq net /\ (Panic(m.to) \/ UNCHANGED <<blockBuffer, miner, timers>>)
        BY <2>2 DEF HandleProxyRequest, roundVars
      <3> QED
        BY <1>1, <3>1, MinedStays DEF MinedIn
    <2> QED
      BY <1>6, <2>1, <2>2, CandidateNext DEF HandleMessage
  <1>7. ASSUME NEW m \in referring, RefererStep(m) PROVE MinedIn(A)'
    <2>1. \/ Panic(m.to) /\ net' \subseteq net
          \/ /\ UNCHANGED <<blockBuffer, miner, timers>>
             /\ net' \subseteq net \cup BroadcastBlock(m.to, "Referer", m.block)
      BY <1>7 DEF RefererStep, RecordRefererBlock, RefererBlockPanics, RefererBlockHangs
    <2>2. ASSUME net' \subseteq net \cup BroadcastBlock(m.to, "Referer", m.block)
          PROVE  \A msg \in net' \ net : msg.type # "Candidate"
      BY <2>2 DEF BroadcastBlock
    <2> QED
      BY <1>1, <2>1, <2>2, MinedStays DEF MinedIn
  <1>8. ASSUME NEW s \in HelloSlots, HelloStep(s) PROVE MinedIn(A)'
    <2>1. CASE HelloBegin(s)
      BY <2>1, MinedStays DEF HelloBegin, roundVars, MinedIn
    <2>2. CASE HelloPublish(s)
      <3>1. PICK h \in Hashes \ usedHashes :
               /\ StoreAndUpdateLatest(hellos[s].node, Successor(s, h))
               /\ net' = net \cup BroadcastBlock(hellos[s].node, "Hello", Successor(s, h))
               /\ timers' = Spawn(timers, Timer(hellos[s].node, "begin", Successor(s, h)))
        BY <2>2 DEF HelloPublish, Successor
      <3>2. hellos[s].node \in Nodes /\ storing' = storing /\ UNCHANGED roundVars
        BY <2>2, HelloTyped DEF HelloPublish, RoundIInv
      <3>3. Files(hellos[s].node, Successor(s, h))
        BY <3>1, <3>2 DEF Files
      <3> QED
        BY <1>2, <3>1, <3>2, <3>3
    <2>3. CASE HelloPanics(s)
      BY <1>1, <2>3 DEF HelloPanics
    <2> QED
      BY <1>8, <2>1, <2>2, <2>3 DEF HelloStep
  <1>9. ASSUME NEW n, Crash(n) \/ Restart(n) PROVE MinedIn(A)'
    <2>1. CASE Crash(n)
      BY <1>1, <2>1 DEF Crash
    <2>2. CASE Restart(n)
      BY <2>2, MinedStays DEF Restart, roundVars, MinedIn
    <2> QED
      BY <1>9, <2>1, <2>2
  <1>10. ASSUME UNCHANGED vars PROVE MinedIn(A)'
    BY <1>10, MinedStays DEF vars, roundVars, MinedIn
  <1>11. MinedIn(A)'
    BY <1>3, <1>4, <1>5, <1>6, <1>7, <1>8, <1>9, <1>10, MiningNext, TimerNext DEF Next
  <1> QED
    BY <1>11
LEMMA ElectedNext ==
    ASSUME RoundIInv, NEW A, MinedIn(A), ElectedIn(A), [Next]_vars
    PROVE  ElectedIn(A)'
  <1> DEFINE Messages == \A m \in net' : m.type = "Referer" => m \in net \/ AllIn(m.block, A)
             Handlers == \A m \in referring' : AllIn(m.block, A)
             Threads == \A s \in HelloSlots :
                            hellos'[s] \in {Nil, hellos[s]} \/ AllIn(hellos'[s].deFork, A)
  <1>0. hellos = [s \in HelloSlots |-> hellos[s]]
    BY DEF RoundIInv, ThreadInv
  <1>a. Messages /\ Handlers /\ Threads => ElectedIn(A)'
    BY DEF ElectedIn, AllIn
  <1>b. UNCHANGED hellos => Threads
    OBVIOUS
  <1>r. referring' \subseteq referring => Handlers
    BY DEF ElectedIn
  <1>c. ASSUME NEW n, NEW d, AllIn(d, A), hellos' = Spawn(hellos, Hello(n, "begin", d, Nil))
        PROVE  Threads
    <2> DEFINE t == Hello(n, "begin", d, Nil)
    <2>1. t.deFork = d /\ hellos' = Spawn(hellos, t)
      BY <1>c DEF Hello
    <2> HIDE DEF t
    <2>2. \A s \in HelloSlots : hellos'[s] \in {hellos[s], t}
      BY <1>0, <2>1, SpawnStays
    <2> QED
      BY <1>c, <2>1, <2>2
  <1>d. ASSUME NEW n, NEW d, AllIn(d, A), net' \subseteq net \cup BroadcastBlock(n, "Referer", d)
        PROVE  Messages
    BY <1>d DEF BroadcastBlock
  <1>e. ASSUME NEW n, NEW b, NEW type, type # "Referer",
               net' \subseteq net \cup BroadcastBlock(n, type, b)
        PROVE  Messages
    BY <1>e DEF BroadcastBlock
  <1> HIDE DEF Messages, Handlers, Threads
  <1>f. net' \subseteq net => Messages
    BY DEF Messages
  <1>1. ASSUME NEW n, Panic(n), net' \subseteq net PROVE Messages /\ Handlers /\ Threads
    <2>1. referring' \subseteq referring /\ \A s \in HelloSlots : hellos'[s] \in {Nil, hellos[s]}
      BY <1>1 DEF Panic
    <2> QED
      BY <1>1, <1>f, <1>r, <2>1 DEF Threads
  <1>2. ASSUME NEW n, CreateGenesisBlock(n) \/ StoreGenesisBlock(n)
        PROVE  Messages /\ Handlers /\ Threads
    <2>1. UNCHANGED <<hellos, referring>>
          /\ net' \subseteq net \cup BroadcastBlock(n, "Hello", GetGenesisBlock)
      BY <1>2 DEF CreateGenesisBlock, StoreGenesisBlock, roundVars
    <2> QED
      BY <1>b, <1>e, <1>r, <2>1
  <1>3. ASSUME NEW n, NEW b, StoreNewLeaderHelloBlock(n, b) PROVE Messages /\ Handlers /\ Threads
    BY <1>3, <1>b, <1>e, <1>r DEF StoreNewLeaderHelloBlock, roundVars
  <1>4. ASSUME NEW n, NEW g, StartMiner(n, g) \/ Solve(n, g) \/ QuitMining(n, g)
        PROVE  Messages /\ Handlers /\ Threads
    <2>1. UNCHANGED <<hellos, referring>>
          /\ \E b : net' \subseteq net \cup BroadcastBlock(n, "Candidate", b)
      BY <1>4 DEF StartMiner, Solve, QuitMining
    <2> QED
      BY <1>b, <1>e, <1>r, <2>1
  <1>5. ASSUME NEW m \in net, HandleMessage(m) PROVE Messages /\ Handlers /\ Threads
    <2>1. CASE HandleCandidateBlock(m)
      <3>1. UNCHANGED <<hellos, referring>>
            /\ net' \subseteq net \cup BroadcastBlock(m.to, "Candidate", m.block)
        BY <2>1 DEF HandleCandidateBlock
      <3> QED
        BY <1>b, <1>e, <1>r, <3>1
    <2>2. CASE HandleRefererBlock(m)
      <3>1. AllIn(m.block, A)
        BY <2>2 DEF HandleRefererBlock, Receive, ElectedIn
      <3>2. /\ net' \subseteq net /\ UNCHANGED hellos
            /\ referring' \subseteq referring \cup {m}
        BY <2>2 DEF HandleRefererBlock
      <3>3. Handlers
        BY <3>1, <3>2 DEF Handlers, ElectedIn
      <3> QED
        BY <1>b, <1>f, <3>2, <3>3
    <2>3. CASE Lose(m) \/ HandleNewLeaderHelloBlock(m)
      <3>1. net' \subseteq net /\ UNCHANGED <<hellos, referring>>
        BY <2>3 DEF Lose, HandleNewLeaderHelloBlock, roundVars
      <3> QED
        BY <1>b, <1>f, <1>r, <3>1
    <2>4. CASE HandleProxyRequest(m)
      <3>1. net' \subseteq net /\ (Panic(m.to) \/ UNCHANGED <<hellos, referring>>)
        BY <2>4 DEF HandleProxyRequest, roundVars
      <3> QED
        BY <1>1, <1>b, <1>f, <1>r, <3>1
    <2> QED
      BY <1>5, <2>1, <2>2, <2>3, <2>4 DEF HandleMessage
  <1>6. ASSUME NEW m \in referring, RefererStep(m) PROVE Messages /\ Handlers /\ Threads
    <2>1. CASE RecordRefererBlock(m)
      <3>1. AllIn(m.block, A)
        BY DEF ElectedIn
      <3>2. /\ net' \subseteq net \cup BroadcastBlock(m.to, "Referer", m.block)
            /\ referring' \subseteq referring
            /\ hellos' = hellos \/ hellos' = Spawn(hellos, Hello(m.to, "begin", m.block, Nil))
        BY <2>1 DEF RecordRefererBlock
      <3> QED
        BY <1>b, <1>c, <1>d, <1>r, <3>1, <3>2
    <2>2. CASE RefererBlockPanics(m) \/ RefererBlockHangs(m)
      <3>1. net' \subseteq net /\ (Panic(m.to) \/ (UNCHANGED hellos /\ referring' \subseteq referring))
        BY <2>2 DEF RefererBlockPanics, RefererBlockHangs
      <3> QED
        BY <1>1, <1>b, <1>f, <1>r, <3>1
    <2> QED
      BY <1>6, <2>1, <2>2 DEF RefererStep
  <1>7. ASSUME NEW s \in TimerSlots, TimerStep(s) PROVE Messages /\ Handlers /\ Threads
    <2>0. UNCHANGED referring
      BY <1>7 DEF TimerStep, TimerBegin, TimerArm, TimerExpire, TimerAnnounce, DeFork, roundVars
    <2>1. CASE TimerBegin(s) \/ TimerArm(s) \/ TimerExpire(s)
      <3>1. UNCHANGED <<net, hellos>>
        BY <2>1 DEF TimerBegin, TimerArm, TimerExpire
      <3> QED
        BY <1>b, <1>f, <1>r, <2>0, <3>1
    <2>2. CASE TimerAnnounce(s)
      <3>1. UNCHANGED hellos /\ \A m \in net' : m \in net \/ m.type = "Proxy"
        BY <2>2 DEF TimerAnnounce
      <3>2. Messages
        BY <3>1 DEF Messages
      <3> QED
        BY <1>b, <1>r, <2>0, <3>1, <3>2
    <2>3. CASE DeFork(s)
      <3> DEFINE n == timers[s].node
                 blocks == IF GetLatest(n) = Nil THEN {} ELSE HalfMore(blockBuffer[n], MemberLen(n))
      <3>1. n \in Nodes
        BY <2>3, TimerTyped DEF DeFork, RoundIInv
      <3>2. \A c \in blocks : c.prev \in A
        BY <3>1 DEF HalfMore, MinedIn, CandidatesIn
      <3>3. \/ UNCHANGED <<net, hellos>>
            \/ \E d : /\ d.order = blocks
                      /\ net' = net \cup BroadcastBlock(n, "Referer", d)
                      /\ hellos' = Spawn(hellos, Hello(n, "begin", d, Nil))
        <4>1. CASE blocks = {}
          BY <2>3, <4>1 DEF DeFork
        <4>2. CASE blocks # {}
          <5>1. PICK head \in blocks :
                   /\ net' = net \cup BroadcastBlock(n, "Referer", [head |-> head, order |-> blocks])
                   /\ hellos' = Spawn(hellos, Hello(n, "begin", [head |-> head, order |-> blocks], Nil))
            BY <2>3, <4>2 DEF DeFork
          <5>2. [head |-> head, order |-> blocks].order = blocks
            OBVIOUS
          <5> HIDE DEF blocks, n
          <5> QED
            BY <5>1, <5>2
        <4> QED
          BY <4>1, <4>2
      <3> HIDE DEF blocks, n
      <3>4. CASE UNCHANGED <<net, hellos>>
        BY <1>b, <1>f, <1>r, <2>0, <3>4
      <3>5. ASSUME NEW d, d.order = blocks,
                   net' = net \cup BroadcastBlock(n, "Referer", d),
                   hellos' = Spawn(hellos, Hello(n, "begin", d, Nil))
            PROVE  Messages /\ Handlers /\ Threads
        <4>1. AllIn(d, A)
          BY <3>2, <3>5 DEF AllIn
        <4> QED
          BY <1>c, <1>d, <1>r, <2>0, <3>5, <4>1
      <3> QED
        BY <3>3, <3>4, <3>5
    <2> QED
      BY <1>7, <2>1, <2>2, <2>3 DEF TimerStep
  <1>8. ASSUME NEW s \in HelloSlots, HelloStep(s) PROVE Messages /\ Handlers /\ Threads
    <2>1. CASE HelloBegin(s)
      <3> DEFINE t == hellos[s]
                 waiting == Hello(t.node, "wait", t.deFork, GetLatest(t.node))
      <3>1. /\ t # Nil /\ UNCHANGED <<net, referring>>
            /\ hellos' = [hellos EXCEPT ![s] = waiting] \/ hellos' = [hellos EXCEPT ![s] = Nil]
        BY <2>1 DEF HelloBegin, Exit, roundVars
      <3>2. waiting.deFork = t.deFork
        BY DEF Hello
      <3>3. AllIn(waiting.deFork, A)
        BY <3>1, <3>2 DEF ElectedIn
      <3> HIDE DEF waiting
      <3>4. Threads
        BY <1>0, <3>1, <3>3 DEF Threads
      <3> QED
        BY <1>f, <1>r, <3>1, <3>4
    <2>2. CASE HelloPublish(s)
      <3>1. UNCHANGED referring /\ hellos' = [hellos EXCEPT ![s] = Nil]
            /\ \E b : net' = net \cup BroadcastBlock(hellos[s].node, "Hello", b)
        BY <2>2 DEF HelloPublish, Exit, roundVars
      <3>2. Threads
        BY <1>0, <3>1 DEF Threads
      <3> QED
        BY <1>e, <1>r, <3>1, <3>2
    <2>3. CASE HelloPanics(s)
      BY <1>1, <2>3 DEF HelloPanics
    <2> QED
      BY <1>8, <2>1, <2>2, <2>3 DEF HelloStep
  <1>9. ASSUME NEW n, Crash(n) \/ Restart(n) PROVE Messages /\ Handlers /\ Threads
    <2>1. net' = net /\ (Panic(n) \/ UNCHANGED <<hellos, referring>>)
      BY <1>9 DEF Crash, Restart, roundVars
    <2> QED
      BY <1>1, <1>b, <1>f, <1>r, <2>1
  <1>10. ASSUME UNCHANGED vars PROVE Messages /\ Handlers /\ Threads
    BY <1>10, <1>b, <1>f, <1>r DEF vars, roundVars
  <1>11. Messages /\ Handlers /\ Threads
    BY <1>2, <1>3, <1>4, <1>5, <1>6, <1>7, <1>8, <1>9, <1>10 DEF Next
  <1> QED
    BY <1>11, <1>a

\* The template made of a filed block: the winner's PrevBlock is as long as that of
\* the genesis block, and copy fills it with the hash of the filed block.
LEMMA TemplateOfFiled ==
    ASSUME NEW b \in ChainBlock, NEW A, GenesisNext \in A,
           b.index # 0 => b.block.head.prev \in A /\ CopyInto(GenesisPrev, b.hash) \in A,
           \A a \in A : a = Nil <=> GenesisPrev = Nil
    PROVE  Template(b).prev \in A
  <1>1. CASE b = GetGenesisBlock
    BY <1>1 DEF Template, GetGenesisBlock, GenesisPow, GenesisNext
  <1>2. CASE b # GetGenesisBlock
    <2>1. b.index # 0
      BY <1>2 DEF ChainBlock
    <2>2. Template(b).prev = CopyInto(GenesisPrev, b.hash)
      BY <2>1 DEF Template, CopyInto
    <2> QED
      BY <2>1, <2>2
  <1> QED
    BY <1>1, <1>2

LEMMA AgesAreHashes ==
    ASSUME RoundIInv
    PROVE  \A a \in Ages : a = Nil <=> GenesisPrev = Nil
  <1>1. \A d \in OnDisk(GenesisKey) : d.hash \in Hashes
    <2>1. OnDisk(GenesisKey) \subseteq ChainBlock
      BY HelloBlocksAre, HelloBlocksChained, ConstantsAssumption DEF Stored
    <2> QED
      BY <2>1, ConstantsAssumption DEF ChainBlock, GetGenesisBlock
  <1> QED
    BY <1>1, ConstantsAssumption DEF Ages, GenesisNext, CopyInto

\* A block that is filed leads to templates of known ages.
LEMMA FiledOfAge ==
    ASSUME RoundIInv, LeaderHas, StoredFits, NEW n \in Nodes, NEW b, Stored(n, b)
    PROVE  Template(b).prev \in Ages
  <1>1. b \in HelloBlocks /\ b \in ChainBlock
    BY HelloBlocksAre, HelloBlocksChained
  <1>2. ASSUME b.index # 0
        PROVE  b.block.head.prev \in Ages /\ CopyInto(GenesisPrev, b.hash) \in Ages
    <2>1. b \in OnDisk(GenesisKey)
      BY <1>1, <1>2 DEF LeaderHas
    <2>2. b.block.head \in b.block.order
      BY <1>1, <1>2 DEF ChainBlock, GetGenesisBlock, Elected
    <2>3. \A c \in b.block.order : c.prev \in Ages
      BY <1>2, <2>1 DEF StoredFits, Fits, Rival, Ages
    <2>4. CopyInto(GenesisPrev, b.hash) \in Ages
      BY <1>2, <2>1 DEF Ages
    <2> QED
      BY <2>2, <2>3, <2>4
  <1>3. GenesisNext \in Ages
    BY DEF Ages
  <1> QED
    BY <1>1, <1>2, <1>3, AgesAreHashes, TemplateOfFiled
LEMMA FiledOfAgeNext ==
    ASSUME NEW n \in Nodes, NEW b
    PROVE  (RoundIInv /\ LeaderHas /\ StoredFits /\ Stored(n, b))' => (Template(b).prev \in Ages)'
  <1>1. RoundIInv /\ LeaderHas /\ StoredFits /\ Stored(n, b) => Template(b).prev \in Ages
    BY FiledOfAge
  <1> QED
    BY <1>1, PTL

LEMMA AgeInvNext == LedgerInv /\ AgeInv /\ [Next]_vars => AgeInv'
  <1> SUFFICES ASSUME LedgerInv, AgeInv, [Next]_vars PROVE AgeInv'
    OBVIOUS
  <1>1. RoundIInv /\ RoundIInv'
    BY RoundIInvNext DEF LedgerInv
  <1>2. LeaderHas' /\ StoredFits'
    BY LeaderHasNext, StoredFitsNext DEF AgeInv
  <1>3. PICK A : A = Ages'
    OBVIOUS
  <1>4. MinedIn(A) /\ ElectedIn(A)
    <2>1. Ages \subseteq A /\ MinedIn(Ages) /\ ElectedIn(Ages)
      BY <1>3, AgesGrow DEF AgeInv
    <2> HIDE DEF Ages
    <2>2. MinersIn(A) /\ CandidatesIn(A) /\ TimersIn(A)
      BY <2>1 DEF MinedIn, MinersIn, CandidatesIn, TimersIn
    <2>3. \A d : AllIn(d, Ages) => AllIn(d, A)
      BY <2>1 DEF AllIn
    <2> QED
      BY <2>1, <2>2, <2>3 DEF MinedIn, ElectedIn
  <1>5. ASSUME NEW n \in Nodes, NEW b, Files(n, b) PROVE Template(b).prev \in A
    <2>1. bucket' = [bucket EXCEPT ![n] = MapPut(bucket[n], b.hash, b)]
      BY <1>5 DEF Files, StoreAndUpdateLatest, Store, UpdateLatest
    <2>2. bucket'[n] = MapPut(bucket[n], b.hash, b)
      BY <1>1, <2>1 DEF RoundIInv, DbInv
    <2>3. b.hash \in DOMAIN bucket'[n] /\ bucket'[n][b.hash] = b
      BY <2>2 DEF MapPut
    <2>4. Stored(n, b)'
      BY <2>3 DEF Stored, OnDisk
    <2>5. (Template(b).prev \in Ages)'
      BY <1>1, <1>2, <2>4, FiledOfAgeNext
    <2> QED
      BY <1>3, <2>5 DEF Template
  <1>6. MinedIn(A)' /\ ElectedIn(A)'
    BY <1>1, <1>4, <1>5, MinedNext, ElectedNext
  <1>7. MinedIn(Ages)' /\ ElectedIn(Ages)'
    BY <1>3, <1>6 DEF MinedIn, MinersIn, CandidatesIn, TimersIn, ElectedIn, AllIn
  <1> QED
    BY <1>2, <1>7 DEF AgeInv

LEMMA AgeInvInit == Init => AgeInv
  <1> SUFFICES ASSUME Init PROVE AgeInv
    OBVIOUS
  <1>1. HelloBlocks = {} /\ \A n \in Nodes : OnDisk(n) = {}
    BY NothingKnownAtFirst, HelloBlocksAre DEF Stored
  <1>2. LeaderHas /\ StoredFits
    BY <1>1, ConstantsAssumption DEF LeaderHas, StoredFits
  <1>3. MinedIn(Ages) /\ ElectedIn(Ages)
    BY DEF Init, MinedIn, MinersIn, MinerIdle, CandidatesIn, TimersIn, ElectedIn
  <1> QED
    BY <1>2, <1>3 DEF AgeInv

\* In every network, with any founders, and whatever candidates stay in the buffer,
\* arrive late or are carried by a BlockMessage, in whatever order processes start,
\* end and publish: a block is elected from candidates mined on the block it extends
\* or on a rival that the leader has stored, never on itself or out of nowhere.
THEOREM CandidatesAreFromTheChain == Spec => []CandidatesComeFromTheChain
  <1>1. LedgerInv /\ AgeInv => CandidatesComeFromTheChain
    <2> SUFFICES ASSUME LedgerInv, AgeInv, NEW n \in Nodes, NEW b \in OnDisk(n), b.index > 0,
                        NEW c \in b.block.order
                 PROVE  \/ c.prev = b.prev
                        \/ \E d \in OnDisk(GenesisKey) :
                              d # b /\ d.index = b.index /\ c.prev = d.hash
      BY DEF CandidatesComeFromTheChain
    <2>1. b \in HelloBlocks
      BY HelloBlocksAre DEF Stored
    <2>2. b.index # 0
      BY <2>1, HelloBlocksChained DEF LedgerInv, ChainBlock, GetGenesisBlock
    <2>3. Fits(b)
      BY <2>1, <2>2 DEF AgeInv, LeaderHas, StoredFits
    <2> QED
      BY <2>3 DEF Fits, Rival, GenesisNext, CopyInto
  <1>2. LedgerInv /\ AgeInv /\ [Next]_vars => AgeInv'
    BY AgeInvNext
  <1> QED
    BY <1>1, <1>2, AgeInvInit, LedgerInvAlways, PTL DEF Spec
=============================================================================
