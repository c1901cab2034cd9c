# LotMint conode: a TLA+ development

This directory specifies the conode of LotMint (package `service` with
`blockchain` and `mining`) in TLA+, checks small networks with TLC and proves
theorems for all networks with TLAPS. Every definition is translated from the
Go source; where a document disagrees with the code, the model follows the
code and the disagreement is a *finding*.

The commit does not compile: `bc.GetGenesisBlock`, `netsync`, `readElements`
and the types `NewLeaderHelloBlock` and `Collection` are used and not defined,
and `BuildIndex` asserts `*bc.MicroBlock` of what `Store` wrote as a
`NewLeaderHelloBlock`. The models read the code as its call sites intend: the
genesis block has index 0, one unsigned proof-of-work block and the key
`GenesisKey`; `BuildIndex` reads the type `UpdateLatest` takes. What comes from
outside the repository is assumed as the code uses it: onet runs every message
handler and every client request in a goroutine of its own, `SendRaw` fails
when the peer is down and otherwise delivers once, in any order; a panic in
any goroutine ends the process; `run_nodes.sh` starts it again.

## 1. Inventory

| Component | Code | State | Operations and interactions |
|---|---|---|---|
| Leader round | `service/service.go` 312-469, 1009-1107, 1300-1329 | `blockBuffer`, `timerRunning`, `deForkBlock`, the goroutines of `startTimer` and `startNewLeaderHelloBlock` | `CreateGenesisBlock`, the three kinds of `BlockMessage`, the 60 s timer, the de-fork 30 s later, the next leader's block 30 s after that; uses BlockDB, the Miner and the peer table |
| Block types | `blockchain/block.go` | none | `Copy`, `Sign`, `CalculateHash` |
| BlockDB | `service/struct.go` 98-252 | bbolt bucket on disk, `latestBlockID` and `blockIndexMap` in memory, `latestMutex` | `Store`, `UpdateLatest`, `GetByID`, `GetLatest`, `GetBlockByIndex`, `BuildIndex` at start |
| blockBuffer | `service/struct.go` 254-320 | map from hash to signed candidate | `Put`, `in`, `List`, `Len`, `HalfMore`, `Set` |
| Miner | `mining/miner.go` | `started`, `block`, `quit`, worker and generator goroutines | `Start`, `Stop`; calls `minerCallback` with a solved block |
| Peers and gateways | `service/service.go` 145-241, 304-310, 714-739, 938-984 | `peerNodeMap`, `addressMap` | `peer add/del`, `proxy add/del`, Ping and Address messages |
| Synchronisation | `service/service.go` 620-682, 741-795, 893-936, 1109-1167 | `synChan`, `latestMutex`, goroutines of `processMessage` | handshake at start, gathering of answers, download request and response |
| Signature gathering | `service/service.go` 471-532, 950-960 | `proxyStorage`, two unbuffered channels | Proxy, Signature and Tunnel messages |
| Queries | `service/service.go` 534-581, `api.go` | `createBlockChainMutex` | block by ID, by height, latest |
| Private clock | `service/clock.go` | a bounded list of times, its mutex | `Push`, `Clock`, `calcDelta` |
| Difficulty | `blockchain/difficulty.go` | none | `CompactToBig`, `BigToCompact`, `HashToBig` |
| Free list | `blockchain/common.go` | channel of buffers | borrow, use, return |
| Chain state | `blockchain/chain.go` | best state on disk | `initChainState` |
| txPool, conode, command line | `service/struct.go` 18-39, `conode/`, `app/` | - | start-up, `checkConfig`, argument parsing |

What is hard in this code: goroutines of every new block share unlocked fields
(`timerRunning`, `deForkBlock`, `addressMap`); state is read, a goroutine
waits 30 or 60 seconds, and then acts on what it read; the miner's goroutines
read the Miner without its mutex; a panic in one handler takes the process
with it, and what was in memory is rebuilt from the bucket or lost; a mutex is
locked twice by one goroutine; maps are iterated and written at the same time,
which ends the process wherever it is. `PROJECT.json` lists these hazards at their
lines, each with the properties that watch it or the reason there is none yet.

Correctness of each component, in one line: a round goes on until it elects a
block, and one block is elected per height; a copy equals its original; the
index agrees with the bucket whatever crashed; a Miner that is stopped stops,
and never closes a channel twice; peering is mutual and gossip ends; a
synchronisation brings the blocks a node lacks, and ends; a query is answered,
with a block that fits it; calls that share buffers cannot notice it; a target
survives its compact form; a roster check tells the truth, in time.

## 2. Modules

| Module | Role |
|---|---|
| `Blocks` | block records and the pure operations on them: `Copy`, `Sign`, `HalfMore` |
| `Ledger` | what the rounds come to: the disks of all nodes |
| `LeaderRound` | the round on a network of conodes; extends `Blocks`, refines `Ledger` |
| `MCLeaderRound` | two conodes for TLC: K holds the genesis key, M mines |
| `MCRoundCrash` | the same with kills, and with one or two founders of the genesis block |
| `LeaderRoundProofs` | theorems about `LeaderRound`, the refinement included |
| `AbstractMiner` | what `mining.Miner` promises its caller |
| `Miner` | `mining.Miner` goroutine by goroutine; refines `AbstractMiner` |
| `MinerProofs` | theorems about `Miner`, the refinement included |
| `Peers` | peer tables and address gossip |
| `PeersProofs` | theorems about `Peers` |
| `Sync`, `MCSync` | chain synchronisation, and its two-node network for TLC |
| `AtomicBlockDB` | what BlockDB promises the handlers that add blocks |
| `Database`, `MCDatabase` | BlockDB, block queries and `calcDelta` on one node, access by access, and its blocks for TLC; refines `AtomicBlockDB` |
| `SyncProofs` | theorems about `Sync` |
| `DatabaseProofs` | theorems about `Database`, the refinement included |
| `AtomicCodec` | what callers of the serialisation free list are promised |
| `FreeList` | the free list and the calls through it; refines `AtomicCodec` |
| `FreeListProofs` | theorems about `FreeList`, the refinement included |
| `Difficulty` | compact targets and the hash they are compared with |
| `DifficultyProofs` | theorems about `Difficulty` |
| `CheckConfig` | `conode check` |
| `CheckConfigProofs` | theorems about `CheckConfig` |
| `MCComponents` | `Miner`, `FreeList`, `CheckConfig` and `Difficulty` in one run of TLC |

**LeaderRound.** Each variable is a function of the node (`bucket`,
`latestBlockID`, `blockBuffer`, ...), named as in Go. `timers` and `hellos` hold
one record per goroutine in `startTimer` and `startNewLeaderHelloBlock`; the
record's `pc` is where it waits. `TimerBegin` and `TimerArm` are the test of
`timerRunning` and its assignment, two steps because nothing makes them one;
`TimerExpire`, `TimerAnnounce` and `DeFork` follow the two waits. A handler of
a NewLeaderHelloBlock is two steps as well: its existence checks
(`HandleNewLeaderHelloBlock`) and its store (`StoreNewLeaderHelloBlock`).
So are `CreateGenesisBlock` and `StoreGenesisBlock`, since the mutex the request
holds is not taken by such a handler, and the handler of a RefererBlock: its
unlocked test of `deForkBlock` (`HandleRefererBlock`) and what follows it
(`RecordRefererBlock`, `RefererBlockPanics`, `RefererBlockHangs`), so that several
messages can pass the test together. `creating`, `storing` and `referring` hold who
is between the two. That test reads `deForkBlock` twice, and a handler of a
NewLeaderHelloBlock may clear it in between: the nil dereference ends the process,
as `Crash` does at any time.
`HelloBegin` reads the latest block, `HelloPublish` extends it after the wait
or, in `HelloPanics`, dereferences a nil Collection. `Store` and `UpdateLatest`
are one step (see `Database`). A NewLeaderHelloBlock's hash is fresh, since it
covers a nanosecond timestamp; it covers neither the candidates nor their
collections. A candidate block is `[hash, publicKey, prev, coll]`, `coll` being
the signers with `Nil` for a nil `*Collection`; hashes are numbers because the
bucket is iterated in key order after a restart. Mining in `LeaderRound` is
the view `AbstractMiner` gives of the Miner, with one simplification: a
generator takes the template of its own Start, since in the service 60 seconds
lie between a Start and the next Stop and `generateBlocks` reads `m.block` at
once. `Miner` itself makes no such assumption. `Ledger` keeps of all this the disks
only: a founder gets the genesis block, the leader adds new blocks to its own, any
node adds a block that some disk has, and nothing is ever changed or lost.

**Miner.** Start number `i` makes channel `i`, worker `i` and generator `i`.
`m.quit` and `m.block` are read by the goroutines when they are scheduled
(`WorkerSelect`, `GenBegin`), which may be after later Stops and Starts.

**Peers.** A command checks the table under the lock (`PeerAdd`, `PeerDel`) and
starts a goroutine that changes it later. `addressMap` is tested and written without
a common lock: `ProxyAdd` and `HandleAddressMessage` go up to the writes,
`RememberAddresses` writes, and `Broadcast` sends what was written, so that two
handlers may find one address missing and both relay it. Two such writers, or a
writer and a handler that reads, may end the process (`ConcurrentMapAccess`); two
`proxy add` may not, since `Proxy` locks `proxyStorage`. Broadcasts range over
`peerNodeMap` without its lock: `IterationAndGoroutine` and `IterationAndPing` end
the process in the middle, with any part of the messages sent. It comes back with empty tables (`Restart`).
`asked` and `forgotten` are history: whom an operator named to this process, and
who had added it before it restarted.

**Sync.** One step per lock, channel operation or wait. `mutexHeld[n]` is the
fate of a node with a chain that receives a handshake: its handler locks
`latestMutex` and calls `GetLatest`, which locks it again, so the mutex is
never released, and whatever needs the latest block on that node waits for
ever; the rest of the handler, its answer included, is unreachable and not
modelled. A block is its height (one genesis block, so the test for two
different ones is left out, the test of a nil against a non-nil one is not).
Peer tables are what `tryLoad` finds on disk. Nothing in this commit calls
`save`, so only a data directory written otherwise has one; without it no
handshake is ever sent, and that is also why `LeaderRound` has none.

**Database.** The round and the synchronisation take `Store` and `UpdateLatest`
as one step; here every access of a handler is one: taking a mutex, reading the
latest block, a lookup in the index or the bucket, `Store`, `UpdateLatest`. A
goroutine's `pc` is the access it is about to make, `req` what it was asked and
`block` its local variable. `BeginAPI` requests are what `showBlock` and
`createGenesisBlock` of the command line send. `Kill` ends the process between
any two accesses and loses all but the bucket; `Restart` is `BuildIndex`, stated
as what a pass in the order of the hashes leaves behind. Handlers of a handshake
and of a RefererBlock are there for the locks they take twice (`HandshakeLocks`,
`ClockHangs`), and `PreIndex` keeps the width of the subtraction in `calcDelta`.
The history variable `filed` holds the stored blocks whose `UpdateLatest` was
called and, when a process ends, all that are stored, for the next `BuildIndex`
calls it for them. With it the two accesses
implement one (`AtomicBlockDB`): a block is added when it is filed, and if the
process ends between the two it has been added or not, as the next `BuildIndex`
finds. This is what allows `LeaderRound` its single step. Only a look-up by hash
can tell the difference, which finds a block before it is filed:
`HandleNewLeaderHelloBlock` then returns as it does for a block that is there, or
in `LeaderRound` goes on to the second check and stores the same block again.
That every bbolt transaction succeeds is assumed: `Store` only logs an error.

**FreeList.** A goroutine's call moves its elements one by one: borrow, fill,
use, return. What `writeElement` has no `PutUintN` for takes no buffer
(`WriteDirectly`); any element of a call may be of such a type. At this commit no
two goroutines are in these calls at one time. The list is there for them
(a channel), and the model lets them share it. `content` belongs to the buffer, not to the goroutine, so a buffer
with two owners would mix their values. A dropped buffer may be handed out again
by `make` once nobody holds it. `AtomicCodec` knows no buffers: a call copies
its own elements in order and ends "ok" exactly if it copied all of them.

**Difficulty.** Numbers with digits of any even base `Base`, 256 in the code.
A behaviour is one round of `solveBlock`'s loop, started with any Bits and any
hash, so the invariants also compare the two conversions on all numbers of that
size. `HashAfter` is what `HashToBig` leaves of its argument: `BlockID` is a
slice, `buf := *hash` shares its bytes, and the reversal is in place.

**CheckConfig.** Replies, errors and the timeout are offered to one `select`; a
server may never answer, and a goroutine whose answer nobody takes waits on.

## 3. Runs

| Run | Checks | Result |
|---|---|---|
| `RoundCrash` | `TypeOK`, `OnlyGenesisLeads`, `ChainStopsAtOne`, `LeaderIsTheQuorum`, `IndexMatchesBucket`, `HashNamesOneBlock`, `CandidatesComeFromTheChain`, `ImplementsLedger`, `IdleMinerStaysIdle` | hold |
| `RoundLive` | `RoundPersists`, `ElectionPublishes` | hold |
| `Components` | Miner: `TypeOK`, `QuitOpenWhileStarted`, `ImplementsAbstractMiner`, `StopIsFinal`; FreeList: `FTypeOK`, `BuffersHaveOneOwner`, `ImplementsAtomicCodec`, `CallsEnd`; CheckConfig: `KTypeOK`, `VerdictIsTrue`, `CheckEnds`; Difficulty: `EncodeRoundsDown`, `BitsKeepTheirTarget`, `ExponentFits`, `PublishedHashShowsWork` | hold |
| `PeersGossip` | `TypeOK`, `PeeringIsMutual`, `GossipEnds` | hold |
| `SyncPair` | `TypeOK`, `DownloadsBringNothing`, `SyncEnds` | hold |
| `Database` | `TypeOK`, `IndexMatchesBucket`, `AnswersMissOnlyAboveLatest`, `ClockNeedsHeight`, `ImplementsAtomicBlockDB`, `RequestsEnd` | hold |
| `OneBlockPerHeight` | README: epochs end in one deterministically de-forked block | violated |
| `DeForkResets` | log message "No candidate blocks: reset again" | violated |
| `LatestHighest` | "GetLatest searches for the latest available block" | violated |
| `SyncCatch` | "Sync block with other peer node" | violated |
| `QueryReturns` | "Get latest block or a block given by an index or hash id" | violated |
| `BlockOfIndex` | "give this block index", "No such block" | violated |

What the passing runs say of the program:

* The template of `startMiner` takes over the winner's public key, so the
  holder of the genesis key leads every round (`OnlyGenesisLeads`) and is the
  whole quorum of the block it elects (`LeaderIsTheQuorum`).
* `Block.Copy`, which "makes a deep copy of the Block" (`blockchain/block.go:244`),
  puts a nil entry before each copied Collection; the second copy of a signed block
  panics, and `startNewLeaderHelloBlock` makes one as soon as
  the latest block has height 1: the chain stops there (`ChainStopsAtOne`).
* A hash names one block everywhere (`HashNamesOneBlock`), although every read
  of the database returns a copy with other collections under the same hash: no
  copy is ever stored or sent. So a block reaches another disk as it left the
  leader's, and all that happens to it on the way does not show
  (`ImplementsLedger`). `Database` takes for granted that a hash names one block;
  this is why it may.
* Index and bucket agree through races, panics, kills and restarts
  (`IndexMatchesBucket`), although the block a restart takes for the latest is
  not the highest one (`LatestHighest`).
* A node that is not a BFT member mines once in the life of its process
  (`IdleMinerStaysIdle`): only the timer of a member stops the Miner, and a
  generator that has solved its block leaves `started` set, so that every later
  Start returns at "Nothing to do if the miner is already running"
  (`mining/miner.go:31`) while nothing runs.
* Until it has a candidate the leader's timer restarts itself
  (`RoundPersists`), and an election ends in a block (`ElectionPublishes`).
  After the block of height 1, candidates with one signature are too few, and
  nothing restarts the timer (`DeForkResets`).
* Nothing clears the buffer, whatever the comment at `service/struct.go:257` says,
  and a late store or a restart takes the leader's latest block back. A block may
  then be elected from work done on another block of its own height: M's
  request for a genesis block reaches K as a block, K's handler passes the checks,
  K creates the genesis block itself and publishes a block of height 1, and only then
  the handler stores. Genesis is the latest block again, candidates mined on the
  block of height 1 arrive, and K elects them as successors of genesis, next to
  candidates mined on genesis. Worse does not happen: a block is
  never elected from its own descendants, nor from work on a block that the leader
  never had (`CandidatesComeFromTheChain`).
* The leader does not record the DeForkBlock it elects with. A peer relays it
  back, the leader elects again, and two blocks of one height are published
  (`OneBlockPerHeight`).
* Goroutines of the Miner that miss their own Stop end with a later one
  (`StopIsFinal`); `Stop` never closes a channel twice.
* A node is listed by the peers it lists, whatever adds, dels and failures
  cross, unless its own operator named that peer or it has restarted since
  (`PeeringIsMutual`). Address messages do not circle for ever.
* Synchronisation comes to rest (`SyncEnds`) and never reaches the nil
  dereference of `handleDownloadBlockResponse`, for the reason that nothing it
  downloads is new (`DownloadsBringNothing`): Size is used as the height to
  stop at, and a node without a chain asks with a nil genesis ID.
* Between any two accesses a node may be killed, and index and disk still agree
  after the restart (`IndexMatchesBucket`): a block that was stored and not
  filed is filed by `BuildIndex`. Handlers that add the same block, or two of one
  height, behave as if each block were added in one step
  (`ImplementsAtomicBlockDB`). Blocks that arrive between the accesses of a
  query do not confuse it: it answers with the block it names, with one exception
  (`AnswersMissOnlyAboveLatest`). An index above the latest block is answered with
  the latest block, and without an error; and as the latest block may be the genesis
  block while a block of height 1 is stored, even an index that is there is answered
  with another block (`BlockOfIndex`).
* A request ends unless it meets one of two traps (`RequestsEnd`): the mutex a
  handshake locks twice, or the loop of `GetBlockByIndex`, which goes from a
  block to itself and keeps `createBlockChainMutex` (`QueryReturns`). A node that
  received a block of height 1 and not the genesis block is asked for index 0:
  no later query is answered.
* `PrivateClock.Clock` locks its mutex twice. Only the wrapped difference of
  `calcDelta` keeps a RefererBlock from getting there, on every chain that has no
  block of height `COSI_MEMBERS` (`ClockNeedsHeight`).
* The buffers shared by all serialisations are safe (`BuffersHaveOneOwner`) and
  cannot be noticed (`ImplementsAtomicCodec`, `CallsEnd`).
* `BigToCompact` rounds down to the nearest target there is (`EncodeRoundsDown`),
  and Bits decoded and encoded again keep their target (`BitsKeepTheirTarget`).
  The exponent of every number up to the greatest hash fits its byte
  (`ExponentFits`). Hashes are compared little end first and published reversed, so that the
  published hash is at most the target (`PublishedHashShowsWork`).

Bounds. *RoundCrash*: two nodes, each of which may be killed and restarted at any
time; three block hashes, one below and one above the genesis hash so that a
restart meets both orders; one election at a time (two in `OneBlockPerHeight`).
`part` picks one of two parts (`Explored`), because both at once are too many
states. In part "founder" only K's operator asks for the genesis block, one block is
mined, which is enough for an election, and two timers run, so that a block stored
during a round meets a running timer; states with more than two messages in flight,
or in the hands of a RefererBlock handler, are not explored further, which still lets
any two messages be reordered. In part "founders" M's operator asks too and two blocks
are mined, so that candidates on genesis and on a block of height 1 meet in the buffer
of a leader that elects again; there is one message and one timer at a time.
Together 570 thousand states, counting those that differ only in the names of the
timer slots as one (`TimerSymmetry`: `Spawn` may take any free slot, and this run
checks no liveness). Identical messages in flight are one. *RoundLive* has no such
constraint and no kills. Every safety property of a passing run, the four
refinements included, is also a theorem, which covers the cases the bounds cut
off. *PeersGossip*: three nodes, the least number with a
cycle that is not a pair, one address and three commands (119 thousand states), which is enough for an
add, a del that crosses it and a command on another node, with crashes and
restarts between them. *SyncPair*: two nodes, all 16 combinations of chains of
heights 0 and 1 on disk (`ChainStopsAtOne`: there are no others), one node
started a second time so that two handshakes of one peer meet in `synChan`,
two `processMessage` goroutines at a time.
*Components*: `part` picks the one of the four components that moves, so that
their states add up and do not multiply. Three Starts, so that a worker can miss
a whole Stop and Start; two goroutines, three buffers and a list of one, so that
it can be empty and full, and calls of no, one and two elements; three servers;
all Bits with exponents up to 5 and all hashes of four digits of base 4: all
cases of the conversions (exponents below, at and above 3; mantissas with the
sign bit, or leading zeros), since nothing but the number of bits depends on the
width of a digit. The only negative
numbers are targets decoded from Bits: no caller passes others to BigToCompact. *Database*: two handlers at a time, a third
would only wait; a genesis block and two competing blocks of height 1 whose
hashes lie below and above its hash, so that a restart meets both orders;
`CosiMembers = 1`, the least for which the clock is reached, and an index modulo
8. Kills are not bounded. *QueryReturns*, *BlockOfIndex*: one handler.

A goroutine that needs a free slot of `TimerSlots`, `HelloSlots` or `Workers`
waits for one; the program has no such limit.

Deadlock is not checked (`CHECK_DEADLOCK FALSE`): a round does end, starts and
commands are bounded, a check ends, and a locked mutex does stop a node.

Fairness. Goroutines that can run do run and sleeps end (weak fairness of
each timer, hello, worker and generator step), and a node handles messages
that keep arriving (weak fairness per node, or over all messages in `Peers` and
`Sync`, where all of them are eventually taken because each is finite in
number). In `Database` a goroutine that waits for `createBlockChainMutex` gets
it (strong fairness of `Lock`): Go hands a mutex to a waiter that has waited for
a millisecond, so nobody is overtaken for ever. Readers and writers of the free
list answer (they are `bytes.Buffer`s), and the timer of `CheckConfig` fires. No fairness is assumed of finding a nonce, of clients and operators,
of crashes and restarts, or of the arrival of new blocks in `Sync`.

Each property of a passing run has a mutant in `PROJECT.json`: a plausible slip
in one mapped definition (a dropped test, a swapped order, a missing reset)
under which the same run finds the property violated. The mutants are the
definitions marked `Mutant:` in the modules; no specification uses them.

## 4. Proofs

`MinerProofs`, for every number of Starts (assumption `MaxStarts \in Nat`):
`MinerInv` adds to `TypeOK` and `QuitOpenWhileStarted` that workers and
generators are spawned in order (`SpawnedInOrder`) and that a late read of
`m.quit` or `m.block` returns nothing older than the Start that spawned the
reader (`ReadsAreNotOlder`). Without the latter a report could carry a block
older than its generator, which `AbstractMiner` forbids, and a generator told to
quit could be one that was never stopped.

* `MinerTypeOK`, `StopNeverPanics`: from `MinerInv`.
* `MinerImplementsAbstractMiner`: under `MinerInv` each step of `Miner` is a step
  of `AbstractMiner` or a stutter; `starts` is the number of the last channel,
  `stopped` the closed channels, `live` the generators that have not returned.

`LeaderRoundProofs`, for any nodes, peer tables, gateways, hashes, slots,
founders, supervised nodes and any `CosiMembers > 0` (`ConstantsAssumption`),
so for any network and any number of crashes:
`RoundIInv` types every block in
memory, on disk and in flight by its stage. A mined block has no collection, a
buffered one exactly the genesis key, an elected block only buffered ones, a
stored block is the genesis block or has index 1 and an elected block in it,
and whatever `GetLatest` returns of index 1 cannot be copied again
(`LatestCopy`, lemma `CopyChained`). This last part is what makes the invariant
inductive: `HelloPublish` copies what `HelloBegin` read, so its predecessor is
the genesis block and the new index is 1.

* `RoundTypeOK`: `RoundIInv` implies `TypeOK`.
* `GenesisLeadsForEver`, `NoSecondRound`, `QuorumOfOne`: `OnlyGenesisLeads`,
  `ChainStopsAtOne` and `LeaderIsTheQuorum` from `RoundIInv`, with one lemma per
  action of `Next`.
* `IndexAlwaysMatches`: `IndexMatchesBucket` is inductive under `RoundIInv`, in
  which a chained block's hash decides its height (no fresh hash is the genesis
  hash), so a Store never moves a filed block to another height.
* `OneBlockPerHash`: every hash on a disk, in a handler or on its way is in
  `usedHashes` (`HashesInv`). A step files a known block, a founder's genesis block,
  or a new one whose hash is not, or only moves and loses blocks (`BlocksOfStep`).
* `RoundsImplementLedger`: `LedgerInv` adds that whatever is on its way is on some
  disk (`CopiesOfStored`), so that the disk it reaches learns it from there, and that
  whoever is about to publish, and will not panic, is the leader with the genesis
  block in hand and on its disk (`WinnersFit`). One block per hash is needed here:
  else a Store could replace a block.
* `CandidatesAreFromTheChain`: `CandidatesComeFromTheChain` says nothing of the
  buffer, the Miners and the messages, where old candidates are. `AgeInv` adds to
  `LedgerInv` that the leader has on its disk every block it made (`LeaderHas`); that
  templates and candidates, wherever they are, extend the genesis block or a block on
  the leader's disk (`MinedIn`, of `Ages`), and so do those of elections under way
  (`ElectedIn`); and that those of the leader's stored blocks extend what the block
  extends or a rival of it (`StoredFits`). `Ages` only grow (`AgesGrow`). A block
  about to be published has a fresh hash, so that nothing is mined on it yet, and
  index 1, so that every other block of that height is its rival (`SuccessorFits`).
* `OneMiningPerProcess`: the action property `IdleMinerStaysIdle`; under `RoundIInv`
  the only timers that get as far as `stopMiner` are the leader's.

`FreeListProofs`, for any goroutines, buffers, values and calls and any
`MaxItems \in Nat` (`FreeListAssumption`): `FreeListInv` is `FTypeOK`,
`BuffersHaveOneOwner` and how far each call has come (`CallsKeepTheirPlace`): in
particular a filled buffer still holds its owner's current element. Ownership is
what makes that inductive, since the only buffer whose content a step changes is
the mover's own, or nobody's; and the place of each call is what the refinement
needs, since `UseBuffer` takes its value from the buffer and `AtomicCodec` takes
it from the elements.

* `FreeListTypeOK`, `NoBufferIsShared`: from `FreeListInv`.
* `FreeListImplementsAtomicCodec`: under `FreeListInv`, `BeginCall`, `UseBuffer`,
  a `WriteDirectly` that succeeds and `EndCall` are steps of `AtomicCodec` and all others stutter.

`DatabaseProofs`, for any goroutines and any blocks whose hashes differ, with
heights below `IndexSpan` and `2 * CosiMembers <= IndexSpan`
(`DatabaseAssumption`; in the code `IndexSpan` is 2^64 and no chain gets near it):
`DatabaseInv` is `TypeOK`, `IndexMatchesBucket`, `ClockNeedsHeight`, what is filed
(`FiledFits`) and what a goroutine's place says of its request and its block
(`PlacesFit`): who is about to call
`UpdateLatest` carries a stored block, who computes a delta has read one. A
stored block is filed by the handler that stored it or, if the process ends
first, by `BuildIndex`; and the difference in `calcDelta`, wrapped or not, is at
least `CosiMembers`, so that the lookup that leads to the clock can only find a
block that high.

* `DatabaseTypeOK`, `IndexSurvivesCrashes`, `NoClockBelowCosiMembers`: from
  `DatabaseInv`.
* `QueriesMissOnlyAboveLatest`: an action property, from `DatabaseInv` at the step
  that answers. An index that was found names a block of that height, and a look-up
  that finds none finds no filed block.
* `DatabaseImplementsAtomicBlockDB`: under `DatabaseInv` an `UpdateLatest` is an `Add`
  and the passing of the last check a `Decide`, each way to die is an `End`,
  `Restart` is a `Start` and the rest stutters. What makes it so is `FiledFits`:
  index and latest block hold filed blocks only, and what is stored and not filed is
  in the hands of a handler.

`PeersProofs`, for any nodes, addresses and number of commands
(`MaxRequestsAssumption`): `PeeringIsMutual` speaks of tables of running nodes and
is not inductive, because a Ping outlives what its sender knew: the sender may
end, or be told to forget the other node, while the Ping is on its way.
`ListingIsMutual` counts a Ping as an entry of the table it will be handled into,
on both sides; `DelsAreAsked` says that a `peer del` under way was the operator's
wish. All the ways a process ends have one lemma (`DeathLeaves`): its own table is
gone, messages to others stay, and whoever lists it is in its `forgotten`.

* `PeersTypeOK`, `PeeringStaysMutual`: from `PeersInv`, with one lemma per
  kind of step.

`SyncProofs`, for any finite set of nodes, peer tables, data directories and
numbers of starts (`SyncAssumption`), and heights 0 and 1 only (`OneEpoch`, the
hypothesis of both theorems; `NoSecondRound` shows that no other height is ever
stored): `SyncInv` is `TypeOK`, `WorkersHoldRemotes`, `RequestsKnow` and
`ResponsesKnow`. A request that names the chain comes from a node with its genesis
block and stops below height 1, so a response is exactly the genesis block, sent
to a node that has it. On longer chains the property would be false: Size is the
height at which a download stops, and the receiver's blocks may have gaps.

* `SyncTypeOK`, `NothingNewIsDownloaded`: from `SyncInv`.

`CheckConfigProofs`, for any finite roster (`RosterAssumption`): `CheckInv` adds
that what was received was answered and that an error is the last thing received
(`ErrorsEndTheCheck`); lemma `AllGood` turns as many good replies as servers into
a good reply of every server.

* `CheckTypeOK`, `CheckTellsTheTruth`: from `CheckInv`.

`DifficultyProofs`, for every even base, length of hashes and largest exponent
(`DifficultyAssumption`). `Power` and `SetBytes` are recursive functions, and the
library's facts about those take operators as parameters, so the module starts
with induction over sets of numbers (`LeastNatural`, `SetInduction`) and the
existence of functions defined by it (`RecursionOnNat`). On them rest the laws of
division and of powers, the length of a number, and what `BigToCompact` keeps of it
(`KeptDigits`). A mantissa is three digits, or two if the first would be read as a
sign, so that what is kept is a multiple of the step between the targets of that
length: the number is rounded down (`KeptRoundsDown`), and a target, which is such a
multiple already, comes back (`TargetsComeBack`). `DInv` is the types and
`PublishedHashShowsWork`.

* `EncodingRoundsDown`, `BitsSurviveDecoding`, `ExponentsFit`, `WorkIsShown`: the
  four properties of the conversions.

Only model-checked: the liveness properties, because the prover does not reason
about fairness and ENABLED.

## 5. Not modelled, and the plan

Planned: `LeaderRound` with the peer table of `Peers` instead of a constant one.

Not modelled because there is no behaviour to model at this commit:

* Signature gathering (`handleSignatureRequest`, `handleSignatureResponse`,
  `handleProxyResponse`, tunnels, `blockBuffer.Set`). `bftMemberGroup` skips
  every address that parses (`if err == nil { continue }`), so no ProxyRequest
  is sent on through a gateway's tunnel, and no other code sends these messages.
* Chain state (`initChainState`) uses types and functions that exist nowhere, in
  a body that is not valid Go. `readElements` is called and not defined, so `FreeList`
  reads one integer at a time; the int64, byte-slice and hash cases of `writeElement`
  do not type-check and are read as their neighbours (`PutUint64`, `w.Write`).
* The panic of the second `Copy` in `handleDownloadBlockRequest`
  (`service/service.go:1127`): only the genesis block, whose candidate is unsigned,
  is ever served (`NothingNewIsDownloaded`).
* `PrivateClock.Push` is never called, and what follows the second Lock of
  `Clock` is unreachable.
* `txPool` is never filled.

Left out for good: hashing and marshalling (fresh values), logging and String
methods, argument parsing, key generation, process start-up and `ntp.go`.
`proxy del` looks its address up in the wrong map and so removes nothing
(`ProxyDel` in `Peers` says so); a `peer del` that overtakes the goroutine of an
earlier `peer add` removes nothing either.
