---------------------------- MODULE MinerProofs ----------------------------
(***************************************************************************)
(* Proofs about Miner, for any number of Starts: the channel that Stop     *)
(* closes is open, and the Miner implements AbstractMiner.                 *)
(***************************************************************************)
EXTENDS Miner, TLAPS

(***************************************************************************)
(* The inductive invariant.  What the late reads of m.quit and m.block can *)
(* return is bounded from below by the Start that spawned the reader.      *)
(***************************************************************************)
SpawnedInOrder ==
    \A i \in Ids :
        /\ worker[i].pc # "none" <=> i <= quit
        /\ worker[i].pc \in {"none", "spawned"} => gen[i].pc = "none"

ReadsAreNotOlder ==
    /\ block = quit
    /\ \A i \in Ids :
          /\ worker[i].pc = "waiting" => worker[i].quit \in i..quit
          /\ gen[i].pc \in {"mining", "solved"} => gen[i].block \in i..quit
          /\ gen[i].quit => i \in closed

MinerInv == TypeOK /\ QuitOpenWhileStarted /\ SpawnedInOrder /\ ReadsAreNotOlder

\* The invariant holds of New(callback).
LEMMA MinerInvInit == Init => MinerInv
  <1> SUFFICES ASSUME Init PROVE MinerInv
    OBVIOUS
  <1>1. TypeOK
    <2>1. started \in BOOLEAN
      BY DEF Init
    <2>2. gen \in [Ids -> [pc : {"none", "spawned", "mining", "solved", "done"},
                          block : 0..MaxStarts, quit : BOOLEAN]]
      BY MaxStartsAssumption DEF Init
    <2> QED
      BY <2>1, <2>2, MaxStartsAssumption DEF Init, TypeOK
  <1>2. QuitOpenWhileStarted
    BY DEF Init, QuitOpenWhileStarted
  <1>3. SpawnedInOrder
    BY MaxStartsAssumption DEF Init, SpawnedInOrder, Ids
  <1>4. ReadsAreNotOlder
    BY DEF Init, ReadsAreNotOlder, Ids
  <1> QED
    BY <1>1, <1>2, <1>3, <1>4 DEF MinerInv

\* Every step of the Miner, of a worker or of a generator keeps it.
LEMMA MinerInvNext == MinerInv /\ [Next]_vars => MinerInv'
  <1> SUFFICES ASSUME MinerInv, [Next]_vars PROVE MinerInv'
    OBVIOUS
  <1> USE MaxStartsAssumption DEF MinerInv, TypeOK, QuitOpenWhileStarted, SpawnedInOrder,
                                  ReadsAreNotOlder, Ids
  <1>1. CASE Start
    <2>0. started' \in BOOLEAN
      BY <1>1 DEF Start
    <2>a. block' \in 0..MaxStarts /\ quit' \in 0..MaxStarts /\ closed' \subseteq Ids
      BY <1>1 DEF Start
    <2>b. worker' \in [Ids -> [pc : {"none", "spawned", "selecting", "waiting", "done"},
                              quit : 0..MaxStarts]]
      BY <1>1 DEF Start
    <2>1. TypeOK'
      BY <1>1, <2>0, <2>a, <2>b DEF Start
    <2>2. QuitOpenWhileStarted'
      BY <1>1 DEF Start
    <2>3. SpawnedInOrder'
      BY <1>1 DEF Start
    <2>4. ReadsAreNotOlder'
      BY <1>1 DEF Start
    <2> QED
      BY <2>1, <2>2, <2>3, <2>4
  <1>2. CASE Stop
    <2>0. started' \in BOOLEAN
      BY <1>2 DEF Stop
    <2>1. TypeOK'
      BY <1>2, <2>0 DEF Stop
    <2>2. QuitOpenWhileStarted'
      BY <1>2 DEF Stop
    <2>3. SpawnedInOrder'
      BY <1>2 DEF Stop
    <2>4. ReadsAreNotOlder'
      BY <1>2 DEF Stop
    <2> QED
      BY <2>1, <2>2, <2>3, <2>4
  <1>3. ASSUME NEW i \in Ids, WorkerBegin(i) PROVE MinerInv'
    <2>1. TypeOK'
      BY <1>3 DEF WorkerBegin
    <2>2. QuitOpenWhileStarted'
      BY <1>3 DEF WorkerBegin
    <2>3. SpawnedInOrder'
      BY <1>3 DEF WorkerBegin
    <2>4. ReadsAreNotOlder'
      BY <1>3 DEF WorkerBegin
    <2> QED
      BY <2>1, <2>2, <2>3, <2>4
  <1>4. ASSUME NEW i \in Ids, WorkerSelect(i) PROVE MinerInv'
    <2>1. TypeOK'
      BY <1>4 DEF WorkerSelect
    <2>2. QuitOpenWhileStarted'
      BY <1>4 DEF WorkerSelect
    <2>3. SpawnedInOrder'
      BY <1>4 DEF WorkerSelect
    <2>4. ReadsAreNotOlder'
      BY <1>4 DEF WorkerSelect
    <2> QED
      BY <2>1, <2>2, <2>3, <2>4
  <1>5. ASSUME NEW i \in Ids, WorkerClose(i) PROVE MinerInv'
    <2>1. TypeOK'
      BY <1>5 DEF WorkerClose
    <2>2. QuitOpenWhileStarted'
      BY <1>5 DEF WorkerClose
    <2>3. SpawnedInOrder'
      BY <1>5 DEF WorkerClose
    <2>4. ReadsAreNotOlder'
      BY <1>5 DEF WorkerClose
    <2> QED
      BY <2>1, <2>2, <2>3, <2>4
  <1>6. ASSUME NEW i \in Ids, GenBegin(i) PROVE MinerInv'
    <2>1. TypeOK'
      BY <1>6 DEF GenBegin
    <2>2. QuitOpenWhileStarted'
      BY <1>6 DEF GenBegin
    <2>3. SpawnedInOrder'
      BY <1>6 DEF GenBegin
    <2>4. ReadsAreNotOlder'
      BY <1>6 DEF GenBegin
    <2> QED
      BY <2>1, <2>2, <2>3, <2>4
  <1>7. ASSUME NEW i \in Ids, SolveBlock(i) PROVE MinerInv'
    <2>1. TypeOK'
      BY <1>7 DEF SolveBlock
    <2>2. QuitOpenWhileStarted'
      BY <1>7 DEF SolveBlock
    <2>3. SpawnedInOrder'
      BY <1>7 DEF SolveBlock
    <2>4. ReadsAreNotOlder'
      BY <1>7 DEF SolveBlock
    <2> QED
      BY <2>1, <2>2, <2>3, <2>4
  <1>8. ASSUME NEW i \in Ids, Callback(i) PROVE MinerInv'
    <2>1. TypeOK'
      BY <1>8 DEF Callback
    <2>2. QuitOpenWhileStarted'
      BY <1>8 DEF Callback
    <2>3. SpawnedInOrder'
      BY <1>8 DEF Callback
    <2>4. ReadsAreNotOlder'
      BY <1>8 DEF Callback
    <2> QED
      BY <2>1, <2>2, <2>3, <2>4
  <1>9. ASSUME NEW i \in Ids, GenQuit(i) PROVE MinerInv'
    <2>1. TypeOK'
      BY <1>9 DEF GenQuit
    <2>2. QuitOpenWhileStarted'
      BY <1>9 DEF GenQuit
    <2>3. SpawnedInOrder'
      BY <1>9 DEF GenQuit
    <2>4. ReadsAreNotOlder'
      BY <1>9 DEF GenQuit
    <2> QED
      BY <2>1, <2>2, <2>3, <2>4
  <1>10. CASE UNCHANGED vars
    BY <1>10 DEF vars
  <1> QED
    BY <1>1, <1>2, <1>3, <1>4, <1>5, <1>6, <1>7, <1>8, <1>9, <1>10
       DEF Next, WorkerStep, GenStep

\* The invariant holds in every reachable state.
LEMMA MinerInvAlways == Spec => []MinerInv
  BY MinerInvInit, MinerInvNext, PTL DEF Spec

\* Every reachable state is well typed: in particular no callback reports a
\* block that was never given to Start.
THEOREM MinerTypeOK == Spec => []TypeOK
  <1>1. MinerInv => TypeOK
    BY DEF MinerInv
  <1> QED
    BY <1>1, MinerInvAlways, PTL

\* close(m.quit) in Stop never panics, however many Starts and Stops there are
\* and however late the goroutines run.
THEOREM StopNeverPanics == Spec => []QuitOpenWhileStarted
  <1>1. MinerInv => QuitOpenWhileStarted
    BY DEF MinerInv
  <1> QED
    BY <1>1, MinerInvAlways, PTL

-----------------------------------------------------------------------------
\* New(callback) is an abstract Miner with no generator.
LEMMA RefinesInit == Init => Abstract!AInit
  BY DEF Init, Abstract!AInit, Running

\* Every step is an abstract step of the same name, or changes nothing that
\* the caller of the Miner sees.
LEMMA RefinesNext == MinerInv /\ [Next]_vars => [Abstract!ANext]_Abstract!avars
  <1> SUFFICES ASSUME MinerInv, [Next]_vars PROVE [Abstract!ANext]_Abstract!avars
    OBVIOUS
  <1> DEFINE live == {i \in Ids : Running(i)}
  <1> USE MaxStartsAssumption DEF MinerInv, TypeOK, Running, Ids
  <1>1. CASE Start
    <2>1. live' = live \cup {quit + 1}
      BY <1>1 DEF Start, SpawnedInOrder
    <2>2. Abstract!AStart
      BY <1>1, <2>1 DEF Start, Abstract!AStart
    <2> QED
      BY <2>2 DEF Abstract!ANext
  <1>2. CASE Stop
    <2>1. closed' = 1..quit
      BY <1>2 DEF Stop, QuitOpenWhileStarted
    <2>2. live' = live
      BY <1>2 DEF Stop
    <2>3. Abstract!AStop
      BY <1>2, <2>1, <2>2 DEF Stop, Abstract!AStop
    <2> QED
      BY <2>3 DEF Abstract!ANext
  <1>3. ASSUME NEW i \in Ids, WorkerStep(i) PROVE UNCHANGED Abstract!avars
    <2>1. CASE WorkerBegin(i)
      <3>1. live' = live
        BY <2>1 DEF WorkerBegin, SpawnedInOrder
      <3> QED
        BY <2>1, <3>1 DEF WorkerBegin, Abstract!avars
    <2>2. CASE WorkerSelect(i)
      <3>1. live' = live
        BY <2>2 DEF WorkerSelect
      <3> QED
        BY <2>2, <3>1 DEF WorkerSelect, Abstract!avars
    <2>3. CASE WorkerClose(i)
      <3>1. live' = live
        BY <2>3 DEF WorkerClose
      <3> QED
        BY <2>3, <3>1 DEF WorkerClose, Abstract!avars
    <2> QED
      BY <1>3, <2>1, <2>2, <2>3 DEF WorkerStep
  <1>4. ASSUME NEW i \in Ids, GenBegin(i) \/ SolveBlock(i) PROVE UNCHANGED Abstract!avars
    <2>1. live' = live
      BY <1>4 DEF GenBegin, SolveBlock
    <2> QED
      BY <1>4, <2>1 DEF GenBegin, SolveBlock, Abstract!avars
  <1>5. ASSUME NEW i \in Ids, Callback(i) PROVE Abstract!ANext
    <2>1. i \in live /\ live' = live \ {i}
      BY <1>5 DEF Callback, SpawnedInOrder
    <2>2. gen[i].block \in i..quit
      BY <1>5 DEF Callback, ReadsAreNotOlder
    <2>3. Abstract!AReport(i)
      BY <1>5, <2>1, <2>2 DEF Callback, Abstract!AReport
    <2> QED
      BY <2>1, <2>3 DEF Abstract!ANext
  <1>6. ASSUME NEW i \in Ids, GenQuit(i) PROVE Abstract!ANext
    <2>1. i \in live /\ live' = live \ {i}
      BY <1>6 DEF GenQuit, SpawnedInOrder
    <2>2. i \in closed
      BY <1>6 DEF GenQuit, ReadsAreNotOlder
    <2>3. Abstract!AQuit(i)
      BY <1>6, <2>1, <2>2 DEF GenQuit, Abstract!AQuit
    <2> QED
      BY <2>1, <2>3 DEF Abstract!ANext
  <1>7. CASE UNCHANGED vars
    BY <1>7 DEF vars, Abstract!avars
  <1> QED
    BY <1>1, <1>2, <1>3, <1>4, <1>5, <1>6, <1>7 DEF Next, GenStep

\* The Miner keeps the promise the service relies on: one report at most per
\* Start, of a block that is not older, and no generator gives up unless a
\* Stop came after its Start.
THEOREM MinerImplementsAbstractMiner == Spec => ImplementsAbstractMiner
  BY RefinesInit, RefinesNext, MinerInvAlways, PTL
     DEF Spec, ImplementsAbstractMiner, Abstract!ASpec
=============================================================================
