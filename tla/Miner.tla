------------------------------- MODULE Miner -------------------------------
(***************************************************************************)
(* mining.Miner with its goroutines.  Start and Stop hold the mutex and    *)
(* are one step each; miningWorker and generateBlocks read m.quit and      *)
(* m.block without it, when the scheduler first runs them, which may be    *)
(* after further Stops and Starts.  Start number i makes channel i, keeps  *)
(* block i and spawns worker i, which spawns generator i.                  *)
(***************************************************************************)
EXTENDS Naturals

CONSTANT MaxStarts    \* bound: Starts that are not refused

ASSUME MaxStartsAssumption == MaxStarts \in Nat

Ids == 1..MaxStarts

VARIABLES
    started,
    block,      \* m.block: the Start it came from, 0 before the first
    quit,       \* m.quit: the Start that made it, 0 before the first
    closed,     \* closed channels
    worker,     \* miningWorker: [pc, quit], quit being the channel it reads
    gen,        \* generateBlocks: [pc, block, quit], quit its own channel closed
    reported    \* what callback was called with: [gen, block]

vars == <<started, block, quit, closed, worker, gen, reported>>

-----------------------------------------------------------------------------
\* Mutant: Stop leaves started as it is.
StopStaysStarted ==
    /\ started
    /\ closed' = closed \cup {quit}
    /\ UNCHANGED <<started, block, quit, worker, gen, reported>>

\* Mutant: generateBlocks forgets newBlock := m.block.
GenBeginWithoutBlock(i) ==
    /\ gen[i].pc = "spawned"
    /\ gen' = [gen EXCEPT ![i].pc = "mining"]
    /\ UNCHANGED <<started, block, quit, closed, worker, reported>>

\* Mutant: the worker does not wait for m.quit.
WorkerCloseAtOnce(i) ==
    /\ worker[i].pc = "waiting"
    /\ worker' = [worker EXCEPT ![i].pc = "done"]
    /\ gen' = [gen EXCEPT ![i].quit = TRUE]
    /\ UNCHANGED <<started, block, quit, closed, reported>>

\* Mutant: the worker returns without closing the generator's channel.
WorkerReturns(i) ==
    /\ worker[i].pc = "waiting"
    /\ worker[i].quit \in closed
    /\ worker' = [worker EXCEPT ![i].pc = "done"]
    /\ UNCHANGED <<started, block, quit, closed, gen, reported>>

-----------------------------------------------------------------------------
\* Start: nothing to do if started.
Start ==
    /\ ~started
    /\ quit < MaxStarts
    /\ started' = TRUE
    /\ block' = quit + 1
    /\ quit' = quit + 1
    /\ worker' = [worker EXCEPT ![quit + 1].pc = "spawned"]
    /\ UNCHANGED <<closed, gen, reported>>

\* Stop: nothing to do if not started; close(m.quit) panics on a closed one.
Stop ==
    /\ started
    /\ closed' = closed \cup {quit}
    /\ started' = FALSE
    /\ UNCHANGED <<block, quit, worker, gen, reported>>

\* miningWorker: make the generator's channel, go generateBlocks.
WorkerBegin(i) ==
    /\ worker[i].pc = "spawned"
    /\ worker' = [worker EXCEPT ![i].pc = "selecting"]
    /\ gen' = [gen EXCEPT ![i].pc = "spawned"]
    /\ UNCHANGED <<started, block, quit, closed, reported>>

\* The select evaluates m.quit, whichever channel it is by now.
WorkerSelect(i) ==
    /\ worker[i].pc = "selecting"
    /\ worker' = [worker EXCEPT ![i] = [pc |-> "waiting", quit |-> quit]]
    /\ UNCHANGED <<started, block, quit, closed, gen, reported>>

\* That channel is closed: close the generator's.
WorkerClose(i) ==
    /\ worker[i].pc = "waiting"
    /\ worker[i].quit \in closed
    /\ worker' = [worker EXCEPT ![i].pc = "done"]
    /\ gen' = [gen EXCEPT ![i].quit = TRUE]
    /\ UNCHANGED <<started, block, quit, closed, reported>>

\* generateBlocks: newBlock := m.block, whichever block it is by now.
GenBegin(i) ==
    /\ gen[i].pc = "spawned"
    /\ gen' = [gen EXCEPT ![i].pc = "mining", ![i].block = block]
    /\ UNCHANGED <<started, block, quit, closed, worker, reported>>

\* solveBlock finds a nonce: its loop never runs out of them, since a uint32
\* is never greater than maxNonce.
SolveBlock(i) ==
    /\ gen[i].pc = "mining"
    /\ gen' = [gen EXCEPT ![i].pc = "solved"]
    /\ UNCHANGED <<started, block, quit, closed, worker, reported>>

\* m.callback(newBlock), with no further look at quit.
Callback(i) ==
    /\ gen[i].pc = "solved"
    /\ gen' = [gen EXCEPT ![i].pc = "done"]
    /\ reported' = reported \cup {[gen |-> i, block |-> gen[i].block]}
    /\ UNCHANGED <<started, block, quit, closed, worker>>

\* The generator or its solveBlock polls quit.
GenQuit(i) ==
    /\ gen[i].pc = "mining"
    /\ gen[i].quit
    /\ gen' = [gen EXCEPT ![i].pc = "done"]
    /\ UNCHANGED <<started, block, quit, closed, worker, reported>>

Init ==
    /\ started = FALSE
    /\ block = 0
    /\ quit = 0
    /\ closed = {}
    /\ worker = [i \in Ids |-> [pc |-> "none", quit |-> 0]]
    /\ gen = [i \in Ids |-> [pc |-> "none", block |-> 0, quit |-> FALSE]]
    /\ reported = {}

WorkerStep(i) == WorkerBegin(i) \/ WorkerSelect(i) \/ WorkerClose(i)

GenStep(i) == GenBegin(i) \/ SolveBlock(i) \/ Callback(i) \/ GenQuit(i)

Next == Start \/ Stop \/ \E i \in Ids : WorkerStep(i) \/ GenStep(i)

Spec == Init /\ [][Next]_vars

\* Goroutines are scheduled and a closed channel is seen; finding a nonce is
\* luck, and the service may never call Start or Stop again.
Fairness ==
    \A i \in Ids :
        /\ WF_vars(WorkerStep(i))
        /\ WF_vars(GenBegin(i))
        /\ WF_vars(GenQuit(i))
        /\ WF_vars(Callback(i))

FairSpec == Spec /\ Fairness

-----------------------------------------------------------------------------
\* Every variable holds what its Go declaration allows.
TypeOK ==
    /\ started \in BOOLEAN
    /\ block \in 0..MaxStarts
    /\ quit \in 0..MaxStarts
    /\ closed \subseteq Ids
    /\ worker \in [Ids -> [pc : {"none", "spawned", "selecting", "waiting", "done"},
                           quit : 0..MaxStarts]]
    /\ gen \in [Ids -> [pc : {"none", "spawned", "mining", "solved", "done"},
                        block : 0..MaxStarts, quit : BOOLEAN]]
    /\ reported \subseteq [gen : Ids, block : Ids]

\* Generator i has been started (go miningWorker) and has not returned.
Running(i) == worker[i].pc # "none" /\ gen[i].pc # "done"

\* Stop never closes a closed or nil channel, which would panic: while the
\* Miner is started its channel is open, and every earlier one is closed.
QuitOpenWhileStarted ==
    IF started THEN quit # 0 /\ closed = 1..(quit - 1) ELSE closed = 1..quit

\* The Miner implements AbstractMiner: generator i is live until it returns,
\* and the Starts before the last Stop are the closed channels.
Abstract ==
    INSTANCE AbstractMiner WITH starts <- quit, stopped <- closed, reports <- reported,
                                live <- {i \in Ids : Running(i)}

ImplementsAbstractMiner == Abstract!ASpec

\* After the last Stop every generator returns, even one whose worker was not
\* scheduled until long after its own Stop.
StopIsFinal == <>[]~started => <>[](\A i \in Ids : ~Running(i))
=============================================================================
