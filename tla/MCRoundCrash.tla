---------------------------- MODULE MCRoundCrash ----------------------------
(***************************************************************************)
(* Two sets of behaviours of LeaderRound in one run: part says whether     *)
(* only K's operator asks for the genesis block or M's does too.           *)
(*                                                                         *)
(* With two founders a late Store of the genesis block takes the leader's  *)
(* latest block back to it: M's genesis block is past K's checks when K    *)
(* creates its own, K publishes a block of height 1, then the handler      *)
(* stores.  A candidate mined on that block of height 1 is now elected     *)
(* into another one, next to candidates mined on the genesis block.  It    *)
(* takes two mined blocks, so less of the rest happens at once.            *)
(***************************************************************************)
EXTENDS MCLeaderRound

VARIABLE part

MCInit == Init /\ part \in {"founder", "founders"}

MCNext == Next /\ UNCHANGED part /\ (part = "founder" => creating' \subseteq {K})

MCSpec == MCInit /\ [][MCNext]_<<vars, part>>

\* Spawn takes any free slot, so states that differ in which slot holds which
\* goroutine are one.  The run checks no liveness.
TimerSymmetry == Permutations(TimerSlots)

\* Bounds, explored states only.
OneMined == usedPow \subseteq {0, 1}

OneAtATime ==
    HandledAndSent <= 1 /\ Cardinality({s \in TimerSlots : timers[s] # Nil}) <= 1

Explored == IF part = "founder" THEN InFlight /\ OneMined ELSE OneAtATime
=============================================================================
