--------------------------- MODULE AbstractMiner ---------------------------
(***************************************************************************)
(* What mining.Miner promises its caller, the service.  Every Start that   *)
(* is not refused adds one generator, numbered by its Start; the generator *)
(* reports at most one block, the one given to its Start or to a later     *)
(* one, and gives up without a report only when a Stop came after its      *)
(* Start.  Nothing is promised about when it gives up: a generator may     *)
(* still report after the Stop.                                            *)
(***************************************************************************)
EXTENDS Naturals

CONSTANT MaxStarts    \* bound: Starts that are not refused

VARIABLES
    started,
    starts,      \* number of Starts so far
    live,        \* generators that may still report
    stopped,     \* generators whose Start came before the last Stop
    reports      \* reported blocks: [gen, block]

avars == <<started, starts, live, stopped, reports>>

AInit ==
    /\ started = FALSE
    /\ starts = 0
    /\ live = {}
    /\ stopped = {}
    /\ reports = {}

AStart ==
    /\ ~started
    /\ starts < MaxStarts
    /\ started' = TRUE
    /\ starts' = starts + 1
    /\ live' = live \cup {starts + 1}
    /\ UNCHANGED <<stopped, reports>>

AStop ==
    /\ started
    /\ started' = FALSE
    /\ stopped' = 1..starts
    /\ UNCHANGED <<starts, live, reports>>

AReport(i) ==
    /\ i \in live
    /\ live' = live \ {i}
    /\ \E b \in i..starts : reports' = reports \cup {[gen |-> i, block |-> b]}
    /\ UNCHANGED <<started, starts, stopped>>

AQuit(i) ==
    /\ i \in live \cap stopped
    /\ live' = live \ {i}
    /\ UNCHANGED <<started, starts, stopped, reports>>

ANext == AStart \/ AStop \/ \E i \in live : AReport(i) \/ AQuit(i)

ASpec == AInit /\ [][ANext]_avars
=============================================================================
