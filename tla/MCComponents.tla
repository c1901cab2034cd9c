---------------------------- MODULE MCComponents ----------------------------
(***************************************************************************)
(* Four components that share no state, in one run: part picks the one     *)
(* that moves, so that their states add up instead of multiplying.         *)
(***************************************************************************)
EXTENDS Miner, FreeList, CheckConfig, Difficulty

VARIABLE part

\* A read, a writeElements of two elements and one of none.
MCCalls ==
    {[op |-> "get", elements |-> <<1>>],
     [op |-> "put", elements |-> <<2, 1>>],
     [op |-> "put", elements |-> <<>>]}

\* Only the difficulty's run looks at all its initial states.
MCInit ==
    /\ part \in {"miner", "freelist", "check", "difficulty"}
    /\ Init /\ FInit /\ KInit /\ DInit
    /\ part # "difficulty" => bits = 0 /\ \A k \in DOMAIN hash : hash[k] = 0

MCNext ==
    \/ part = "miner" /\ Next /\ UNCHANGED <<part, fvars, kvars, dvars>>
    \/ part = "freelist" /\ FNext /\ UNCHANGED <<part, vars, kvars, dvars>>
    \/ part = "check" /\ KNext /\ UNCHANGED <<part, vars, fvars, dvars>>
    \/ part = "difficulty" /\ DNext /\ UNCHANGED <<part, vars, fvars, kvars>>

MCSpec ==
    /\ MCInit /\ [][MCNext]_<<part, vars, fvars, kvars, dvars>>
    /\ Fairness /\ FFairness /\ KFairness
=============================================================================
