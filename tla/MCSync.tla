------------------------------- MODULE MCSync -------------------------------
(***************************************************************************)
(* Small networks for Sync in which every conode knows all others.         *)
(***************************************************************************)
EXTENDS Sync

CONSTANTS A, B

EveryoneElse == [n \in Nodes |-> Nodes \ {n}]

AnyChain == SUBSET Heights

OnceEach == [n \in Nodes |-> 1]

TwiceA == [n \in Nodes |-> IF n = A THEN 2 ELSE 1]
=============================================================================
