------------------------------- MODULE Ledger -------------------------------
(***************************************************************************)
(* What the rounds of a network of conodes come to: a ledger of which each *)
(* node holds a part.  Founders have the genesis block, the leader extends *)
(* it with blocks of candidates that it alone has signed, the others learn *)
(* the blocks as they are; and no disk ever loses or changes a block.       *)
(***************************************************************************)
EXTENDS Naturals, Sequences

CONSTANTS
    Nodes,
    Founders,
    Leader,
    Genesis,
    Nil

VARIABLE stored     \* the blocks on each node's disk

LInit == stored = [n \in Nodes |-> {}]

Ledger == UNION {stored[n] : n \in Nodes}

Put(n, b) == stored' = [stored EXCEPT ![n] = @ \cup {b}]

Found(n) == n \in Founders /\ Put(n, Genesis)

\* A hash is never used twice, and the new block names its predecessor, unless
\* the genesis block leaves no room for it.
Publish(b) ==
    /\ Genesis \in stored[Leader]
    /\ \A c \in Ledger \cup {Genesis} : c.hash # b.hash
    /\ b.index = Genesis.index + 1
    /\ Genesis.prev # Nil => b.prev = Genesis.hash
    /\ b.publicKey = Leader
    /\ b.block.head \in b.block.order
    /\ \A c \in b.block.order : c.coll = <<Leader>>
    /\ Put(Leader, b)

Learn(n, b) == b \in Ledger /\ Put(n, b)

LNext ==
    \/ \E n \in Nodes : Found(n)
    \/ \E b \in stored'[Leader] : Publish(b)
    \/ \E n \in Nodes : \E b \in Ledger : Learn(n, b)

LSpec == LInit /\ [][LNext]_stored
=============================================================================
