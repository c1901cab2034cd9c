--------------------------- MODULE AtomicBlockDB ---------------------------
(***************************************************************************)
(* What BlockDB promises the handlers that add blocks to it: a block goes  *)
(* onto the disk, into the index and becomes the latest one in a single    *)
(* step, as LeaderRound takes it; when the process ends, each block that   *)
(* was being added has been added or has not; and a process that starts    *)
(* again finds all that the one before it had added.                       *)
(***************************************************************************)
EXTENDS Naturals

CONSTANTS
    Goroutines,
    Nil,
    Blocks      \* [hash, height]

Heights == {b.height : b \in Blocks}

VARIABLES
    up,
    blocks,     \* those added, on disk
    latest,     \* the block added last, Nil if there is none
    index,      \* by height, Nil where no block was added
    adding      \* the block each handler is adding, or Nil

avars == <<up, blocks, latest, index, adding>>

AInit ==
    /\ up = TRUE
    /\ blocks = {}
    /\ latest = Nil
    /\ index = [n \in Heights |-> Nil]
    /\ adding = [p \in Goroutines |-> Nil]

\* A handler decides to add a block: its height is free at this moment.
Decide(p) ==
    /\ up
    /\ adding[p] = Nil
    /\ \E b \in Blocks :
        /\ index[b.height] = Nil
        /\ adding' = [adding EXCEPT ![p] = b]
    /\ UNCHANGED <<up, blocks, latest, index>>

Add(p) ==
    /\ adding[p] # Nil
    /\ blocks' = blocks \cup {adding[p]}
    /\ latest' = adding[p]
    /\ index' = [index EXCEPT ![adding[p].height] = adding[p]]
    /\ adding' = [adding EXCEPT ![p] = Nil]
    /\ UNCHANGED up

End ==
    /\ up
    /\ up' = FALSE
    /\ blocks \subseteq blocks'
    /\ blocks' \subseteq blocks \cup {adding[p] : p \in Goroutines}
    /\ Nil \notin blocks'
    /\ latest' = Nil
    /\ index' = [n \in Heights |-> Nil]
    /\ adding' = [p \in Goroutines |-> Nil]

IsLastOf(b, bs) == b \in bs /\ \A c \in bs : c.hash <= b.hash

\* As if the blocks had been added in the order of their hashes.
Start ==
    /\ ~up
    /\ up' = TRUE
    /\ IF blocks = {} THEN latest' = Nil ELSE IsLastOf(latest', blocks)
    /\ index' = [n \in Heights |-> index'[n]]
    /\ \A n \in Heights :
        LET ofHeight == {b \in blocks : b.height = n}
        IN IF ofHeight = {} THEN index'[n] = Nil ELSE IsLastOf(index'[n], ofHeight)
    /\ UNCHANGED <<blocks, adding>>

ANext == End \/ Start \/ \E p \in Goroutines : Decide(p) \/ Add(p)

ASpec == AInit /\ [][ANext]_avars
=============================================================================
