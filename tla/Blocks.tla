------------------------------- MODULE Blocks -------------------------------
(***************************************************************************)
(* The block types of package blockchain and the pure operations on them.  *)
(*                                                                         *)
(* A PoW block (bc.Block) is [hash, publicKey, prev, coll]; coll is its     *)
(* slice of Collections, a sequence of signer keys in which Nil stands for *)
(* a nil *Collection.  A bc.DeForkBlock is [head, order]: OrderBlocks as   *)
(* the set `order' and its first element, the only position the code uses. *)
(* A bc.NewLeaderHelloBlock is [hash, index, prev, publicKey, block]; its   *)
(* Addresses are the same in every block (nothing updates them) and are a  *)
(* constant of the modules that need them.                                 *)
(***************************************************************************)
EXTENDS Naturals, Sequences, FiniteSets

CONSTANT Nil    \* a nil pointer, a nil or zero-length byte slice

\* An empty Go map.
EmptyMap == [k \in {} |-> Nil]

\* Put one entry into a Go map or a bbolt bucket.
MapPut(map, key, val) ==
    [k \in DOMAIN map \cup {key} |-> IF k = key THEN val ELSE map[k]]

\* Mutant: source and destination are swapped.
CopyIntoSource(dst, src) == dst

\* Go's copy(dst, src) for two hashes: it fills dst and never lengthens it,
\* so a zero-length dst stays empty.
CopyInto(dst, src) == IF dst = Nil THEN Nil ELSE src

(***************************************************************************)
(* Block.Copy allocates Collections with the length of the original, then  *)
(* appends a copy of every entry: a nil entry per original precedes them.  *)
(* It reads c.PublicKey of every entry, which panics on a nil one.         *)
(***************************************************************************)
\* Mutant: a Copy without the nil entries.
CopyCollectionsDeep(coll) == coll

CopyCollections(coll) ==
    [i \in 1..(2 * Len(coll)) |-> IF i <= Len(coll) THEN Nil ELSE coll[i - Len(coll)]]

CopyPanics(coll) == \E i \in DOMAIN coll : coll[i] = Nil

\* Block.Sign appends the key unless an entry already holds it; it also
\* dereferences every entry before the first match.
Sign(coll, key) ==
    IF \E i \in DOMAIN coll : coll[i] = key THEN coll ELSE Append(coll, key)

SignPanics(coll, key) ==
    \E i \in DOMAIN coll : coll[i] = Nil /\ \A j \in 1..(i - 1) : coll[j] # key

CopyBlock(b) == [b EXCEPT !.coll = CopyCollections(@)]

\* DeForkBlock.Copy copies every block of OrderBlocks.
CopyDeFork(d) == [head |-> CopyBlock(d.head), order |-> {CopyBlock(b) : b \in d.order}]

\* NewLeaderHelloBlock.Copy: every field as it is, Block through its Copy.
CopyHello(hb) == [hb EXCEPT !.block = CopyDeFork(@)]

CopyHelloPanics(hb) == \E b \in hb.block.order : CopyPanics(b.coll)

(***************************************************************************)
(* blockBuffer, a map from hash to signed candidate, as a set of blocks    *)
(* with distinct hashes.                                                   *)
(***************************************************************************)
BufferHas(buf, hash) == \E b \in buf : b.hash = hash

\* Put: insert or overwrite.
BufferPut(buf, blk) == {b \in buf : b.hash # blk.hash} \cup {blk}

\* HalfMore: the blocks with more than memberLen collections.
HalfMore(buf, memberLen) == {b \in buf : Len(b.coll) > memberLen}
=============================================================================
