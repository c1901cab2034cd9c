----------------------------- MODULE MCDatabase -----------------------------
(* Instances of Database for TLC. *)
EXTENDS Database

\* A genesis block whose hash lies between those of two blocks of height 1.
MCGenesis == [hash |-> 2, height |-> 0]

MCBlocks == {MCGenesis, [hash |-> 1, height |-> 1], [hash |-> 3, height |-> 1]}
=============================================================================
