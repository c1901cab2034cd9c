\* One handler at a time: a genesis block may arrive after a block of height 1.
SPECIFICATION Spec
CONSTANTS
    Goroutines = {g}
    Nil = Nil
    Blocks <- MCBlocks
    Genesis <- MCGenesis
    CosiMembers = 1
    IndexSpan = 8
INVARIANT
    StoredIndexIsAnswered
\* Handlers may hang.
CHECK_DEADLOCK FALSE
