\* A chain whose genesis block this node may never have received.
SPECIFICATION FairSpec
CONSTANTS
    Goroutines = {g}
    Nil = Nil
    Blocks <- MCBlocks
    Genesis <- MCGenesis
    CosiMembers = 1
    IndexSpan = 8
PROPERTY
    QueryReturns
\* Handlers may hang.
CHECK_DEADLOCK FALSE
