\* Two handlers at a time, over a chain of height at most 1 with two blocks
\* that compete for height 1.
SPECIFICATION FairSpec
CONSTANTS
    Goroutines = {g, h}
    Nil = Nil
    Blocks <- MCBlocks
    Genesis <- MCGenesis
    CosiMembers = 1
    IndexSpan = 8
INVARIANTS
    TypeOK
    IndexMatchesBucket
    ClockNeedsHeight
PROPERTY
    ImplementsAtomicBlockDB
    AnswersMissOnlyAboveLatest
    RequestsEnd
\* Both handlers may hang.
CHECK_DEADLOCK FALSE
