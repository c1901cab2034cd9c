\* Does synchronisation bring a block?  Two conodes, each started once.
SPECIFICATION FairSpec
CONSTANTS
    A = A
    B = B
    Nil = Nil
    Nodes = {A, B}
    Peers <- EveryoneElse
    Heights = {0, 1}
    Stored <- AnyChain
    MaxPerOnce = 1
    Workers = {1, 2}
    MaxStarts <- OnceEach
PROPERTY
    SyncCatchesUp
\* A network without messages and with all starts used up stops.
CHECK_DEADLOCK FALSE
