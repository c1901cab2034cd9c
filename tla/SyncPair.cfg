\* Two conodes that know each other, A started up to twice, on every
\* combination of chains LeaderRound can leave on disk.
SPECIFICATION FairSpec
CONSTANTS
    A = A
    B = B
    Nil = Nil
    Nodes = {A, B}
    Peers <- EveryoneElse
    Heights = {0, 1}
    Stored <- AnyChain
    MaxPerOnce = 1
    Workers = {1, 2}
    MaxStarts <- TwiceA
INVARIANTS
    TypeOK
    DownloadsBringNothing
PROPERTY
    SyncEnds
\* A network without messages and with all starts used up stops.
CHECK_DEADLOCK FALSE
