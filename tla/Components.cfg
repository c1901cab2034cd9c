\* Four components side by side.  Three Starts: a worker can miss a whole
\* Stop/Start pair.  Two goroutines and a free list of one buffer: the list can
\* be empty and full.
SPECIFICATION MCSpec
CONSTANTS
    MaxStarts = 3
    Goroutines = {1, 2}
    Buffers = {1, 2, 3}
    Values = {1, 2}
    Zero = 0
    None = None
    MaxItems = 1
    Calls <- MCCalls
    Roster = {1, 2, 3}
    Base = 4
    HashDigits = 4
    MaxExponent = 5
INVARIANTS
    TypeOK
    QuitOpenWhileStarted
    FTypeOK
    BuffersHaveOneOwner
    KTypeOK
    VerdictIsTrue
    EncodeRoundsDown
    BitsKeepTheirTarget
    ExponentFits
    PublishedHashShowsWork
PROPERTIES
    ImplementsAbstractMiner
    StopIsFinal
    ImplementsAtomicCodec
    CallsEnd
    CheckEnds
\* After MaxStarts the Miner stays as it is; a check and a solved block end.
CHECK_DEADLOCK FALSE
