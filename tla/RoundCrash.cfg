\* Two conodes, M also the gateway, with processes killed and restarted at any point.
SPECIFICATION MCSpec
CONSTANTS
    K = K
    M = M
    Nil = Nil
    Nodes = {K, M}
    GenesisKey = K
    Peers <- PairPeers
    Addresses = {M}
    Hashes = {1, 2, 3}
    GenesisHash = 2
    GenesisPrev = 0
    PowHashes = {0, 1, 2}
    GenesisPowHash = 0
    CosiMembers = 11
    Founders = {K, M}
    Supervised = {K, M}
    TimerSlots = {t1, t2}
    HelloSlots = {1}
    MaxInFlight = 2
CONSTRAINT Explored
SYMMETRY TimerSymmetry
INVARIANTS
    TypeOK
    OnlyGenesisLeads
    ChainStopsAtOne
    LeaderIsTheQuorum
    IndexMatchesBucket
    HashNamesOneBlock
    CandidatesComeFromTheChain
PROPERTIES
    ImplementsLedger
    IdleMinerStaysIdle
\* A node that is not the leader may wait forever.
CHECK_DEADLOCK FALSE
