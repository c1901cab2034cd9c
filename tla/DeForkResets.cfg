\* Two conodes.
SPECIFICATION FairSpec
CONSTANTS
    K = K
    M = M
    Nil = Nil
    Nodes = {K, M}
    GenesisKey = K
    Peers <- PairPeers
    Addresses = {M}
    Hashes = {1, 2}
    GenesisHash = 2
    GenesisPrev = Nil
    PowHashes = {0, 1}
    GenesisPowHash = 0
    CosiMembers = 11
    Founders = {K}
    Supervised = {}
    TimerSlots = {1, 2}
    HelloSlots = {1}
    MaxInFlight = 9
PROPERTY
    DeForkResets
\* The round really ends: see ChainStopsAtOne.
CHECK_DEADLOCK FALSE
