\* Two conodes.
SPECIFICATION Spec
CONSTANTS
    K = K
    M = M
    Nil = Nil
    Nodes = {K, M}
    GenesisKey = K
    Peers <- PairPeers
    Addresses = {M}
    Hashes = {1, 2, 3}
    GenesisHash = 2
    GenesisPrev = 0
    PowHashes = {0, 1}
    GenesisPowHash = 0
    CosiMembers = 11
    Founders = {K}
    Supervised = {K}
    TimerSlots = {1, 2}
    HelloSlots = {1}
    MaxInFlight = 9
INVARIANT
    LatestIsHighest
\* The round really ends: see ChainStopsAtOne.
CHECK_DEADLOCK FALSE
