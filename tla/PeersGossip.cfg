\* Three conodes whose operators stop after three commands.
SPECIFICATION FairSpec
CONSTANTS
    Nodes = {a, b, c}
    Addrs = {x}
    MaxRequests = 3
INVARIANTS
    TypeOK
    PeeringIsMutual
PROPERTY
    GossipEnds
\* Once the commands are used up nothing more happens.
CHECK_DEADLOCK FALSE
