SPECIFICATION FairSpec
CONSTANTS
    alice = alice
    bob = bob
    Dialer = alice
    Listener = bob
    Room <- OneWayRoom
    ChainUnits <- LongAndShort
    BlockUnits = 2
    LineUnits = 2
    MEMPOOL_SIZE = 1
    Pooled <- None
    MaxBroadcasts <- ThreeBroadcasts
INVARIANTS
    TypeOK
    BroadcastsApart
    OnlyLongChainsLost
PROPERTIES
    NobodyStuck
CHECK_DEADLOCK FALSE
