SPECIFICATION FairSpec
CONSTANTS
    alice = alice
    bob = bob
    Dialer = alice
    Listener = bob
    Room <- LittleRoom
    ChainUnits <- BothLong
    BlockUnits = 2
    LineUnits = 5
    MEMPOOL_SIZE = 1
    Pooled <- None
    MaxBroadcasts <- None
PROPERTIES
    ChainsExchanged
CHECK_DEADLOCK FALSE
