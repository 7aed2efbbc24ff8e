SPECIFICATION PayingFairSpec
CONSTANTS
    alice = alice
    bob = bob
    carol = carol
    COINBASE_ADDR = COINBASE_ADDR
    ZeroHash = ZeroHash
    Unset = Unset
    MeetsTarget <- MCMeetsTarget
    Nodes = {alice, bob}
    Times = {1}
    Nonces = {0, 1}
    Two64 = 256
    MAX_BLOCKS = 2
    MAX_TX_PER_BLOCK = 1
    MEMPOOL_SIZE = 1
    MaxConns = 1
    MaxFaults = 0
    Payments <- OnePayment
PROPERTIES
    SyncAfterRequest
    MempoolShared
