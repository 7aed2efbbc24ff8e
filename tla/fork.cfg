SPECIFICATION PairSpec
CONSTANTS
    alice = alice
    bob = bob
    carol = carol
    COINBASE_ADDR = COINBASE_ADDR
    ZeroHash = ZeroHash
    Unset = Unset
    MeetsTarget <- MCMeetsTarget
    Nodes = {alice, bob}
    Times = {1}
    Nonces = {0, 1}
    Two64 = 256
    MAX_BLOCKS = 4
    MAX_TX_PER_BLOCK = 2
    MEMPOOL_SIZE = 2
    MaxConns = 1
    MaxFaults = 0
    Payments <- NoPayments
INVARIANTS
    LongestWins
