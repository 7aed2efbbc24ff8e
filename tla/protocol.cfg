SPECIFICATION Spec
CONSTANTS
    alice = alice
    COINBASE = COINBASE
    COINBASE_ADDR <- MCCoinbase
    ZeroHash = ZeroHash
    Unset = Unset
    MeetsTarget <- MCMeetsTarget
    Nodes <- MCNodes
    Payer <- MCPayer
    Receivers <- MCReceivers
    Times = {1}
    Nonces = {0, 1}
    Two64 = 256
    MAX_BLOCKS = 4
    MAX_TX_PER_BLOCK = 3
    Amount = 10
    Fee = 1
    MaxPayments = 2
INVARIANTS
    CopyGenuine
PROPERTIES
    TxArrives
    LineMeansMessage
