SPECIFICATION Spec
CONSTANTS
    alice = alice
    bob = bob
    me = alice
    Nodes = {alice, bob}
    Readers = {r1, r2}
    Main = Main
    NoThread = NoThread
    Offers <- BobsBranch
    Pending <- Payment
    COINBASE_ADDR = COINBASE_ADDR
    ZeroHash = ZeroHash
    Unset = Unset
    MeetsTarget <- MCMeetsTarget
    Times = {2}
    Nonces = {0, 1}
    Two64 = 256
    MAX_BLOCKS = 4
    MAX_TX_PER_BLOCK = 2
INVARIANTS
    AnswerIsChain
