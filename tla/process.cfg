SPECIFICATION FairSpec
CONSTANTS
    Absent = Absent
    Broken = Broken
    Main = Main
    Acceptor = Acceptor
    Nobody = Nobody
    Destroyed = Destroyed
    MaxKeys = 2
    MaxDiskFaults = 1
    MAX_PEERS = 2
    MaxConns = 3
    MaxStarts = 2
INVARIANTS
    TypeOK
    AddressSurvives
    DescriptorOwned
    ServedOrClosed
PROPERTIES
    LostClosed
    QuitEnds
CHECK_DEADLOCK FALSE
