CONSTANTS
    Node <- MCNode
    Peer <- MCPeer
    SNMod = 4
    FirstSN = 1
    TicksToWaitForAck = 2
    MaxSends <- Crossing
    MaxRestarts = 0
    WireCap = 2
SPECIFICATION FairSpec
INVARIANTS
    AckedWasDelivered
    ResponseNeverReturns
    FastAtMostOnce
PROPERTIES
    InOrder
    ReliableReturns
    ImplementsChannel
