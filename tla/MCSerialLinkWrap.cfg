\* Sequence numbers wrap and nodes restart in the middle of anything.
CONSTANTS
    Node <- MCNode
    Peer <- MCPeer
    SNMod = 2
    FirstSN = 1
    TicksToWaitForAck = 2
    MaxSends <- OneSends
    MaxRestarts = 1
    WireCap = 2
SPECIFICATION Spec
INVARIANTS
    AckedSNWasDelivered
    NoReliableGap
