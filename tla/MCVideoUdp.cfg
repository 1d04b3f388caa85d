\* Three frame ids; one packet is lost, one is late and one recvfrom fails.
SPECIFICATION FairSpec
\* The receiver stops when recvfrom fails, and then the camera's packets have no room.
CHECK_DEADLOCK FALSE
CONSTANTS
    NumPixels = 5
    PacketPixels = 2
    pixellocMod = 3
    NumFrameIds = 3
    Buffer = 2
    MaxLost = 1
    MaxLate = 1
    MaxErrors = 1
INVARIANTS
    OneFramePerCall
    WholeImage
PROPERTIES
    CallReturns
