CONSTANTS
    CRC8 <- CRC8Step
    MaxMessageLength = 2
    SendFrames <- MCFrames
    NoiseBytes <- MCNoise
SPECIFICATION Spec
INVARIANTS
    TypeOK
    CleanFrameArrives
    NothingForged
