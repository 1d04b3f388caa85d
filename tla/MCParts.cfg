\* The parts that stand for themselves, one at a time.
SPECIFICATION PartsSpec
\* The bounds, and a patch that is applied, stop the model.
CHECK_DEADLOCK FALSE
CONSTANTS
    Speeds <- MCSpeeds
    Configured <- MCConfigured
    WriteBuffer = 20
    MaxFileSize = 40
    LogFiles = 2
    MaxLines = 6
    MaxChars = 1
    MaxRestarts = 1
    ShortLength = 3
    StateLengths = {2, 5}
    MaxAdditional = 9
    MaxMessages = 3
    States <- MCStates
    Unkept <- MCUnkept
    Documents <- MCDocuments
    Depth <- MCDepth
    Token <- MCToken
    MessageLengths = {0, 1, 3, 5}
    MaxDatagram = 3
    maxlen2 = 4
    maxrecvbuflen = 6
    Wanted = {2, 3}
    MaxUdpMessages = 4
    MaxUdpErrors = 1
    Second = 2
    TickSteps <- MCTickSteps
    MaxClock = 5
    MaxSamples = 3
    MaxBack = 1
INVARIANTS
    SafeWithCare
    StopStops
    SettingsSurvive
    LogKept
    ReadByName
    WholeAfterCleanHandshake
    DeltaCarries
    UdpStream
    ReadingsReach
PROPERTIES
    AllArrive
