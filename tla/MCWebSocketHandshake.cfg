\* One message is enough, when the handshake's read takes a part of it.
SPECIFICATION WsSpec
\* The bound on messages stops the model.
CHECK_DEADLOCK FALSE
CONSTANTS
    ShortLength = 3
    StateLengths = {2, 5}
    MaxAdditional = 9
    MaxMessages = 2
INVARIANTS
    WholeMessages
