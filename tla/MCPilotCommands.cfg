CONSTANTS
    d = d
    x = x
    Pads = {d, x}
    Kind <- MCKind
    Positions = {0, 1}
    NoPad = nopad
    MaxFaults = 1
SPECIFICATION FairSpec
INVARIANTS
    TwoPadsObeyed
    Agreement
PROPERTIES
    PadFound
    Obeys
