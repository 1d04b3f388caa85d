CONSTANTS
    Command = {c1, c2}
    Telemetry = {t1, t2}
    NoValue = none
    MaxConnections = 2
SYMMETRY Symmetry
SPECIFICATION Spec
INVARIANTS
    CommandsBounded
    CommandCurrent
    NothingStalls
    OneTelemetryInFlight
PROPERTIES
    ImplementsFlow
