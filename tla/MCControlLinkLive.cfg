CONSTANTS
    Command = {c1, c2}
    Telemetry = {t1, t2}
    NoValue = none
    MaxConnections = 1
SPECIFICATION ReconnectSpec
PROPERTIES
    TelemetrySettles
    CommandSettles
