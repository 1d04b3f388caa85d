\* Three connections, one break or restart, one short read of a header and one pause.
SPECIFICATION FairSpec
\* The bounds on connections and breaks stop the model.
CHECK_DEADLOCK FALSE
CONSTANTS
    HeaderLen = 2
    DataLen = 4
    Segments = 3
    Window = 4
    Backlog = 1
    TimeoutLimit = 1
    MaxConns = 3
    MaxBreaks = 1
    MaxSlips = 1
    MaxSlow = 1
INVARIANTS
    DrawnWhole
    InStep
    GivesUpForCause
PROPERTIES
    KeepsDrawing
    CutReconnects
