CONSTANTS
    Agent = "agent"
    Callers = {"agent", "other"}
    HasFallback = TRUE
    Threshold = 2
    MaxIterations = 3
    MaxTotal = 3
    MaxPerTurn = 2
SPECIFICATION Spec
CHECK_DEADLOCK FALSE
INVARIANTS
    RunLifeTypeOK
    CircuitCountsFailures
    ProbeIsOwned
    MemoryAgrees
PROPERTIES
    RunEnds
