CONSTANTS
    N = 2
    Passes = {p1, p2}
    NoPass = NoPass
    p1 = p1
    p2 = p2
    Faults = {"lease"}
SPECIFICATION Spec
SYMMETRY PassSymmetry
CHECK_DEADLOCK FALSE
INVARIANTS
    OneInFlight
    SerialBatch
    CompletedMeansFinished
PROPERTIES
    KeepsPromise
