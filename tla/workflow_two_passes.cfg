CONSTANTS
    N = 1
    Passes = {p1, p2}
    NoPass = NoPass
    p1 = p1
    p2 = p2
    Faults = {"crash", "interrupt", "lease", "expiry", "truncation"}
SPECIFICATION Spec
SYMMETRY PassSymmetry
CHECK_DEADLOCK FALSE
INVARIANTS
    TypeOK
    SingleTermination
    OpenMeansUntouched
    SignalsWithinApproval
    SucceededMeansTerminated
    OwnerIsCurrent
    CheckpointsAreLegal
PROPERTIES
    TerminalIsFinal
