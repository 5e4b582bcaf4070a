CONSTANTS
    N = 1
    Passes = {p1, p2}
    NoPass = NoPass
    p1 = p1
    p2 = p2
    Faults = {"lease"}
SPECIFICATION FairSpec
CHECK_DEADLOCK FALSE
PROPERTIES
    PassReturns
