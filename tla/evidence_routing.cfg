CONSTANTS
    MaxIterations = 3
    MaxTotal = 3
    MaxPerTurn = 2
    MaxActions = 2
    Pairs <- TwoPairs
    Changes = {"CREATE_INDEX"}
    LockRows <- SomeWaits
SPECIFICATION Spec
CHECK_DEADLOCK FALSE
INVARIANTS
    ProposalsRestOnEvidence
    PlanIsExact
PROPERTIES
    RoutedActionsAreCited
