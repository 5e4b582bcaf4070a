CONSTANTS
    o1 = o1
    o2 = o2
    Writers = {o1, o2}
    HasLegacy = TRUE
    Disturbances = {"crash", "disk", "dba", "controls"}
    StartupSettings <- DevelopmentSettings
    ControlStates <- SomeControls
SPECIFICATION Spec
SYMMETRY WriterSymmetry
CHECK_DEADLOCK FALSE
INVARIANTS
    MaintenanceTypeOK
    LogIsOneChain
    OnlyDamageIsReported
    MutationsAreAccounted
    OutcomesTellTheTruth
    OutcomesAreRecorded
    AdmittedActionsCanFinish
PROPERTIES
    LogOnlyGrows
    StopsTakeHold
