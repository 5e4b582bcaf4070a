CONSTANTS
    Runs = {"r1"}
    Exporters = {e1, e2}
    Versions = {"v1"}
    Criteria <- TwoCriteria
    MaxFeedback = 2
    MaxExports = 2
    MaxAssessments = 1
SPECIFICATION Spec
SYMMETRY ExporterSymmetry
CHECK_DEADLOCK FALSE
INVARIANTS
    WithdrawnIsNotExported
    RegisteredIsPublished
    PromotionsAreEarned
