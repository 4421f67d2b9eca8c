SPECIFICATION Spec
CONSTANTS
    Numerals <- MCNumerals
    Value <- MCValue
    MaxFloat = 50
    Tables <- MCTables
    HeavyMetrics <- MCHeavyMetrics
    Runs = {1, 2}
    MinRows = 2
    EmptyParts = 1
    EmptyWhole = 2
    ManyValues = 1
    Limits = {1, 2}
    Scale = 36
INVARIANTS
    SummaryAgrees
PROPERTIES
    AcceptedDataTrains
CHECK_DEADLOCK FALSE
