CONSTANTS
    Inputs <- TwoInputs
    Relays <- TwoRelays
    Configs <- Edits
    Debounce = 2
    Grace = 1
    Restarts = TRUE
SPECIFICATION SenseFairSpec

INVARIANTS ReportsTruth FollowsInput
PROPERTIES OnlyRealChanges SteadyIsReported
