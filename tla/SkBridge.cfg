CONSTANTS
    Inputs <- OneInput
    Relays <- OneRelay
    Safe <- OneRelay
    Graces <- TwoGraces
    Every = 1
    BusFaults = FALSE
    MaxEvents = 2
SPECIFICATION FairSpec

INVARIANTS SeenOrPending AlarmShown FailSafeOnce
PROPERTY SafeAfterLoss
