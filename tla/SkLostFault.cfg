CONSTANTS
    Inputs <- OneInput
    Relays <- OneRelay
    Safe <- OneRelay
    Graces <- TwoGraces
    Every = 1
    BusFaults = TRUE
    MaxEvents = 2
SPECIFICATION FairSpec

PROPERTY SafeAfterLoss
