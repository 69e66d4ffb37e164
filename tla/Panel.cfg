CONSTANTS
    DebounceTicks = 2
    PortalTime = 2
    ResetTime = 3
    Inputs = {"in1"}
    Texts = {"a"}
    Passes = 2
    Delays = {1, 2}
    Settings <- TwoSettings
SPECIFICATION FairSpec
INVARIANT AlarmSaysWhy
PROPERTIES ActsOnFullHold AlarmHeard AcceptedHeard
