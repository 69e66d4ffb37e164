CONSTANTS
    a = a
    b = b
    c = c
    Relays <- ThreeRelays
    Configs <- SamePairs
    SaveDelay = 1
    BusFaults = TRUE
    FlashFaults = TRUE
    LoadFaults = TRUE
    EditWhileWaiting = TRUE
    Restarts = TRUE
    Channel <- Numbered
    Messages <- NoMessages
SPECIFICATION RequestSpec

INVARIANTS Interlock WaitExclusive TimersMatchCoils QuietMeansConfirmed AllMeansAll
