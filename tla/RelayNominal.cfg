CONSTANTS
    a = a
    b = b
    c = c
    Relays <- ThreeRelays
    Configs <- EditedPairs
    SaveDelay = 1
    BusFaults = FALSE
    FlashFaults = TRUE
    LoadFaults = FALSE
    EditWhileWaiting = FALSE
    Restarts = TRUE
    Channel <- Numbered
    Messages <- TwoMessages
SPECIFICATION RequestFairSpec

INVARIANT SavedOrPending
PROPERTIES AllOnlyAsAsked ImplementsBank TimersEnd
