CONSTANTS
    Channels <- OneChannel
    Second = 2
    SaveInterval = 3
    FlashFaults = TRUE
    MaxTime = 5
    MaxCycles = 1
    MaxResets = 1
SPECIFICATION Spec

INVARIANTS RuntimeExact SavedOrDirty CleanRestartKeeps
