CONSTANTS
    RelayCount = 2
    Edits <- TwoEdits
SPECIFICATION FairSpec

INVARIANTS TypeOK NothingMissed ResetKept
PROPERTY SettingsApply
