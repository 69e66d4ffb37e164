CONSTANTS
    Channels <- TwoChannels
    Edited <- FirstOnly
    Choices <- TwoLevels
    Acking <- SecondOnly
    Levels <- TwoLevels
    BootLevels <- Same
    StatusPeriod = 2
    Repeats = 2
    MaxOccurrence = 2
    MaxEdits = 2
    MaxLost = 1
SPECIFICATION AlertsFairSpec

INVARIANTS AckMeant NoGhost
PROPERTY DisplayRight
