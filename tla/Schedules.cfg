CONSTANTS
    Entries <- TwoEntries
    Relays <- TwoRelays
    Week = 3
    DayLength = 4
    Suns <- AllSuns
    HomeSuns <- OneSun
    Settings <- Pairs
SPECIFICATION Spec

INVARIANTS WindowServed NeverOutside RelaysAsDue
