CONSTANTS
    io = io
    stream = stream
    n2k = n2k
    Relays <- OneRelay
    Tasks <- AllTasks
    Switching <- AllTasks
    IoTask = io
    N2kTask = n2k
    Wirings <- TwoWirings
SPECIFICATION FairSpec

INVARIANTS SkShowsCurrent BusShowsCurrent
PROPERTY EventuallyTold
