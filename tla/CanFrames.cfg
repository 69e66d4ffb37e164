CONSTANTS
    MaxTxSlots = 2
    QueueDepth = 2
    BufferSize = 2
    MaxFrames = 4
    RxDepth = 1
    BridgeDepth = 1
    MaxArrivals = 4
SPECIFICATION ReceiveFairSpec

INVARIANTS FramesIntact InOrderOnce
PROPERTY AllSent
