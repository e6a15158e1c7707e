SPECIFICATION LedgerSpec
SYMMETRY Symmetry
CONSTANTS
    Channels = {c1,c2}
    Ids = {1}
    Actions = {a,b}
    Generations = {1, 2}
    Sizes = {1, 2}
    NoAction = NoAction
    ENTRIES = 2
    BYTES = 1
    FENCES = 1
    STOPPED_CHANNELS = 1
CONSTRAINT Ownerless
INVARIANTS QueuedFramesCanStart LiveChannelsHoldTheFence StoppedQueueIsExact BytesAreExact
PROPERTIES StopIsFinal OldestFinalLeaveFirst
CHECK_DEADLOCK FALSE
