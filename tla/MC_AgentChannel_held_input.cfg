SPECIFICATION Spec
CONSTANTS
    host1 = host1
    host2 = host2
    action = action
    Channels = {host1, host2}
    Ids = {1, 2, 3}
    Actions = {action}
    Generations = {1, 2}
    Sizes = {1}
    NoAction = NoAction
    NoChannel = NoChannel
    ENTRIES = 1
    BYTES = 1
    FENCES = 1
    STOPPED_CHANNELS = 1
    Requests <- TakeoverRequests
INVARIANTS EndedChannelsHoldNothing
CHECK_DEADLOCK FALSE
