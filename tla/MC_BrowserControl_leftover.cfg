SPECIFICATION Spec
CONSTANTS
    Agent = agent
    Nobody = nobody
    Controllers = {ann, ben}
    Eager = {}
    Returning = {}
    MaxSequence = 2
SYMMETRY People
CHECK_DEADLOCK FALSE
INVARIANTS EndedChannelsHoldNothing
