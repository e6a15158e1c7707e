SPECIFICATION Spec
CONSTANTS
    Channels = {c1, c2}
    Needs = {n1, n2}
    NoChannel = NoChannel
    NoUse = NoUse
    AnyUse = AnyUse
    MaxOffers = 2
    MaxConnections = 1
INVARIANTS TypeOK NothingIsLeftBehind PausesHaveAnAnswerer
PROPERTIES ErasedByName ProceedsSettled
SYMMETRY Alike
VIEW View
CONSTRAINT Together
CHECK_DEADLOCK FALSE
