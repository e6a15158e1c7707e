SPECIFICATION FairSpec
CONSTANTS
    Agent = agent
    Nobody = nobody
    Controllers = {ann, ben}
    Eager = {}
    Returning = {}
    MaxSequence = 2
CHECK_DEADLOCK FALSE
INVARIANTS EachBatchOnce SignInMatchesBrowser
PROPERTIES ControlIsExclusive NothingIsActedOnBlind SignInIsHandedBack
