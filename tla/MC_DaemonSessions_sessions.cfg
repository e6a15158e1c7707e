SPECIFICATION FairSpec
CONSTANTS
    first = first
    second = second
    old = old
    new = new
    d1 = d1
    d2 = d2
    Clients = {first, second}
    Daemons = {d1, d2}
    Configs = {old, new}
    IdleTimeout <- Timeouts
    Wants <- Preferences
    Closers = {first}
    Requiring = {}
    Walkers = {second}
    Nobody = Nobody
    MaxCrashes = 1
INVARIANTS OwnerIsAlone AtMostOnce
PROPERTIES IdleCutsNothing ClientsReturn UnreachableDaemonsLeave
CONSTRAINT InOrder
CHECK_DEADLOCK FALSE
