SPECIFICATION Spec
CONSTANTS
    MaxTabs = 3
CONSTRAINT Small
INVARIANTS TypeOK ActiveIsBound KnownTabsAreOpen CacheMatchesFile
PROPERTIES PinnedActsOnItsOwn
