CONSTANTS
    Caller = {c1, c2}
    MaxSecond = 1
    MaxName = 1
    MaxPassword = 1
SPECIFICATION FairSpec
INVARIANTS
    StaleOnlyByRace
    PasswordEndsSessions
PROPERTIES
    CacheHeals
