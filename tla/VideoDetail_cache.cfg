CONSTANTS
    Process = {"p1", "p2"}
    Reader = {"r1", "r2"}
    Writer = {"w1"}
    ProcessOf <- MCProcessOf
    HotThreshold = 2
    WaitRounds = 1
    MaxVersion = 1
SPECIFICATION DetailFairSpec
INVARIANTS
    OneFiller
    StaleOnlyByRace
PROPERTIES
    ReadsEnd
