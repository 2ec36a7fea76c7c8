CONSTANTS
    Process = {"p1"}
    Reader = {"r1"}
    Writer = {"w1"}
    ProcessOf <- MCProcessOf
    HotThreshold = 1
    WaitRounds = 1
    MaxVersion = 1
    MaxRounds = 2
    MaxRedelivered = 1
SPECIFICATION Spec
INVARIANTS
    SuggestionsLand
    PendingNotShown
    StaleOnlyByRace
