CONSTANTS
    Video = {1, 2, 3, 4}
    CreateTime <- MCCreateTime
    InboxScore <- MCInboxScore
    OutboxScore <- MCOutboxScore
    Place <- MCPlace
    Limit = 2
    Counts = {0, 1}
    Rankings <- MCRankings
    MaxChanges = 1
    MaxPages = 5
SPECIFICATION Spec
CHECK_DEADLOCK FALSE
INVARIANTS
    PagesDoNotRepeat
    PagesGoBackInTime
    PagesMissNothing
