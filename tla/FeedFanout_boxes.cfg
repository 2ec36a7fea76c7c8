CONSTANTS
    star = star
    ann = ann
    ben = ben
    cem = cem
    dan = dan
    Follower = {ann, ben, cem, dan}
    Vlogger = {star}
    Request = {r1, r2}
    Fans <- MCFans
    Video = {v1}
    AuthorOf <- MCAuthorOf
    BigVThreshold = 4
    BatchSize = 2
    MaxRequests = 2
    MaxPublishFailures = 1
    MaxFaults = 1
SPECIFICATION FairSpec
CHECK_DEADLOCK FALSE
INVARIANTS
    ReachesSteadyFollowers
    RelationIsAsWanted
PROPERTIES
    WorkDrains
