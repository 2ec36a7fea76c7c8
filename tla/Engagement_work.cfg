CONSTANTS
    Video = {v1}
    Account = {a1, a2}
    LikeCaller = {l1, l2}
    LikeConsumer = {lw}
    CommentCaller = {c1}
    CommentConsumer = {cw}
    GiftWeight = 2
    LikesCountValue <- ToldCounts
    MaxRequests = 3
    MaxPublishFailures = 1
    MaxFaults = 1
SPECIFICATION FairSpec
CHECK_DEADLOCK FALSE
INVARIANTS
    LikesCountKeepsUp
    PopularityKeepsUp
    CountsExact
    LatestRequestWins
    CommentsLand
    RankingFollowsRequests
PROPERTIES
    WorkDrains
