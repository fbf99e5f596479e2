SPECIFICATION MCSpec
CONSTANTS
    Pushers = {p1, p2, p3}
    Broadcaster = b
    QueueMax = 1
    MaxPushed = 5
    Conns = {}
    Urls = {}
    Topics = {t}
    Matches <- NoMatches
    Rank <- NoRank
    MaxRequests = 0
    TopicOf <- OneTopic
INVARIANTS
    PusherNotForgotten
PROPERTIES
    ImplementsFifo
    EveryMessageTaken
CHECK_DEADLOCK FALSE
