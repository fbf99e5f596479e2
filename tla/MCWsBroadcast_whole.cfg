SPECIFICATION Spec
CONSTANTS
    Pushers = {p1}
    Broadcaster = b
    QueueMax = 0
    MaxPushed = 2
    Conns = {c1, c2}
    urlA = urlA
    urlPlus = urlPlus
    topicA = topicA
    topicB = topicB
    Urls = {urlA, urlPlus}
    Topics = {topicA, topicB}
    Matches <- MatchesMC
    Rank <- RankMC
    MaxRequests = 2
    TopicOf <- TopicOfMC
SYMMETRY Symmetry
INVARIANTS
    ClosedUnsubscribed
    LoyalSubscriberServed
    ReceivedInOrder
CHECK_DEADLOCK FALSE
