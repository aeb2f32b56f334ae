SPECIFICATION FairSpec
CHECK_DEADLOCK FALSE
CONSTANTS
    w1 = w1
    q1 = q1
    q2 = q2
    Watcher <- MCWatcher
    Request <- MCRequest
    Capacity = 2
    BannerAfter = 2
    MaxVersion = 4
    MaxFaults = 3
INVARIANTS
    BannerTellsTruth
PROPERTIES
    CommittedReachesScreen
    ReconnectCatchesUp
