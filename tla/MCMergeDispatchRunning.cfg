SPECIFICATION FairSpec
CONSTANTS
    Session = {s1}
    Listed = {s1}
    Handler = {p1}
    NeedProxy = FALSE
    MaxProxyAttempts = 1
    MaxCrawl = 1
    MaxRequests = 1
    MaxAborts = 0
PROPERTY RunningEnds
CHECK_DEADLOCK FALSE
