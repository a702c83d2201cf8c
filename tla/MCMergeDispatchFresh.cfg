SPECIFICATION FairSpec
CONSTANTS
    Session = {s1, s2}
    Listed = {s1}
    Handler = {p1}
    NeedProxy = TRUE
    MaxProxyAttempts = 2
    MaxCrawl = 3
    MaxRequests = 2
    MaxAborts = 1
INVARIANT TypeOK
PROPERTIES FreshRowEnds FinishedEnds
CHECK_DEADLOCK FALSE
