SPECIFICATION Spec
CONSTANTS
    Session = {s1, s2}
    Listed = {s1, s2}
    Handler = {p1, p2}
    NeedProxy = FALSE
    MaxProxyAttempts = 1
    MaxCrawl = 3
    MaxRequests = 4
    MaxAborts = 1
SYMMETRY SessionsAndHandlers
INVARIANTS OneLiveCrawl NoForgottenRow
PROPERTY OwnResult
CHECK_DEADLOCK FALSE
