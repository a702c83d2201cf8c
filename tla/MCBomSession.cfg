SPECIFICATION Spec
CONSTANTS
    Mpn = {m1, m2}
    Platform = {hqchip, icgoo}
    InitPlatforms = {hqchip}
    Strict = TRUE
    Handler = {p1, p2}
    Proxied = {hqchip}
    MaxRequests = 2
    MaxAborts = 1
SYMMETRY MCSymmetry
INVARIANTS TypeOK OneImport ReadyMeansTried LinesCovered 
CHECK_DEADLOCK FALSE
