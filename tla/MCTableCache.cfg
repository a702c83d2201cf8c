SPECIFICATION Spec
CONSTANTS
    None = None
    Platform = {plat}
    Agent = {agent}
    Script = {s1, s2}
    Norm = {name}
    Cases <- MCCases
    Handler = {p1, p2}
    refresher = refresher
    MaxRequests = 2
    MaxFaults = 1
    MaxRestarts = 1
INVARIANTS StaleIsMissed
PROPERTIES Heals
CHECK_DEADLOCK FALSE
