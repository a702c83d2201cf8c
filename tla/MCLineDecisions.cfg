SPECIFICATION Spec
CONSTANTS
    l1 = l1
    l2 = l2
    m1 = m1
    m2 = m2
    A = A
    B = B
    canonA = canonA
    None = None
    Base = "CNY"
    Line = {l1, l2}
    Mpn = {m1, m2}
    Platform = {"hqchip", "icgoo"}
    Rank <- MCRank
    Alias <- MCAlias
    Rate <- MCRate
    Bom <- MCBom
    Found <- MCFound
    Rows <- MCRows
    Shared <- MCShared
    Handler = {p1, p2}
    MaxRequests = 2
    MaxStores = 2
    MaxGaps = 3
    MaxAborts = 1
SYMMETRY MCSymmetry
INVARIANTS TypeOK ReadyIsMatched CheapestChosen ClosedIsBacked CurrentRun SavedComplete
PROPERTIES ClosedIsFinal
CHECK_DEADLOCK FALSE
