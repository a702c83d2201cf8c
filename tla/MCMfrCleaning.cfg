SPECIFICATION Spec
CONSTANTS
    l1 = l1
    l2 = l2
    m1 = m1
    A = A
    B = B
    cA = cA
    cB = cB
    None = None
    Base = "CNY"
    Platform = {"hqchip"}
    Rank <- MCRank
    Rate <- MCRate
    Line = {l1, l2}
    Bom <- MCBom
    Mfr = {A, B}
    Canon = {cA, cB}
    Known <- MCKnown
    Mpn = {m1}
    Offer <- MCOffer
    Rows <- MCRows
    ManualRows <- MCManualRows
    Handler = {p1, p2}
    MaxRequests = 2
    MaxStores = 1
    MaxAborts = 1
INVARIANTS LineCanonKnown ChosenIsAccepted
PROPERTIES RuleBStands
CHECK_DEADLOCK FALSE
