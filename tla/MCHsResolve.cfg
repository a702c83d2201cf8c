SPECIFICATION Spec
CONSTANTS
    c1 = c1
    c2 = c2
    t1 = t1
    tb = tb
    u1 = u1
    None = None
    Code = {c1, c2}
    Trace = {t1, tb}
    Batch = {tb}
    Upload = {u1}
    Request = {i1}
    Asks <- MCAsks
    Found <- MCFound
    Handler = {p1, p2}
    MaxStageRetries = 1
    MaxRequests = 3
    MaxFaults = 1
SYMMETRY MCSymmetry
INVARIANTS CodesAreAudited RunningIsWorked UploadKept
CHECK_DEADLOCK FALSE
