SPECIFICATION Spec
CONSTANTS
    a = a
    b = b
    x = x
    y = y
    None = None
    Names <- MCNames
    Content = {x, y}
    NeedsPip = {y}
    MaxUploads = 2
    MaxPublishes = 3
    MaxFaults = 1
    MaxCrashes = 1
INVARIANTS RunsWhole PreparingIsWorked
PROPERTIES Settles
CHECK_DEADLOCK FALSE
