SPECIFICATION Spec
CONSTANTS
    Workers = {w1, w2}
    Items = {i1, i2}
    Totals <- MCTotals
    Amounts <- MCAmounts
    Tolerance = 1
    MaxRequests = 3
    None = None
SYMMETRY MCSymmetry
CHECK_DEADLOCK FALSE
INVARIANTS
    TypeOK
    StaleOnlyIfExcused
    HiddenIffGone
