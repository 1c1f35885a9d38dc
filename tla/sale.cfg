SPECIFICATION Spec
CONSTANTS
    Containers = {c1, c2, c3}
    MaxItems = 3
    MaxRequests = 3
    None = None
SYMMETRY MCSymmetry
CHECK_DEADLOCK FALSE
INVARIANTS
    TypeOK
    BilledIffUnloaded
    RowsCoverSale
    StatusFollowsItems
    StockCounted
PROPERTIES
    UnloadingAgrees
