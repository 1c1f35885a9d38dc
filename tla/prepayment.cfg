SPECIFICATION Spec
CONSTANTS
    Workers = {w1, w2}
    Amounts = {1, 2}
    Ratio = Ratio
    MaxRequests = 3
    Same = Same
    None = None
CHECK_DEADLOCK FALSE
INVARIANTS
    TypeOK
    DifferenceAgrees
    OneOfEachSale
    CancelledSaleSettled
PROPERTIES
    ReceiptsKept
