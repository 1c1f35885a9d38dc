SPECIFICATION Spec
SYMMETRY Interchangeable
CONSTANTS
    LastMonth = 6
    MonthStart <- CommonYear
    InvoiceIds = {i1, i2}
    IssueDates <- EdgeDates
    DayCounts <- OddCounts
    MonthDays = {1, 30}
    MaxErased = 1
    None = None
INVARIANTS
    TypeOK
    DueNotBeforeIssue
    LaterIssueLaterDue
    DueCoversInvoices
CHECK_DEADLOCK FALSE
