SPECIFICATION Spec
CONSTANTS
  Workers = {w1}
  Customers = {c1, c2}
  InvoiceIds = {i1, i2}
  CollectionIds = {k1, k2}
  InvoiceAmounts = {1, 3}
  MoneyAmounts = {1, 2}
  Days = {0, 60}
  PaymentTerms = {7, 30}
  MaxRequests = 5
  FailingSteps <- NothingHalfDone
  MayCancelSale = TRUE
  MayChangeCustomer = FALSE
  None = None
CHECK_DEADLOCK FALSE
SYMMETRY Interchangeable
INVARIANTS TypeOK SalesConserved CollectedConserved DueCoversLiveInvoices
PROPERTIES DeletedInvoiceFrozen ImplementsBook BatchLeavesNoStaleWarning
