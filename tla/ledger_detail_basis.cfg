SPECIFICATION Spec
CONSTANTS
  Workers = {w1}
  Customers = {c1}
  InvoiceIds = {i1}
  CollectionIds = {k1}
  InvoiceAmounts = {1}
  MoneyAmounts = {1}
  Days = {0}
  PaymentTerms = {7}
  MaxRequests = 3
  FailingSteps = {}
  MayCancelSale = TRUE
  MayChangeCustomer = FALSE
  None = None
CHECK_DEADLOCK FALSE
INVARIANTS LedgerMatchesDetail
