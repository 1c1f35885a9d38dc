SPECIFICATION FairSpec
CONSTANTS
  Workers = {w1, w2}
  Customers = {c1}
  InvoiceIds = {i1, i2}
  CollectionIds = {k1, k2}
  InvoiceAmounts = {0, 1}
  MoneyAmounts <- WithRefunds
  Days = {0}
  PaymentTerms = {7}
  MaxRequests = 4
  FailingSteps <- Step
  MayCancelSale = FALSE
  MayChangeCustomer = TRUE
  None = None
CHECK_DEADLOCK FALSE
INVARIANTS BalanceNotUnderstated StatusAgreesWithBalance
PROPERTIES RequestsEnd
