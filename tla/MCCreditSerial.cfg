\* One request at a time on one account with two invoices, none fails.
SPECIFICATION FairSpec
CONSTANTS
  Customers = {c1}
  Invoices = {i1, i2}
  Requests = {r1}
  Totals <- TotalOfTwo
  Operations <- MoneyOperations
  Methods <- BothMethods
  Limits <- LowAndHigh
  DefaultLimit = 2
  UnknownInvoices = FALSE
  None = None
INVARIANTS
  BalanceCoversLedger
  SalesAreCharged
PROPERTY AccountsKept
