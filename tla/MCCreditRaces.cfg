\* Two requests at the same time, any of which may fail at any statement.
SPECIFICATION Spec
CONSTANTS
  Customers = {c1}
  Invoices = {i1, i2}
  Requests = {r1, r2}
  Totals <- OneTotal
  Operations <- AccountOperations
  Methods <- OnlyCredit
  Limits <- OneLimit
  DefaultLimit = 1
  UnknownInvoices = TRUE
  None = None
INVARIANTS
  TypeOK
  BalanceUnderCeiling
  TaskHasCharge
SYMMETRY Symmetry
CHECK_DEADLOCK FALSE
