\* Everything that can happen to one invoice, one request at a time, none fails.
SPECIFICATION FairSpec
CONSTANTS
  Customers = {c1}
  Invoices = {i1}
  Requests = {r1}
  Totals <- TwoTotals
  Operations <- AllOperations
  Methods <- BothMethods
  Limits <- LimitOfThree
  DefaultLimit = 2
  UnknownInvoices = FALSE
  None = None
INVARIANTS
  SettledMeansPaid
  ReversedOnce
PROPERTY VoidsAreReversed
