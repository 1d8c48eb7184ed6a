\* Two requests on two orders of one product, at a table or over the counter.
SPECIFICATION Spec
CONSTANTS
  Products = {p1}
  Invoices = {i1, i2}
  Requests = {r1, r2}
  Orders = {o1, o2}
  Accounts = {a1, a2}
  Tables = {t1}
  Modes = {"INMEDIATO", t1}
  Opening = 1
  Quantities = {1}
  LineCounts = {1}
  Kinds = {"plain"}
  Factor = 2
  Deltas <- Up
  Levels = {1}
  Moves = 1
  Amounts = {1}
  Operations = {"take", "send", "status", "cancel", "charge", "sale", "outflow", "close", "pay", "tab", "failure"}
  None = None
SYMMETRY Symmetry
INVARIANTS
  StockConserved
  ChargedHasItsInvoice
CHECK_DEADLOCK FALSE
