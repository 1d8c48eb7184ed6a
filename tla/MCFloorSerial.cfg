\* One request at a time on two orders of one product, with every other writer of its stock.
SPECIFICATION Spec
CONSTANTS
  Products = {p1}
  Invoices = {i1, i2}
  Requests = {r1}
  Orders = {o1, o2}
  Accounts = {a1, a2}
  Tables = {t1}
  Modes = {"INMEDIATO", "CUENTA_ABIERTA", t1}
  Opening = 2
  Quantities = {1}
  LineCounts = {1, 2}
  Kinds = {"plain", "variant", "combo"}
  Factor = 2
  Deltas <- OneUp
  Levels = {1}
  Moves = 1
  Amounts = {1}
  Operations = {"take", "send", "status", "cancel", "charge", "sale", "void", "outflow", "adjust", "edit", "catalogue", "stockFile", "receive", "import", "close", "tab"}
  None = None
SYMMETRY Symmetry
INVARIANTS
  AccountsSound
  StockConserved
  ReservationsMatch
  ReservedCovered
PROPERTIES
  ServiceKept
CHECK_DEADLOCK FALSE
