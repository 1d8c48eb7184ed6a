\* Two requests at a time on the expenses, the purchases and the payroll of an organisation.
SPECIFICATION Spec
CONSTANTS
  k1 = k1
  k2 = k2
  File <- TwoPurchases
  Expenses = {e1, e2}
  Employees = {m1}
  Requests = {r1, r2}
  Amounts = {1}
  PaidAtMost = 3
  Purchase = 3
  Salaries = {0, 1}
  Adjustments <- BonusOrDeduction
  Extras = 1
  Operations = {"create", "upload", "invoice", "update", "remove", "pay", "import", "payroll"}
  None = None
SYMMETRY Symmetry
INVARIANTS
  PurchaseReceivedOnce
  PaymentsAgree
  PaidIsOwed
CHECK_DEADLOCK FALSE
