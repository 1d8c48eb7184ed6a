\* A cashier and the nightly job on two shifts, while sales commit late or are voided.
SPECIFICATION Spec
CONSTANTS
  Users = {u1, u2}
  Shifts = {s1, s2}
  Sales = {v1}
  Requests = {r1}
  Job = job
  None = None
INVARIANTS
  SaleInItsReport
PROPERTIES
  ClosedStays
  ShiftsEnd
