\* One request at a time, none fails: what the handlers promise on their own.
SPECIFICATION FairSpec
CONSTANTS
  Seats = {s1, s2}
  Tokens = {t1, t2}
  Orders = {o1, o2}
  Requests = {r1}
  None = None
  Mesas <- MCMesas
INVARIANTS
  SoldMatchesPaid
  SingleAdmission
PROPERTIES
  SalesKept
  AbandonedHoldsEnd
  StaleOrdersEnd
