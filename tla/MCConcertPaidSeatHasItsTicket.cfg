\* One request at a time: a seat sold, cancelled and sold again.
SPECIFICATION FairSpec
CONSTANTS
  Seats = {s1}
  Tokens = {t1, t2}
  Orders = {o1, o2}
  Requests = {r1}
  None = None
  Mesas <- MCMesas
INVARIANT PaidSeatHasItsTicket
