\* Two requests at the same time, any of which may fail at any step.
SPECIFICATION Spec
CONSTANTS
  Seats = {s1}
  Tokens = {t1, t2}
  Orders = {o1, o2}
  Requests = {r1, r2}
  None = None
  Mesas <- MCMesas
SYMMETRY Symmetry
INVARIANTS
  TypeOK
  SeatShape
  SoldHasTicket
  TicketOrderSettled
  CancelledOwnsNothing
PROPERTY NoHoldStolen
