\* Two requests at a time about two users of two organisations.
SPECIFICATION Spec
CONSTANTS
  Users = {u1, u2}
  Organizations = {g1, g2}
  Invitations = {i1}
  Requests = {r1, r2}
  Operations = {"register", "setup", "organization", "provision", "invite", "accept", "remove", "purge"}
  None = None
SYMMETRY Symmetry
INVARIANTS
  NoOrphan
  LoginMatchesMembership
PROPERTY RevivedByProvision
CHECK_DEADLOCK FALSE
