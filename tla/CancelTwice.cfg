SPECIFICATION Spec
CONSTANTS
  c1 = c1  c2 = c2  p1 = p1  k1 = k1  k2 = k2  r1 = r1  x1 = x1  x2 = x2
  Call <- Calls
  Proc <- Procs
  IdemKey <- Keys
  Room <- Rooms
  Request <- Requests
  Totals = {2}
  Store <- PgStore
  StoreOf <- PgOf
  Postgres = TRUE
  Faults <- NoFaults
  MaxInt = 2
  Cancel <- Cancels
SYMMETRY Symm
PROPERTIES
  IdempotentOnBookingId
