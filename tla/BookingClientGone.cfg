SPECIFICATION Spec
CONSTANTS
  c1 = c1  c2 = c2  c3 = c3  p1 = p1  p2 = p2  k1 = k1  k2 = k2  r1 = r1
  Call <- Calls2
  Proc <- OneProc
  IdemKey <- OneKey
  Room <- Rooms
  Request <- RetriedRequests
  Totals = {2}
  Store <- PgStore
  StoreOf <- PgOf1
  Postgres = TRUE
  Faults <- ClientFault
  MaxInt = 2
PROPERTIES
  CompensationsUndo
