SPECIFICATION FairSpec
CONSTANTS
  c1 = c1  c2 = c2  c3 = c3  p1 = p1  p2 = p2  k1 = k1  k2 = k2  r1 = r1
  Call <- Calls2
  Proc <- TwoProcs
  IdemKey <- OneKey
  Room <- Rooms
  Request <- RacingRequests
  Totals = {2}
  Store <- PgStore
  StoreOf <- PgOf2
  Postgres = TRUE
  Faults <- AllFaults
  MaxInt = 2
INVARIANTS
  BookingBacked
  NoLockLeaked
  OneSagaPerKeyAndProc
PROPERTIES
  KeepsPromise
  EveryCallEnds
