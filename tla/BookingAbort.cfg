SPECIFICATION Spec
CONSTANTS
  c1 = c1  c2 = c2  c3 = c3  p1 = p1  p2 = p2  k1 = k1  k2 = k2  r1 = r1
  Call <- Calls3
  Proc <- OneProc
  IdemKey <- TwoKeys
  Room <- Rooms
  Request <- MixedRequests
  Totals = {1, 2}
  Store <- OneProc
  StoreOf <- MemOf1
  Postgres = FALSE
  Faults <- RestartFaults
  MaxInt = 2
SYMMETRY Symm
INVARIANTS
  NoPartialBooking
  OneChargePerKey
  SoldIsBooked
