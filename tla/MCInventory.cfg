SPECIFICATION Spec
CONSTANTS
  Key = {k1, k2}
  HoldId = {h1, h2, h3}
  MaxInt = 3
  Durable = FALSE
SYMMETRY Symm
INVARIANTS
  TypeOK
  HeldIsOpenHolds
  SoldWasCommitted
  NoWraparound
PROPERTIES
  OversellOnlyByLowering
  ConsumedOnce
