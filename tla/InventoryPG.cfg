SPECIFICATION FairSpec
CONSTANTS
  Key = {k1}
  HoldId = {h1, h2, h3}
  MaxInt = 2
  Txn = {t1, t2}
INVARIANTS
  TypeOK
  SchemaNeverRejects
  WaitsAreShort
PROPERTIES
  ImplementsInventory
  EveryTxnEnds
