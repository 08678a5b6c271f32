SPECIFICATION Spec
CONSTANTS
  Service = {"admin", "ads", "auth", "booking", "cancellation", "geo", "inventory",
             "notification", "payment", "pricing", "profile", "review", "search", "user"}
  MaxRPCs = 2
INVARIANTS
  RPCsAreDrained
PROPERTIES
  TermEndsProcess
CHECK_DEADLOCK FALSE
