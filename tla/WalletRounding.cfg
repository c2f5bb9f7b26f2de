SPECIFICATION Spec
CONSTANTS
  Wallets = {1, 2}
  Clients = {c1}
  KeyParts = {"k", "t", "out", "in"}
  Requests <- FractionalRequests
  Unit = 2
  MaxBalance = 4
  MaxTries <- MCTries
  Freezable = {}
  None = None
INVARIANT Reconciles
CHECK_DEADLOCK FALSE
