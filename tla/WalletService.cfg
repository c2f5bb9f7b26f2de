SPECIFICATION FairSpec
CONSTANTS
  Wallets = {1, 2, 3}
  Clients = {c1, c2}
  KeyParts = {"k", "t", "out", "in"}
  Requests <- ContendedRequests
  Unit = 1
  MaxBalance = 1
  MaxTries <- MCTries
  Freezable = {1}
  None = None
INVARIANTS Reconciles AckedIsDurable NoCircularWait
PROPERTIES ImplementsLedger EveryTransactionEnds
CHECK_DEADLOCK FALSE
