SPECIFICATION Spec
CONSTANTS
  Clients = {c1}
  Workers = {w1}
  Sweeper = sweeper
  Users = {1}
  Items = {1}
  Orders = {o1}
  Keys = {k}
  NoKey = NoKey
  None = None
  Price <- MCPrice
  Opening <- MCOpening
  BatchLimit = 1
  MaxErrors = 0
  MaxCrashes = 1
INVARIANT RecoverableEntitlement
CHECK_DEADLOCK FALSE
