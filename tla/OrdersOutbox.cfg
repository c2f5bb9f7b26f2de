SPECIFICATION FairSpec
CONSTANTS
  Clients = {c1}
  Workers = {w1, w2}
  Sweeper = sweeper
  Users = {1}
  Items = {1}
  Orders = {o1, o2}
  Keys = {k}
  NoKey = NoKey
  None = None
  Price <- MCPrice
  Opening <- MCOpening
  BatchLimit = 2
  MaxErrors = 1
  MaxCrashes = 1
PROPERTY OnlyFaultsStrand
PROPERTY PaidIsGranted
CHECK_DEADLOCK FALSE
