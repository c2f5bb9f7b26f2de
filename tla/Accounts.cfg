SPECIFICATION MCSpec
CONSTANTS
  Arrivals = {1, 2, 3, 4}
  Rate = 1
  Capacity = 2
  TTL = 2
  Window = 4
  Limit = 2
  Delay = 1
  Skew = 1
  Horizon = 6
  Visits = {1, 2, 3}
  u1 = u1
  u2 = u2
  d1 = d1
  d2 = d2
  e1 = e1
  Users = {u1, u2}
  Devices = {d1, d2}
  OwnerOf <- MCOwnerOf
  Emails = {e1, e2}
  FirstEmail <- MCFirstEmail
  Origin = Origin
  None = None
  Items = {1, 2, 3}
  Times = {1, 2, 3, 4}
  PageSize = 1
INVARIANTS BurstBounded WindowBounded SessionMatchesPassword
           AvatarExists NothingMissed
PROPERTY RetiredStaysOut
CHECK_DEADLOCK FALSE
