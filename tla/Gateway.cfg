SPECIFICATION MCSpec
CONSTANTS
  Requests = {r1, r2}
  MaxFailures = 2
  Timeout = 1
  Rpcs = {c1}
  Workers = 2
  Logged = {1, 2, 3, 4}
  CreatedAt <- MCCreatedAt
  Filters <- MCFilters
  Limits = {0, 3}
  PageSize = 2
INVARIANTS ClosedBelowLimit ClosesLast NothingSkipped StoredIsWhole
PROPERTIES NeverLocksOut AnswerEnds
CHECK_DEADLOCK FALSE
