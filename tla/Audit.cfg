SPECIFICATION MCSpec
CONSTANTS
  Workers = {w1, w2}
  Rows = {r1, r2}
  Objects = {o1}
  o1 = o1
  ObjectOf <- MCSameObject
  MaxAttempts = 2
  BatchLimit = 1
  MaxErrors = 1
  MaxStops = 1
  Events = {e1, e2, e3, e4}
  Capacity = 2
  BatchSize = 2
INVARIANTS DoneIsGone
PROPERTIES SettlesForGood PromiseKeptUnlessOutrun AcceptedIsHandled
CHECK_DEADLOCK FALSE
