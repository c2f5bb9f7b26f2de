SPECIFICATION MCSpec
CONSTANTS
  r1 = r1
  r2 = r2
  r3 = r3
  p1 = p1
  p2 = p2
  Readers = {r1, r2, r3}
  Processes = {p1, p2}
  ProcessOf <- MCProcessOf
  Nobody = Nobody
  Nothing = Nothing
  MaxWrites = 2
  n1 = n1
  n2 = n2
  Listed = {1, 2}
  Downloads = {n1, n2}
  Viewers = {v1}
  Types = {"daily"}
  Sizes = {1, 2}
  DefaultSize = 2
  Days = 3
  WeekOf <- MCWeekOf
  Life <- MCLife
  Earlier <- MCEarlier
  MaxChanges = 1
INVARIANTS OldIsAwaited 
PROPERTIES EveryReadEnds Converges RankingsSettle
CHECK_DEADLOCK FALSE
