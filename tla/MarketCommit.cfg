SPECIFICATION Spec
CONSTANTS
  a1 = a1
  a2 = a2
  a3 = a3
  k = k
  Apps = {a1, a2, a3}
  Keys = {k}
  NoKey = NoKey
  NoApp = NoApp
  KeyOf <- MCKeyOf
  Edits <- MCEdits
  Deleters = {d1}
  Target <- MCTarget
INVARIANT RowHasObject
CHECK_DEADLOCK FALSE
