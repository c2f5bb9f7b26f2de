SPECIFICATION MCSpec
CONSTANTS
  root = root
  founder = founder
  guest = guest
  g1 = g1
  g2 = g2
  editor = editor
  n1 = n1
  Calls = {1, 2, 3}
  Inputs <- MCInputs
  Nodes = {n1, n2}
  People = {root, founder, guest}
  Groups = {Global, g1, g2}
  Global = Global
  Roles = {Owner, Superadmin, editor}
  Owner = Owner
  Superadmin = Superadmin
  FirstOwner <- MCFirstOwner
  FirstMember <- MCFirstMember
  FirstGrants <- MCFirstGrants
  Nil = Nil
INVARIANTS SuperadminKeeps OwnerBelongs StaleIsAwaited
PROPERTY EnforcersConverge
CHECK_DEADLOCK FALSE
