SPECIFICATION Spec
CONSTANTS
  Nodes = {n1, n2}
  Links = {l1, l2}
  Fragile = {l1}
  Lossy = {l1, l2}
  Codes = {c1}
  Handlers = {h1}
  None = None
INVARIANTS TypeOK SessionGuarded NodeServes EndReachesNode OnlyUsersEnd
SYMMETRY Symmetry
CHECK_DEADLOCK FALSE
