SPECIFICATION Spec
CONSTANTS
  Nodes = {n1}
  Links = {l1, l2}
  Fragile = {l1, l2}
  Lossy = {l1, l2}
  Codes = {c1}
  Handlers = {h1}
  None = None
PROPERTIES SessionSettles
CHECK_DEADLOCK FALSE
