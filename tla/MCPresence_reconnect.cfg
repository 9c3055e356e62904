SPECIFICATION Spec
CONSTANTS
  Conns = {k1, k2, k3}
  Pids = {p, q}
  Emails = {e1}
  Overlap = TRUE
  None = None
INVARIANTS ContainedComplete
SYMMETRY Symmetry
CHECK_DEADLOCK FALSE
