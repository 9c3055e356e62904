SPECIFICATION Spec
CONSTANTS
  Conns = {k1, k2, k3, k4}
  Pids = {p, q}
  Emails = {e1}
  Overlap = FALSE
  None = None
INVARIANTS TypeOK ContainedComplete OfflineIsPushed
SYMMETRY Symmetry
CHECK_DEADLOCK FALSE
