SPECIFICATION Spec
CONSTANTS
  Conns = {k1, k2}
  Pids = {p}
  Emails = {e1, e2}
  Overlap = TRUE
  None = None
INVARIANTS AuthorizedExact
PROPERTIES AuthCompletes
CHECK_DEADLOCK FALSE
