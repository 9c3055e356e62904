SPECIFICATION Spec
CONSTANTS
  Codes = {c1}
  Conns = {d1, d2, d3}
  Handlers = {h1}
  Mode = "Node"
  None = None
INVARIANTS UnusedCopySilent UsedCopyReported
PROPERTIES ImplementsSession
CHECK_DEADLOCK FALSE
