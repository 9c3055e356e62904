SPECIFICATION Spec
CONSTANTS
  Codes = {c1}
  Conns = {d1, d2}
  Handlers = {h1, h2}
  Mode = "Regular"
  None = None
INVARIANTS TypeOK ReadyClosedOnce NoOrphanSession EndedSessionHungUp
PROPERTIES ImplementsSession MeetOrEnd BreakEndsSession
CHECK_DEADLOCK FALSE
