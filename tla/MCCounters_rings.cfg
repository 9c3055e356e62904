SPECIFICATION Spec
CONSTANTS
  Clients = {c1, c2}
  Hours = 2
  Days = 2
  MaxClock = 5
  MaxCalls = 2
  Megabyte = 2
  Amounts = {3}
INVARIANTS ClientsExact 
SYMMETRY Symmetry
CHECK_DEADLOCK FALSE
