SPECIFICATION Spec
CONSTANTS
  Nodes = {n1, n2, n3, n4}
  Width = 4
  Ids <- SomeInts
  None = None
  Absent = Absent
  Junk = Junk
INVARIANTS TreeShaped NewIdFresh
PROPERTIES FoundStays ImplementsTree
SYMMETRY Symmetry
CHECK_DEADLOCK FALSE
