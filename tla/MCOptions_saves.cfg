SPECIFICATION Spec
CONSTANTS
  Admins = {a1, a2, a3}
  Texts = {1, 2}
  Modes = {Regular, Master}
  Absent = Absent
  Bad = Bad
INVARIANTS TypeOK OptionsKept
SYMMETRY Symmetry
CHECK_DEADLOCK FALSE
