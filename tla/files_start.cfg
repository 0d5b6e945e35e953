\* A file in place of a deleted one.
CONSTANTS
  Slots = 2
  Blocks = 3
  BlockSize = 2
  Width = 2
  Name <- Short
  Data = {d0, d1}
  Node = {o1, o2}
  None = none
  Thread = {t1}
SPECIFICATION Spec
SYMMETRY Interchangeable
CHECK_DEADLOCK FALSE
PROPERTIES NewAtStart
