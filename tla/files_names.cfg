\* A name in place of a longer one.
CONSTANTS
  Slots = 2
  Blocks = 3
  BlockSize = 2
  Width = 3
  Name <- Mixed
  Data = {d0, d1}
  Node = {o1, o2}
  None = none
  Thread = {t1}
SPECIFICATION Spec
SYMMETRY Interchangeable
CHECK_DEADLOCK FALSE
INVARIANTS NamesKept
