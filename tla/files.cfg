\* One caller with two nodes; three entries in the directory, names of one length.
CONSTANTS
  Slots = 3
  Blocks = 4
  BlockSize = 2
  Width = 2
  Name <- Short
  Data = {d0, d1}
  Node = {o1, o2}
  None = none
  Thread = {t1}
SPECIFICATION Spec
SYMMETRY Interchangeable
CHECK_DEADLOCK FALSE
INVARIANTS BlocksOwned NamesKept
PROPERTIES FilesKept
