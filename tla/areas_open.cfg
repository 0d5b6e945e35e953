\* Sizes of which a sum wraps: 30 is two below zero.  AreasApart is violated.
CONSTANTS
  Area = {a1, a2, a3}
  None = none
  SpaceEnd = 9
  FirstSize = 2
  StackSize = 1
  Sizes = {1, 4, 30}
  Limits = {0, 1}
  Faulter = {}
  AddrMod = 32
  UintMod = 4
SPECIFICATION Spec
SYMMETRY Interchangeable
CHECK_DEADLOCK FALSE
INVARIANTS AreasApart
