\* Two threads that fault on the same page.
CONSTANTS
  Area = {a1, a2, a3}
  None = none
  SpaceEnd = 7
  FirstSize = 4
  StackSize = 1
  Sizes = {2}
  Limits = {0}
  Faulter = {t1, t2}
  AddrMod = 32
  UintMod = 4
SPECIFICATION Spec
SYMMETRY Interchangeable
CHECK_DEADLOCK FALSE
INVARIANTS FillsMissing
