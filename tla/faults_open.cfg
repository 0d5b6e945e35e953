\* A fault while kvm_delete is between its steps or between those of the fault
\* handler; the cached area, the number of areas and the last one.
\* Each of these is violated: tlc -continue shows all of them.
CONSTANTS
  Area = {a1, a2, a3}
  None = none
  SpaceEnd = 7
  FirstSize = 4
  StackSize = 1
  Sizes = {2}
  Limits = {0, 1}
  Faulter = {t1}
  AddrMod = 32
  UintMod = 4
SPECIFICATION Spec
SYMMETRY Interchangeable
CHECK_DEADLOCK FALSE
INVARIANTS BoxManages MissesUnowned CacheLive SummaryRight
PROPERTY FillsOwned
