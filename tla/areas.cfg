\* A caller of kvm_new and kvm_delete in three pages and a half, a thread that
\* faults.
CONSTANTS
  Area = {a1, a2, a3}
  None = none
  SpaceEnd = 9
  FirstSize = 2
  StackSize = 1
  Sizes = {1, 4}
  Limits = {0, 1}
  Faulter = {t1}
  AddrMod = 32
  UintMod = 4
SPECIFICATION Spec
SYMMETRY Interchangeable
CHECK_DEADLOCK FALSE
INVARIANTS AreasApart MissesExplained
PROPERTIES RangesKept FillsExplained
