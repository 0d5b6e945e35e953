\* Six addresses, six pages for tables, any of which may not be got.
CONSTANTS
  Idx = {0, 1, 2}
  KrnlIdx = {2}
  VAdr <- FewAddresses
  PAdr = {p1, p2}
  Frame = {f1, f2, f3, f4, f5, f6}
  Root = root
  Krnl = krnl
  NULL = null
SPECIFICATION TablesSpec
SYMMETRY Interchangeable
CHECK_DEADLOCK FALSE
INVARIANTS ListsMatchTree
PROPERTIES MapKept
