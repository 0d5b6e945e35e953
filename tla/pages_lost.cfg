\* Blocks of three pages are given back as three.
CONSTANTS
  Base = 2
  Pages = 7
  MaxOrder = 3
  AppPage = {20}
  CountMax = 3
  PoolSizes = {3}
  KernelSizes = {2}
SPECIFICATION Spec
INVARIANTS Accounted
