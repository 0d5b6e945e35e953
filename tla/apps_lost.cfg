\* A page fault that could not be mapped.
CONSTANTS
  Base = 2
  Pages = 7
  MaxOrder = 3
  AppPage = {20}
  CountMax = 3
  PoolSizes = {4}
  KernelSizes = {1, 2}
SPECIFICATION Spec
INVARIANTS AppsAccounted
