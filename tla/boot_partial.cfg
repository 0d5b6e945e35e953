SPECIFICATION Spec
CONSTANTS
  PageSize = 8
  StackAdr = 14
  StackSize = 8
  KernelAdr = 32
  ImageAdr = 112
  AppsAdr = 160
  GrubSize = 2
  FileOffset = 4
  HeaderSize = 2
  MmuSize = 8
  ViewSize = 1
  DescSize = 2
  AreasSize = 3
  MaxOrder = 4
  Maps <- MCPartialMaps
  FileSizes <- MCFileSizes
INVARIANT NoPartialPage
CHECK_DEADLOCK FALSE
