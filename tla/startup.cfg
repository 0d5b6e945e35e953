\* The start of the kernel, two users of the devices, a reader of the time and
\* requests for threads, while the year turns.
CONSTANTS
  User = {u1, u2}
  Opcodes = {"open", "close"}
  OwnOnly = TRUE
  PointerSize = 8
  DevextSize = 64
  ObjectSize = 32
  Readings <- TurnOfYear
  Reader = {r1}
  StackDefault = 32768
  FrameSize = 192
  PriorityMax = 64
  Requests <- KernelAndUser
  MaxThreads = 4
SYMMETRY Users
SPECIFICATION Spec
INVARIANTS
  TableSound DriversComplete LinesServed CountTrue StacksReturned NeverBehind
PROPERTIES
  TicksFindThread CopyWhole
CHECK_DEADLOCK FALSE
