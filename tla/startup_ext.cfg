CONSTANTS
  User = {u1, u2}
  Opcodes = {"open", "close"}
  OwnOnly = TRUE
  PointerSize = 8
  DevextSize = 64
  ObjectSize = 32
  Readings <- TurnOfYear
  Reader = {r1}
  StackDefault = 32768
  FrameSize = 192
  PriorityMax = 64
  Requests <- KernelAndUser
  MaxThreads = 5
SPECIFICATION Spec
INVARIANT
  ExtFits
CHECK_DEADLOCK FALSE
