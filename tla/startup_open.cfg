\* What the start of the kernel does not keep.
\* Each of these is violated: tlc -continue shows all of them.
CONSTANTS
  User = {u1, u2}
  Opcodes = {"open", "close", "dev_stop"}
  OwnOnly = TRUE
  PointerSize = 8
  DevextSize = 64
  ObjectSize = 32
  Readings <- TurnOfYear
  Reader = {r1}
  StackDefault = 32768
  FrameSize = 192
  PriorityMax = 64
  Requests <- AllRequests
  MaxThreads = 5
SPECIFICATION Spec
CHECK_DEADLOCK FALSE
INVARIANTS
  KeyboardReady NoTickDies NobodySpins CountTrue NothingLost StacksFull PrioritiesInRange RingComplete DriverListsSound
