\* init_abc_thread with timer and keyboard interrupts nested two deep.
CONSTANTS
  a = a  b = b  c = c  s1 = s1  s2 = s2  s3 = s3  k = k
  Idle = idle
  None = none
  Thread <- RingThreads
  Worker <- RingThreads
  Reader = {}
  Sem <- RingSems
  KbdSem = k
  KbdMayLack = TRUE
  In <- RingIn
  Out <- RingOut
  First = s1
  PrioMax = 2
  prio <- SamePrio
  UintMax = 1000
  RunTick = 1
  MaxIrqDepth = 2
  MaxKeys = 1
  MaxDrift = 1
SPECIFICATION Spec
INVARIANTS QueueCount
