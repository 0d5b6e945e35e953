\* Interrupts nested two deep over two threads that use one semaphore as a mutex,
\* and over a reader of the keyboard, of higher priority, inside sem_down.
CONSTANTS
  a = a  b = b  c = c  s1 = s1  s2 = s2  s3 = s3  k = k
  Idle = idle
  None = none
  Thread <- RingThreads
  Worker = {a, b}
  Reader = {c}
  Sem <- MutexSems
  KbdSem = k
  KbdMayLack = FALSE
  In <- MutexIn
  Out <- MutexIn
  First = s1
  PrioMax = 2
  prio <- ReaderPrio
  UintMax = 1000
  RunTick = 0
  MaxIrqDepth = 2
  MaxKeys = 1
  MaxDrift = 0
SYMMETRY MutexAlike
SPECIFICATION Spec
CONSTRAINT DriftBound
INVARIANTS OnePlace WaitersCounted NoLostWakeup
PROPERTIES TokenPasses
