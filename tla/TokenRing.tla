------------------------------ MODULE TokenRing ------------------------------
(***************************************************************************)
(* What the semaphores of kernel/idle.c promise to the threads that use    *)
(* them: one token, put into the first semaphore when the kernel starts,   *)
(* is at any time in one semaphore or with one thread, and a thread takes  *)
(* it only from the semaphore it waits on and hands it only to the one it  *)
(* raises.  Nothing is said of queues, interrupts or the processor.        *)
(***************************************************************************)
CONSTANTS
  Worker,   \* the threads
  Sem,      \* the semaphores
  In,       \* In[w]: the semaphore worker w goes down on
  Out,      \* Out[w]: the semaphore worker w raises
  First,    \* the semaphore that is raised at boot
  Nowhere   \* where the token is before boot ends

VARIABLE token

Init == token = Nowhere

Start == token = Nowhere /\ token' = First

Take(w) == token = In[w] /\ token' = w

Put(w) == token = w /\ token' = Out[w]

Next == Start \/ \E w \in Worker : Take(w) \/ Put(w)

Spec == Init /\ [][Next]_token

\* The token never rests: what has it gives it away.
FairSpec == Spec /\ WF_token(Next)
=============================================================================
