------------------------------ MODULE MCKernel ------------------------------
(***************************************************************************)
(* Small instances of Kernel for TLC.                                      *)
(***************************************************************************)
EXTENDS Kernel

CONSTANTS a, b, c,       \* threads
          s1, s2, s3, k  \* semaphores, k the keyboard's

\* init_abc_thread: three threads of one priority in a ring of semaphores.
RingThreads == {a, b, c}
RingSems    == {s1, s2, s3, k}
RingIn      == a :> s1 @@ b :> s2 @@ c :> s3
RingOut     == a :> s2 @@ b :> s3 @@ c :> s1
SamePrio    == [t \in {a, b, c} |-> 1]

\* A mutex between two threads that are alike, and a reader of the keyboard.
MutexSems   == {s1, k}
MutexIn     == a :> s1 @@ b :> s1
ReaderPrio  == a :> 1 @@ b :> 1 @@ c :> 0
MutexAlike  == Permutations({a, b})

\* Nested interrupts make the counters of the lists drift (run nested_count);
\* the states explored are those in which they drifted by at most this much.
CONSTANT MaxDrift

DriftBound ==
  /\ \A s \in Sem : sem[s].waitsNum <= Len(sem[s].waits) + MaxDrift
  /\ \A p \in Prio :
       rq[p].threadsNum <= Cardinality(Thread) \/ rq[p].threadsNum >= UintMax - MaxDrift

=============================================================================
