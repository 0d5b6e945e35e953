------------------------------ MODULE RunQueue ------------------------------
(***************************************************************************)
(* The multi-level ready queue of kernel/schedule.c: one thdlst_t per      *)
(* priority, and what the scheduler does to it while it holds data->lock   *)
(* with interrupts off.  A ready queue is a value, so that a caller which  *)
(* runs several scheduler functions without opening interrupts composes    *)
(* the operators below in a single step.                                   *)
(***************************************************************************)
EXTENDS Integers, Sequences, FiniteSets, SequencesExt

CONSTANTS
  Thread,    \* every thread but the idle one
  Idle,      \* data->cpuidle; it is never linked in a queue
  None,      \* the NULL thread pointer
  PrioMax,   \* THREAD_PRIORITY_MAX; a smaller number is a higher priority
  prio,      \* thread->priority, fixed when the thread is created
  UintMax    \* the largest value of the unsigned counters

ASSUME ThreadAssumption ==
  /\ IsFiniteSet(Thread)
  /\ Idle \notin Thread
  /\ None \notin Thread \cup {Idle}

\* krlnew_thread lets priority = PrioMax through; the callers in the tree do
\* not use it, and the queue array has no such element.
ASSUME PrioAssumption ==
  /\ PrioMax \in Nat \ {0}
  /\ prio \in [Thread -> 0 .. PrioMax - 1]

ASSUME UintAssumption ==
  /\ UintMax \in Nat
  /\ Cardinality(Thread) + 1 < UintMax

Prio == 0 .. PrioMax - 1

AnyThread == Thread \cup {Idle}

\* thdlst_t: `threads` is the linked list from head to tail, `curthd` the
\* thread of this queue that was selected last, which is not linked.
Queue == [threads : Seq(Thread), threadsNum : 0 .. UintMax,
          curthd : Thread \cup {None}]

EmptyQueues ==
  [p \in Prio |-> [threads |-> <<>>, threadsNum |-> 0, curthd |-> None]]

\* Unsigned arithmetic wraps around.
Inc(n) == IF n = UintMax THEN 0 ELSE n + 1
Dec(n) == IF n = 0 THEN UintMax ELSE n - 1

\* list_add_tail and threadsNum++: the part schedule_add and schedule_up share.
Enqueue(rq, t) ==
  [rq EXCEPT ![prio[t]] = [threads |-> Append(@.threads, t),
                           threadsNum |-> Inc(@.threadsNum),
                           curthd |-> @.curthd]]

\* A bug schedule_wait could have: threadsNum stays.
DequeueUncounted(rq, t) ==
  [rq EXCEPT ![prio[t]] = [threads |-> RemoveFirst(@.threads, t),
                           threadsNum |-> @.threadsNum,
                           curthd |-> IF @.curthd = t THEN None ELSE @.curthd]]

\* What schedule_wait does to the queue of the running thread t.  list_del
\* unlinks the hook wherever it is linked: the ready list is this one's.
Dequeue(rq, t) ==
  [rq EXCEPT ![prio[t]] = [threads |-> RemoveFirst(@.threads, t),
                           threadsNum |-> Dec(@.threadsNum),
                           curthd |-> IF @.curthd = t THEN None ELSE @.curthd]]

\* The priorities at which the loop of select_thread stops.
Runnable(rq) ==
  {p \in Prio : /\ rq[p].threadsNum # 0
                /\ rq[p].threads # <<>> \/ rq[p].curthd # None}

HighestRunnable(rq) ==
  CHOOSE p \in Runnable(rq) : \A q \in Runnable(rq) : p <= q

\* The head of the list takes the place of the queue's current thread, which
\* goes to the tail.
Rotate(q) ==
  IF q.threads = <<>> THEN q
  ELSE [q EXCEPT !.threads = IF q.curthd = None THEN Tail(@)
                             ELSE Append(Tail(@), q.curthd),
                 !.curthd = Head(q.threads)]

\* select_thread: the queues it leaves and the thread it returns.
SelectQueues(rq) ==
  IF Runnable(rq) = {} THEN rq
  ELSE [rq EXCEPT ![HighestRunnable(rq)] = Rotate(@)]

SelectThread(rq) ==
  IF Runnable(rq) = {} THEN Idle
  ELSE Rotate(rq[HighestRunnable(rq)]).curthd

\* The threads a queue has: the linked ones and its current one.
On(q) == ToSet(q.threads) \cup ({q.curthd} \ {None})

Queued(rq) == UNION {On(rq[p]) : p \in Prio}

\* The counters are the numbers of threads on the queues.
Counted(rq) ==
  \A p \in Prio :
    rq[p].threadsNum = Len(rq[p].threads) + (IF rq[p].curthd = None THEN 0 ELSE 1)

\* A thread is on the queue of its priority alone, and once.
Separate(rq) ==
  \A p \in Prio :
    /\ IsInjective(rq[p].threads)
    /\ rq[p].curthd \notin ToSet(rq[p].threads)
    /\ \A t \in On(rq[p]) : prio[t] = p
=============================================================================
