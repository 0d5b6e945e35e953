---------------------------- MODULE KernelProofs ----------------------------
(***************************************************************************)
(* Proofs about the ready queues and the kernel, for any threads,          *)
(* priorities and semaphores.                                              *)
(*                                                                         *)
(* First the operators of RunQueue: what each does to a queue, and that    *)
(* none loses a thread.  Then Kernel: TypeOK, action by action.  Then its  *)
(* threads: the semaphores keep the one token of kernel/idle.c and lose no *)
(* wakeup, however deep interrupts nest, and every thread is linked in one *)
(* place.                                                                  *)
(***************************************************************************)
EXTENDS Kernel, SequenceTheorems, FiniteSetTheorems, TLAPS

\* A nonempty set of naturals has a smallest element.
LEMMA SmallestExists ==
  ASSUME NEW S \in SUBSET Nat, S # {}
  PROVE  \E x \in S : \A y \in S : x <= y
<1>1. PICK x \in S : \A y \in S : ~ (<<y, x>> \in OpToRel(<, Nat))
  BY WFMin, NatLessThanWellFounded, Zenon
<1>2. ASSUME NEW y \in S
      PROVE  x <= y
  <2>1. ~ (y < x)
    BY <1>1, <1>2 DEF OpToRel
  <2> QED BY <2>1
<1> QED BY <1>2

\* list_del on a list: the element is unlinked, the others keep their order.
LEMMA RemoveFirstIndex ==
  ASSUME NEW S, NEW s \in Seq(S), NEW e, \E i \in 1 .. Len(s) : s[i] = e
  PROVE  \E i \in 1 .. Len(s) : s[i] = e /\ RemoveFirst(s, e) = RemoveAt(s, i)
<1> DEFINE I == {i \in 1 .. Len(s) : s[i] = e}
<1>1. I # {} /\ I \in SUBSET Nat
  OBVIOUS
<1>2. Min(I) \in I
  BY <1>1, SmallestExists DEF Min
<1>3. RemoveFirst(s, e) = RemoveAt(s, SelectInSeq(s, LAMBDA v : v = e))
  BY DEF RemoveFirst
<1>4. SelectInSeq(s, LAMBDA v : v = e) = Min(I)
  BY <1>1 DEF SelectInSeq
<1> QED BY <1>2, <1>3, <1>4

LEMMA RemoveAtProps ==
  ASSUME NEW S, NEW s \in Seq(S), NEW i \in 1 .. Len(s)
  PROVE  /\ RemoveAt(s, i) \in Seq(S)
         /\ Len(RemoveAt(s, i)) = Len(s) - 1
         /\ \A j \in 1 .. Len(s) - 1 :
              RemoveAt(s, i)[j] = IF j < i THEN s[j] ELSE s[j + 1]
<1> DEFINE l == SubSeq(s, 1, i - 1)
           r == SubSeq(s, i + 1, Len(s))
<1>1. l \in Seq(S) /\ Len(l) = i - 1 /\ \A j \in 1 .. i - 1 : l[j] = s[j]
  BY SubSeqProperties
<1>2. r \in Seq(S) /\ Len(r) = Len(s) - i /\ \A j \in 1 .. Len(s) - i : r[j] = s[i + j]
  BY SubSeqProperties
<1> HIDE DEF l, r
<1>3. /\ l \o r \in Seq(S)
      /\ Len(l \o r) = Len(l) + Len(r)
      /\ \A j \in 1 .. Len(l) + Len(r) :
           (l \o r)[j] = IF j <= Len(l) THEN l[j] ELSE r[j - Len(l)]
  BY <1>1, <1>2, ConcatProperties
<1>4. ASSUME NEW j \in 1 .. Len(s) - 1
      PROVE  (l \o r)[j] = IF j < i THEN s[j] ELSE s[j + 1]
  BY <1>1, <1>2, <1>3
<1>5. RemoveAt(s, i) = l \o r
  BY DEF RemoveAt, l, r
<1>6. Len(s) \in Nat
  BY LenProperties
<1>7. Len(l) + Len(r) = Len(s) - 1
  BY <1>1, <1>2, <1>6
<1> QED BY <1>3, <1>4, <1>5, <1>7

\* Unlinking from a list without repetitions removes exactly that element.
LEMMA RemoveFirstProps ==
  ASSUME NEW S, NEW s \in Seq(S), NEW e, IsInjective(s)
  PROVE  /\ RemoveFirst(s, e) \in Seq(S)
         /\ IsInjective(RemoveFirst(s, e))
         /\ ToSet(RemoveFirst(s, e)) = ToSet(s) \ {e}
         /\ e \notin ToSet(s) => RemoveFirst(s, e) = s
<1>1. /\ Len(s) \in Nat /\ DOMAIN s = 1 .. Len(s)
      /\ \A i \in 1 .. Len(s) : s[i] \in S
  BY LenProperties, ElementOfSeq
<1>2. CASE e \notin ToSet(s)
  BY <1>1, <1>2 DEF RemoveFirst, ToSet
<1>3. CASE e \in ToSet(s)
  <2>1. PICK i \in 1 .. Len(s) : s[i] = e /\ RemoveFirst(s, e) = RemoveAt(s, i)
    BY <1>1, <1>3, RemoveFirstIndex DEF ToSet
  <2> DEFINE r == RemoveFirst(s, e)
  <2>2. /\ r \in Seq(S) /\ Len(r) = Len(s) - 1
        /\ \A j \in 1 .. Len(s) - 1 : r[j] = IF j < i THEN s[j] ELSE s[j + 1]
    BY <2>1, RemoveAtProps
  <2> HIDE DEF r
  <2>3. DOMAIN r = 1 .. Len(s) - 1
    BY <2>2, LenProperties
  <2>4. IsInjective(r)
    BY <1>1, <2>2, <2>3 DEF IsInjective
  <2>5. ASSUME NEW x \in ToSet(r)
        PROVE  x \in ToSet(s) \ {e}
    <3>1. PICK j \in 1 .. Len(s) - 1 : x = r[j]
      BY <2>3 DEF ToSet
    <3>2. PICK m \in 1 .. Len(s) : m # i /\ x = s[m]
      BY <1>1, <2>2, <3>1
    <3> QED BY <1>1, <2>1, <3>2 DEF IsInjective, ToSet
  <2>6. ASSUME NEW x \in ToSet(s) \ {e}
        PROVE  x \in ToSet(r)
    <3>1. PICK m \in 1 .. Len(s) : x = s[m] /\ m # i
      BY <1>1, <2>1 DEF ToSet
    <3>2. CASE m < i
      BY <1>1, <2>2, <2>3, <3>1, <3>2 DEF ToSet
    <3>3. CASE m > i
      <4>1. m - 1 \in 1 .. Len(s) - 1 /\ ~ (m - 1 < i) /\ (m - 1) + 1 = m
        BY <1>1, <3>3
      <4>2. r[m - 1] = s[m]
        BY <2>2, <4>1
      <4> QED BY <2>3, <3>1, <4>1, <4>2 DEF ToSet
    <3> QED BY <1>1, <3>1, <3>2, <3>3
  <2> QED BY <1>3, <2>2, <2>4, <2>5, <2>6 DEF r
<1> QED BY <1>2, <1>3

\* Taking the head of a list without repetitions.
LEMMA TailProps ==
  ASSUME NEW S, NEW s \in Seq(S), s # <<>>, IsInjective(s)
  PROVE  /\ Tail(s) \in Seq(S)
         /\ Len(Tail(s)) = Len(s) - 1
         /\ Head(s) \in S
         /\ IsInjective(Tail(s))
         /\ Head(s) \in ToSet(s)
         /\ ToSet(Tail(s)) = ToSet(s) \ {Head(s)}
<1> DEFINE r == Tail(s)
<1>1. /\ Len(s) \in Nat /\ Len(s) >= 1 /\ DOMAIN s = 1 .. Len(s)
      /\ Head(s) = s[1]
      /\ \A i \in 1 .. Len(s) : s[i] \in S
  BY LenProperties, ElementOfSeq, EmptySeq
<1>2. /\ r \in Seq(S) /\ Len(r) = Len(s) - 1 /\ DOMAIN r = 1 .. Len(s) - 1
      /\ \A i \in 1 .. Len(s) - 1 : r[i] = s[i + 1]
  BY HeadTailProperties, LenProperties
<1> HIDE DEF r
<1>3. IsInjective(r)
  <2> SUFFICES ASSUME NEW i \in 1 .. Len(s) - 1, NEW j \in 1 .. Len(s) - 1, r[i] = r[j]
               PROVE  i = j
    BY <1>2 DEF IsInjective
  <2>1. i + 1 \in 1 .. Len(s) /\ j + 1 \in 1 .. Len(s) /\ s[i + 1] = s[j + 1]
    BY <1>1, <1>2
  <2>2. i + 1 = j + 1
    BY <1>1, <2>1 DEF IsInjective
  <2> QED BY <2>2
<1>4. ASSUME NEW x \in ToSet(r)
      PROVE  x \in ToSet(s) \ {s[1]}
  <2>1. PICK j \in 1 .. Len(s) - 1 : x = s[j + 1]
    BY <1>2, <1>4 DEF ToSet
  <2> QED BY <1>1, <2>1 DEF ToSet, IsInjective
<1>5. ASSUME NEW x \in ToSet(s) \ {s[1]}
      PROVE  x \in ToSet(r)
  <2>1. PICK j \in 1 .. Len(s) : x = s[j] /\ j # 1
    BY <1>1 DEF ToSet
  <2>2. j - 1 \in 1 .. Len(s) - 1 /\ (j - 1) + 1 = j
    BY <1>1, <2>1
  <2>3. r[j - 1] = x
    BY <1>2, <2>1, <2>2
  <2> QED BY <1>2, <2>2, <2>3 DEF ToSet
<1> QED BY <1>1, <1>2, <1>3, <1>4, <1>5 DEF r, ToSet

\* Adding at the tail of a list an element that is not on it.
LEMMA AppendProps ==
  ASSUME NEW S, NEW s \in Seq(S), NEW e \in S, e \notin ToSet(s), IsInjective(s)
  PROVE  /\ Append(s, e) \in Seq(S)
         /\ Len(Append(s, e)) = Len(s) + 1
         /\ IsInjective(Append(s, e))
         /\ ToSet(Append(s, e)) = ToSet(s) \cup {e}
<1> DEFINE r == Append(s, e)
<1>1. Len(s) \in Nat /\ DOMAIN s = 1 .. Len(s)
  BY LenProperties
<1>2. /\ r \in Seq(S) /\ Len(r) = Len(s) + 1 /\ DOMAIN r = 1 .. Len(s) + 1
      /\ \A i \in 1 .. Len(s) : r[i] = s[i]
      /\ r[Len(s) + 1] = e
  BY AppendProperties, LenProperties
<1> HIDE DEF r
<1>3. IsInjective(r)
  BY <1>1, <1>2 DEF IsInjective, ToSet
<1>4. ToSet(r) = ToSet(s) \cup {e}
  BY <1>1, <1>2 DEF ToSet
<1> QED BY <1>2, <1>3, <1>4 DEF r
-----------------------------------------------------------------------------
\* A counter of the list wraps around within its width.
LEMMA CounterType ==
  ASSUME NEW n \in 0 .. UintMax
  PROVE  Inc(n) \in 0 .. UintMax /\ Dec(n) \in 0 .. UintMax
BY UintAssumption DEF Inc, Dec

\* list_del keeps a list a list, repetitions or not.
LEMMA RemoveFirstType ==
  ASSUME NEW S, NEW s \in Seq(S), NEW e
  PROVE  RemoveFirst(s, e) \in Seq(S)
<1>1. CASE \E i \in 1 .. Len(s) : s[i] = e
  <2>1. PICK i \in 1 .. Len(s) : RemoveFirst(s, e) = RemoveAt(s, i)
    BY <1>1, RemoveFirstIndex
  <2> QED BY <2>1, RemoveAtProps
<1>2. CASE ~ \E i \in 1 .. Len(s) : s[i] = e
  BY <1>2 DEF RemoveFirst
<1> QED BY <1>1, <1>2

\* The type of one queue, field by field.
LEMMA QueueFields ==
  ASSUME NEW q \in Queue
  PROVE  /\ q.threads \in Seq(Thread)
         /\ q.threadsNum \in 0 .. UintMax
         /\ q.curthd \in Thread \cup {None}
BY DEF Queue

\* Each operation on the ready queues changes one queue, which it makes from
\* the fields the queue had.
LEMMA EnqueueAt ==
  ASSUME NEW queues \in [Prio -> Queue], NEW t \in Thread
  PROVE  /\ Enqueue(queues, t) \in [Prio -> Queue]
         /\ \A p \in Prio \ {prio[t]} : Enqueue(queues, t)[p] = queues[p]
         /\ Enqueue(queues, t)[prio[t]].threads = Append(queues[prio[t]].threads, t)
         /\ Enqueue(queues, t)[prio[t]].threadsNum = Inc(queues[prio[t]].threadsNum)
         /\ Enqueue(queues, t)[prio[t]].curthd = queues[prio[t]].curthd
<1> DEFINE q == queues[prio[t]]
           q2 == [threads |-> Append(q.threads, t),
                  threadsNum |-> Inc(q.threadsNum), curthd |-> q.curthd]
<1>1. prio[t] \in Prio /\ q \in Queue
  BY PrioAssumption DEF Prio
<1>2. q2 \in Queue
  BY <1>1, CounterType, AppendProperties DEF Queue
<1>3. Enqueue(queues, t) = [queues EXCEPT ![prio[t]] = q2]
  BY DEF Enqueue
<1> QED BY <1>1, <1>2, <1>3

LEMMA DequeueAt ==
  ASSUME NEW queues \in [Prio -> Queue], NEW t \in Thread
  PROVE  /\ Dequeue(queues, t) \in [Prio -> Queue]
         /\ \A p \in Prio \ {prio[t]} : Dequeue(queues, t)[p] = queues[p]
         /\ Dequeue(queues, t)[prio[t]].threads = RemoveFirst(queues[prio[t]].threads, t)
         /\ Dequeue(queues, t)[prio[t]].threadsNum = Dec(queues[prio[t]].threadsNum)
         /\ Dequeue(queues, t)[prio[t]].curthd =
              IF queues[prio[t]].curthd = t THEN None ELSE queues[prio[t]].curthd
<1> DEFINE q == queues[prio[t]]
           q2 == [threads |-> RemoveFirst(q.threads, t),
                  threadsNum |-> Dec(q.threadsNum),
                  curthd |-> IF q.curthd = t THEN None ELSE q.curthd]
<1>1. prio[t] \in Prio /\ q \in Queue
  BY PrioAssumption DEF Prio
<1>2. q2 \in Queue
  BY <1>1, CounterType, RemoveFirstType DEF Queue
<1>3. Dequeue(queues, t) = [queues EXCEPT ![prio[t]] = q2]
  BY DEF Dequeue
<1> QED BY <1>1, <1>2, <1>3

\* The loop of select_thread stops at a queue that has a thread.
LEMMA HighestIsRunnable ==
  ASSUME NEW queues, Runnable(queues) # {}
  PROVE  HighestRunnable(queues) \in Runnable(queues)
<1>1. Runnable(queues) \in SUBSET Nat
  BY PrioAssumption DEF Runnable, Prio
<1>2. \E p \in Runnable(queues) : \A r \in Runnable(queues) : p <= r
  BY <1>1, SmallestExists
<1> QED BY <1>2 DEF HighestRunnable

\* Rotating a queue that has a thread leaves it with a current thread.
LEMMA RotateType ==
  ASSUME NEW q \in Queue
  PROVE  /\ Rotate(q) \in Queue
         /\ Rotate(q).threadsNum = q.threadsNum
         /\ q.threads # <<>> \/ q.curthd # None => Rotate(q).curthd \in Thread
<1>1. CASE q.threads = <<>>
  BY <1>1, QueueFields DEF Rotate
<1>2. CASE q.threads # <<>>
  <2> DEFINE l == IF q.curthd = None THEN Tail(q.threads)
                  ELSE Append(Tail(q.threads), q.curthd)
  <2>1. Tail(q.threads) \in Seq(Thread) /\ Head(q.threads) \in Thread
    BY <1>2, QueueFields, HeadTailProperties
  <2>2. l \in Seq(Thread)
    BY <2>1, QueueFields, AppendProperties
  <2>3. Rotate(q) = [threads |-> l, threadsNum |-> q.threadsNum,
                     curthd |-> Head(q.threads)]
    BY <1>2 DEF Rotate, Queue
  <2> QED BY <1>2, <2>1, <2>2, <2>3, QueueFields DEF Queue
<1> QED BY <1>1, <1>2

LEMMA SelectAt ==
  ASSUME NEW queues \in [Prio -> Queue]
  PROVE  /\ SelectQueues(queues) \in [Prio -> Queue]
         /\ \A p \in Prio : \/ SelectQueues(queues)[p] = queues[p]
                            \/ SelectQueues(queues)[p] = Rotate(queues[p])
         /\ SelectThread(queues) \in AnyThread
         /\ SelectThread(queues) # Idle =>
              \E p \in Prio : /\ SelectQueues(queues)[p] = Rotate(queues[p])
                              /\ SelectThread(queues) = Rotate(queues[p]).curthd
                              /\ SelectThread(queues) \in Thread
<1>1. CASE Runnable(queues) = {}
  BY <1>1 DEF SelectQueues, SelectThread, AnyThread
<1>2. CASE Runnable(queues) # {}
  <2> DEFINE h == HighestRunnable(queues)
  <2>1. h \in Runnable(queues)
    BY <1>2, HighestIsRunnable
  <2>2. h \in Prio /\ (queues[h].threads # <<>> \/ queues[h].curthd # None)
    BY <2>1 DEF Runnable
  <2>3. Rotate(queues[h]) \in Queue /\ Rotate(queues[h]).curthd \in Thread
    BY <2>2, RotateType
  <2>4. SelectQueues(queues) = [queues EXCEPT ![h] = Rotate(queues[h])]
    BY <1>2 DEF SelectQueues
  <2>5. SelectThread(queues) = Rotate(queues[h]).curthd
    BY <1>2 DEF SelectThread
  <2> HIDE DEF h
  <2> QED BY <2>2, <2>3, <2>4, <2>5 DEF AnyThread
<1> QED BY <1>1, <1>2
-----------------------------------------------------------------------------
\* A list without repetitions is no longer than the set of threads.
LEMMA LenBound ==
  ASSUME NEW s \in Seq(Thread), IsInjective(s)
  PROVE  Len(s) \in Nat /\ Len(s) <= Cardinality(Thread)
         /\ Cardinality(Thread) \in Nat
<1>1. Len(s) \in Nat /\ s \in [1 .. Len(s) -> Thread]
  BY LenProperties, ElementOfSeq, SeqDef
<1>2. s \in Injection(1 .. Len(s), Thread)
  BY <1>1 DEF Injection
<1>3. Cardinality(1 .. Len(s)) <= Cardinality(Thread)
  BY <1>2, FS_Injection, ThreadAssumption
<1>4. Cardinality(1 .. Len(s)) = Len(s)
  BY <1>1, FS_Interval
<1> QED BY <1>1, <1>3, <1>4, FS_CardinalityType, ThreadAssumption

\* The threads on a queue are threads.
LEMMA OnType ==
  ASSUME NEW q \in Queue
  PROVE  On(q) \subseteq Thread
BY QueueFields, LenProperties, ElementOfSeq DEF On, ToSet

\* The queue a thread is on, of queues that keep threads apart.
LEMMA QueuedAt ==
  ASSUME NEW queues \in [Prio -> Queue], Separate(queues), NEW t
  PROVE  t \in Queued(queues) <=> t \in Thread /\ t \in On(queues[prio[t]])
<1>1. ASSUME t \in Queued(queues)
      PROVE  t \in Thread /\ t \in On(queues[prio[t]])
  BY <1>1, OnType DEF Queued, Separate
<1>2. ASSUME t \in Thread, t \in On(queues[prio[t]])
      PROVE  t \in Queued(queues)
  BY <1>2, PrioAssumption DEF Queued, Prio
<1> QED BY <1>1, <1>2

\* Adding a thread that is on no queue.
LEMMA EnqueueProps ==
  ASSUME NEW queues \in [Prio -> Queue], Separate(queues),
         NEW t \in Thread, t \notin Queued(queues)
  PROVE  /\ Separate(Enqueue(queues, t))
         /\ Queued(Enqueue(queues, t)) = Queued(queues) \cup {t}
         /\ Counted(queues) => Counted(Enqueue(queues, t))
<1> DEFINE p == prio[t]
           q == queues[p]
           new == Enqueue(queues, t)
<1>1. p \in Prio /\ q \in Queue /\ q.threads \in Seq(Thread) /\ q.curthd \in Thread \cup {None}
  BY PrioAssumption, QueueFields DEF Prio
<1>2. /\ new \in [Prio -> Queue]
      /\ \A r \in Prio \ {p} : new[r] = queues[r]
      /\ new[p].threads = Append(q.threads, t)
      /\ new[p].threadsNum = Inc(q.threadsNum)
      /\ new[p].curthd = q.curthd
  BY EnqueueAt
<1> HIDE DEF new
<1>3. t \notin ToSet(q.threads) /\ q.curthd # t
  BY <1>1, ThreadAssumption DEF Queued, On
<1>4. IsInjective(q.threads) /\ q.curthd \notin ToSet(q.threads)
  BY <1>1 DEF Separate
<1>5. /\ IsInjective(new[p].threads)
      /\ ToSet(new[p].threads) = ToSet(q.threads) \cup {t}
      /\ Len(new[p].threads) = Len(q.threads) + 1
  BY <1>1, <1>2, <1>3, <1>4, AppendProps
<1>6. On(new[p]) = On(q) \cup {t}
  BY <1>2, <1>5 DEF On
<1>7. Separate(new)
  <2> SUFFICES ASSUME NEW r \in Prio
               PROVE  /\ IsInjective(new[r].threads)
                      /\ new[r].curthd \notin ToSet(new[r].threads)
                      /\ \A x \in On(new[r]) : prio[x] = r
    BY DEF Separate
  <2>1. CASE r = p
    <3>1. \A x \in On(q) : prio[x] = p
      BY <1>1 DEF Separate
    <3> QED BY <2>1, <3>1, <1>2, <1>3, <1>4, <1>5, <1>6
  <2>2. CASE r # p
    BY <2>2, <1>2 DEF Separate
  <2> QED BY <2>1, <2>2
<1>8. Queued(new) = Queued(queues) \cup {t}
  <2>1. \A x : x \in Queued(queues) <=> \E r \in Prio : x \in On(queues[r])
    BY DEF Queued
  <2>2. \A x : x \in Queued(new) <=> \E r \in Prio : x \in On(new[r])
    BY DEF Queued
  <2>3. \A r \in Prio \ {p} : On(new[r]) = On(queues[r])
    BY <1>2
  <2> QED BY <1>1, <1>6, <2>1, <2>2, <2>3
<1>9. ASSUME Counted(queues)
      PROVE  Counted(new)
  <2>1. Len(q.threads) \in Nat /\ Len(q.threads) <= Cardinality(Thread)
        /\ Cardinality(Thread) \in Nat
    BY <1>1, <1>4, LenBound
  <2>2. q.threadsNum = Len(q.threads) + (IF q.curthd = None THEN 0 ELSE 1)
    BY <1>1, <1>9 DEF Counted
  <2> DEFINE cur == IF q.curthd = None THEN 0 ELSE 1
  <2>3. cur \in 0 .. 1
    OBVIOUS
  <2>4. q.threadsNum = Len(q.threads) + cur /\ q.threadsNum # UintMax
    <3>1. q.threadsNum = Len(q.threads) + cur
      BY <2>2
    <3> HIDE DEF cur
    <3> QED BY <2>1, <2>3, <3>1, UintAssumption
  <2> HIDE DEF cur
  <2>5. new[p].threadsNum = Len(q.threads) + 1 + cur
    BY <1>2, <2>1, <2>3, <2>4 DEF Inc
  <2>6. new[p].threadsNum = Len(new[p].threads) + (IF new[p].curthd = None THEN 0 ELSE 1)
    BY <1>2, <1>5, <2>5 DEF cur
  <2> QED BY <1>2, <1>9, <2>6 DEF Counted
<1> QED BY <1>7, <1>8, <1>9 DEF new

\* Unlinking a thread.  The counter is right if it was the queue's current one.
LEMMA DequeueProps ==
  ASSUME NEW queues \in [Prio -> Queue], Separate(queues), NEW t \in Thread
  PROVE  /\ Separate(Dequeue(queues, t))
         /\ Queued(Dequeue(queues, t)) = Queued(queues) \ {t}
         /\ Counted(queues) /\ queues[prio[t]].curthd = t => Counted(Dequeue(queues, t))
<1> DEFINE p == prio[t]
           q == queues[p]
           new == Dequeue(queues, t)
<1>1. p \in Prio /\ q \in Queue /\ q.threads \in Seq(Thread) /\ q.curthd \in Thread \cup {None}
  BY PrioAssumption, QueueFields DEF Prio
<1>2. /\ new \in [Prio -> Queue]
      /\ \A r \in Prio \ {p} : new[r] = queues[r]
      /\ new[p].threads = RemoveFirst(q.threads, t)
      /\ new[p].threadsNum = Dec(q.threadsNum)
      /\ new[p].curthd = IF q.curthd = t THEN None ELSE q.curthd
  BY DequeueAt
<1> HIDE DEF new
<1>3. IsInjective(q.threads) /\ q.curthd \notin ToSet(q.threads)
  BY <1>1 DEF Separate
<1>4. /\ IsInjective(new[p].threads)
      /\ ToSet(new[p].threads) = ToSet(q.threads) \ {t}
      /\ t \notin ToSet(q.threads) => new[p].threads = q.threads
  BY <1>1, <1>2, <1>3, RemoveFirstProps
<1>5. On(new[p]) = On(q) \ {t}
  BY <1>1, <1>2, <1>4, ThreadAssumption DEF On
<1>6. None \notin ToSet(q.threads)
  BY <1>1, ThreadAssumption, LenProperties, ElementOfSeq DEF ToSet
<1>7. Separate(new)
  <2> SUFFICES ASSUME NEW r \in Prio
               PROVE  /\ IsInjective(new[r].threads)
                      /\ new[r].curthd \notin ToSet(new[r].threads)
                      /\ \A x \in On(new[r]) : prio[x] = r
    BY DEF Separate
  <2>1. CASE r = p
    <3>1. \A x \in On(q) : prio[x] = p
      BY <1>1 DEF Separate
    <3> QED BY <2>1, <3>1, <1>2, <1>3, <1>4, <1>5, <1>6
  <2>2. CASE r # p
    BY <2>2, <1>2 DEF Separate
  <2> QED BY <2>1, <2>2
<1>8. Queued(new) = Queued(queues) \ {t}
  <2>1. \A r \in Prio \ {p} : t \notin On(queues[r])
    BY DEF Separate
  <2> QED BY <2>1, <1>1, <1>2, <1>5 DEF Queued
<1>9. ASSUME Counted(queues), q.curthd = t
      PROVE  Counted(new)
  <2>1. Len(q.threads) \in Nat /\ t # None
    BY <1>1, LenProperties, ThreadAssumption
  <2>2. q.threadsNum = Len(q.threads) + 1
    BY <1>1, <1>9, <2>1 DEF Counted
  <2>3. Dec(q.threadsNum) = Len(q.threads)
    BY <2>1, <2>2 DEF Dec
  <2>4. new[p].threads = q.threads /\ new[p].curthd = None
    BY <1>2, <1>3, <1>4, <1>9
  <2>5. new[p].threadsNum = Len(new[p].threads)
    BY <1>2, <2>3, <2>4
  <2>6. ASSUME NEW r \in Prio
        PROVE  new[r].threadsNum =
                 Len(new[r].threads) + (IF new[r].curthd = None THEN 0 ELSE 1)
    <3>1. CASE r = p
      <4>1. (IF new[p].curthd = None THEN 0 ELSE 1) = 0
        BY <2>4
      <4>2. new[p].threadsNum \in Nat /\ new[p].threadsNum + 0 = new[p].threadsNum
        BY <2>1, <2>4, <2>5
      <4> QED BY <2>5, <3>1, <4>1, <4>2
    <3>2. CASE r # p
      BY <1>2, <1>9, <3>2 DEF Counted
    <3> QED BY <3>1, <3>2
  <2> QED BY <2>6 DEF Counted
<1> QED BY <1>7, <1>8, <1>9 DEF new

\* Rotating a queue moves its threads and keeps them all.
LEMMA RotateProps ==
  ASSUME NEW q \in Queue, IsInjective(q.threads), q.curthd \notin ToSet(q.threads)
  PROVE  /\ IsInjective(Rotate(q).threads)
         /\ Rotate(q).curthd \notin ToSet(Rotate(q).threads)
         /\ On(Rotate(q)) = On(q)
         /\ Len(Rotate(q).threads) + (IF Rotate(q).curthd = None THEN 0 ELSE 1)
              = Len(q.threads) + (IF q.curthd = None THEN 0 ELSE 1)
<1>1. CASE q.threads = <<>>
  BY <1>1 DEF Rotate
<1>2. CASE q.threads # <<>>
  <2> DEFINE h == Head(q.threads)
             l == Tail(q.threads)
  <2>1. /\ q.threads \in Seq(Thread) /\ q.curthd \in Thread \cup {None}
        /\ Len(q.threads) \in Nat
    BY QueueFields, LenProperties
  <2>2. /\ l \in Seq(Thread) /\ Len(l) = Len(q.threads) - 1 /\ h \in Thread
        /\ IsInjective(l) /\ h \in ToSet(q.threads)
        /\ ToSet(l) = ToSet(q.threads) \ {h}
    BY <1>2, <2>1, TailProps
  <2> HIDE DEF h, l
  <2>3. /\ Rotate(q).threads = IF q.curthd = None THEN l ELSE Append(l, q.curthd)
        /\ Rotate(q).curthd = h
    BY <1>2 DEF Rotate, Queue, h, l
  <2>4. CASE q.curthd = None
    BY <2>1, <2>2, <2>3, <2>4, ThreadAssumption DEF On
  <2>5. CASE q.curthd # None
    <3>1. q.curthd \in Thread /\ q.curthd \notin ToSet(l) /\ q.curthd # h
      BY <2>1, <2>2, <2>5
    <3>2. /\ Len(Append(l, q.curthd)) = Len(l) + 1
          /\ IsInjective(Append(l, q.curthd))
          /\ ToSet(Append(l, q.curthd)) = ToSet(l) \cup {q.curthd}
      BY <2>2, <3>1, AppendProps
    <3> QED BY <2>1, <2>2, <2>3, <2>5, <3>1, <3>2, ThreadAssumption DEF On
  <2> QED BY <2>4, <2>5
<1> QED BY <1>1, <1>2

\* select_thread loses nobody, and what it returns is the current thread of
\* its queue.
LEMMA SelectProps ==
  ASSUME NEW queues \in [Prio -> Queue], Separate(queues)
  PROVE  /\ Separate(SelectQueues(queues))
         /\ Queued(SelectQueues(queues)) = Queued(queues)
         /\ Counted(queues) => Counted(SelectQueues(queues))
         /\ SelectThread(queues) # Idle =>
              /\ SelectThread(queues) \in Thread
              /\ SelectQueues(queues)[prio[SelectThread(queues)]].curthd = SelectThread(queues)
<1> DEFINE new == SelectQueues(queues)
           next == SelectThread(queues)
<1>1. /\ new \in [Prio -> Queue]
      /\ \A p \in Prio : new[p] = queues[p] \/ new[p] = Rotate(queues[p])
      /\ next # Idle =>
           \E p \in Prio : /\ new[p] = Rotate(queues[p])
                           /\ next = Rotate(queues[p]).curthd
                           /\ next \in Thread
  BY SelectAt
<1> HIDE DEF new, next
<1>2. ASSUME NEW p \in Prio
      PROVE  /\ IsInjective(new[p].threads)
             /\ new[p].curthd \notin ToSet(new[p].threads)
             /\ On(new[p]) = On(queues[p])
             /\ Len(new[p].threads) + (IF new[p].curthd = None THEN 0 ELSE 1)
                  = Len(queues[p].threads) + (IF queues[p].curthd = None THEN 0 ELSE 1)
             /\ new[p].threadsNum = queues[p].threadsNum
  <2>1. IsInjective(queues[p].threads) /\ queues[p].curthd \notin ToSet(queues[p].threads)
    BY DEF Separate
  <2> QED BY <1>1, <2>1, RotateProps, RotateType
<1>3. Separate(new)
  BY <1>2 DEF Separate
<1>4. Queued(new) = Queued(queues)
  BY <1>2 DEF Queued
<1>5. Counted(queues) => Counted(new)
  BY <1>2 DEF Counted
<1>6. ASSUME next # Idle
      PROVE  next \in Thread /\ new[prio[next]].curthd = next
  <2>1. PICK p \in Prio : new[p] = Rotate(queues[p]) /\ next = Rotate(queues[p]).curthd
                          /\ next \in Thread
    BY <1>1, <1>6
  <2>2. next \in On(new[p])
    BY <2>1, ThreadAssumption DEF On
  <2>3. prio[next] = p
    BY <1>3, <2>2 DEF Separate
  <2> QED BY <2>1, <2>3
<1> QED BY <1>3, <1>4, <1>5, <1>6 DEF new, next
-----------------------------------------------------------------------------
\* Changing one frame, or one field of one semaphore.
LEMMA SetFrame ==
  ASSUME NEW A, NEW B, NEW C, NEW f \in [A -> [B -> C]],
         NEW a \in A, NEW b \in B, NEW c \in C
  PROVE  /\ [f EXCEPT ![a][b] = c] \in [A -> [B -> C]]
         /\ \A x \in A : \A y \in B :
              [f EXCEPT ![a][b] = c][x][y] = IF x = a /\ y = b THEN c ELSE f[x][y]
OBVIOUS

LEMMA SetCount ==
  ASSUME NEW f \in [Sem -> SemState], NEW s \in Sem, NEW n \in Nat
  PROVE  /\ [f EXCEPT ![s].count = n] \in [Sem -> SemState]
         /\ [f EXCEPT ![s].count = n][s].count = n
         /\ \A r \in Sem \ {s} : [f EXCEPT ![s].count = n][r] = f[r]
         /\ \A r \in Sem : [f EXCEPT ![s].count = n][r].waits = f[r].waits
         /\ \A r \in Sem : [f EXCEPT ![s].count = n][r].waitsNum = f[r].waitsNum
<1> DEFINE g == [f EXCEPT ![s].count = n]
<1>1. g[s] = [f[s] EXCEPT !.count = n]
  OBVIOUS
<1>2. /\ [f[s] EXCEPT !.count = n] \in SemState
      /\ [f[s] EXCEPT !.count = n].count = n
      /\ [f[s] EXCEPT !.count = n].waits = f[s].waits
      /\ [f[s] EXCEPT !.count = n].waitsNum = f[s].waitsNum
  BY DEF SemState
<1>3. \A r \in Sem \ {s} : g[r] = f[r]
  OBVIOUS
<1>4. g \in [Sem -> SemState]
  BY <1>1, <1>2
<1> HIDE DEF g
<1>5. \A r \in Sem : g[r].waits = f[r].waits /\ g[r].waitsNum = f[r].waitsNum
  BY <1>1, <1>2, <1>3
<1> QED BY <1>1, <1>2, <1>3, <1>4, <1>5 DEF g

\* The type of the stacks of frames.
FramesOK ==
  /\ at \in [AnyThread -> [Level -> Phase]]
  /\ \A t \in AnyThread :
       /\ at[t][0] \in ProgramPhase(t)
       /\ \A d \in Level \ {0} : at[t][d] \in IrqPhase \cup {"none"}

\* A frame that moves stays among the places of its kind of frame.
LEMMA GoToType ==
  ASSUME TypeOK, NEW phase, GoTo(phase),
         depth[curthd] = 0 => phase \in ProgramPhase(curthd),
         depth[curthd] > 0 => phase \in IrqPhase \cup {"none"}
  PROVE  FramesOK'
<1> DEFINE d == depth[curthd]
<1>1. curthd \in AnyThread /\ d \in Level /\ MaxIrqDepth \in Nat /\ 0 \in Level
  BY KernelAssumption DEF TypeOK, Level
<1>2. phase \in Phase
  BY <1>1 DEF Phase, ProgramPhase, IrqPhase, Level
<1>3. at' = [at EXCEPT ![curthd][d] = phase] /\ at \in [AnyThread -> [Level -> Phase]]
  BY DEF GoTo, TypeOK
<1>4. at' \in [AnyThread -> [Level -> Phase]]
  BY <1>1, <1>2, <1>3
<1>5. ASSUME NEW t \in AnyThread
      PROVE  at'[t][0] \in ProgramPhase(t)
  BY <1>1, <1>3, <1>5 DEF TypeOK
<1>6. ASSUME NEW t \in AnyThread, NEW e \in Level \ {0}
      PROVE  at'[t][e] \in IrqPhase \cup {"none"}
  BY <1>1, <1>3, <1>6 DEF TypeOK, Level
<1> QED BY <1>4, <1>5, <1>6 DEF FramesOK, ProgramPhase

\* The semaphore that sem_up raises.
LEMMA RaisedType ==
  ASSUME TypeOK, Top = "allup"
  PROVE  Raised \in Sem
<1>1. CASE depth[curthd] > 0
  BY <1>1, KernelAssumption DEF Raised, InInterrupt
<1>2. CASE depth[curthd] = 0
  <2>1. curthd \in Worker
    BY <1>2 DEF TypeOK, Top, ProgramPhase
  <2> QED BY <1>2, <2>1, KernelAssumption DEF Raised, InInterrupt
<1>3. depth[curthd] \in Nat
  BY KernelAssumption DEF TypeOK, Level
<1> QED BY <1>1, <1>2, <1>3

LEMMA AddWaiterType ==
  ASSUME sem \in [Sem -> SemState], NEW t \in Thread, NEW s \in Sem
  PROVE  AddWaiter(t, s) \in [Sem -> SemState]
<1> SUFFICES ASSUME NEW r \in Sem
             PROVE  AddWaiter(t, s)[r] \in SemState
  BY DEF AddWaiter
<1>1. /\ sem[r] \in SemState /\ sem[s] \in SemState
      /\ RemoveFirst(sem[r].waits, t) \in Seq(Thread)
      /\ Append(RemoveFirst(sem[s].waits, t), t) \in Seq(Thread)
  BY RemoveFirstType, AppendProperties DEF SemState
<1>2. Inc(sem[s].waitsNum) \in 0 .. UintMax
  BY CounterType DEF SemState
<1> QED BY <1>1, <1>2 DEF AddWaiter, SemState

\* The state is of its type throughout.
LEMMA TypeInit == Init => TypeOK
<1> SUFFICES ASSUME Init PROVE TypeOK
  OBVIOUS
<1>1. rq \in [Prio -> Queue]
  BY UintAssumption, EmptySeq DEF Init, EmptyQueues, Queue
<1>2. sem \in [Sem -> SemState]
  BY UintAssumption, EmptySeq DEF Init, SemState
<1>3. at \in [AnyThread -> [Level -> Phase]]
  BY DEF Init, Phase
<1>4. tick \in [AnyThread -> 0 .. RunTick] /\ depth \in [AnyThread -> Level]
  BY KernelAssumption DEF Init, Level
<1>5. ASSUME NEW t \in AnyThread
      PROVE  /\ at[t][0] \in ProgramPhase(t)
             /\ \A d \in Level \ {0} : at[t][d] \in IrqPhase \cup {"none"}
             /\ \A d \in Level : at[t][d] # "switch"
  BY KernelAssumption DEF Init, ProgramPhase, Level, AnyThread
<1> QED BY <1>1, <1>2, <1>3, <1>4, <1>5
        DEF Init, TypeOK, AnyThread, Flags, Status

\* A frame before switch_thread has a choice, and so do those left alone.
ChoicesOK ==
  /\ sel \in [AnyThread -> [Level -> AnyThread \cup {None}]]
  /\ \A t \in AnyThread : \A d \in Level : at[t][d] = "switch" => sel[t][d] # None

LEMMA ChoicesKept ==
  ASSUME TypeOK, NEW phase, GoTo(phase), phase # "switch",
         \/ sel' = sel
         \/ sel' = [sel EXCEPT ![curthd][depth[curthd]] = None]
  PROVE  ChoicesOK'
<1> DEFINE d == depth[curthd]
<1>1. curthd \in AnyThread /\ d \in Level
  BY DEF TypeOK
<1>2. /\ at' = [at EXCEPT ![curthd][d] = phase]
      /\ at \in [AnyThread -> [Level -> Phase]]
      /\ sel \in [AnyThread -> [Level -> AnyThread \cup {None}]]
      /\ \A t \in AnyThread : \A e \in Level : at[t][e] = "switch" => sel[t][e] # None
  BY DEF GoTo, TypeOK
<1>3. sel' \in [AnyThread -> [Level -> AnyThread \cup {None}]]
  <2>1. None \in AnyThread \cup {None}
    OBVIOUS
  <2>2. [sel EXCEPT ![curthd][d] = None] \in [AnyThread -> [Level -> AnyThread \cup {None}]]
    BY <1>1, <1>2, <2>1, SetFrame
  <2> QED BY <1>2, <2>2
<1>4. ASSUME NEW t \in AnyThread, NEW e \in Level, at'[t][e] = "switch"
      PROVE  sel'[t][e] # None
  <2>1. t # curthd \/ e # d
    BY <1>1, <1>2, <1>4
  <2>2. at'[t][e] = at[t][e] /\ sel'[t][e] = sel[t][e]
    BY <1>1, <1>2, <2>1
  <2> QED BY <1>2, <1>4, <2>2
<1> QED BY <1>3, <1>4 DEF ChoicesOK

\* What is left of the type once the frames are known to be right.
DataOK ==
  /\ rq \in [Prio -> Queue]
  /\ curthd \in AnyThread
  /\ flags \in Flags
  /\ sem \in [Sem -> SemState]
  /\ status \in [AnyThread -> Status]
  /\ tick \in [AnyThread -> 0 .. RunTick]
  /\ depth \in [AnyThread -> Level]

LEMMA TypeParts == TypeOK <=> DataOK /\ FramesOK /\ ChoicesOK
BY DEF TypeOK, DataOK, FramesOK, ChoicesOK

LEMMA TypePartsNext == DataOK' /\ FramesOK' /\ ChoicesOK' => TypeOK'
BY DEF TypeOK, DataOK, FramesOK, ChoicesOK

LEMMA StartedType ==
  ASSUME status \in [AnyThread -> Status], NEW t
  PROVE  Started(t) \in [AnyThread -> Status]
BY DEF Started, Status

\* An interrupt is a new frame above the one it interrupts.
LEMMA InterruptType ==
  ASSUME TypeOK, NEW phase \in {"timer", "kbd"}, Interrupt(phase)
  PROVE  TypeOK'
<1> DEFINE d == depth[curthd]
<1>1. /\ curthd \in AnyThread /\ d \in Nat /\ d < MaxIrqDepth /\ MaxIrqDepth \in Nat
      /\ d \in Level /\ d + 1 \in Level /\ d + 1 # 0
  BY KernelAssumption DEF TypeOK, Interrupt, Level
<1>2. /\ at' = [at EXCEPT ![curthd][d + 1] = phase]
      /\ depth' = [depth EXCEPT ![curthd] = d + 1]
      /\ UNCHANGED <<rq, curthd, flags, sem, status, tick, sel>>
  BY DEF Interrupt
<1>3. /\ at \in [AnyThread -> [Level -> Phase]]
      /\ depth \in [AnyThread -> Level]
      /\ phase \in IrqPhase /\ phase \in Phase /\ phase # "switch"
      /\ 0 \in Level
  BY <1>1 DEF TypeOK, Phase, IrqPhase, Level
<1>4. /\ at' \in [AnyThread -> [Level -> Phase]]
      /\ \A t \in AnyThread : \A e \in Level :
           at'[t][e] = IF t = curthd /\ e = d + 1 THEN phase ELSE at[t][e]
      /\ depth' \in [AnyThread -> Level]
  BY <1>1, <1>2, <1>3
<1>5. FramesOK'
  <2>1. ASSUME NEW t \in AnyThread
        PROVE  at'[t][0] \in ProgramPhase(t)
    BY <1>1, <1>3, <1>4 DEF TypeOK
  <2>2. ASSUME NEW t \in AnyThread, NEW e \in Level \ {0}
        PROVE  at'[t][e] \in IrqPhase \cup {"none"}
    BY <1>3, <1>4 DEF TypeOK
  <2> QED BY <1>4, <2>1, <2>2 DEF FramesOK, ProgramPhase
<1>6. ChoicesOK'
  BY <1>2, <1>3, <1>4 DEF TypeOK, ChoicesOK
<1>7. DataOK'
  BY <1>2, <1>4 DEF TypeOK, DataOK
<1> QED BY <1>5, <1>6, <1>7, TypePartsNext

\* Boot runs on what becomes the idle thread, with interrupts off, before any
\* thread could raise or wait on a semaphore.
BootOK ==
  Booting => /\ curthd = Idle /\ depth[Idle] = 0
             /\ \A s \in Sem : sem[s].count = 0 /\ sem[s].waits = <<>>

LEMMA BootInit == Init => BootOK
BY DEF Init, BootOK, AnyThread

\* A step that moves the running frame cannot go back to boot.
LEMMA NotBootAgain ==
  ASSUME TypeOK, NEW phase, phase # "boot", GoTo(phase)
  PROVE  Booting' => Booting
BY DEF TypeOK, GoTo, Booting, AnyThread

LEMMA BootStep == TypeOK /\ BootOK /\ [Next]_vars => BootOK'
<1> SUFFICES ASSUME TypeOK, BootOK, [Next]_vars, Booting'
             PROVE  /\ curthd' = Idle /\ depth'[Idle] = 0
                    /\ \A s \in Sem : sem'[s].count = 0 /\ sem'[s].waits = <<>>
  BY DEF BootOK
<1>1. CASE Booting
  <2>1. Top = "boot"
    BY <1>1 DEF BootOK, Booting, Top
  <2>2. CASE \E t \in Thread : Spawn(t)
    BY <1>1, <2>2 DEF Spawn, BootOK
  <2>3. CASE BootDone
    BY <1>1, <2>3 DEF BootDone, BootOK, Booting, GoTo, TypeOK, AnyThread
  <2>4. CASE UNCHANGED vars
    BY <1>1, <2>4 DEF vars, BootOK
  <2> QED BY <2>1, <2>2, <2>3, <2>4
          DEF Next, Boot, WorkerStep, ReaderStep, Scheduler, InterruptStep,
              SemDownTakes, SemDownBlocks, SemUp, WakeOne, WakeDone, ReadTakes,
              ReadBlocks, ReadReturns, Select, Switch, TimerIrq, KbdIrq, Interrupt,
              InterruptsOn, TimerHandler, KbdHandler, KbdReturns, ScheduleCheck, IrqExit
<1>2. CASE ~ Booting
  <2>1. \A phase : phase # "boot" => ~ GoTo(phase)
    BY <1>2, NotBootAgain
  <2>2. ASSUME NEW phase, Interrupt(phase)
        PROVE  FALSE
    <3>1. depth[curthd] + 1 # 0
      BY KernelAssumption DEF TypeOK, Level
    <3>2. Idle \in AnyThread /\ 0 \in Level /\ at \in [AnyThread -> [Level -> Phase]]
      BY KernelAssumption DEF TypeOK, AnyThread, Level
    <3>3. at'[Idle][0] = at[Idle][0]
      BY <2>2, <3>1, <3>2 DEF Interrupt
    <3> QED BY <1>2, <3>3 DEF Booting
  <2>3. at'[Idle][0] # at[Idle][0]
    BY <1>2 DEF Booting
  <2> QED BY <1>2, <2>1, <2>2, <2>3
          DEF Next, Boot, WorkerStep, ReaderStep, Scheduler, InterruptStep,
              SemDownTakes, SemDownBlocks, SemUp, WakeOne, WakeDone, ReadTakes,
              ReadBlocks, ReadReturns, Select, Switch, TimerIrq, KbdIrq,
              TimerHandler, KbdHandler, KbdReturns, ScheduleCheck, IrqExit, Spawn,
              BootDone, vars
<1> QED BY <1>1, <1>2

\* Every step keeps the type.
LEMMA TypeStep == TypeOK /\ BootOK /\ [Next]_vars => TypeOK'
<1> SUFFICES ASSUME TypeOK, BootOK, [Next]_vars
             PROVE  TypeOK'
  OBVIOUS
<1> USE DEF DataOK
<1>a. DataOK /\ FramesOK /\ ChoicesOK
  BY TypeParts
<1>b. curthd \in AnyThread /\ depth[curthd] \in Level /\ depth[curthd] \in Nat
  BY KernelAssumption DEF TypeOK, Level
<1>c. \A t \in Thread : t \in AnyThread /\ t # Idle
  BY ThreadAssumption DEF AnyThread
<1>0. depth[curthd] = 0 => Top \in ProgramPhase(curthd)
  BY <1>b DEF TypeOK, Top
<1>00. depth[curthd] > 0 => Top \in IrqPhase \cup {"none"}
  <2>1. depth[curthd] > 0 => depth[curthd] \in Level \ {0}
    BY <1>b
  <2> QED BY <1>b, <2>1 DEF TypeOK, Top
<1>1. ASSUME NEW t \in Thread, Spawn(t) PROVE TypeOK'
  <2>1. DataOK'
    BY <1>a, <1>1, EnqueueAt DEF Spawn
  <2>2. FramesOK' /\ ChoicesOK'
    BY <1>a, <1>1 DEF Spawn, FramesOK, ChoicesOK, ProgramPhase
  <2> QED BY <2>1, <2>2, TypePartsNext
<1>3. ASSUME NEW w \in Worker, SemDownTakes(w) PROVE TypeOK'
  <2>1. In[w] \in Sem /\ w \in AnyThread /\ w # Idle
    BY <1>c, KernelAssumption
  <2>2. curthd = w /\ depth[curthd] = 0 /\ GoTo("work") /\ sel' = sel
    BY <1>3 DEF SemDownTakes, InProgram
  <2>3. FramesOK' /\ ChoicesOK'
    BY <2>1, <2>2, GoToType, ChoicesKept DEF ProgramPhase
  <2>4. sem' \in [Sem -> SemState]
    <3>1. sem[In[w]].count - 1 \in Nat
      BY <1>3, <2>1 DEF SemDownTakes, TypeOK, SemState
    <3>2. sem' = [sem EXCEPT ![In[w]].count = sem[In[w]].count - 1]
      BY <1>3 DEF SemDownTakes
    <3>3. sem \in [Sem -> SemState]
      BY DEF TypeOK
    <3> QED BY <2>1, <3>1, <3>2, <3>3, SetCount
  <2>5. DataOK'
    BY <1>a, <1>3, <2>4 DEF SemDownTakes
  <2> QED BY <2>3, <2>5, TypePartsNext
<1>4. ASSUME NEW w \in Worker, SemDownBlocks(w) PROVE TypeOK'
  <2>1. In[w] \in Sem /\ w \in Thread /\ w \in AnyThread /\ w # Idle
    BY <1>c, KernelAssumption
  <2>2. curthd = w /\ depth[curthd] = 0 /\ GoTo("retry") /\ sel' = sel
    BY <1>4 DEF SemDownBlocks, InProgram
  <2>3. FramesOK' /\ ChoicesOK'
    BY <2>1, <2>2, GoToType, ChoicesKept DEF ProgramPhase
  <2>4. sem' \in [Sem -> SemState]
    BY <1>4, <2>1, <1>a, AddWaiterType DEF SemDownBlocks
  <2>5. Dequeue(rq, w) \in [Prio -> Queue]
    BY <1>a, <2>1, DequeueAt
  <2>6. /\ SelectQueues(Dequeue(rq, w)) \in [Prio -> Queue]
        /\ SelectThread(Dequeue(rq, w)) \in AnyThread
    BY <2>5, SelectAt
  <2>7. Started(SelectThread(Dequeue(rq, w))) \in [AnyThread -> Status]
    BY <1>a, StartedType
  <2>8. status' \in [AnyThread -> Status]
    BY <1>4, <2>7 DEF SemDownBlocks, Status
  <2>9. DataOK'
    BY <1>a, <1>4, <2>4, <2>6, <2>8 DEF SemDownBlocks
  <2> QED BY <2>3, <2>9, TypePartsNext
<1>5. ASSUME NEW w \in Worker, SemUp(w) PROVE TypeOK'
  <2>1. Out[w] \in Sem /\ w \in AnyThread /\ w # Idle
    BY <1>c, KernelAssumption
  <2>2. curthd = w /\ depth[curthd] = 0 /\ GoTo("allup") /\ sel' = sel
    BY <1>5 DEF SemUp, InProgram
  <2>3. FramesOK' /\ ChoicesOK'
    BY <2>1, <2>2, GoToType, ChoicesKept DEF ProgramPhase
  <2>4. sem' \in [Sem -> SemState]
    <3>1. sem[Out[w]].count + 1 \in Nat
      BY <2>1 DEF TypeOK, SemState
    <3>2. sem' = [sem EXCEPT ![Out[w]].count = sem[Out[w]].count + 1]
      BY <1>5 DEF SemUp
    <3>3. sem \in [Sem -> SemState]
      BY DEF TypeOK
    <3> QED BY <2>1, <3>1, <3>2, <3>3, SetCount
  <2>5. DataOK'
    BY <1>a, <1>5, <2>4 DEF SemUp
  <2> QED BY <2>3, <2>5, TypePartsNext
<1>6. CASE WakeOne
  <2>1. Raised \in Sem
    BY <1>6, RaisedType DEF WakeOne
  <2> DEFINE x == sem[Raised]
  <2>2. x \in SemState /\ x.count \in Nat /\ x.waits \in Seq(Thread)
        /\ x.waitsNum \in 0 .. UintMax /\ x.waits # <<>>
    BY <1>6, <2>1 DEF WakeOne, TypeOK, SemState
  <2>3. Tail(x.waits) \in Seq(Thread) /\ Head(x.waits) \in Thread
    BY <2>2, HeadTailProperties
  <2>4. [count |-> x.count, waits |-> Tail(x.waits), waitsNum |-> Dec(x.waitsNum)]
          \in SemState
    BY <2>2, <2>3, CounterType DEF SemState
  <2>5. sem' = [sem EXCEPT ![Raised] =
                 [count |-> x.count, waits |-> Tail(x.waits), waitsNum |-> Dec(x.waitsNum)]]
    BY <1>6 DEF WakeOne
  <2>6. sem' \in [Sem -> SemState]
    BY <1>a, <2>1, <2>4, <2>5
  <2>7. rq' \in [Prio -> Queue]
    BY <1>a, <1>6, <2>3, EnqueueAt DEF WakeOne
  <2>8. status' \in [AnyThread -> Status]
    BY <1>a, <1>6, <2>3 DEF WakeOne, Status
  <2>9. DataOK'
    BY <1>a, <1>6, <2>6, <2>7, <2>8 DEF WakeOne
  <2>10. FramesOK' /\ ChoicesOK'
    BY <1>a, <1>6 DEF WakeOne, FramesOK, ChoicesOK, ProgramPhase
  <2> QED BY <2>9, <2>10, TypePartsNext
<1>7. CASE WakeDone
  <2>1. depth[curthd] = 0 => curthd \in Worker
    BY <1>0, <1>7 DEF WakeDone, ProgramPhase
  <2>2. depth[curthd] > 0 => GoTo("check")
    BY <1>7 DEF WakeDone, InInterrupt
  <2>3. depth[curthd] = 0 => GoTo("loop")
    BY <1>7 DEF WakeDone, InInterrupt
  <2>4. curthd \in Worker => curthd # Idle
    BY <1>c, KernelAssumption
  <2>5. FramesOK' /\ ChoicesOK'
    <3>1. sel' = sel
      BY <1>7 DEF WakeDone
    <3>2. CASE depth[curthd] = 0
      BY <2>1, <2>3, <2>4, <3>1, <3>2, GoToType, ChoicesKept DEF ProgramPhase
    <3>3. CASE depth[curthd] > 0
      BY <2>2, <3>1, <3>3, GoToType, ChoicesKept DEF IrqPhase
    <3> QED BY <1>b, <3>2, <3>3
  <2>6. DataOK'
    BY <1>a, <1>7 DEF WakeDone, Flags
  <2> QED BY <2>5, <2>6, TypePartsNext
<1>8. ASSUME NEW r \in Reader, ReaderStep(r) PROVE TypeOK'
  <2>1. KbdSem \in Sem /\ r \in Thread /\ r \in AnyThread /\ r # Idle /\ r \notin Worker
    BY <1>c, KernelAssumption
  <2>2. PICK phase \in {"work", "select", "loop"} : GoTo(phase)
    BY <1>8 DEF ReaderStep, ReadTakes, ReadBlocks, ReadReturns
  <2>3. curthd = r /\ depth[curthd] = 0 /\ sel' = sel
    BY <1>8 DEF ReaderStep, ReadTakes, ReadBlocks, ReadReturns, InProgram
  <2>4. FramesOK' /\ ChoicesOK'
    BY <2>1, <2>2, <2>3, GoToType, ChoicesKept DEF ProgramPhase
  <2>5. CASE ReadTakes(r)
    <3>1. sem' \in [Sem -> SemState]
      <4>1. sem[KbdSem].count - 1 \in Nat
        BY <2>1, <2>5 DEF ReadTakes, TypeOK, SemState
      <4>2. sem' = [sem EXCEPT ![KbdSem].count = sem[KbdSem].count - 1]
        BY <2>1, <2>5 DEF ReadTakes
      <4>3. sem \in [Sem -> SemState]
        BY DEF TypeOK
      <4> QED BY <2>1, <4>1, <4>2, <4>3, SetCount
    <3> QED BY <1>a, <2>4, <2>5, <3>1, TypePartsNext DEF ReadTakes
  <2>6. CASE ReadBlocks(r)
    <3>1. sem' \in [Sem -> SemState]
      BY <1>a, <2>1, <2>6, AddWaiterType DEF ReadBlocks
    <3>2. rq' \in [Prio -> Queue]
      BY <1>a, <2>1, <2>6, DequeueAt DEF ReadBlocks
    <3>3. status' \in [AnyThread -> Status]
      BY <1>a, <2>6 DEF ReadBlocks, Status
    <3> QED BY <1>a, <2>4, <2>6, <3>1, <3>2, <3>3, TypePartsNext DEF ReadBlocks
  <2>7. CASE ReadReturns(r)
    BY <1>a, <2>4, <2>7, TypePartsNext DEF ReadReturns
  <2> QED BY <1>8, <2>5, <2>6, <2>7 DEF ReaderStep
<1>9. CASE Select
  <2> DEFINE d == depth[curthd]
  <2>1. depth[curthd] = 0 => "switch" \in ProgramPhase(curthd)
    BY <1>0, <1>9 DEF Select, ProgramPhase
  <2>2. FramesOK'
    BY <1>9, <2>1, GoToType DEF Select, IrqPhase
  <2>3. /\ SelectThread(rq) \in AnyThread
        /\ SelectQueues(rq) \in [Prio -> Queue]
    BY <1>a, SelectAt
  <2>4. SelectThread(rq) # None
    BY <2>3, ThreadAssumption DEF AnyThread
  <2>5. /\ at' = [at EXCEPT ![curthd][d] = "switch"]
        /\ sel' = [sel EXCEPT ![curthd][d] = SelectThread(rq)]
    BY <1>9 DEF Select, GoTo
  <2>6. /\ sel \in [AnyThread -> [Level -> AnyThread \cup {None}]]
        /\ at \in [AnyThread -> [Level -> Phase]]
    BY <1>a DEF ChoicesOK, FramesOK
  <2>7. sel' \in [AnyThread -> [Level -> AnyThread \cup {None}]]
    BY <1>b, <2>3, <2>5, <2>6
  <2>8. ASSUME NEW t \in AnyThread, NEW e \in Level, at'[t][e] = "switch"
        PROVE  sel'[t][e] # None
    <3>1. CASE t = curthd /\ e = d
      BY <1>b, <2>4, <2>5, <2>6, <3>1
    <3>2. CASE t # curthd \/ e # d
      <4>1. at'[t][e] = at[t][e] /\ sel'[t][e] = sel[t][e]
        BY <1>b, <2>5, <2>6, <3>2
      <4> QED BY <1>a, <2>8, <4>1 DEF ChoicesOK
    <3> QED BY <3>1, <3>2
  <2>9. ChoicesOK'
    BY <2>7, <2>8 DEF ChoicesOK
  <2>10. DataOK'
    BY <1>a, <1>9, <2>3 DEF Select
  <2> QED BY <2>2, <2>9, <2>10, TypePartsNext
<1>10. CASE Switch
  <2> DEFINE next == sel[curthd][depth[curthd]]
  <2>1. next \in AnyThread
    <3>1. at[curthd][depth[curthd]] = "switch"
      BY <1>10 DEF Switch, Top
    <3> QED BY <1>a, <1>b, <3>1 DEF ChoicesOK
  <2>2. depth[curthd] = 0 => "loop" \in ProgramPhase(curthd)
    BY <1>0, <1>10 DEF Switch, ProgramPhase
  <2>3. /\ depth[curthd] = 0 => GoTo("loop")
        /\ depth[curthd] > 0 => GoTo("exit")
        /\ sel' = [sel EXCEPT ![curthd][depth[curthd]] = None]
    BY <1>10 DEF Switch, InInterrupt
  <2>4. FramesOK' /\ ChoicesOK'
    <3>1. CASE depth[curthd] = 0
      BY <2>2, <2>3, <3>1, GoToType, ChoicesKept
    <3>2. CASE depth[curthd] > 0
      BY <2>3, <3>2, GoToType, ChoicesKept DEF IrqPhase
    <3> QED BY <1>b, <3>1, <3>2
  <2>5. Started(next) \in [AnyThread -> Status]
    BY <1>a, StartedType
  <2>6. DataOK'
    BY <1>a, <1>10, <2>1, <2>5 DEF Switch
  <2> QED BY <2>4, <2>6, TypePartsNext
<1>11. CASE BootDone
  <2>1. First \in Sem /\ Idle \in AnyThread
    BY KernelAssumption DEF AnyThread
  <2>2. sem' \in [Sem -> SemState]
    <3>1. sem[First].count + 1 \in Nat
      BY <2>1 DEF TypeOK, SemState
    <3>2. sem' = [sem EXCEPT ![First].count = sem[First].count + 1]
      BY <1>11 DEF BootDone
    <3>3. sem \in [Sem -> SemState]
      BY DEF TypeOK
    <3> QED BY <2>1, <3>1, <3>2, <3>3, SetCount
  <2>3. status' \in [AnyThread -> Status]
    BY <1>a, <1>11 DEF BootDone, Status
  <2>4. DataOK'
    BY <1>a, <1>11, <2>2, <2>3 DEF BootDone, Flags
  <2>5. curthd = Idle /\ depth[curthd] = 0
    BY <1>11 DEF BootDone, BootOK
  <2>6. FramesOK' /\ ChoicesOK'
    BY <1>11, <2>5, GoToType, ChoicesKept DEF BootDone, ProgramPhase
  <2> QED BY <2>4, <2>6, TypePartsNext
<1>12. CASE TimerIrq
  BY <1>12, InterruptType DEF TimerIrq
<1>13. CASE KbdIrq
  BY <1>13, InterruptType DEF KbdIrq
<1>14. CASE TimerHandler
  <2>1. depth[curthd] > 0
    BY <1>b, <1>0, <1>14 DEF TimerHandler, ProgramPhase, AnyThread
  <2>2. FramesOK' /\ ChoicesOK'
    BY <1>14, <2>1, GoToType, ChoicesKept DEF TimerHandler, IrqPhase
  <2>3. tick' \in [AnyThread -> 0 .. RunTick]
    BY <1>a, <1>b, <1>14, KernelAssumption DEF TimerHandler
  <2>4. DataOK'
    BY <1>a, <1>14, <2>3 DEF TimerHandler, Flags
  <2> QED BY <2>2, <2>4, TypePartsNext
<1>15. CASE KbdHandler
  <2>1. depth[curthd] > 0
    BY <1>b, <1>0, <1>15 DEF KbdHandler, ProgramPhase, AnyThread
  <2>2. FramesOK' /\ ChoicesOK'
    BY <1>15, <2>1, GoToType, ChoicesKept DEF KbdHandler, IrqPhase
  <2>3. sem' \in [Sem -> SemState]
    <3>1. KbdSem \in Sem /\ sem[KbdSem].count + 1 \in Nat
      BY KernelAssumption DEF TypeOK, SemState
    <3>2. sem' = [sem EXCEPT ![KbdSem].count = sem[KbdSem].count + 1]
      BY <1>15 DEF KbdHandler
    <3>3. sem \in [Sem -> SemState]
      BY DEF TypeOK
    <3> QED BY <3>1, <3>2, <3>3, SetCount
  <2>4. DataOK'
    BY <1>a, <1>15, <2>3 DEF KbdHandler
  <2> QED BY <2>2, <2>4, TypePartsNext
<1>19. CASE KbdReturns
  <2>1. depth[curthd] > 0
    BY <1>b, <1>0, <1>19 DEF KbdReturns, ProgramPhase, AnyThread
  <2>2. FramesOK' /\ ChoicesOK'
    BY <1>19, <2>1, GoToType, ChoicesKept DEF KbdReturns, IrqPhase
  <2>3. DataOK'
    BY <1>a, <1>19 DEF KbdReturns
  <2> QED BY <2>2, <2>3, TypePartsNext
<1>16. CASE ScheduleCheck
  <2>1. depth[curthd] > 0
    BY <1>b, <1>0, <1>16 DEF ScheduleCheck, ProgramPhase, AnyThread
  <2>2. PICK phase \in {"select", "exit"} : GoTo(phase)
    BY <1>16 DEF ScheduleCheck
  <2>3. FramesOK' /\ ChoicesOK'
    BY <1>16, <2>1, <2>2, GoToType, ChoicesKept DEF ScheduleCheck, IrqPhase
  <2>4. DataOK'
    BY <1>a, <1>16 DEF ScheduleCheck, Flags
  <2> QED BY <2>3, <2>4, TypePartsNext
<1>17. CASE IrqExit
  <2>1. depth[curthd] > 0
    BY <1>b, <1>0, <1>17 DEF IrqExit, ProgramPhase, AnyThread
  <2>2. FramesOK' /\ ChoicesOK'
    BY <1>17, <2>1, GoToType, ChoicesKept DEF IrqExit
  <2>3. depth[curthd] - 1 \in Level
    BY <1>b, <2>1, KernelAssumption DEF Level
  <2>4. DataOK'
    BY <1>a, <1>b, <1>17, <2>3 DEF IrqExit
  <2> QED BY <2>2, <2>4, TypePartsNext
<1>18. CASE UNCHANGED vars
  BY <1>18 DEF vars, TypeOK, ProgramPhase
<1> QED BY <1>1, <1>3, <1>4, <1>5, <1>6, <1>7, <1>8, <1>9, <1>10, <1>11, <1>12,
           <1>13, <1>14, <1>15, <1>19, <1>16, <1>17, <1>18
        DEF Next, Boot, WorkerStep, Scheduler, InterruptStep

\* The type of the state, for every set of threads, every priority and any
\* nesting of interrupts: in particular the counters stay within their width,
\* and no frame is where its kind of frame cannot be.
THEOREM TypeCorrect == Spec => []TypeOK
<1>1. Init => TypeOK /\ BootOK
  BY TypeInit, BootInit
<1>2. TypeOK /\ BootOK /\ [Next]_vars => TypeOK' /\ BootOK'
  BY TypeStep, BootStep
<1> QED BY <1>1, <1>2, PTL DEF Spec

-----------------------------------------------------------------------------
\* The threads and semaphores.

\* What a step does to the token: nothing, ...
Keeps ==
  /\ \A w \in Worker : at'[w][0] = "work" <=> at[w][0] = "work"
  /\ \A s \in Sem \ {KbdSem} : sem'[s].count = sem[s].count
  /\ Booting' <=> Booting

\* ... the first semaphore gets it, ...
Starts ==
  /\ Booting /\ ~ Booting'
  /\ \A w \in Worker : at'[w][0] = "work" <=> at[w][0] = "work"
  /\ sem'[First].count = sem[First].count + 1
  /\ \A s \in Sem \ {KbdSem, First} : sem'[s].count = sem[s].count

\* ... a worker takes it from its semaphore ...
Takes(w) ==
  /\ Booting' <=> Booting
  /\ at'[w][0] = "work"
  /\ \A v \in Worker \ {w} : at'[v][0] = "work" <=> at[v][0] = "work"
  /\ sem[In[w]].count >= 1 /\ sem'[In[w]].count = sem[In[w]].count - 1
  /\ \A s \in Sem \ {KbdSem, In[w]} : sem'[s].count = sem[s].count

\* ... or puts it into the other one.
Puts(w) ==
  /\ Booting' <=> Booting
  /\ at[w][0] = "work" /\ at'[w][0] # "work"
  /\ \A v \in Worker \ {w} : at'[v][0] = "work" <=> at[v][0] = "work"
  /\ sem'[Out[w]].count = sem[Out[w]].count + 1
  /\ \A s \in Sem \ {KbdSem, Out[w]} : sem'[s].count = sem[s].count

\* A frame that moves is the program of a worker, or it matters to no worker.
LEMMA GoToProgram ==
  ASSUME TypeOK, NEW phase, GoTo(phase)
  PROVE  /\ \A t \in AnyThread \ {curthd} : at'[t][0] = at[t][0]
         /\ depth[curthd] = 0 => at'[curthd][0] = phase /\ at[curthd][0] = Top
         /\ depth[curthd] > 0 => at'[curthd][0] = at[curthd][0]
<1>1. /\ curthd \in AnyThread /\ depth[curthd] \in Level /\ depth[curthd] \in Nat
      /\ 0 \in Level /\ at \in [AnyThread -> [Level -> Phase]]
  BY KernelAssumption DEF TypeOK, Level
<1> QED BY <1>1 DEF GoTo, Top

LEMMA QuietGoTo ==
  ASSUME TypeOK, NEW phase, GoTo(phase), phase # "boot", Top # "boot",
         curthd \in Worker /\ depth[curthd] = 0 => phase # "work" /\ Top # "work"
  PROVE  /\ \A w \in Worker : at'[w][0] = "work" <=> at[w][0] = "work"
         /\ Booting' <=> Booting
<1>1. \A w \in Worker : w \in AnyThread
  BY KernelAssumption DEF AnyThread
<1>2. Idle \in AnyThread /\ depth[curthd] \in Nat
  BY KernelAssumption DEF AnyThread, TypeOK, Level
<1> QED BY <1>1, <1>2, GoToProgram DEF Booting

LEMMA AddWaiterCount ==
  ASSUME sem \in [Sem -> SemState], NEW t \in Thread, NEW s \in Sem
  PROVE  \A r \in Sem : AddWaiter(t, s)[r].count = sem[r].count
BY DEF AddWaiter, SemState

\* Every step does one of the four.
LEMMA TokenSteps ==
  ASSUME TypeOK, BootOK, [Next]_vars
  PROVE  Keeps \/ Starts \/ \E w \in Worker : Takes(w) \/ Puts(w)
<1>a. /\ sem \in [Sem -> SemState] /\ depth[curthd] \in Nat /\ curthd \in AnyThread
      /\ First \in Sem /\ KbdSem \in Sem /\ First # KbdSem
  BY KernelAssumption DEF TypeOK, Level
<1>b. depth[curthd] = 0 => Top \in ProgramPhase(curthd)
  BY <1>a DEF TypeOK, Top
<1>c. \A w \in Worker : /\ w # Idle /\ w \in Thread /\ w \in AnyThread /\ w \notin Reader
                        /\ In[w] \in Sem \ {KbdSem} /\ Out[w] \in Sem \ {KbdSem}
  BY KernelAssumption, ThreadAssumption DEF AnyThread
<1>d. \A r \in Reader : r # Idle /\ r \in Thread /\ r \notin Worker
  BY KernelAssumption, ThreadAssumption
<1>e. Top \in {"select", "switch", "timer", "kbd", "check", "exit"} =>
        curthd \notin Worker \/ depth[curthd] > 0
  BY <1>a, <1>b, <1>c DEF ProgramPhase
<1>1. ASSUME NEW t \in Thread, Spawn(t) PROVE Keeps
  BY <1>1 DEF Spawn, Keeps, Booting
<1>2. CASE BootDone
  <2>1. curthd = Idle /\ depth[curthd] = 0
    BY <1>2 DEF BootDone, BootOK
  <2>2. GoTo("idle") /\ sem' = [sem EXCEPT ![First].count = sem[First].count + 1]
    BY <1>2 DEF BootDone
  <2>3. /\ at'[Idle][0] = "idle"
        /\ \A w \in Worker : at'[w][0] = "work" <=> at[w][0] = "work"
    BY <1>c, <2>1, <2>2, GoToProgram
  <2>4. sem[First].count + 1 \in Nat
    BY <1>a DEF SemState
  <2>5. /\ sem'[First].count = sem[First].count + 1
        /\ \A s \in Sem \ {First} : sem'[s] = sem[s]
    BY <1>a, <2>2, <2>4, SetCount
  <2> QED BY <1>2, <2>3, <2>5 DEF Starts, BootDone, Booting
<1>3. ASSUME NEW w \in Worker, SemDownTakes(w) PROVE Takes(w)
  <2>1. curthd = w /\ depth[w] = 0 /\ GoTo("work") /\ sem[In[w]].count >= 1
    BY <1>3 DEF SemDownTakes, InProgram
  <2>2. /\ at'[w][0] = "work"
        /\ \A t \in AnyThread \ {w} : at'[t][0] = at[t][0]
    BY <2>1, GoToProgram
  <2>3. sem' = [sem EXCEPT ![In[w]].count = sem[In[w]].count - 1]
    BY <1>3 DEF SemDownTakes
  <2>4. sem[In[w]].count - 1 \in Nat
    BY <1>a, <1>c, <2>1 DEF SemState
  <2>5. /\ sem'[In[w]].count = sem[In[w]].count - 1
        /\ \A s \in Sem \ {In[w]} : sem'[s] = sem[s]
    BY <1>a, <1>c, <2>3, <2>4, SetCount
  <2> QED BY <1>c, <2>1, <2>2, <2>5 DEF Takes, Booting, AnyThread
<1>4. ASSUME NEW w \in Worker, SemDownBlocks(w) PROVE Keeps
  <2>1. GoTo("retry") /\ Top \in {"loop", "retry"} /\ sem' = AddWaiter(w, In[w])
    BY <1>4 DEF SemDownBlocks
  <2> QED BY <1>a, <1>c, <2>1, QuietGoTo, AddWaiterCount DEF Keeps
<1>5. ASSUME NEW w \in Worker, SemUp(w) PROVE Puts(w)
  <2>1. curthd = w /\ depth[w] = 0 /\ GoTo("allup") /\ Top = "work"
    BY <1>5 DEF SemUp, InProgram
  <2>2. /\ at[w][0] = "work" /\ at'[w][0] = "allup"
        /\ \A t \in AnyThread \ {w} : at'[t][0] = at[t][0]
    BY <2>1, GoToProgram
  <2>3. sem' = [sem EXCEPT ![Out[w]].count = sem[Out[w]].count + 1]
    BY <1>5 DEF SemUp
  <2>4. sem[Out[w]].count + 1 \in Nat
    BY <1>a, <1>c, <2>1 DEF SemState
  <2>5. /\ sem'[Out[w]].count = sem[Out[w]].count + 1
        /\ \A s \in Sem \ {Out[w]} : sem'[s] = sem[s]
    BY <1>a, <1>c, <2>3, <2>4, SetCount
  <2> QED BY <1>c, <2>1, <2>2, <2>5 DEF Puts, Booting, AnyThread
<1>6. CASE WakeOne
  <2>1. Raised \in Sem
    BY <1>6, RaisedType DEF WakeOne
  <2>2. sem'[Raised].count = sem[Raised].count /\ \A s \in Sem \ {Raised} : sem'[s] = sem[s]
    BY <1>a, <1>6, <2>1 DEF WakeOne
  <2> QED BY <1>6, <2>2 DEF WakeOne, Keeps, Booting
<1>7. CASE WakeDone
  BY <1>7, QuietGoTo DEF WakeDone, Keeps
<1>8. ASSUME NEW r \in Reader, ReaderStep(r) PROVE Keeps
  <2>1. curthd = r /\ r \notin Worker /\ Top # "boot"
    BY <1>d, <1>8 DEF ReaderStep, ReadTakes, ReadBlocks, ReadReturns, InProgram
  <2>2. PICK phase \in {"work", "select", "loop"} : GoTo(phase)
    BY <1>8 DEF ReaderStep, ReadTakes, ReadBlocks, ReadReturns
  <2>3. CASE ReadTakes(r)
    BY <1>a, <2>1, <2>2, <2>3, QuietGoTo DEF Keeps, ReadTakes
  <2>4. CASE ReadBlocks(r)
    BY <1>a, <1>d, <2>1, <2>2, <2>4, QuietGoTo, AddWaiterCount DEF Keeps, ReadBlocks
  <2>5. CASE ReadReturns(r)
    BY <2>1, <2>2, <2>5, QuietGoTo DEF Keeps, ReadReturns
  <2> QED BY <1>8, <2>3, <2>4, <2>5 DEF ReaderStep
<1>9. CASE Select
  BY <1>e, <1>9, QuietGoTo DEF Select, Keeps
<1>10. CASE Switch
  BY <1>e, <1>10, QuietGoTo DEF Switch, Keeps
<1>11. ASSUME NEW phase, Interrupt(phase) PROVE Keeps
  <2>1. depth[curthd] + 1 # 0 /\ 0 \in Level /\ at \in [AnyThread -> [Level -> Phase]]
    BY <1>a, KernelAssumption DEF TypeOK, Level
  <2>2. \A t \in AnyThread : at'[t][0] = at[t][0]
    BY <2>1, <1>11 DEF Interrupt
  <2> QED BY <1>c, <1>11, <2>2 DEF Interrupt, Keeps, Booting, AnyThread
<1>12. CASE TimerHandler \/ KbdReturns
  BY <1>e, <1>12, QuietGoTo DEF TimerHandler, KbdReturns, Keeps
<1>13. CASE KbdHandler
  <2>1. \A s \in Sem \ {KbdSem} : sem'[s] = sem[s]
    BY <1>a, <1>13 DEF KbdHandler
  <2> QED BY <1>e, <1>13, <2>1, QuietGoTo DEF KbdHandler, Keeps
<1>14. CASE ScheduleCheck
  BY <1>e, <1>14, QuietGoTo DEF ScheduleCheck, Keeps
<1>15. CASE IrqExit
  BY <1>e, <1>15, QuietGoTo DEF IrqExit, Keeps
<1>16. CASE UNCHANGED vars
  BY <1>16 DEF vars, Keeps, Booting
<1> QED BY <1>1, <1>2, <1>3, <1>4, <1>5, <1>6, <1>7, <1>8, <1>9, <1>10, <1>11,
           <1>12, <1>13, <1>14, <1>15, <1>16
        DEF Next, Boot, WorkerStep, Scheduler, InterruptStep, TimerIrq, KbdIrq
-----------------------------------------------------------------------------
\* A worker or a semaphore, never both.
LEMMA HolderKinds ==
  ASSUME NEW h
  PROVE  /\ h \in Holders <=> \/ h \in Worker /\ at[h][0] = "work"
                              \/ h \in Sem \ {KbdSem} /\ sem[h].count > 0
         /\ ~ (h \in Worker /\ h \in Sem)
         /\ ~ (h = None /\ (h \in Worker \/ h \in Sem))
BY KernelAssumption, ThreadAssumption DEF Holders, AnyThread

LEMMA HoldersNext ==
  ASSUME NEW h
  PROVE  h \in Holders' <=> \/ h \in Worker /\ at'[h][0] = "work"
                            \/ h \in Sem \ {KbdSem} /\ sem'[h].count > 0
BY DEF Holders

\* The token goes with the step.
LEMMA TokenMove ==
  ASSUME TypeOK, OneToken
  PROVE  /\ Keeps => OneToken' /\ Holders' = Holders
         /\ Starts => OneToken' /\ Holders = {} /\ Holders' = {First}
         /\ \A w \in Worker :
              /\ Takes(w) => OneToken' /\ Holders = {In[w]} /\ Holders' = {w}
              /\ Puts(w) => OneToken' /\ Holders = {w} /\ Holders' = {Out[w]}
<1>a. /\ \A s \in Sem : sem[s].count \in Nat
      /\ First \in Sem \ {KbdSem}
      /\ \A w \in Worker : In[w] \in Sem \ {KbdSem} /\ Out[w] \in Sem \ {KbdSem}
  BY KernelAssumption DEF TypeOK, SemState
<1>b. \A s \in Sem \ {KbdSem} : sem[s].count <= 1
  BY DEF OneToken
<1>c. \A h : h \in Holders => Holders = {h} /\ ~ Booting
  BY DEF OneToken
<1>1. ASSUME Keeps PROVE OneToken' /\ Holders' = Holders
  <2>1. Holders' = Holders
    BY <1>1, HolderKinds, HoldersNext DEF Keeps
  <2> QED BY <1>1, <2>1 DEF Keeps, OneToken
<1>2. ASSUME Starts PROVE OneToken' /\ Holders = {} /\ Holders' = {First}
  <2>1. Holders = {}
    BY <1>2 DEF Starts, OneToken
  <2>2. /\ \A w \in Worker : at[w][0] # "work"
        /\ \A s \in Sem \ {KbdSem} : sem[s].count = 0
    BY <1>a, <2>1, HolderKinds
  <2>3. /\ \A w \in Worker : at'[w][0] # "work"
        /\ sem'[First].count = 1
        /\ \A s \in Sem \ {KbdSem, First} : sem'[s].count = 0
    BY <1>2, <1>a, <2>2 DEF Starts
  <2>4. Holders' = {First}
    BY <1>a, <2>3, HolderKinds, HoldersNext
  <2>5. ~ Booting'
    BY <1>2 DEF Starts
  <2>6. \A s \in Sem \ {KbdSem} : sem'[s].count <= 1
    BY <2>3
  <2> QED BY <2>1, <2>4, <2>5, <2>6 DEF OneToken
<1>3. ASSUME NEW w \in Worker, Takes(w)
      PROVE  OneToken' /\ Holders = {In[w]} /\ Holders' = {w}
  <2>1. In[w] \in Holders
    BY <1>a, <1>3, HolderKinds DEF Takes
  <2>2. Holders = {In[w]} /\ ~ Booting
    BY <1>c, <2>1
  <2>3. /\ \A v \in Worker : at[v][0] # "work"
        /\ \A s \in Sem \ {KbdSem, In[w]} : sem[s].count = 0
        /\ sem[In[w]].count = 1
    BY <1>a, <1>b, <1>3, <2>2, HolderKinds DEF Takes
  <2>4. /\ \A v \in Worker : at'[v][0] = "work" <=> v = w
        /\ \A s \in Sem \ {KbdSem} : sem'[s].count = 0
    BY <1>a, <1>3, <2>3 DEF Takes
  <2>5. Holders' = {w}
    BY <2>4, HolderKinds, HoldersNext
  <2> QED BY <1>3, <2>2, <2>4, <2>5 DEF Takes, OneToken
<1>4. ASSUME NEW w \in Worker, Puts(w)
      PROVE  OneToken' /\ Holders = {w} /\ Holders' = {Out[w]}
  <2>1. w \in Holders
    BY <1>4, HolderKinds DEF Puts
  <2>2. Holders = {w} /\ ~ Booting
    BY <1>c, <2>1
  <2>3. /\ \A v \in Worker \ {w} : at[v][0] # "work"
        /\ \A s \in Sem \ {KbdSem} : sem[s].count = 0
    BY <1>a, <1>4, <2>2, HolderKinds
  <2>4. /\ \A v \in Worker : at'[v][0] # "work"
        /\ sem'[Out[w]].count = 1
        /\ \A s \in Sem \ {KbdSem, Out[w]} : sem'[s].count = 0
    BY <1>a, <1>4, <2>3 DEF Puts
  <2>5. Holders' = {Out[w]}
    BY <1>a, <2>4, HolderKinds, HoldersNext
  <2>6. \A s \in Sem \ {KbdSem} : sem'[s].count <= 1
    BY <2>4
  <2> QED BY <1>4, <2>2, <2>5, <2>6 DEF Puts, OneToken
<1> QED BY <1>1, <1>2, <1>3, <1>4

LEMMA TokenInit == Init => OneToken /\ Holders = {}
<1> SUFFICES ASSUME Init PROVE OneToken /\ Holders = {}
  OBVIOUS
<1>1. /\ \A s \in Sem : sem[s].count = 0
      /\ \A w \in Worker : at[w][0] # "work"
      /\ Booting
  BY KernelAssumption DEF Init, Booting, AnyThread, Level
<1>2. Holders = {}
  BY <1>1 DEF Holders
<1> QED BY <1>1, <1>2 DEF OneToken

\* There is one token, for every number of workers and semaphores connected in
\* any way, any priorities and any nesting of interrupts: no sem_down succeeds
\* twice on one sem_up.
THEOREM TokenUnique == Spec => []OneToken
<1>1. Init => TypeOK /\ BootOK /\ OneToken
  BY TypeInit, BootInit, TokenInit
<1>2. TypeOK /\ BootOK /\ OneToken /\ [Next]_vars => TypeOK' /\ BootOK' /\ OneToken'
  BY TypeStep, BootStep, TokenSteps, TokenMove
<1> QED BY <1>1, <1>2, PTL DEF Spec

\* Where the token is, of a state with one holder.
LEMMA TokenOf ==
  /\ Holders = {} => Token = None
  /\ \A h : Holders = {h} => Token = h
BY DEF Token

LEMMA TokenOfNext ==
  /\ Holders' = {} => Token' = None
  /\ \A h : Holders' = {h} => Token' = h
BY DEF Token

\* A step of the kernel is a step of the token ring or leaves the token alone.
LEMMA RingStep ==
  ASSUME TypeOK, BootOK, OneToken, [Next]_vars
  PROVE  [Ring!Next]_Token
<1>1. CASE Keeps
  <2>1. Holders' = Holders
    BY <1>1, TokenMove
  <2> QED BY <2>1 DEF Token
<1>2. CASE Starts
  <2>1. Token = None /\ Token' = First
    BY <1>2, TokenMove, TokenOf, TokenOfNext
  <2> QED BY <2>1 DEF Ring!Next, Ring!Start
<1>3. ASSUME NEW w \in Worker, Takes(w) PROVE Ring!Next
  <2>1. Token = In[w] /\ Token' = w
    BY <1>3, TokenMove, TokenOf, TokenOfNext
  <2> QED BY <2>1 DEF Ring!Next, Ring!Take
<1>4. ASSUME NEW w \in Worker, Puts(w) PROVE Ring!Next
  <2>1. Token = w /\ Token' = Out[w]
    BY <1>4, TokenMove, TokenOf, TokenOfNext
  <2> QED BY <2>1 DEF Ring!Next, Ring!Put
<1> QED BY <1>1, <1>2, <1>3, <1>4, TokenSteps

\* The kernel implements the token ring: whatever is interrupted where, the
\* token goes from a semaphore to a worker that waits on it and from a worker
\* to the semaphore it raises.
THEOREM KernelImplementsRing == Spec => TokenPasses
<1>1. Init => Ring!Init
  <2>1. Init => Token = None
    BY TokenInit, TokenOf
  <2> QED BY <2>1 DEF Ring!Init
<1>2. TypeOK /\ BootOK /\ OneToken /\ [Next]_vars => [Ring!Next]_Token
  BY RingStep
<1>3. Spec => [](TypeOK /\ BootOK /\ OneToken)
  <2>1. Init => TypeOK /\ BootOK /\ OneToken
    BY TypeInit, BootInit, TokenInit
  <2>2. TypeOK /\ BootOK /\ OneToken /\ [Next]_vars => TypeOK' /\ BootOK' /\ OneToken'
    BY TypeStep, BootStep, TokenSteps, TokenMove
  <2> QED BY <2>1, <2>2, PTL DEF Spec
<1> QED BY <1>1, <1>2, <1>3, PTL DEF Spec, TokenPasses, Ring!Spec
-----------------------------------------------------------------------------
\* While nobody is in sem_up, a semaphore has a sleeper only if it is at zero.
LEMMA AllAsleep ==
  ASSUME NoLostWakeup, Top # "allup"
  PROVE  \A s \in Sem : sem[s].count > 0 => sem[s].waits = <<>>
BY DEF NoLostWakeup

\* schedule_wait finds nothing to unlink on an empty wait list.
LEMMA AddWaiterLists ==
  ASSUME sem \in [Sem -> SemState], NEW t \in Thread, NEW s \in Sem
  PROVE  \A r \in Sem \ {s} : /\ AddWaiter(t, s)[r].count = sem[r].count
                              /\ sem[r].waits = <<>> => AddWaiter(t, s)[r].waits = <<>>
<1>1. RemoveFirst(<<>>, t) = <<>>
  BY DEF RemoveFirst
<1> QED BY <1>1 DEF AddWaiter, SemState

LEMMA WakeupInit == Init => NoLostWakeup
BY DEF Init, NoLostWakeup

\* The frame in sem_up stays where it is while it wakes threads.
LEMMA WakeupStep ==
  ASSUME TypeOK, BootOK, NoLostWakeup, [Next]_vars
  PROVE  NoLostWakeup'
<1>a. /\ sem \in [Sem -> SemState] /\ curthd \in AnyThread /\ depth[curthd] \in Level
      /\ at \in [AnyThread -> [Level -> Phase]] /\ First \in Sem /\ KbdSem \in Sem
      /\ \A s \in Sem : sem[s].count \in Nat
  BY KernelAssumption DEF TypeOK, SemState
<1>b. \A w \in Worker : w \in Thread /\ In[w] \in Sem /\ Out[w] \in Sem
  BY KernelAssumption
<1>1. ASSUME Top # "allup",
             \A s \in Sem : /\ sem'[s].count > 0 => sem[s].count > 0
                            /\ sem[s].waits = <<>> => sem'[s].waits = <<>>
      PROVE  NoLostWakeup'
  BY <1>1, AllAsleep DEF NoLostWakeup
<1>2. ASSUME Top # "allup", NEW t \in Thread, NEW s \in Sem,
             sem[s].count < 1, sem' = AddWaiter(t, s)
      PROVE  NoLostWakeup'
  <2>1. sem'[s].count = sem[s].count
    BY <1>a, <1>2, AddWaiterCount
  <2>2. ASSUME NEW r \in Sem, sem'[r].count > 0
        PROVE  sem'[r].waits = <<>>
    <3>1. r # s
      BY <1>a, <1>2, <2>1, <2>2
    <3> QED BY <1>a, <1>2, <2>2, <3>1, AllAsleep, AddWaiterLists
  <2> QED BY <2>2 DEF NoLostWakeup
<1>3. ASSUME Top # "allup", NEW s \in Sem, GoTo("allup"), Raised = s,
             curthd' = curthd, depth' = depth, \A r \in Sem \ {s} : sem'[r] = sem[r]
      PROVE  NoLostWakeup'
  <2>1. Top' = "allup" /\ Raised' = s
    BY <1>a, <1>3 DEF GoTo, Top, Raised, InInterrupt
  <2> QED BY <1>3, <2>1, AllAsleep DEF NoLostWakeup
<1>4. ASSUME NEW s \in Sem, NEW n \in Nat, sem' = [sem EXCEPT ![s].count = n]
      PROVE  /\ \A r \in Sem \ {s} : sem'[r] = sem[r]
             /\ \A r \in Sem : sem'[r].waits = sem[r].waits
             /\ sem'[s].count = n
  BY <1>a, <1>4, SetCount
<1>5. CASE BootDone
  <2>1. \A s \in Sem : sem[s].waits = <<>>
    BY <1>5 DEF BootDone, BootOK
  <2>2. sem[First].count + 1 \in Nat
    BY <1>a
  <2>3. \A s \in Sem : sem'[s].waits = <<>>
    BY <1>a, <1>4, <1>5, <2>1, <2>2 DEF BootDone
  <2> QED BY <2>3 DEF NoLostWakeup
<1>6. ASSUME NEW w \in Worker, SemDownTakes(w) PROVE NoLostWakeup'
  <2>1. sem[In[w]].count - 1 \in Nat /\ sem[In[w]].count > 0
    BY <1>a, <1>b, <1>6 DEF SemDownTakes
  <2>2. sem' = [sem EXCEPT ![In[w]].count = sem[In[w]].count - 1]
    BY <1>6 DEF SemDownTakes
  <2>3. \A s \in Sem : /\ sem'[s].count > 0 => sem[s].count > 0
                       /\ sem[s].waits = <<>> => sem'[s].waits = <<>>
    BY <1>b, <1>4, <2>1, <2>2
  <2> QED BY <1>1, <1>6, <2>3 DEF SemDownTakes
<1>7. ASSUME NEW w \in Worker, SemDownBlocks(w) PROVE NoLostWakeup'
  BY <1>2, <1>b, <1>7 DEF SemDownBlocks
<1>8. ASSUME NEW w \in Worker, SemUp(w) PROVE NoLostWakeup'
  <2>1. sem[Out[w]].count + 1 \in Nat
    BY <1>a, <1>b
  <2>2. sem' = [sem EXCEPT ![Out[w]].count = sem[Out[w]].count + 1]
    BY <1>8 DEF SemUp
  <2>3. \A r \in Sem \ {Out[w]} : sem'[r] = sem[r]
    BY <1>b, <1>4, <2>1, <2>2
  <2>4. Raised = Out[w] /\ Top # "allup" /\ GoTo("allup") /\ curthd' = curthd
        /\ depth' = depth
    BY <1>8 DEF SemUp, InProgram, Raised, InInterrupt
  <2> QED BY <1>3, <1>b, <2>3, <2>4
<1>9. CASE KbdHandler
  <2>1. sem[KbdSem].count + 1 \in Nat
    BY <1>a
  <2>2. sem' = [sem EXCEPT ![KbdSem].count = sem[KbdSem].count + 1]
    BY <1>9 DEF KbdHandler
  <2>3. \A r \in Sem \ {KbdSem} : sem'[r] = sem[r]
    BY <1>a, <1>4, <2>1, <2>2
  <2>4. depth[curthd] # 0
    BY <1>9, <1>a DEF KbdHandler, TypeOK, Top, ProgramPhase
  <2>5. depth[curthd] > 0
    BY <1>a, <2>4, KernelAssumption DEF Level
  <2>6. Raised = KbdSem /\ Top # "allup" /\ GoTo("allup") /\ curthd' = curthd
        /\ depth' = depth
    BY <1>9, <2>5 DEF KbdHandler, Raised, InInterrupt
  <2> QED BY <1>3, <1>a, <2>3, <2>6
<1>10. CASE WakeOne
  <2>1. Raised \in Sem
    BY <1>10, RaisedType DEF WakeOne
  <2>2. \A s \in Sem \ {Raised} : sem'[s] = sem[s]
    BY <1>a, <1>10 DEF WakeOne
  <2>3. Top' = "allup" /\ Raised' = Raised
    BY <1>10 DEF WakeOne, Top, Raised, InInterrupt
  <2> QED BY <1>10, <2>2, <2>3 DEF NoLostWakeup, WakeOne
<1>11. CASE WakeDone
  BY <1>11 DEF WakeDone, NoLostWakeup
<1>12. ASSUME NEW r \in Reader, ReaderStep(r) PROVE NoLostWakeup'
  <2>1. Top # "allup" /\ r \in Thread
    BY <1>12, KernelAssumption DEF ReaderStep, ReadTakes, ReadBlocks, ReadReturns
  <2>2. CASE ReadTakes(r)
    <3>1. sem[KbdSem].count - 1 \in Nat /\ sem[KbdSem].count > 0
      BY <1>a, <2>2 DEF ReadTakes
    <3>2. sem' = [sem EXCEPT ![KbdSem].count = sem[KbdSem].count - 1]
      BY <2>2 DEF ReadTakes
    <3>3. \A s \in Sem : /\ sem'[s].count > 0 => sem[s].count > 0
                         /\ sem[s].waits = <<>> => sem'[s].waits = <<>>
      BY <1>a, <1>4, <3>1, <3>2
    <3> QED BY <1>1, <2>1, <3>3
  <2>3. CASE ReadBlocks(r)
    BY <1>2, <1>a, <2>1, <2>3 DEF ReadBlocks
  <2>4. CASE ReadReturns(r)
    BY <1>1, <2>1, <2>4 DEF ReadReturns
  <2> QED BY <1>12, <2>2, <2>3, <2>4 DEF ReaderStep
<1>13. ASSUME sem' = sem, Top # "allup" PROVE NoLostWakeup'
  BY <1>1, <1>13
<1>14. ASSUME NEW t \in Thread, Spawn(t) PROVE NoLostWakeup'
  <2>1. Top = "boot"
    BY <1>14 DEF Spawn, BootOK, Booting, Top
  <2> QED BY <1>13, <1>14, <2>1 DEF Spawn
<1>15. ASSUME NEW phase, Interrupt(phase) PROVE NoLostWakeup'
  BY <1>13, <1>15 DEF Interrupt, InterruptsOn
<1>16. CASE Select \/ Switch \/ TimerHandler \/ KbdReturns \/ ScheduleCheck \/ IrqExit
  BY <1>13, <1>16 DEF Select, Switch, TimerHandler, KbdReturns, ScheduleCheck, IrqExit
<1>17. CASE UNCHANGED vars
  BY <1>17 DEF vars, NoLostWakeup, Top, Raised, InInterrupt
<1> QED BY <1>5, <1>6, <1>7, <1>8, <1>9, <1>10, <1>11, <1>12, <1>14, <1>15, <1>16,
           <1>17
        DEF Next, Boot, WorkerStep, Scheduler, InterruptStep, TimerIrq, KbdIrq

\* No sem_up is lost on a thread that is going to sleep, whoever interrupts
\* whom between the test of the count and the wait list.
THEOREM WakeupsKept == Spec => []NoLostWakeup
<1>1. Init => TypeOK /\ BootOK /\ NoLostWakeup
  BY TypeInit, BootInit, WakeupInit
<1>2. TypeOK /\ BootOK /\ NoLostWakeup /\ [Next]_vars =>
        TypeOK' /\ BootOK' /\ NoLostWakeup'
  BY TypeStep, BootStep, WakeupStep
<1> QED BY <1>1, <1>2, PTL DEF Spec
-----------------------------------------------------------------------------
(***************************************************************************)
(* Where threads are linked.                                               *)
(***************************************************************************)
\* The threads on a wait list, and on any of them.
OnWait(s) == ToSet(sem[s].waits)

Waiting == UNION {OnWait(s) : s \in Sem}

\* OnePlace but for the clause about boot.
Apart ==
  /\ Separate(rq)
  /\ \A s \in Sem : IsInjective(sem[s].waits)
  /\ \A s \in Sem : OnWait(s) \cap Queued(rq) = {}
  /\ \A s \in Sem : \A r \in Sem \ {s} : OnWait(s) \cap OnWait(r) = {}

LEMMA PlaceParts ==
  OnePlace <=> Apart /\ (~ Booting => Thread = Queued(rq) \cup Waiting)
BY DEF OnePlace, Apart, OnWait, Waiting

LEMMA PlacePartsNext ==
  Apart' /\ Thread = Queued(rq') \cup Waiting' => OnePlace'
BY DEF OnePlace, Apart, OnWait, Waiting

LEMMA InWaiting == \A x : x \in Waiting <=> \E s \in Sem : x \in OnWait(s)
BY DEF Waiting

LEMMA InWaitingNext == \A x : x \in Waiting' <=> \E s \in Sem : x \in OnWait(s)'
BY DEF Waiting

\* Nothing moves between the lists.
LEMMA PlaceKept ==
  ASSUME Apart, Thread = Queued(rq) \cup Waiting,
         Separate(rq'), Queued(rq') = Queued(rq),
         \A s \in Sem : sem'[s].waits = sem[s].waits
  PROVE  OnePlace'
<1>1. \A s \in Sem : OnWait(s)' = OnWait(s)
  BY DEF OnWait
<1>2. Waiting' = Waiting
  BY <1>1, InWaiting, InWaitingNext
<1>3. Apart'
  BY <1>1 DEF Apart
<1> QED BY <1>2, <1>3, PlacePartsNext

\* A thread goes from its queue, or from a wait list, to a wait list.
LEMMA PlaceWaits ==
  ASSUME Apart, Thread = Queued(rq) \cup Waiting,
         sem \in [Sem -> SemState], NEW t \in Thread, NEW s \in Sem,
         sem' = AddWaiter(t, s), Separate(rq'), Queued(rq') = Queued(rq) \ {t}
  PROVE  OnePlace'
<1>1. ASSUME NEW r \in Sem
      PROVE  /\ RemoveFirst(sem[r].waits, t) \in Seq(Thread)
             /\ IsInjective(RemoveFirst(sem[r].waits, t))
             /\ ToSet(RemoveFirst(sem[r].waits, t)) = OnWait(r) \ {t}
  <2>1. sem[r].waits \in Seq(Thread) /\ IsInjective(sem[r].waits)
    BY DEF Apart, SemState
  <2> QED BY <2>1, RemoveFirstProps DEF OnWait
<1>2. sem'[s].waits = Append(RemoveFirst(sem[s].waits, t), t)
  BY DEF AddWaiter
<1>3. IsInjective(sem'[s].waits) /\ OnWait(s)' = OnWait(s) \cup {t}
  <2>1. t \notin ToSet(RemoveFirst(sem[s].waits, t))
    BY <1>1
  <2>2. /\ IsInjective(Append(RemoveFirst(sem[s].waits, t), t))
        /\ ToSet(Append(RemoveFirst(sem[s].waits, t), t))
             = ToSet(RemoveFirst(sem[s].waits, t)) \cup {t}
    BY <1>1, <2>1, AppendProps
  <2> QED BY <1>1, <1>2, <2>2 DEF OnWait
<1>4. ASSUME NEW r \in Sem \ {s}
      PROVE  IsInjective(sem'[r].waits) /\ OnWait(r)' = OnWait(r) \ {t}
  <2>1. sem'[r].waits = RemoveFirst(sem[r].waits, t)
    BY DEF AddWaiter, SemState
  <2> QED BY <1>1, <2>1 DEF OnWait
<1>5. Apart'
  BY <1>3, <1>4 DEF Apart
<1>6. Waiting' = Waiting \cup {t}
  BY <1>3, <1>4, InWaiting, InWaitingNext
<1> QED BY <1>5, <1>6, PlacePartsNext

LEMMA PlaceInit == Init => OnePlace
<1> SUFFICES ASSUME Init PROVE OnePlace
  OBVIOUS
<1>1. \A p \in Prio : rq[p].threads = <<>> /\ rq[p].curthd = None
  BY DEF Init, EmptyQueues
<1>2. \A s \in Sem : sem[s].waits = <<>>
  BY DEF Init
<1>3. IsInjective(<<>>) /\ ToSet(<<>>) = {}
  BY DEF IsInjective, ToSet
<1>4. \A p \in Prio : On(rq[p]) = {}
  BY <1>1, <1>3 DEF On
<1>5. Booting
  BY KernelAssumption DEF Init, Booting, AnyThread, Level
<1> QED BY <1>1, <1>2, <1>3, <1>4, <1>5 DEF OnePlace, Separate

LEMMA PlaceStep ==
  ASSUME TypeOK, BootOK, OnePlace, [Next]_vars
  PROVE  OnePlace'
<1>a. /\ rq \in [Prio -> Queue] /\ sem \in [Sem -> SemState]
      /\ First \in Sem /\ KbdSem \in Sem
      /\ \A s \in Sem : sem[s].count \in Nat
  BY KernelAssumption DEF TypeOK, SemState
<1>b. \A w \in Worker : w \in Thread /\ In[w] \in Sem /\ Out[w] \in Sem
  BY KernelAssumption
<1>c. Apart /\ (Top # "boot" => Thread = Queued(rq) \cup Waiting)
  BY PlaceParts DEF BootOK, Booting, Top
<1>d. ASSUME NEW s \in Sem, NEW n \in Nat, sem' = [sem EXCEPT ![s].count = n]
      PROVE  \A r \in Sem : sem'[r].waits = sem[r].waits
  BY <1>a, <1>d, SetCount
<1>e. ASSUME rq' = rq, \A s \in Sem : sem'[s].waits = sem[s].waits, Top # "boot"
      PROVE  OnePlace'
  BY <1>c, <1>e, PlaceKept DEF Apart
<1>1. ASSUME NEW t \in Thread, Spawn(t) PROVE OnePlace'
  <2>1. t \notin Queued(rq) /\ rq' = Enqueue(rq, t) /\ UNCHANGED <<sem, at>>
    BY <1>1 DEF Spawn
  <2>2. Separate(rq')
    BY <1>a, <1>c, <2>1, EnqueueProps DEF Apart
  <2>3. \A s \in Sem : sem[s].waits = <<>>
    BY <1>1 DEF Spawn, BootOK
  <2>4. ToSet(<<>>) = {} /\ IsInjective(<<>>)
    BY DEF ToSet, IsInjective
  <2>5. Booting'
    BY <1>1, <2>1 DEF Spawn, Booting
  <2> QED BY <2>1, <2>2, <2>3, <2>4, <2>5 DEF OnePlace
<1>2. CASE BootDone
  <2>1. sem[First].count + 1 \in Nat /\ rq' = rq
    BY <1>a, <1>2 DEF BootDone
  <2>2. \A s \in Sem : sem'[s].waits = sem[s].waits
    BY <1>a, <1>d, <1>2, <2>1 DEF BootDone
  <2>3. Thread \subseteq Queued(rq)
    BY <1>2 DEF BootDone
  <2>4. \A x \in Waiting : x \in Thread
    BY <1>a, InWaiting, LenProperties, ElementOfSeq DEF OnWait, ToSet, SemState
  <2>5. \A x \in Queued(rq) : x \in Thread
    BY <1>a, OnType DEF Queued
  <2>6. Thread = Queued(rq) \cup Waiting
    BY <2>3, <2>4, <2>5
  <2> QED BY <1>c, <2>1, <2>2, <2>6, PlaceKept DEF Apart
<1>3. ASSUME NEW w \in Worker, SemDownTakes(w) PROVE OnePlace'
  <2>1. sem[In[w]].count - 1 \in Nat /\ rq' = rq /\ Top # "boot"
    BY <1>a, <1>b, <1>3 DEF SemDownTakes
  <2>2. \A s \in Sem : sem'[s].waits = sem[s].waits
    BY <1>b, <1>d, <1>3, <2>1 DEF SemDownTakes
  <2> QED BY <1>e, <2>1, <2>2
<1>4. ASSUME NEW w \in Worker, SemDownBlocks(w) PROVE OnePlace'
  <2> DEFINE q == Dequeue(rq, w)
  <2>1. Top # "boot" /\ sem' = AddWaiter(w, In[w]) /\ rq' = SelectQueues(q)
    BY <1>4 DEF SemDownBlocks
  <2>2. q \in [Prio -> Queue] /\ Separate(q) /\ Queued(q) = Queued(rq) \ {w}
    BY <1>a, <1>b, <1>c, DequeueAt, DequeueProps DEF Apart
  <2> HIDE DEF q
  <2>3. Separate(SelectQueues(q)) /\ Queued(SelectQueues(q)) = Queued(q)
    BY <2>2, SelectProps
  <2> QED BY <1>a, <1>b, <1>c, <2>1, <2>2, <2>3, PlaceWaits
<1>5. ASSUME NEW w \in Worker, SemUp(w) PROVE OnePlace'
  <2>1. sem[Out[w]].count + 1 \in Nat /\ rq' = rq /\ Top # "boot"
    BY <1>a, <1>b, <1>5 DEF SemUp
  <2>2. \A s \in Sem : sem'[s].waits = sem[s].waits
    BY <1>b, <1>d, <1>5, <2>1 DEF SemUp
  <2> QED BY <1>e, <2>1, <2>2
<1>6. CASE WakeOne
  <2>0. PICK x \in Sem : x = Raised
    BY <1>6, RaisedType DEF WakeOne
  <2> DEFINE l == sem[x].waits
             t == Head(l)
  <2>1. Top # "boot" /\ l # <<>> /\ rq' = Enqueue(rq, t)
    BY <1>6, <2>0 DEF WakeOne
  <2>2. l \in Seq(Thread) /\ IsInjective(l)
    BY <1>a, <1>c, <2>1 DEF Apart, SemState
  <2>3. /\ t \in Thread /\ t \in OnWait(x)
        /\ IsInjective(Tail(l)) /\ ToSet(Tail(l)) = OnWait(x) \ {t}
    BY <2>1, <2>2, TailProps DEF OnWait
  <2>4. /\ sem'[x].waits = Tail(l)
        /\ \A s \in Sem \ {x} : sem'[s] = sem[s]
    BY <1>a, <1>6, <2>0 DEF WakeOne
  <2> HIDE DEF l, t
  <2>5. /\ OnWait(x)' = OnWait(x) \ {t}
        /\ \A s \in Sem \ {x} : OnWait(s)' = OnWait(s)
    BY <2>3, <2>4 DEF OnWait
  <2>6. t \notin Queued(rq)
    BY <1>c, <2>1, <2>3 DEF Apart
  <2>7. Separate(rq') /\ Queued(rq') = Queued(rq) \cup {t}
    BY <1>a, <1>c, <2>1, <2>3, <2>6, EnqueueProps DEF Apart
  <2>8. \A s \in Sem \ {x} : t \notin OnWait(s)
    BY <1>c, <2>1, <2>3 DEF Apart
  <2>9. Apart'
    <3>1. \A s \in Sem : IsInjective(sem'[s].waits)
      BY <1>c, <2>3, <2>4 DEF Apart
    <3>2. \A s \in Sem : OnWait(s)' \cap Queued(rq') = {}
      BY <1>c, <2>1, <2>5, <2>7, <2>8 DEF Apart
    <3>3. \A s \in Sem : \A r \in Sem \ {s} : OnWait(s)' \cap OnWait(r)' = {}
      BY <1>c, <2>1, <2>5 DEF Apart
    <3> QED BY <2>7, <3>1, <3>2, <3>3 DEF Apart
  <2>10. Waiting' = Waiting \ {t}
    BY <2>1, <2>5, <2>8, InWaiting, InWaitingNext
  <2> QED BY <1>c, <2>1, <2>3, <2>7, <2>9, <2>10, InWaiting, PlacePartsNext
<1>7. CASE WakeDone
  BY <1>e, <1>7 DEF WakeDone
<1>8. ASSUME NEW r \in Reader, ReadTakes(r) PROVE OnePlace'
  <2>1. sem[KbdSem].count - 1 \in Nat /\ rq' = rq /\ Top # "boot"
    BY <1>a, <1>8 DEF ReadTakes
  <2>2. \A s \in Sem : sem'[s].waits = sem[s].waits
    BY <1>a, <1>d, <1>8, <2>1 DEF ReadTakes
  <2> QED BY <1>e, <2>1, <2>2
<1>9. ASSUME NEW r \in Reader, ReadBlocks(r) PROVE OnePlace'
  <2>1. Top # "boot" /\ sem' = AddWaiter(r, KbdSem) /\ rq' = Dequeue(rq, r)
    BY <1>9 DEF ReadBlocks
  <2>2. r \in Thread
    BY KernelAssumption
  <2>3. Separate(Dequeue(rq, r)) /\ Queued(Dequeue(rq, r)) = Queued(rq) \ {r}
    BY <1>a, <1>c, <2>2, DequeueProps DEF Apart
  <2> QED BY <1>a, <1>c, <2>1, <2>2, <2>3, PlaceWaits
<1>10. ASSUME NEW r \in Reader, ReadReturns(r) PROVE OnePlace'
  BY <1>e, <1>10 DEF ReadReturns
<1>11. CASE Select
  <2>1. Separate(rq') /\ Queued(rq') = Queued(rq)
    BY <1>a, <1>c, <1>11, SelectProps DEF Select, Apart
  <2> QED BY <1>c, <1>11, <2>1, PlaceKept DEF Select
<1>12. CASE Switch \/ TimerHandler \/ KbdReturns \/ ScheduleCheck \/ IrqExit
  BY <1>e, <1>12 DEF Switch, TimerHandler, KbdReturns, ScheduleCheck, IrqExit
<1>13. CASE KbdHandler
  <2>1. sem[KbdSem].count + 1 \in Nat /\ rq' = rq /\ Top # "boot"
    BY <1>a, <1>13 DEF KbdHandler
  <2>2. \A s \in Sem : sem'[s].waits = sem[s].waits
    BY <1>a, <1>d, <1>13, <2>1 DEF KbdHandler
  <2> QED BY <1>e, <2>1, <2>2
<1>14. ASSUME NEW phase, Interrupt(phase) PROVE OnePlace'
  BY <1>e, <1>14 DEF Interrupt, InterruptsOn
<1>15. CASE UNCHANGED vars
  BY <1>15 DEF vars, OnePlace, Booting
<1> QED BY <1>1, <1>2, <1>3, <1>4, <1>5, <1>6, <1>7, <1>8, <1>9, <1>10, <1>11, <1>12,
           <1>13, <1>14, <1>15
        DEF Next, Boot, WorkerStep, ReaderStep, Scheduler, InterruptStep, TimerIrq,
            KbdIrq

\* Every thread is linked once, for every number of threads, semaphores and
\* priorities and any nesting of interrupts: what nesting breaks are counters
\* and the choice of the running thread, never the lists themselves.
THEOREM ThreadsInOnePlace == Spec => []OnePlace
<1>1. Init => TypeOK /\ BootOK /\ OnePlace
  BY TypeInit, BootInit, PlaceInit
<1>2. TypeOK /\ BootOK /\ OnePlace /\ [Next]_vars => TypeOK' /\ BootOK' /\ OnePlace'
  BY TypeStep, BootStep, PlaceStep
<1> QED BY <1>1, <1>2, PTL DEF Spec
-----------------------------------------------------------------------------
\* As long as interrupts do not nest and nobody calls krl_schedule with
\* interrupts on outside of one, a choice that select_thread made is still the
\* current thread of its queue when switch_thread uses it: no other frame is
\* before its switch_thread.
IsCurrent(queues, t) == t \in Thread => queues[prio[t]].curthd = t

Chosen == sel[curthd][depth[curthd]]

Current ==
  /\ Counted(rq)
  /\ Top # "switch" => IsCurrent(rq, curthd)
  /\ Top = "switch" => IsCurrent(rq, Chosen)
  /\ \A t \in AnyThread \ {curthd} : at[t][depth[t]] # "switch"

\* Frame 0 is never before switch_thread.
LEMMA NoProgramSwitch ==
  ASSUME TypeOK, Reader = {}, NEW t \in AnyThread
  PROVE  at[t][0] # "switch"
BY KernelAssumption DEF TypeOK, ProgramPhase, AnyThread

LEMMA CurrentInit ==
  ASSUME Init
  PROVE  Current
<1>1. Counted(rq)
  BY EmptySeq DEF Init, EmptyQueues, Counted
<1>2. curthd = Idle /\ \A t \in AnyThread : at[t][depth[t]] # "switch"
  BY KernelAssumption DEF Init, Level
<1>3. Top # "switch"
  BY <1>2 DEF Top, AnyThread
<1> QED BY <1>1, <1>2, <1>3, ThreadAssumption DEF Current, IsCurrent

\* The running frame moves, and not to before switch_thread.
LEMMA CurrentGoTo ==
  ASSUME TypeOK, Current, NEW phase, GoTo(phase), phase # "switch", depth' = depth,
         Counted(rq'), IsCurrent(rq', curthd'), curthd' \in AnyThread
  PROVE  Current'
<1>1. /\ curthd \in AnyThread /\ depth[curthd] \in Level
      /\ at \in [AnyThread -> [Level -> Phase]]
  BY DEF TypeOK
<1>2. /\ at'[curthd][depth[curthd]] = phase
      /\ \A t \in AnyThread \ {curthd} : at'[t] = at[t]
  BY <1>1 DEF GoTo
<1>3. \A t \in AnyThread : at'[t][depth'[t]] # "switch"
  BY <1>2 DEF Current
<1>4. Top' # "switch"
  BY <1>3 DEF Top
<1> QED BY <1>3, <1>4 DEF Current

LEMMA CurrentStep ==
  ASSUME MaxIrqDepth <= 1, Reader = {},
         TypeOK, TypeOK', BootOK, OnePlace, Current, [Next]_vars
  PROVE  Current'
<1>a. /\ rq \in [Prio -> Queue] /\ curthd \in AnyThread /\ Separate(rq)
      /\ depth[curthd] \in Level /\ depth[curthd] \in Nat
      /\ at \in [AnyThread -> [Level -> Phase]]
      /\ depth \in [AnyThread -> Level] /\ curthd' \in AnyThread
  BY KernelAssumption DEF TypeOK, OnePlace, Level
<1>b. Counted(rq) /\ (Top # "switch" => IsCurrent(rq, curthd))
  BY DEF Current
<1>c. Top = "switch" \/ Top = "select" => depth[curthd] > 0
  <2>1. depth[curthd] = 0 => Top \in ProgramPhase(curthd)
    BY <1>a DEF Top, TypeOK
  <2>2. curthd = Idle \/ curthd \in Worker
    BY <1>a, KernelAssumption DEF AnyThread
  <2> QED BY <1>a, <2>1, <2>2 DEF ProgramPhase
<1>1. ASSUME NEW t \in Thread, t \notin Queued(rq), rq' = Enqueue(rq, t),
             UNCHANGED <<curthd, at, depth, sel>>
      PROVE  Current'
  <2>1. Counted(rq')
    BY <1>a, <1>b, <1>1, EnqueueProps
  <2>2. \A p \in Prio : rq'[p].curthd = rq[p].curthd
    BY <1>a, <1>1, EnqueueAt
  <2>3. \A x : IsCurrent(rq, x) => IsCurrent(rq', x)
    BY <2>2, PrioAssumption DEF IsCurrent, Prio
  <2> QED BY <1>1, <2>1, <2>3 DEF Current, Top, Chosen
<1>2. ASSUME NEW phase, GoTo(phase), phase # "switch", Top # "switch",
             UNCHANGED <<rq, curthd, depth>>
      PROVE  Current'
  BY <1>a, <1>b, <1>2, CurrentGoTo
<1>3. ASSUME NEW t \in Thread, Spawn(t) PROVE Current'
  BY <1>1, <1>3 DEF Spawn
<1>4. CASE BootDone
  BY <1>2, <1>4 DEF BootDone, BootOK, Booting, Top
<1>5. ASSUME NEW w \in Worker, SemDownTakes(w) \/ SemUp(w) PROVE Current'
  BY <1>2, <1>5 DEF SemDownTakes, SemUp
<1>6. ASSUME NEW w \in Worker, SemDownBlocks(w) PROVE Current'
  <2> DEFINE q == Dequeue(rq, w)
  <2>1. /\ w \in Thread /\ curthd = w /\ Top # "switch"
        /\ GoTo("retry") /\ depth' = depth
        /\ rq' = SelectQueues(q) /\ curthd' = SelectThread(q)
    BY <1>6, KernelAssumption DEF SemDownBlocks, InProgram
  <2>2. rq[prio[w]].curthd = w
    BY <1>b, <2>1 DEF IsCurrent
  <2>3. q \in [Prio -> Queue] /\ Separate(q) /\ Counted(q)
    BY <1>a, <1>b, <2>1, <2>2, DequeueAt, DequeueProps
  <2> HIDE DEF q
  <2>4. Counted(rq')
    BY <2>1, <2>3, SelectProps
  <2>5. IsCurrent(rq', curthd')
    BY <2>1, <2>3, SelectProps, ThreadAssumption DEF IsCurrent
  <2> QED BY <1>a, <2>1, <2>4, <2>5, CurrentGoTo
<1>7. CASE WakeOne
  <2>1. PICK s \in Sem : s = Raised
    BY <1>7, RaisedType DEF WakeOne
  <2> DEFINE l == sem[s].waits
  <2>2. l \in Seq(Thread) /\ l # <<>> /\ rq' = Enqueue(rq, Head(l))
    BY <1>7, <2>1 DEF WakeOne, TypeOK, SemState
  <2>3. Head(l) \in Thread /\ Head(l) \in ToSet(l)
    BY <2>2, <2>1, TailProps DEF OnePlace
  <2>4. Head(l) \notin Queued(rq)
    BY <2>3 DEF OnePlace
  <2> HIDE DEF l
  <2> QED BY <1>1, <1>7, <2>2, <2>3, <2>4 DEF WakeOne
<1>8. CASE WakeDone
  BY <1>2, <1>8 DEF WakeDone
<1>9. CASE Select
  <2> DEFINE next == SelectThread(rq)
             d == depth[curthd]
  <2>1. Counted(rq') /\ IsCurrent(rq', next)
    BY <1>a, <1>b, <1>9, SelectProps, ThreadAssumption DEF Select, IsCurrent
  <2>2. at'[curthd][d] = "switch" /\ UNCHANGED <<curthd, depth>>
    BY <1>a, <1>9 DEF Select, GoTo
  <2>3. sel \in [AnyThread -> [Level -> AnyThread \cup {None}]]
    BY DEF TypeOK
  <2>4. sel' = [sel EXCEPT ![curthd][d] = next]
    BY <1>9 DEF Select
  <2> HIDE DEF next
  <2>5. sel'[curthd][d] = next
    BY <1>a, <2>3, <2>4
  <2>6. Top' = "switch" /\ Chosen' = next
    BY <2>2, <2>5 DEF Top, Chosen
  <2>7. \A t \in AnyThread \ {curthd} : at'[t] = at[t]
    BY <1>a, <1>9 DEF Select, GoTo
  <2> QED BY <2>1, <2>2, <2>6, <2>7 DEF Current
<1>10. CASE Switch
  <2>1. Top = "switch" /\ depth[curthd] > 0
    BY <1>c, <1>10 DEF Switch
  <2>2. GoTo("exit") /\ depth' = depth /\ rq' = rq /\ curthd' = Chosen
    BY <1>10, <2>1 DEF Switch, InInterrupt, Chosen
  <2>3. IsCurrent(rq', curthd')
    BY <2>1, <2>2 DEF Current
  <2> QED BY <1>a, <1>b, <2>2, <2>3, CurrentGoTo
<1>11. CASE TimerHandler \/ KbdHandler \/ KbdReturns
  BY <1>2, <1>11 DEF TimerHandler, KbdReturns, KbdHandler
<1>12. CASE ScheduleCheck
  BY <1>2, <1>12 DEF ScheduleCheck
<1>13. CASE IrqExit
  <2>1. Top = "exit" /\ UNCHANGED <<rq, curthd>> /\ GoTo("none")
        /\ depth' = [depth EXCEPT ![curthd] = depth[curthd] - 1]
    BY <1>13 DEF IrqExit
  <2>2. depth[curthd] # 0
    BY <1>a, <2>1 DEF TypeOK, Top, ProgramPhase
  <2>3. depth'[curthd] = 0
    <3>1. depth[curthd] \in 0 .. 1
      BY <1>a, KernelAssumption DEF Level
    <3> QED BY <1>a, <2>1, <2>2, <3>1
  <2>4. at'[curthd][0] # "switch"
    <3>1. 0 \in Level /\ at[curthd][0] # "switch"
      BY <1>a, KernelAssumption, NoProgramSwitch DEF Level
    <3> QED BY <1>a, <2>1, <2>2, <3>1 DEF GoTo
  <2>5. Top' # "switch"
    BY <2>1, <2>3, <2>4 DEF Top
  <2>6. \A t \in AnyThread \ {curthd} : at'[t] = at[t] /\ depth'[t] = depth[t]
    BY <1>a, <2>1 DEF GoTo
  <2> QED BY <1>b, <2>1, <2>5, <2>6 DEF Current
<1>14. ASSUME NEW phase, phase # "switch", Interrupt(phase) PROVE Current'
  <2>1. depth[curthd] = 0 /\ UNCHANGED <<rq, curthd>> /\ MaxIrqDepth = 1
    BY <1>a, <1>14, KernelAssumption DEF Interrupt
  <2>2. Top # "switch"
    BY <1>c, <2>1
  <2>3. 1 \in Level
    BY <2>1 DEF Level
  <2>4. depth'[curthd] = 1 /\ at'[curthd][1] = phase
    BY <1>a, <1>14, <2>1, <2>3 DEF Interrupt
  <2>5. Top' # "switch"
    BY <1>14, <2>1, <2>4 DEF Top
  <2>6. \A t \in AnyThread \ {curthd} : at'[t] = at[t] /\ depth'[t] = depth[t]
    BY <1>a, <1>14 DEF Interrupt
  <2> QED BY <1>b, <2>1, <2>2, <2>5, <2>6 DEF Current
<1>15. CASE UNCHANGED vars
  BY <1>15 DEF vars, Current, Top, Chosen
<1> QED BY <1>3, <1>4, <1>5, <1>6, <1>7, <1>8, <1>9, <1>10, <1>11, <1>12, <1>13,
           <1>14, <1>15
        DEF Next, Boot, WorkerStep, Scheduler, InterruptStep, TimerIrq, KbdIrq

\* While interrupts do not nest, for every number of threads and semaphores:
\* the counters of the ready queues are right and the running thread is the
\* current thread of its queue, which is what schedule_wait relies on.
THEOREM QueuesConsistent ==
  ASSUME MaxIrqDepth <= 1, Reader = {}
  PROVE  Spec => [](QueueCount /\ RunningIsCurrent)
<1> DEFINE IInv == TypeOK /\ BootOK /\ OnePlace /\ Current
<1>1. Init => IInv
  BY TypeInit, BootInit, PlaceInit, CurrentInit
<1>2. IInv /\ [Next]_vars => IInv'
  BY TypeStep, BootStep, PlaceStep, CurrentStep
<1>3. IInv => QueueCount /\ RunningIsCurrent
  BY DEF Current, IsCurrent, QueueCount, RunningIsCurrent
<1> QED BY <1>1, <1>2, <1>3, PTL DEF Spec

-----------------------------------------------------------------------------
(***************************************************************************)
(* The lengths of wait lists.  A thread that goes to sleep while it still  *)
(* is on a list is taken off it without a word to its counter, so that     *)
(* counters may be too great; they are too small only once one of them has *)
(* come back to zero.                                                      *)
(***************************************************************************)

WaitsKept(s) == sem'[s].waits = sem[s].waits /\ sem'[s].waitsNum = sem[s].waitsNum

\* What a step does to the wait lists.
LEMMA WaitsSteps ==
  ASSUME TypeOK, BootOK, [Next]_vars
  PROVE  \/ \A s \in Sem : WaitsKept(s)
         \/ /\ curthd \in Thread /\ Top \notin {"select", "switch"}
            /\ \E s \in Sem : sem' = AddWaiter(curthd, s)
         \/ \E s \in Sem :
              /\ sem[s].waits # <<>> /\ sem[s].waitsNum > 0
              /\ sem'[s].waits = Tail(sem[s].waits) /\ sem'[s].waitsNum = Dec(sem[s].waitsNum)
              /\ \A r \in Sem \ {s} : WaitsKept(r)
<1>a. /\ sem \in [Sem -> SemState] /\ First \in Sem /\ KbdSem \in Sem
      /\ \A s \in Sem : sem[s].count \in Nat
  BY KernelAssumption DEF TypeOK, SemState
<1>b. \A w \in Worker : w \in Thread /\ In[w] \in Sem /\ Out[w] \in Sem
  BY KernelAssumption
<1>1. ASSUME NEW s \in Sem, NEW n \in Nat, sem' = [sem EXCEPT ![s].count = n]
      PROVE  \A r \in Sem : WaitsKept(r)
  BY <1>a, <1>1, SetCount DEF WaitsKept
<1>2. ASSUME sem' = sem PROVE \A r \in Sem : WaitsKept(r)
  BY <1>2 DEF WaitsKept
<1>3. CASE BootDone
  <2>1. sem[First].count + 1 \in Nat
    BY <1>a
  <2> QED BY <1>1, <1>3, <1>a, <2>1 DEF BootDone
<1>4. ASSUME NEW w \in Worker, SemDownTakes(w) PROVE \A r \in Sem : WaitsKept(r)
  <2>1. sem[In[w]].count - 1 \in Nat
    BY <1>a, <1>b, <1>4 DEF SemDownTakes
  <2> QED BY <1>1, <1>4, <1>b, <2>1 DEF SemDownTakes
<1>5. ASSUME NEW w \in Worker, SemUp(w) PROVE \A r \in Sem : WaitsKept(r)
  <2>1. sem[Out[w]].count + 1 \in Nat
    BY <1>a, <1>b
  <2> QED BY <1>1, <1>5, <1>b, <2>1 DEF SemUp
<1>6. CASE KbdHandler
  <2>1. sem[KbdSem].count + 1 \in Nat
    BY <1>a
  <2> QED BY <1>1, <1>6, <1>a, <2>1 DEF KbdHandler
<1>7. ASSUME NEW w \in Worker, SemDownBlocks(w)
      PROVE  /\ curthd \in Thread /\ Top \notin {"select", "switch"}
             /\ \E s \in Sem : sem' = AddWaiter(curthd, s)
  BY <1>7, <1>b DEF SemDownBlocks, InProgram
<1>8. ASSUME NEW r \in Reader, ReadBlocks(r)
      PROVE  /\ curthd \in Thread /\ Top \notin {"select", "switch"}
             /\ \E s \in Sem : sem' = AddWaiter(curthd, s)
  BY <1>8, <1>a, KernelAssumption DEF ReadBlocks, InProgram
<1>9. ASSUME NEW r \in Reader, ReadTakes(r) \/ ReadReturns(r) PROVE \A s \in Sem : WaitsKept(s)
  <2>1. CASE ReadTakes(r)
    <3>1. sem[KbdSem].count - 1 \in Nat
      BY <1>a, <2>1 DEF ReadTakes
    <3> QED BY <1>1, <1>a, <2>1, <3>1 DEF ReadTakes
  <2> QED BY <1>2, <1>9, <2>1 DEF ReadReturns
<1>10. CASE WakeOne
  <2>1. PICK s \in Sem : s = Raised
    BY <1>10, RaisedType DEF WakeOne
  <2>2. sem' = [sem EXCEPT ![s] = [count |-> @.count, waits |-> Tail(@.waits), waitsNum |-> Dec(@.waitsNum)]]
    BY <1>10, <2>1 DEF WakeOne
  <2>3. sem[s].waits # <<>> /\ sem[s].waitsNum > 0
    BY <1>10, <2>1 DEF WakeOne
  <2>4. sem'[s].waits = Tail(sem[s].waits) /\ sem'[s].waitsNum = Dec(sem[s].waitsNum)
    BY <1>a, <2>2
  <2>5. \A r \in Sem \ {s} : WaitsKept(r)
    BY <1>a, <2>2 DEF WaitsKept
  <2> QED BY <2>3, <2>4, <2>5
<1>11. CASE \/ WakeDone \/ Select \/ Switch \/ TimerHandler \/ KbdReturns \/ ScheduleCheck \/ IrqExit
            \/ UNCHANGED vars
  BY <1>2, <1>11 DEF WakeDone, Select, Switch, TimerHandler, KbdReturns, ScheduleCheck, IrqExit, vars
<1>12. ASSUME NEW t \in Thread, Spawn(t) PROVE \A r \in Sem : WaitsKept(r)
  BY <1>2, <1>12 DEF Spawn
<1>13. ASSUME NEW phase, Interrupt(phase) PROVE \A r \in Sem : WaitsKept(r)
  BY <1>2, <1>13 DEF Interrupt
<1> QED BY <1>3, <1>4, <1>5, <1>6, <1>7, <1>8, <1>9, <1>10, <1>11, <1>12, <1>13
        DEF Next, Boot, WorkerStep, ReaderStep, Scheduler, InterruptStep, TimerIrq, KbdIrq

\* A list a thread is taken off.
LEMMA LenRemoveFirst ==
  ASSUME NEW s \in Seq(Thread), NEW e
  PROVE  /\ RemoveFirst(s, e) \in Seq(Thread) /\ Len(RemoveFirst(s, e)) \in Nat
         /\ Len(RemoveFirst(s, e)) <= Len(s) /\ Len(s) \in Nat
<1>1. Len(s) \in Nat /\ RemoveFirst(s, e) \in Seq(Thread)
  BY LenProperties, RemoveFirstType
<1>2. Len(RemoveFirst(s, e)) \in Nat
  BY <1>1, LenProperties
<1>3. CASE \E i \in 1 .. Len(s) : s[i] = e
  <2>1. PICK i \in 1 .. Len(s) : RemoveFirst(s, e) = RemoveAt(s, i)
    BY <1>3, RemoveFirstIndex
  <2>2. Len(RemoveFirst(s, e)) = Len(s) - 1
    BY <2>1, RemoveAtProps
  <2> QED BY <1>1, <1>2, <2>2
<1>4. CASE ~ \E i \in 1 .. Len(s) : s[i] = e
  BY <1>1, <1>4 DEF RemoveFirst
<1> QED BY <1>1, <1>2, <1>3, <1>4

\* What a thread that goes to sleep does to a wait list.
LEMMA WaiterAdded ==
  ASSUME sem \in [Sem -> SemState], NEW t \in Thread, NEW s \in Sem, NEW r \in Sem,
         NEW m, m = AddWaiter(t, s)
  PROVE  /\ r = s => /\ Len(m[r].waits) = Len(RemoveFirst(sem[r].waits, t)) + 1
                     /\ m[r].waitsNum = Inc(sem[r].waitsNum)
         /\ r # s => /\ m[r].waits = RemoveFirst(sem[r].waits, t)
                     /\ m[r].waitsNum = sem[r].waitsNum
         /\ sem[r].waits \in Seq(Thread) /\ sem[r].waitsNum \in 0 .. UintMax
<1>1. sem[r].waits \in Seq(Thread) /\ sem[r].waitsNum \in 0 .. UintMax
  BY DEF SemState
<1>2. RemoveFirst(sem[r].waits, t) \in Seq(Thread)
  BY <1>1, LenRemoveFirst
<1>3. Len(Append(RemoveFirst(sem[r].waits, t), t)) = Len(RemoveFirst(sem[r].waits, t)) + 1
  BY <1>2, AppendProperties
<1>4. m[r] = IF r = s THEN [count |-> sem[s].count,
                            waits |-> Append(RemoveFirst(sem[s].waits, t), t),
                            waitsNum |-> Inc(sem[s].waitsNum)]
             ELSE [sem[r] EXCEPT !.waits = RemoveFirst(@, t)]
  BY DEF AddWaiter
<1>5. CASE r = s
  BY <1>1, <1>3, <1>4, <1>5
<1>6. CASE r # s
  <2>1. PICK q \in SemState : q = sem[r]
    OBVIOUS
  <2>2. m[r] = [q EXCEPT !.waits = RemoveFirst(@, t)]
    BY <1>4, <1>6, <2>1
  <2>3. m[r].waits = RemoveFirst(q.waits, t) /\ m[r].waitsNum = q.waitsNum
    BY <2>2 DEF SemState
  <2> QED BY <1>1, <1>6, <2>1, <2>3
<1> QED BY <1>5, <1>6

\* A thread that is woken.
LEMMA WaiterTaken ==
  ASSUME sem \in [Sem -> SemState], NEW s \in Sem, sem[s].waits # <<>>, sem[s].waitsNum > 0
  PROVE  /\ Len(sem[s].waits) \in Nat /\ sem[s].waitsNum \in Nat
         /\ Len(Tail(sem[s].waits)) = Len(sem[s].waits) - 1
         /\ Dec(sem[s].waitsNum) = sem[s].waitsNum - 1
<1>1. sem[s].waits \in Seq(Thread) /\ sem[s].waitsNum \in 0 .. UintMax
  BY DEF SemState
<1>2. Len(Tail(sem[s].waits)) = Len(sem[s].waits) - 1 /\ Len(sem[s].waits) \in Nat
  BY <1>1, HeadTailProperties, LenProperties
<1>3. sem[s].waitsNum \in Nat
  BY <1>1, UintAssumption
<1> QED BY <1>2, <1>3 DEF Dec

\* No counter of a wait list is about to come back to zero.
NoneFull == \A s \in Sem : sem[s].waitsNum < UintMax

LEMMA CountersCover ==
  ASSUME TypeOK, BootOK, NoneFull, WaitersCounted, [Next]_vars
  PROVE  WaitersCounted'
<1> SUFFICES ASSUME NEW s \in Sem PROVE Len(sem'[s].waits) <= sem'[s].waitsNum
  BY DEF WaitersCounted
<1>1. /\ sem \in [Sem -> SemState]
      /\ sem[s].waits \in Seq(Thread) /\ sem[s].waitsNum \in 0 .. UintMax
      /\ Len(sem[s].waits) \in Nat /\ sem[s].waitsNum \in Nat
      /\ Len(sem[s].waits) <= sem[s].waitsNum /\ sem[s].waitsNum # UintMax
  <2>1. sem[s].waits \in Seq(Thread) /\ sem[s].waitsNum \in 0 .. UintMax
    BY DEF TypeOK, SemState
  <2>2. sem[s].waitsNum \in Nat /\ sem[s].waitsNum # UintMax
    BY <2>1, UintAssumption DEF NoneFull
  <2> QED BY <2>1, <2>2, LenProperties DEF TypeOK, WaitersCounted
<1>2. CASE \A r \in Sem : WaitsKept(r)
  BY <1>1, <1>2 DEF WaitsKept
<1>3. ASSUME curthd \in Thread, NEW r \in Sem, sem' = AddWaiter(curthd, r)
      PROVE  Len(sem'[s].waits) <= sem'[s].waitsNum
  <2>1. PICK m : m = sem'
    OBVIOUS
  <2>2. PICK n \in Nat : n = Len(RemoveFirst(sem[s].waits, curthd)) /\ n <= Len(sem[s].waits)
    BY <1>1, LenRemoveFirst
  <2>3. /\ s = r => Len(m[s].waits) = n + 1 /\ m[s].waitsNum = Inc(sem[s].waitsNum)
        /\ s # r => Len(m[s].waits) = n /\ m[s].waitsNum = sem[s].waitsNum
    BY <1>1, <1>3, <2>1, <2>2, WaiterAdded
  <2>4. Inc(sem[s].waitsNum) = sem[s].waitsNum + 1
    BY <1>1 DEF Inc
  <2> QED BY <1>1, <2>1, <2>2, <2>3, <2>4
<1>4. ASSUME NEW r \in Sem, sem[r].waits # <<>>, sem[r].waitsNum > 0,
             sem'[r].waits = Tail(sem[r].waits), sem'[r].waitsNum = Dec(sem[r].waitsNum),
             \A q \in Sem \ {r} : WaitsKept(q)
      PROVE  Len(sem'[s].waits) <= sem'[s].waitsNum
  <2>1. CASE s = r
    <3>1. /\ Len(Tail(sem[s].waits)) = Len(sem[s].waits) - 1
          /\ Dec(sem[s].waitsNum) = sem[s].waitsNum - 1
      BY <1>1, <1>4, <2>1, WaiterTaken
    <3>2. PICK m : m = sem'
      OBVIOUS
    <3>3. Len(m[s].waits) = Len(sem[s].waits) - 1 /\ m[s].waitsNum = sem[s].waitsNum - 1
      BY <1>4, <2>1, <3>1, <3>2
    <3> QED BY <1>1, <3>2, <3>3
  <2>2. CASE s # r
    BY <1>1, <1>4, <2>2 DEF WaitsKept
  <2> QED BY <2>1, <2>2
<1> QED BY <1>2, <1>3, <1>4, WaitsSteps

LEMMA WaitersInit == Init => \A s \in Sem : Len(sem[s].waits) = 0 /\ sem[s].waitsNum = 0
BY EmptySeq DEF Init

\* However interrupts nest, and whatever the counters of the ready queues do: until
\* the counter of a wait list comes back to zero, schedule_up finds a thread when
\* the counter of a list that is not empty says so (schedule.c:417).
THEOREM WaitersCover == Spec /\ []NoneFull => []WaitersCounted
<1>1. Init => TypeOK /\ BootOK /\ WaitersCounted
  BY TypeInit, BootInit, WaitersInit DEF WaitersCounted
<1>2. TypeOK /\ BootOK /\ WaitersCounted /\ NoneFull /\ [Next]_vars =>
        TypeOK' /\ BootOK' /\ WaitersCounted'
  BY TypeStep, BootStep, CountersCover
<1> QED BY <1>1, <1>2, PTL DEF Spec

Exactly == \A s \in Sem : sem[s].waitsNum = Len(sem[s].waits)

LEMMA ExactlyStep ==
  ASSUME TypeOK, BootOK, OnePlace, Current, Exactly, [Next]_vars
  PROVE  Exactly'
<1> SUFFICES ASSUME NEW s \in Sem PROVE sem'[s].waitsNum = Len(sem'[s].waits)
  BY DEF Exactly
<1>1. /\ sem \in [Sem -> SemState]
      /\ sem[s].waits \in Seq(Thread) /\ Len(sem[s].waits) \in Nat
      /\ sem[s].waitsNum = Len(sem[s].waits)
  <2>1. sem[s].waits \in Seq(Thread)
    BY DEF TypeOK, SemState
  <2> QED BY <2>1, LenProperties DEF TypeOK, Exactly
<1>2. CASE \A r \in Sem : WaitsKept(r)
  BY <1>1, <1>2 DEF WaitsKept
<1>3. ASSUME curthd \in Thread, Top \notin {"select", "switch"}, NEW r \in Sem,
             sem' = AddWaiter(curthd, r)
      PROVE  sem'[s].waitsNum = Len(sem'[s].waits)
  <2>1. curthd \in Queued(rq)
    <3>1. rq[prio[curthd]].curthd = curthd /\ prio[curthd] \in Prio /\ curthd # None
      BY <1>3, PrioAssumption, ThreadAssumption DEF Current, IsCurrent, Prio
    <3> QED BY <3>1 DEF Queued, On
  <2>2. IsInjective(sem[s].waits) /\ curthd \notin ToSet(sem[s].waits)
    BY <2>1 DEF OnePlace
  <2>3. RemoveFirst(sem[s].waits, curthd) = sem[s].waits
    BY <1>1, <2>2, RemoveFirstProps
  <2>4. Inc(sem[s].waitsNum) = sem[s].waitsNum + 1
    <3>1. Len(sem[s].waits) <= Cardinality(Thread) /\ Cardinality(Thread) \in Nat
      BY <1>1, <2>2, LenBound
    <3> QED BY <1>1, <3>1, UintAssumption DEF Inc
  <2>5. PICK m : m = sem'
    OBVIOUS
  <2>6. /\ s = r => Len(m[s].waits) = Len(sem[s].waits) + 1 /\ m[s].waitsNum = Inc(sem[s].waitsNum)
        /\ s # r => m[s].waits = sem[s].waits /\ m[s].waitsNum = sem[s].waitsNum
    BY <1>1, <1>3, <2>3, <2>5, WaiterAdded
  <2> QED BY <1>1, <2>4, <2>5, <2>6
<1>4. ASSUME NEW r \in Sem, sem[r].waits # <<>>, sem[r].waitsNum > 0,
             sem'[r].waits = Tail(sem[r].waits), sem'[r].waitsNum = Dec(sem[r].waitsNum),
             \A q \in Sem \ {r} : WaitsKept(q)
      PROVE  sem'[s].waitsNum = Len(sem'[s].waits)
  <2>1. CASE s = r
    <3>1. /\ Len(Tail(sem[s].waits)) = Len(sem[s].waits) - 1
          /\ Dec(sem[s].waitsNum) = sem[s].waitsNum - 1
      BY <1>1, <1>4, <2>1, WaiterTaken
    <3> QED BY <1>1, <1>4, <2>1, <3>1
  <2>2. CASE s # r
    BY <1>1, <1>4, <2>2 DEF WaitsKept
  <2> QED BY <2>1, <2>2
<1> QED BY <1>2, <1>3, <1>4, WaitsSteps

\* While interrupts do not nest and nobody reads the keyboard, whatever sem_down and
\* sem_up do: the counter of a wait list is its length, as sem.c takes it to be.
THEOREM WaitersExact ==
  ASSUME MaxIrqDepth <= 1, Reader = {}
  PROVE  Spec => [](WaitersCounted /\ Exactly)
<1> DEFINE IInv == TypeOK /\ BootOK /\ OnePlace /\ Current /\ Exactly
<1>1. Init => IInv
  BY TypeInit, BootInit, PlaceInit, CurrentInit, WaitersInit DEF Exactly
<1>2. IInv /\ [Next]_vars => IInv'
  BY TypeStep, BootStep, PlaceStep, CurrentStep, ExactlyStep
<1>3. IInv => WaitersCounted /\ Exactly
  <2> SUFFICES ASSUME TypeOK, Exactly PROVE WaitersCounted
    OBVIOUS
  <2>1. ASSUME NEW s \in Sem PROVE Len(sem[s].waits) \in Nat
    BY LenProperties DEF TypeOK, SemState
  <2> QED BY <2>1 DEF Exactly, WaitersCounted
<1> QED BY <1>1, <1>2, <1>3, PTL DEF Spec
=============================================================================
