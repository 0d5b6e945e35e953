--------------------------- MODULE ThreadCreation ---------------------------
(***************************************************************************)
(* Making threads: krlnew_thread of kernel/thread.c and new_idle_thread of *)
(* kernel/idle.c.  Each takes its stacks and its thread_t from the memory  *)
(* pool one after the other, and each of these may fail.                   *)
(*                                                                         *)
(* Of the memory only how many blocks of each use are taken is kept, of a  *)
(* stack its size.  Where a thread is put afterwards is RunQueue.          *)
(***************************************************************************)
EXTENDS Integers, Sequences, FiniteSets, SequencesExt

CONSTANTS
  StackDefault, \* THREAD_STACKSIZE_KRNL = THREAD_STACKSIZE_USER
  FrameSize,    \* sizeof(intstkregs_t)
  PriorityMax,  \* THREAD_PRIORITY_MAX, the length of schedata->thdlst
  Requests,     \* what callers ask krlnew_thread for
  MaxThreads    \* bound: threads made, those of the boot included

ASSUME ThreadCreationAssumption ==
  /\ StackDefault \in Nat \ {0} /\ FrameSize \in Nat \ {0}
  /\ PriorityMax \in Nat \ {0} /\ MaxThreads \in Nat
  /\ \A r \in Requests :
       /\ r.kind \in {"krnl", "user"} /\ r.privilege \in {"sys", "usr"}
       /\ r.priority \in Nat /\ r.usz \in Nat /\ r.ksz \in Nat

VARIABLES
  threads, \* the threads that were made
  blocks,  \* how many blocks of memory are taken, for each use
  lost     \* history: threads for which there was a kernel stack but no thread_t

threadVars == <<threads, blocks, lost>>

Use == {"krl", "usr", "thread"}

NoBlocks == [u \in Use |-> 0]

ThreadsInit == threads = <<>> /\ blocks = NoBlocks /\ lost = 0

\* mempool_new and mempool_delete of blocks of these uses; mempool_new refuses
\* a size of 0.
Take(b, uses) == [u \in Use |-> b[u] + IF u \in uses THEN 1 ELSE 0]
Give(b, uses) == [u \in Use |-> b[u] - IF u \in uses THEN 1 ELSE 0]

\* krlnew_thread: what it refuses.  The sizes it replaces by the default are
\* local; those of the request are passed on.
Refused(r) ==
  \/ r.usz > StackDefault \/ r.ksz > StackDefault
  \/ r.priority > PriorityMax

\* krnl_stack_init and user_stack_init: where the registers are put, as an
\* offset in the stack.  The stack begins at a multiple of 16.
FrameAt(ksz) == ((ksz - 1) \div 16) * 16 - FrameSize

Thread(r) == [kind |-> r.kind, priority |-> r.priority, frame |-> FrameAt(r.ksz)]

\* schedule_add finds no queue for a priority beyond the last one.
QueueOf(r) == r.priority \in 0 .. PriorityMax - 1

\* krnl_thread_core, where all is well.
KrnlThread(r) ==
  /\ r.kind = "krnl" /\ ~Refused(r) /\ r.ksz > 0
  /\ Len(threads) < MaxThreads
  /\ blocks' = Take(blocks, {"krl", "thread"})
  /\ threads' = Append(threads, Thread(r))
  /\ UNCHANGED lost

\* krnl_thread_core has no thread_t: it gives the stack back and goes on with a
\* null pointer.
KrnlNoThread(r) ==
  /\ r.kind = "krnl" /\ ~Refused(r) /\ r.ksz > 0
  /\ blocks' = Give(Take(blocks, {"krl"}), {"krl"})
  /\ UNCHANGED <<threads, lost>>

UserThread(r) ==
  /\ r.kind = "user" /\ ~Refused(r) /\ r.usz > 0 /\ r.ksz > 0
  /\ Len(threads) < MaxThreads
  /\ blocks' = Take(blocks, {"usr", "krl", "thread"})
  /\ threads' = Append(threads, Thread(r))
  /\ UNCHANGED lost

\* A bug: without a kernel stack the user stack is not given back.
UserNoStackKept(r) ==
  /\ r.kind = "user" /\ ~Refused(r) /\ r.usz > 0
  /\ blocks["usr"] < MaxThreads
  /\ blocks' = Take(blocks, {"usr"})
  /\ UNCHANGED <<threads, lost>>

\* user_thread_core has no kernel stack.
UserNoStack(r) ==
  /\ r.kind = "user" /\ ~Refused(r) /\ r.usz > 0
  /\ blocks' = Give(Take(blocks, {"usr"}), {"usr"})
  /\ UNCHANGED <<threads, lost>>

\* user_thread_core has no thread_t: it gives the user stack back, and calls
\* mempool_delete for the kernel stack with a size of 0, which is refused.
UserNoThread(r) ==
  /\ r.kind = "user" /\ ~Refused(r) /\ r.usz > 0 /\ r.ksz > 0
  /\ Len(threads) + lost < MaxThreads
  /\ blocks' = Give(Take(blocks, {"usr", "krl"}), {"usr"})
  /\ lost' = lost + 1
  /\ UNCHANGED threads

Ask(kind, priority) ==
  [kind |-> kind, privilege |-> "sys", priority |-> priority,
   usz |-> StackDefault, ksz |-> StackDefault]

\* new_idle_thread; it is not put on a queue.
IdleThread == KrnlThread(Ask("krnl", 0))
IdleNoThread ==
  /\ blocks' = Give(Take(blocks, {"krl"}), {"krl"})
  /\ UNCHANGED <<threads, lost>>
-----------------------------------------------------------------------------
(***************************************************************************)
(* Properties.                                                             *)
(***************************************************************************)

ThreadCreationTypeOK ==
  /\ threads \in Seq([kind : {"krnl", "user"}, priority : Nat, frame : Int])
  /\ blocks \in [Use -> Nat]
  /\ lost \in Nat

UsersOf(ts) == {i \in DOMAIN ts : ts[i].kind = "user"}

\* Whatever fails when, every stack and thread_t that is taken belongs to a
\* thread, but for the kernel stacks of user threads that had no thread_t
\* (thread.c:252).
StacksReturned ==
  /\ blocks["thread"] = Len(threads)
  /\ blocks["usr"] = Cardinality(UsersOf(threads))
  /\ blocks["krl"] = Len(threads) + lost

\* When a thread cannot be made its stacks are given back (thread.c:251).
NothingLost == blocks["krl"] = Len(threads)

\* A stack smaller than the default gets the default (thread.c:299), so there is
\* room for the registers.
StacksFull == \A i \in DOMAIN threads : threads[i].frame >= 0

\* Every thread has a queue (thread.c:295).
PrioritiesInRange == \A i \in DOMAIN threads : QueueOf(threads[i])
=============================================================================
