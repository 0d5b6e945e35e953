------------------------------- MODULE Kernel -------------------------------
(***************************************************************************)
(* Threads, semaphores and interrupts of the wind-os kernel on its single  *)
(* CPU (hal_retn_cpuid is always 0): kernel/schedule.c, kernel/waitlist.c, *)
(* kernel/sem.c, kernel/idle.c and the interrupt path of                   *)
(* hal/x86/interrupt.c with the timer and the keyboard handlers.           *)
(*                                                                         *)
(* Code that runs with interrupts off is one step; code that runs with     *)
(* interrupts on is cut where an interrupt can make a difference.  An      *)
(* interrupt runs on the kernel stack of the thread it interrupts and may  *)
(* itself be interrupted, because hal_hwint_allocator opens interrupts and *)
(* acknowledges the controller first.  The stack of a thread is at[t],     *)
(* depth[t]: frame 0 is the thread's own program, frame d its d-th nested  *)
(* interrupt; only the top frame of data->curthd makes steps.              *)
(*                                                                         *)
(* Spinlocks are left out: every lock of these files is taken with         *)
(* interrupts off and released before the processor is given away, so with *)
(* one CPU nobody ever finds one taken.  The statistics of the interrupt   *)
(* descriptor, the clock that systime_update copies from the CMOS and the  *)
(* keyboard's buffer are read by no code here and are left out too.        *)
(***************************************************************************)
EXTENDS RunQueue

CONSTANTS
  Worker,       \* the threads of kernel/idle.c: sem_down(In), work, sem_up(Out)
  Reader,       \* threads inside keyboard_read, which calls sem_down with
                \* interrupts on (no code in the tree starts one)
  Sem,          \* the semaphores
  KbdSem,       \* the keyboard's semaphore
  KbdMayLack,   \* whether the keyboard may be without its keyboard_t, which
                \* init_keyboard failed to get
  In, Out,      \* the semaphores of a worker
  First,        \* the semaphore init_abc_thread raises at boot
  RunTick,      \* THREAD_RUN_TICK
  MaxIrqDepth,  \* bound: interrupt frames nested on one kernel stack
  MaxKeys       \* bound: keys typed and not yet read

ASSUME KernelAssumption ==
  /\ Worker \cap Reader = {} /\ Thread = Worker \cup Reader
  /\ KbdMayLack \in BOOLEAN /\ (KbdMayLack => Reader = {})
  /\ KbdSem \in Sem /\ First \in Sem \ {KbdSem}
  /\ In \in [Worker -> Sem \ {KbdSem}]
  /\ Out \in [Worker -> Sem \ {KbdSem}]
  /\ Sem \cap (AnyThread \cup {None}) = {}
  /\ RunTick \in Nat /\ MaxIrqDepth \in Nat /\ MaxKeys \in Nat

VARIABLES
  rq,      \* data->thdlst
  curthd,  \* data->curthd
  flags,   \* data->flags
  sem,     \* the semaphores with their wait lists
  status,  \* thread->status
  tick,    \* thread->tick
  depth,   \* interrupt frames on a thread's kernel stack
  at,      \* at[t][d]: where frame d of thread t is
  sel      \* sel[t][d]: local variable `next` of krl_schedule in that frame

vars == <<rq, curthd, flags, sem, status, tick, depth, at, sel>>

SemState == [count : Nat, waits : Seq(Thread), waitsNum : 0 .. UintMax]

Flags == {"NOTS", "NEED"}

Status == {"NEW", "READY", "WAIT", "RUN"}

Level == 0 .. MaxIrqDepth

(***************************************************************************)
(* Where a frame can be.                                                   *)
(*   boot     the kernel's start, on what becomes the idle thread          *)
(*   idle     the loop of idle_main                                        *)
(*   loop     before sem_down                                              *)
(*   retry    in sem_down of a worker, back from krl_schedule              *)
(*   work     after sem_down                                               *)
(*   timer, kbd  an interrupt taken and not yet handled                    *)
(*   allup    in sem_up, in the loop of waitlist_allup                     *)
(*   check    an interrupt handled, before schedule_check                  *)
(*   select   in krl_schedule, before select_thread                        *)
(*   switch   in krl_schedule, before switch_thread                        *)
(*   exit     an interrupt about to return                                 *)
(***************************************************************************)
IrqPhase == {"timer", "kbd", "allup", "check", "select", "switch", "exit"}

ProgramPhase(t) ==
  IF t = Idle THEN {"boot", "idle"}
  ELSE IF t \in Worker THEN {"loop", "retry", "work", "allup"}
  ELSE {"loop", "work", "select", "switch"}

Phase == {"none", "boot", "idle", "loop", "retry", "work"} \cup IrqPhase

TypeOK ==
  /\ rq \in [Prio -> Queue]
  /\ curthd \in AnyThread
  /\ flags \in Flags
  /\ sem \in [Sem -> SemState]
  /\ status \in [AnyThread -> Status]
  /\ tick \in [AnyThread -> 0 .. RunTick]
  /\ depth \in [AnyThread -> Level]
  /\ at \in [AnyThread -> [Level -> Phase]]
  /\ sel \in [AnyThread -> [Level -> AnyThread \cup {None}]]
  /\ \A t \in AnyThread :
       /\ at[t][0] \in ProgramPhase(t)
       /\ \A d \in Level \ {0} : at[t][d] \in IrqPhase \cup {"none"}
       /\ \A d \in Level : at[t][d] = "switch" => sel[t][d] # None

Init ==
  /\ rq = EmptyQueues
  /\ curthd = Idle
  /\ flags = "NOTS"
  /\ sem = [s \in Sem |-> [count |-> 0, waits |-> <<>>, waitsNum |-> 0]]
  /\ status = [t \in AnyThread |-> "NEW"]
  /\ tick = [t \in AnyThread |-> 0]
  /\ depth = [t \in AnyThread |-> 0]
  /\ at = [t \in AnyThread |->
             [d \in Level |-> IF d # 0 THEN "none"
                              ELSE IF t = Idle THEN "boot" ELSE "loop"]]
  /\ sel = [t \in AnyThread |-> [d \in Level |-> None]]
-----------------------------------------------------------------------------
\* The frame that runs, and the interrupt flag it runs with.
Top == at[curthd][depth[curthd]]

InterruptsOn == Top \notin {"boot", "retry", "allup"}

Booting == at[Idle][0] = "boot"

GoTo(phase) == at' = [at EXCEPT ![curthd][depth[curthd]] = phase]

InProgram(t) == curthd = t /\ depth[t] = 0

InInterrupt == depth[curthd] > 0

\* __to_new_context: a thread that never ran starts.
Started(t) == [status EXCEPT ![t] = IF @ = "NEW" THEN "RUN" ELSE @]

\* The semaphore that the frame in sem_up raises.
Raised == IF InInterrupt THEN KbdSem ELSE Out[curthd]

\* A bug schedule_wait could have: the wait list is not counted.
AddWaiterUncounted(t, s) ==
  [r \in Sem |->
    [sem[r] EXCEPT !.waits = IF r = s THEN Append(RemoveFirst(@, t), t)
                             ELSE RemoveFirst(@, t)]]

\* list_del and list_add_tail on the wait list, waitsNum++: schedule_wait
\* unlinks the hook from whatever wait list it is on, whose counter stays.
AddWaiter(t, s) ==
  [r \in Sem |->
    IF r = s THEN [count |-> sem[s].count,
                   waits |-> Append(RemoveFirst(sem[s].waits, t), t),
                   waitsNum |-> Inc(sem[s].waitsNum)]
             ELSE [sem[r] EXCEPT !.waits = RemoveFirst(@, t)]]
-----------------------------------------------------------------------------
\* Boot, with interrupts off: init_abc_thread makes the threads and raises
\* the first semaphore, idle_start runs the idle thread.
Spawn(t) ==
  /\ Booting
  /\ t \notin Queued(rq)
  /\ rq' = Enqueue(rq, t)
  /\ UNCHANGED <<curthd, flags, sem, status, tick, depth, at, sel>>

BootDone ==
  /\ Booting
  /\ Thread \subseteq Queued(rq)
  /\ sem' = [sem EXCEPT ![First].count = @ + 1]
  /\ flags' = "NEED"
  /\ status' = [status EXCEPT ![Idle] = "RUN"]
  /\ GoTo("idle")
  /\ UNCHANGED <<rq, curthd, tick, depth, sel>>
-----------------------------------------------------------------------------
\* Bugs sem_down and sem_up could have: the count is not taken, or not given.
SemDownTakesNothing(w) ==
  /\ InProgram(w) /\ Top \in {"loop", "retry"}
  /\ sem[In[w]].count >= 1
  /\ GoTo("work")
  /\ UNCHANGED <<rq, curthd, flags, sem, status, tick, depth, sel>>

SemUpGivesNothing(w) ==
  /\ InProgram(w) /\ Top = "work"
  /\ GoTo("allup")
  /\ UNCHANGED <<rq, curthd, flags, sem, status, tick, depth, sel>>

\* A worker brackets sem_down with CLI and STI, so krl_schedule runs with
\* interrupts off too and the whole of it is one step.
SemDownTakes(w) ==
  /\ InProgram(w) /\ Top \in {"loop", "retry"}
  /\ sem[In[w]].count >= 1
  /\ sem' = [sem EXCEPT ![In[w]].count = @ - 1]
  /\ GoTo("work")
  /\ UNCHANGED <<rq, curthd, flags, status, tick, depth, sel>>

SemDownBlocks(w) ==
  /\ InProgram(w) /\ Top \in {"loop", "retry"}
  /\ sem[In[w]].count < 1
  /\ sem' = AddWaiter(w, In[w])
  /\ LET q == Dequeue(rq, w)
         next == SelectThread(q)
     IN /\ rq' = SelectQueues(q)
        /\ curthd' = next
        /\ status' = [Started(next) EXCEPT ![w] = "WAIT"]
  /\ GoTo("retry")
  /\ UNCHANGED <<flags, tick, depth, sel>>

SemUp(w) ==
  /\ InProgram(w) /\ Top = "work"
  /\ sem' = [sem EXCEPT ![Out[w]].count = @ + 1]
  /\ GoTo("allup")
  /\ UNCHANGED <<rq, curthd, flags, status, tick, depth, sel>>

\* Bugs schedule_up and waitlist_allup could have: the thread stays on the wait
\* list, it gets on no queue, or the loop ends before the list is empty.
WakeOneStays ==
  /\ Top = "allup" /\ sem[Raised].waits # <<>> /\ sem[Raised].waitsNum > 0
  /\ rq' = Enqueue(rq, Head(sem[Raised].waits))
  /\ UNCHANGED <<curthd, flags, sem, status, tick, depth, at, sel>>

WakeOneDrops ==
  /\ Top = "allup" /\ sem[Raised].waits # <<>> /\ sem[Raised].waitsNum > 0
  /\ sem' = [sem EXCEPT ![Raised].waits = Tail(@)]
  /\ UNCHANGED <<rq, curthd, flags, status, tick, depth, at, sel>>

WakeDoneEarly ==
  /\ Top = "allup"
  /\ flags' = "NEED"
  /\ GoTo(IF InInterrupt THEN "check" ELSE "loop")
  /\ UNCHANGED <<rq, curthd, sem, status, tick, depth, sel>>

\* One turn of the loop in waitlist_allup: schedule_up.
WakeOne ==
  /\ Top = "allup"
  /\ sem[Raised].waits # <<>>
  /\ sem[Raised].waitsNum > 0
  /\ LET t == Head(sem[Raised].waits) IN
       /\ rq' = Enqueue(rq, t)
       /\ status' = [status EXCEPT ![t] = "READY"]
  /\ sem' = [sem EXCEPT ![Raised] = [count |-> @.count,
                                      waits |-> Tail(@.waits),
                                      waitsNum |-> Dec(@.waitsNum)]]
  /\ UNCHANGED <<curthd, flags, tick, depth, at, sel>>

\* The rest of sem_up, once nobody waits.
WakeDone ==
  /\ Top = "allup"
  /\ sem[Raised].waits = <<>>
  /\ flags' = "NEED"
  /\ GoTo(IF InInterrupt THEN "check" ELSE "loop")
  /\ UNCHANGED <<rq, curthd, sem, status, tick, depth, sel>>
-----------------------------------------------------------------------------
\* keyboard_read calls sem_down with the caller's interrupts on.
ReadTakes(r) ==
  /\ InProgram(r) /\ Top = "loop"
  /\ sem[KbdSem].count >= 1
  /\ sem' = [sem EXCEPT ![KbdSem].count = @ - 1]
  /\ GoTo("work")
  /\ UNCHANGED <<rq, curthd, flags, status, tick, depth, sel>>

ReadBlocks(r) ==
  /\ InProgram(r) /\ Top = "loop"
  /\ sem[KbdSem].count < 1
  /\ sem' = AddWaiter(r, KbdSem)
  /\ rq' = Dequeue(rq, r)
  /\ status' = [status EXCEPT ![r] = "WAIT"]
  /\ GoTo("select")
  /\ UNCHANGED <<curthd, flags, tick, depth, sel>>

ReadReturns(r) ==
  /\ InProgram(r) /\ Top = "work"
  /\ GoTo("loop")
  /\ UNCHANGED <<rq, curthd, flags, sem, status, tick, depth, sel>>
-----------------------------------------------------------------------------
\* krl_schedule with interrupts on: an interrupt may come between
\* select_thread and switch_thread.
Select ==
  /\ Top = "select"
  /\ rq' = SelectQueues(rq)
  /\ sel' = [sel EXCEPT ![curthd][depth[curthd]] = SelectThread(rq)]
  /\ GoTo("switch")
  /\ UNCHANGED <<curthd, flags, sem, status, tick, depth>>

Switch ==
  /\ Top = "switch"
  /\ LET next == sel[curthd][depth[curthd]] IN
       /\ curthd' = next
       /\ status' = Started(next)
  /\ sel' = [sel EXCEPT ![curthd][depth[curthd]] = None]
  /\ GoTo(IF InInterrupt THEN "exit" ELSE "loop")
  /\ UNCHANGED <<rq, flags, sem, tick, depth>>
-----------------------------------------------------------------------------
\* An interrupt is taken: a frame on the stack of the running thread.
Interrupt(phase) ==
  /\ InterruptsOn
  /\ depth[curthd] < MaxIrqDepth
  /\ depth' = [depth EXCEPT ![curthd] = @ + 1]
  /\ at' = [at EXCEPT ![curthd][depth[curthd] + 1] = phase]
  /\ UNCHANGED <<rq, curthd, flags, sem, status, tick, sel>>

TimerIrq == Interrupt("timer")

KeysPending ==
  sem[KbdSem].count +
  Cardinality({f \in AnyThread \X Level : at[f[1]][f[2]] = "kbd"})

KbdIrq == KeysPending < MaxKeys /\ Interrupt("kbd")

\* Bugs of the interrupt path: the tick is never reset, the flag is cleared and
\* nobody scheduled.
TimerHandlerNoReset ==
  /\ Top = "timer"
  /\ tick' = [tick EXCEPT ![curthd] = @ + 1]
  /\ flags' = IF tick[curthd] + 1 > RunTick THEN "NEED" ELSE flags
  /\ GoTo("check")
  /\ UNCHANGED <<rq, curthd, sem, status, depth, sel>>

ScheduleCheckNever ==
  /\ Top = "check"
  /\ GoTo("exit")
  /\ flags' = "NOTS"
  /\ UNCHANGED <<rq, curthd, sem, status, tick, depth, sel>>

\* tick_handle, under the lock of the interrupt descriptor: schedule_inc_tick.
TimerHandler ==
  /\ Top = "timer"
  /\ tick' = [tick EXCEPT ![curthd] = IF @ + 1 > RunTick THEN 0 ELSE @ + 1]
  /\ flags' = IF tick[curthd] + 1 > RunTick THEN "NEED" ELSE flags
  /\ GoTo("check")
  /\ UNCHANGED <<rq, curthd, sem, status, depth, sel>>

\* keyboard_handle: sem_up on the keyboard's semaphore.
KbdHandler ==
  /\ Top = "kbd"
  /\ sem' = [sem EXCEPT ![KbdSem].count = @ + 1]
  /\ GoTo("allup")
  /\ UNCHANGED <<rq, curthd, flags, status, tick, depth, sel>>

\* Without a keyboard_t it returns at once.
KbdReturns ==
  /\ KbdMayLack
  /\ Top = "kbd"
  /\ GoTo("check")
  /\ UNCHANGED <<rq, curthd, flags, sem, status, tick, depth, sel>>

ScheduleCheck ==
  /\ Top = "check"
  /\ GoTo(IF flags = "NEED" THEN "select" ELSE "exit")
  /\ flags' = "NOTS"
  /\ UNCHANGED <<rq, curthd, sem, status, tick, depth, sel>>

IrqExit ==
  /\ Top = "exit"
  /\ GoTo("none")
  /\ depth' = [depth EXCEPT ![curthd] = @ - 1]
  /\ UNCHANGED <<rq, curthd, flags, sem, status, tick, sel>>
-----------------------------------------------------------------------------
WorkerStep(w) == SemDownTakes(w) \/ SemDownBlocks(w) \/ SemUp(w)

ReaderStep(r) == ReadTakes(r) \/ ReadBlocks(r) \/ ReadReturns(r)

Boot == BootDone \/ \E t \in Thread : Spawn(t)

Scheduler == WakeOne \/ WakeDone \/ Select \/ Switch

InterruptStep == TimerHandler \/ KbdHandler \/ KbdReturns \/ ScheduleCheck \/ IrqExit

Next ==
  \/ Boot
  \/ \E w \in Worker : WorkerStep(w)
  \/ \E r \in Reader : ReaderStep(r)
  \/ Scheduler
  \/ InterruptStep
  \/ TimerIrq
  \/ KbdIrq

Spec == Init /\ [][Next]_vars

(***************************************************************************)
(* The processor executes what is on top of the running thread's stack.    *)
(* The timer keeps ticking, and the controller latches a tick that comes   *)
(* while interrupts are off.  A thread that is back from an interrupt gets *)
(* some instructions executed before the next one: the handlers take less  *)
(* than a period of the timer.  Nobody need type.                          *)
(***************************************************************************)
Fairness ==
  /\ WF_vars(Boot) /\ WF_vars(Scheduler) /\ WF_vars(InterruptStep)
  /\ SF_vars(TimerIrq)
  /\ \A w \in Worker : SF_vars(WorkerStep(w))
  /\ \A r \in Reader : SF_vars(ReaderStep(r))

FairSpec == Spec /\ Fairness
-----------------------------------------------------------------------------
(***************************************************************************)
(* Properties.                                                             *)
(***************************************************************************)

\* The counter of a ready queue is the number of threads on it, the linked
\* ones and the queue's current one: select_thread skips a queue whose counter
\* is zero, whatever is on it (schedule.c:124).
QueueCount == Counted(rq)

\* The thread on the processor is the current thread of its queue, unless
\* krl_schedule has already chosen another one to switch to: schedule_wait
\* relies on it to take the thread out of the queue (schedule.c:390).
RunningIsCurrent ==
  curthd \in Thread /\ Top \notin {"select", "switch"} =>
    rq[prio[curthd]].curthd = curthd

\* A thread is linked once, through its one hook, or is the current thread of
\* a queue: no list operation puts it on two lists, and none drops it.
OnePlace ==
  /\ Separate(rq)
  /\ \A s \in Sem :
       /\ IsInjective(sem[s].waits)
       /\ ToSet(sem[s].waits) \cap Queued(rq) = {}
       /\ \A r \in Sem \ {s} : ToSet(sem[s].waits) \cap ToSet(sem[r].waits) = {}
  /\ ~ Booting =>
       Thread = Queued(rq) \cup UNION {ToSet(sem[s].waits) : s \in Sem}

\* The length a wait list keeps covers the threads on it: otherwise schedule_up
\* finds no thread and the kernel dies (schedule.c:417).
WaitersCounted == \A s \in Sem : Len(sem[s].waits) <= sem[s].waitsNum

\* Nobody sleeps on a semaphore that could be taken, except while sem_up is
\* waking the sleepers: a sem_down that finds the count at zero is on the wait
\* list before any sem_up can run, whoever interrupts.
NoLostWakeup ==
  \A s \in Sem :
    sem[s].count > 0 /\ ~ (Top = "allup" /\ Raised = s) => sem[s].waits = <<>>

\* Who has the token that boot puts into the first semaphore.
Holders ==
  {w \in Worker : at[w][0] = "work"} \cup {s \in Sem \ {KbdSem} : sem[s].count > 0}

\* There is one token once the kernel runs: two workers are never past their
\* sem_down together, and no unit of a semaphore appears or disappears.
OneToken ==
  /\ \A s \in Sem \ {KbdSem} : sem[s].count <= 1
  /\ IF Booting THEN Holders = {} ELSE \E h \in Holders : Holders = {h}

Token == IF Holders = {} THEN None ELSE CHOOSE h \in Holders : TRUE

Ring == INSTANCE TokenRing WITH
  Sem <- Sem \ {KbdSem}, Nowhere <- None, token <- Token

\* The semaphores and the scheduler implement the token ring of kernel/idle.c,
\* whatever interrupts do.
TokenPasses == Ring!Spec

\* As long as interrupts do not nest they also keep the token moving.
TokenMoves == Ring!FairSpec

\* Every worker of the ring gets its turn again and again: `A`, `B` and `C` are
\* printed for ever (idle.c:32).
EveryWorkerRuns == \A w \in Worker : []<>(at[w][0] = "work")
=============================================================================
