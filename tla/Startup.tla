------------------------------- MODULE Startup -------------------------------
(***************************************************************************)
(* kernel_entry of kernel/kernel.c from driver_init to the first thread,   *)
(* and the kernel that runs from there: its devices (Devices), its time of *)
(* day (SystemTime) and the threads it makes (ThreadCreation), on the one  *)
(* processor and under its one interrupt flag.                             *)
(*                                                                         *)
(* The flag is off from the loader to first_sched.  Whoever closes it      *)
(* keeps the processor until it is open again; the clock of the machine    *)
(* goes on nevertheless.  The interrupt of the keyboard is Keyboard.       *)
(***************************************************************************)
EXTENDS Devices, SystemTime, ThreadCreation

VARIABLE curthd \* schedata->curthd: "none" before there is one

vars == <<phase, deviceVars, intr, userVars, timeVars, threadVars, curthd>>

Init ==
  /\ phase = "drivers" /\ intr = FALSE /\ curthd = "none"
  /\ DevicesInit /\ TimeInit /\ ThreadsInit

\* The priority of the threads of the A-B-C ring.
RingPriority == 2

\* The steps of driver_init, with the interrupts closed or not.
Drive ==
  /\ reading = 0
  /\ DriverInit
  /\ UNCHANGED <<userVars, timeVars, threadVars, curthd>>

\* schedule_init.
ScheduleInit ==
  /\ phase = "schedule" /\ reading = 0
  /\ curthd' = "none"
  /\ phase' = "idle"
  /\ UNCHANGED <<deviceVars, intr, userVars, timeVars, threadVars>>

\* idle_new: without an idle thread the machine stops.
IdleNew ==
  /\ phase = "idle" /\ reading = 0
  /\ \/ IdleThread /\ curthd' = "idle" /\ phase' = "ring"
     \/ IdleNoThread /\ phase' = "dead_idle" /\ UNCHANGED curthd
     \/ phase' = "dead_idle" /\ UNCHANGED <<threadVars, curthd>>
  /\ UNCHANGED <<deviceVars, intr, userVars, timeVars>>

\* One krlnew_thread of init_abc_thread.  That there is no stack goes
\* unnoticed; without a thread_t krnl_thread_core writes to a null pointer.  The
\* timer may then still switch to the threads there are, which sleep on
\* semaphores nobody raises.
RingThread ==
  /\ phase \in {"ring", "ring1", "ring2"} /\ reading = 0
  /\ LET next == CASE phase = "ring" -> "ring1" [] phase = "ring1" -> "ring2"
                   [] phase = "ring2" -> "start"
     IN \/ KrnlThread(Ask("krnl", RingPriority)) /\ phase' = next /\ UNCHANGED intr
        \/ KrnlNoThread(Ask("krnl", RingPriority)) /\ phase' = "fault" /\ intr' = TRUE
        \/ phase' = next /\ UNCHANGED <<threadVars, intr>>
  /\ UNCHANGED <<deviceVars, userVars, timeVars, curthd>>

\* idle_start and first_sched.
IdleStart ==
  /\ phase = "start" /\ reading = 0
  /\ intr' = TRUE
  /\ phase' = "up"
  /\ UNCHANGED <<deviceVars, userVars, timeVars, threadVars, curthd>>
-----------------------------------------------------------------------------
(***************************************************************************)
(* The interrupt of the timer and the system call.                         *)
(***************************************************************************)

\* A bug: systime_update does not take its lock.
TickUnlocked ==
  /\ intr /\ 0 \in lines /\ serv[0] # <<>>
  /\ intr' = FALSE
  /\ \/ curthd = "none" /\ phase' = "dead_tick" /\ UNCHANGED timeVars
     \/ curthd # "none" /\ UpdateStart /\ UNCHANGED phase
  /\ UNCHANGED <<deviceVars, userVars, threadVars, curthd>>

\* hal_do_hwint closes the interrupts and run_callback calls tick_handle for the
\* device on the list of the line.  schedule_inc_tick wants a current thread, and
\* dies without one; systime_update takes its lock, and turns round for ever if a
\* thread has it.  An interrupt that nobody handles changes nothing.
TickInterrupt ==
  /\ intr /\ 0 \in lines /\ serv[0] # <<>>
  /\ intr' = FALSE
  /\ \/ curthd = "none" /\ phase' = "dead_tick" /\ UNCHANGED timeVars
     \/ curthd # "none" /\ Copying /\ phase' = "spin" /\ UNCHANGED timeVars
     \/ curthd # "none" /\ ~ Copying /\ UpdateStart /\ UNCHANGED phase
  /\ UNCHANGED <<deviceVars, userVars, threadVars, curthd>>

\* A register of the clock; after the last one the handler returns and
\* hal_do_hwint opens the interrupts.
TickUpdate ==
  /\ UpdateField
  /\ intr' = (reading = Len(Field))
  /\ UNCHANGED <<phase, deviceVars, userVars, threadVars, curthd>>

\* Whether threads can run: no handler of an interrupt does, and none of them has
\* closed the interrupts to copy the time.
ThreadsRun == phase = "up" /\ intr

\* hal_syscal_allocator, krlservice and the lock of systime_copy.
TimeCall(r) ==
  /\ ThreadsRun
  /\ CopyStart(r)
  /\ intr' = FALSE
  /\ phase' = IF Copying THEN "spin" ELSE phase
  /\ UNCHANGED <<deviceVars, userVars, threadVars, curthd>>

\* One assignment of systime_copy; the unlock comes after the last.
TimeCopy(r) ==
  /\ phase = "up" /\ reading = 0 /\ ~ intr
  /\ CopyField(r)
  /\ intr' = (copied[r].pos = Len(CopyOrder))
  /\ UNCHANGED <<phase, deviceVars, userVars, threadVars, curthd>>

\* The copy goes to where the caller said.  A page fault there opens the
\* interrupts though the lock is held; if the page can be had, the handler closes
\* them again.
TimeFault(r) ==
  /\ phase = "up" /\ reading = 0 /\ copied[r].pos > 0 /\ ~ intr
  /\ intr' = TRUE
  /\ UNCHANGED <<phase, deviceVars, userVars, timeVars, threadVars, curthd>>

TimeServed(r) ==
  /\ phase = "up" /\ copied[r].pos > 0 /\ intr
  /\ intr' = FALSE
  /\ UNCHANGED <<phase, deviceVars, userVars, timeVars, threadVars, curthd>>

\* The clock of the machine.
Clock ==
  /\ phase \in {"up", "fault"}
  /\ ClockTicks
  /\ UNCHANGED <<phase, deviceVars, intr, userVars, threadVars, curthd>>
-----------------------------------------------------------------------------
\* The users of the devices.
UseDevice ==
  /\ ThreadsRun
  /\ Calls
  /\ UNCHANGED <<phase, intr, timeVars, threadVars, curthd>>

\* krlnew_thread; its failures for lack of a first block, and its refusals,
\* change nothing.  A thread that writes to the null pointer goes on no more, with
\* the interrupts open.
NewThread ==
  /\ ThreadsRun
  /\ \E r \in Requests :
       \/ KrnlThread(r) \/ KrnlNoThread(r)
       \/ UserThread(r) \/ UserNoStack(r) \/ UserNoThread(r)
  /\ UNCHANGED <<phase, deviceVars, intr, userVars, timeVars, curthd>>

Next ==
  \/ Drive \/ ScheduleInit \/ IdleNew \/ RingThread \/ IdleStart
  \/ TickInterrupt \/ TickUpdate \/ Clock
  \/ \E r \in Reader : TimeCall(r) \/ TimeCopy(r) \/ TimeFault(r) \/ TimeServed(r)
  \/ UseDevice \/ NewThread

Spec == Init /\ [][Next]_vars
-----------------------------------------------------------------------------
(***************************************************************************)
(* Properties.                                                             *)
(***************************************************************************)

\* The values of the variables.
TypeOK ==
  /\ phase \in {"drivers", "schedule", "idle", "ring", "ring1", "ring2", "start", "up",
                "dead_driver", "dead_idle", "dead_tick", "fault", "spin"}
  /\ curthd \in {"none", "idle"}
  /\ DevicesTypeOK /\ SystemTimeTypeOK /\ ThreadCreationTypeOK

\* The timer finds a thread to charge its tick to, although its line is open
\* long before there is one (drvtick.c:201, schedule.c:98): every lock that is
\* given back on the way leaves the interrupts as they were.  What opens them is a
\* write to a null pointer, and there the kernel has stopped already.
TicksFindThread == [][phase' = "dead_tick" => phase = "fault"]_phase

\* No tick finds that there is no thread (schedule.c:98).
NoTickDies == phase # "dead_tick"

\* Nobody waits for ever for the lock of the time, which a caller of systime_copy
\* keeps while the page for its copy is brought in (systime.c:98).
NobodySpins == phase # "spin"

\* The ring of the boot has all of its threads (idle.c:134).
RingComplete == phase = "start" => Len(threads) = 4
=============================================================================
