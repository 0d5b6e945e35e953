---------------------------- MODULE StartupProofs ----------------------------
(***************************************************************************)
(* Proofs about the start of the kernel and about what runs after it, for  *)
(* any users, readers, readings of the clock and requests for threads.     *)
(***************************************************************************)
EXTENDS Startup, TLAPS, FiniteSetTheorems, WellFoundedInduction

\* Until the idle thread is made nothing opens the interrupts but a write to a
\* null pointer, so that no handler runs; the time is copied only afterwards.
Started ==
  /\ curthd = "none" => reading = 0 /\ (phase # "fault" => ~ intr)
  /\ Copying => phase \in {"up", "spin"}
  /\ phase \in {"drivers", "schedule"} => curthd = "none"
  /\ phase \in {"ring", "ring1", "ring2", "start", "up"} => curthd # "none"

LEMMA StartedInit == Init => Started
BY DEF Init, DevicesInit, TimeInit, ThreadsInit, Started, Copying

\* What driver_init leaves alone, and where it can lead.
LEMMA DriveEffect ==
  ASSUME Drive
  PROVE  /\ phase = "drivers" /\ reading = 0
         /\ phase' \in {"drivers", "schedule", "dead_driver", "fault"}
         /\ phase' # "fault" => intr' = intr
         /\ UNCHANGED <<opened, asked, clock, systime, reading, since, whole, copied,
                        threads, blocks, lost, curthd>>
<1>1. phase = "drivers" /\ reading = 0
  BY DEF Drive, DriverInit, DriverNew, DeviceNew, DiskNew, ExtNew, AddDriver, Register,
         InstallCallback, InitKeyboard, EnableLine, Format, DriverAddSystem, At
<1>2. Proceed => phase' \in {"drivers", "schedule"}
  BY <1>1 DEF Proceed
<1>3. Fail => phase' = "dead_driver"
  BY DEF Fail
<1>4. NullWrite => phase' = "fault"
  BY DEF NullWrite
<1>5. DriverInit => ((Proceed \/ Fail) /\ intr' = intr) \/ NullWrite
  BY DEF DriverInit, DriverNew, DeviceNew, DiskNew, ExtNew, AddDriver, Register,
         InstallCallback, InitKeyboard, EnableLine, Format, DriverAddSystem, Unlock
<1>6. DriverInit /\ UNCHANGED <<userVars, timeVars, threadVars, curthd>>
  BY DEF Drive
<1> QED
  BY <1>1, <1>2, <1>3, <1>4, <1>5, <1>6 DEF userVars, timeVars, threadVars

LEMMA StartedStep == Started /\ [Next]_vars => Started'
<1> SUFFICES ASSUME Started, [Next]_vars PROVE Started'
  OBVIOUS
<1>1. CASE Drive
  BY <1>1, DriveEffect DEF Started, Copying
<1>2. CASE ScheduleInit
  BY <1>2 DEF ScheduleInit, Started, Copying, deviceVars, userVars, timeVars
<1>3. CASE IdleNew
  BY <1>3 DEF IdleNew, Started, Copying, deviceVars, userVars, timeVars, threadVars
<1>4. CASE RingThread
  BY <1>4 DEF RingThread, Started, Copying, deviceVars, userVars, timeVars
<1>5. CASE IdleStart
  BY <1>5 DEF IdleStart, Started, Copying, deviceVars, userVars, timeVars
<1>6. CASE TickInterrupt
  BY <1>6 DEF TickInterrupt, UpdateStart, Started, Copying, deviceVars, userVars, timeVars
<1>7. CASE TickUpdate
  BY <1>7 DEF TickUpdate, UpdateField, Started, Copying, deviceVars, userVars
<1>8. CASE Clock
  BY <1>8 DEF Clock, ClockTicks, Started, Copying
<1>9. ASSUME NEW r \in Reader, TimeCall(r) PROVE Started'
  <2>1. phase = "up" /\ phase' \in {"up", "spin"} /\ curthd' = curthd
    BY <1>9 DEF TimeCall, ThreadsRun
  <2> QED
    BY <2>1 DEF Started
<1>10. ASSUME NEW r \in Reader, TimeCopy(r) \/ TimeFault(r) \/ TimeServed(r) PROVE Started'
  <2>1. phase = "up" /\ phase' = phase /\ curthd' = curthd
    BY <1>10 DEF TimeCopy, TimeFault, TimeServed
  <2> QED
    BY <2>1 DEF Started
<1>11. CASE UseDevice \/ NewThread
  <2>1. phase = "up" /\ phase' = phase /\ curthd' = curthd
    BY <1>11 DEF UseDevice, NewThread, ThreadsRun
  <2> QED
    BY <2>1 DEF Started
<1>12. CASE UNCHANGED vars
  BY <1>12 DEF vars, deviceVars, timeVars, Started, Copying
<1> QED
  BY <1>1, <1>2, <1>3, <1>4, <1>5, <1>6, <1>7, <1>8, <1>9, <1>10, <1>11, <1>12 DEF Next

\* The timer finds a thread in whatever order the boot takes and whichever of its
\* allocations fail, unless the kernel has stopped with a page fault before.
THEOREM TickHasThread == Spec => TicksFindThread
<1>1. Started /\ [Next]_vars => [phase' = "dead_tick" => phase = "fault"]_phase
  <2> SUFFICES ASSUME Started, [Next]_vars, phase' = "dead_tick", phase' # phase
               PROVE  phase = "fault"
    OBVIOUS
  <2>1. CASE TickInterrupt
    BY <2>1 DEF TickInterrupt, Started
  <2>2. ~ (Drive \/ ScheduleInit \/ IdleNew \/ RingThread \/ IdleStart)
    BY DriveEffect DEF ScheduleInit, IdleNew, RingThread, IdleStart
  <2>3. ~ (TickUpdate \/ Clock \/ UseDevice \/ NewThread)
    BY DEF TickUpdate, Clock, UseDevice, NewThread
  <2>4. \A r \in Reader : ~ (TimeCall(r) \/ TimeCopy(r) \/ TimeFault(r) \/ TimeServed(r))
    BY DEF TimeCall, TimeCopy, TimeFault, TimeServed
  <2>5. ~ UNCHANGED vars
    BY DEF vars
  <2> QED
    BY <2>1, <2>2, <2>3, <2>4, <2>5 DEF Next
<1> QED
  BY <1>1, StartedInit, StartedStep, PTL DEF Spec, TicksFindThread
-----------------------------------------------------------------------------
(***************************************************************************)
(* The time of day.                                                        *)
(***************************************************************************)

\* A time: natural numbers for all fields.
Time == [Fields -> Nat]

LEMMA FieldSix ==
  /\ Field = <<"second", "minute", "hour", "day", "month", "year">>
  /\ Len(Field) = 6
  /\ Fields = {"second", "minute", "hour", "day", "month", "year"}
  /\ \A n \in 1 .. 6 : Field[n] \in Fields
  /\ \A f \in Fields : \E n \in 1 .. 6 : f = Field[n]
<1>1. Field = <<"second", "minute", "hour", "day", "month", "year">> /\ Len(Field) = 6
  BY DEF Field
<1>2. Fields = {Field[n] : n \in 1 .. 6}
  BY <1>1 DEF Fields, ToSet
<1> QED
  BY <1>1, <1>2

LEMMA ValueNat == \A f \in Fields, i \in DOMAIN Readings : Value(f, Readings[i][f]) \in Nat
<1> SUFFICES ASSUME NEW f \in Fields, NEW i \in DOMAIN Readings
            PROVE  Value(f, Readings[i][f]) \in Nat
  OBVIOUS
<1>1. Readings[i][f] \in 0 .. 255
  BY SystemTimeAssumption
<1>2. BcdToBin(Readings[i][f]) \in Nat
  BY <1>1 DEF BcdToBin
<1> QED
  BY <1>2 DEF Value

TimeType ==
  /\ clock \in DOMAIN Readings /\ since \in DOMAIN Readings
  /\ systime \in Time /\ whole \in Time
  /\ reading \in 0 .. 6
  /\ copied \in [Reader -> [pos : 0 .. 6, time : Time, ok : BOOLEAN]]

\* A handler keeps the others out, and does not run while somebody copies, whose
\* lock it would wait for; between the handlers the time is what the last one has
\* left; what has been copied is of that time.
CopyInv ==
  /\ TimeType
  /\ reading > 0 => ~ intr /\ ~ Copying
  /\ reading = 0 => systime = whole
  /\ \A r \in Reader : \A i \in 1 .. copied[r].pos - 1 :
       copied[r].time[CopyOrder[i]] = whole[CopyOrder[i]]

LEMMA CopyInvInit == Init => CopyInv
<1> SUFFICES ASSUME Init PROVE CopyInv
  OBVIOUS
<1>1. 1 \in DOMAIN Readings /\ NoTime \in Time
  BY SystemTimeAssumption DEF NoTime, Time
<1>2. /\ clock = 1 /\ reading = 0 /\ since = 1 /\ systime = NoTime /\ whole = NoTime /\ intr = FALSE
      /\ copied = [r \in Reader |-> [pos |-> 0, time |-> NoTime, ok |-> FALSE]]
  BY DEF Init, TimeInit
<1> QED
  BY <1>1, <1>2 DEF CopyInv, TimeType, Copying

\* One more field is copied.
LEMMA CopyFieldType ==
  ASSUME TimeType, NEW r \in Reader, CopyField(r)
  PROVE  /\ copied[r].pos \in 1 .. 6
         /\ copied' = [copied EXCEPT ![r] = copied'[r]]
         /\ copied'[r] \in [pos : 0 .. 6, time : Time, ok : BOOLEAN]
         /\ copied'[r].pos = (IF copied[r].pos = 6 THEN 0 ELSE copied[r].pos + 1)
         /\ copied'[r].time = [copied[r].time EXCEPT ![CopyOrder[copied[r].pos]]
                                 = systime[CopyOrder[copied[r].pos]]]
         /\ copied'[r].ok = (copied[r].pos = 6)
<1>1. copied[r] \in [pos : 0 .. 6, time : Time, ok : BOOLEAN]
  BY DEF TimeType
<1>2. copied[r].pos \in 1 .. 6
  BY <1>1 DEF CopyField
<1>3. Len(CopyOrder) = 6 /\ \A n \in 1 .. 6 : CopyOrder[n] \in Fields
  BY FieldSix DEF CopyOrder
<1>4. copied'[r] = [pos |-> IF copied[r].pos = 6 THEN 0 ELSE copied[r].pos + 1,
                    time |-> [copied[r].time EXCEPT ![CopyOrder[copied[r].pos]]
                                = systime[CopyOrder[copied[r].pos]]],
                    ok |-> (copied[r].pos = 6)]
  BY <1>3 DEF CopyField, TimeType
<1>5. copied' = [copied EXCEPT ![r] = copied'[r]]
  BY <1>3, <1>4 DEF CopyField, TimeType
<1>6. [copied[r].time EXCEPT ![CopyOrder[copied[r].pos]]
          = systime[CopyOrder[copied[r].pos]]] \in Time
  BY <1>1, <1>2, <1>3 DEF TimeType, Time
<1> QED
  BY <1>2, <1>4, <1>5, <1>6

\* The actions that do not change the time; a page fault in a copy is one of them.
Elsewhere ==
  \/ Drive \/ ScheduleInit \/ IdleNew \/ RingThread \/ IdleStart \/ UseDevice \/ NewThread
  \/ \E r \in Reader : TimeFault(r) \/ TimeServed(r)

LEMMA CopyInvKept ==
  ASSUME CopyInv, UNCHANGED <<clock, systime, reading, since, whole, copied>>,
         intr' => intr \/ reading = 0
  PROVE  CopyInv'
BY DEF CopyInv, TimeType, Copying

LEMMA ElsewhereKept ==
  ASSUME Elsewhere
  PROVE  UNCHANGED <<clock, systime, reading, since, whole, copied>> /\ (intr' => intr \/ reading = 0)
<1>1. CASE Drive
  BY <1>1, DriveEffect
<1>2. CASE IdleStart \/ RingThread
  BY <1>2 DEF IdleStart, RingThread, timeVars
<1>3. CASE ScheduleInit \/ IdleNew \/ UseDevice \/ NewThread
  BY <1>3 DEF ScheduleInit, IdleNew, UseDevice, NewThread, timeVars
<1>4. ASSUME NEW r \in Reader, TimeFault(r) \/ TimeServed(r)
      PROVE  UNCHANGED <<clock, systime, reading, since, whole, copied>> /\ (intr' => intr \/ reading = 0)
  BY <1>4 DEF TimeFault, TimeServed, timeVars
<1> QED
  BY <1>1, <1>2, <1>3, <1>4 DEF Elsewhere

LEMMA CopyInvUpdate ==
  ASSUME CopyInv, TickUpdate
  PROVE  CopyInv'
<1>1. reading \in 1 .. 6 /\ ~ Copying /\ UNCHANGED <<clock, since, copied>>
  BY DEF CopyInv, TimeType, TickUpdate, UpdateField
<1>2. RegisterOf(reading) \in Fields
  BY <1>1, FieldSix DEF RegisterOf
<1>3. systime' \in Time
  <2>1. Value(RegisterOf(reading), Readings[clock][RegisterOf(reading)]) \in Nat
    BY <1>2, ValueNat DEF CopyInv, TimeType
  <2> QED
    BY <1>2, <2>1 DEF TickUpdate, UpdateField, CopyInv, TimeType, Time
<1>4. /\ reading' = (IF reading = 6 THEN 0 ELSE reading + 1)
      /\ whole' = (IF reading = 6 THEN systime' ELSE whole)
      /\ reading # 6 => ~ intr'
  BY FieldSix DEF TickUpdate, UpdateField
<1>5. reading' \in 0 .. 6 /\ (reading' = 0 => systime' = whole') /\ whole' \in Time
  BY <1>1, <1>3, <1>4 DEF CopyInv, TimeType
<1>6. reading' > 0 => ~ intr'
  BY <1>1, <1>4
<1>7. ~ Copying' /\ \A r \in Reader : copied[r].pos = 0
  <2>1. \A r \in Reader : copied[r].pos \in 0 .. 6 /\ ~ (copied[r].pos > 0)
    BY <1>1 DEF Copying, CopyInv, TimeType
  <2> QED
    BY <1>1, <2>1 DEF Copying
<1>8. TimeType'
  BY <1>1, <1>3, <1>5 DEF CopyInv, TimeType
<1> QED
  BY <1>1, <1>5, <1>6, <1>7, <1>8 DEF CopyInv

LEMMA CopyInvCopy ==
  ASSUME CopyInv, NEW r \in Reader, TimeCopy(r)
  PROVE  CopyInv'
<1>1. /\ reading = 0 /\ CopyField(r)
      /\ UNCHANGED <<clock, systime, reading, since, whole>>
  BY DEF TimeCopy, CopyField
<1>2. TimeType
  BY DEF CopyInv
<1>3. /\ copied[r].pos \in 1 .. 6
      /\ copied' = [copied EXCEPT ![r] = copied'[r]]
      /\ copied'[r] \in [pos : 0 .. 6, time : Time, ok : BOOLEAN]
      /\ copied'[r].pos = (IF copied[r].pos = 6 THEN 0 ELSE copied[r].pos + 1)
      /\ copied'[r].time = [copied[r].time EXCEPT ![CopyOrder[copied[r].pos]]
                              = systime[CopyOrder[copied[r].pos]]]
  BY <1>1, <1>2, CopyFieldType
<1>4. TimeType'
  BY <1>1, <1>2, <1>3 DEF TimeType
<1>5. \A s \in Reader \ {r} : copied'[s] = copied[s]
  BY <1>2, <1>3 DEF TimeType
<1>6. \A s \in Reader \ {r} : \A i \in 1 .. copied[s].pos - 1 :
        copied[s].time[CopyOrder[i]] = whole[CopyOrder[i]]
  BY DEF CopyInv
<1>7. reading' = 0 /\ systime' = whole'
  BY <1>1 DEF CopyInv
<1>8. ASSUME NEW i \in 1 .. copied'[r].pos - 1
      PROVE  copied'[r].time[CopyOrder[i]] = whole[CopyOrder[i]]
  <2>1. i \in 1 .. 6 /\ i <= copied[r].pos
    BY <1>3, <1>8
  <2>2. \A n \in 1 .. 6 : CopyOrder[n] \in Fields
    BY FieldSix DEF CopyOrder
  <2>3. copied[r].time \in Time /\ systime = whole
    BY <1>1, <1>2 DEF CopyInv, TimeType
  <2>4. CASE CopyOrder[i] = CopyOrder[copied[r].pos]
    BY <1>3, <2>1, <2>2, <2>3, <2>4 DEF Time
  <2>5. CASE CopyOrder[i] # CopyOrder[copied[r].pos]
    <3>1. i \in 1 .. copied[r].pos - 1
      BY <1>3, <2>1, <2>5
    <3>2. copied[r].time[CopyOrder[i]] = whole[CopyOrder[i]]
      BY <3>1 DEF CopyInv
    <3> QED
      BY <1>3, <2>1, <2>2, <2>3, <2>5, <3>2 DEF Time
  <2> QED
    BY <2>4, <2>5
<1>9. \A s \in Reader : \A i \in 1 .. copied'[s].pos - 1 :
        copied'[s].time[CopyOrder[i]] = whole'[CopyOrder[i]]
  BY <1>1, <1>5, <1>6, <1>8
<1> QED
  BY <1>4, <1>7, <1>9 DEF CopyInv

LEMMA CopyInvCall ==
  ASSUME CopyInv, NEW r \in Reader, TimeCall(r)
  PROVE  CopyInv'
<1>1. /\ intr
      /\ copied' = [copied EXCEPT ![r] = [pos |-> 1, time |-> copied[r].time, ok |-> FALSE]]
      /\ UNCHANGED <<clock, systime, reading, since, whole>>
  BY DEF TimeCall, ThreadsRun, CopyStart
<1>2. reading = 0
  BY <1>1 DEF CopyInv, TimeType
<1>3. TimeType'
  BY <1>1 DEF CopyInv, TimeType
<1>4. 1 .. copied'[r].pos - 1 = {} /\ \A s \in Reader \ {r} : copied'[s] = copied[s]
  BY <1>1 DEF CopyInv, TimeType
<1> QED
  BY <1>1, <1>2, <1>3, <1>4 DEF CopyInv

LEMMA CopyInvStep == CopyInv /\ [Next]_vars => CopyInv'
<1> SUFFICES ASSUME CopyInv, [Next]_vars PROVE CopyInv'
  OBVIOUS
<1>1. CASE Elsewhere
  BY <1>1, ElsewhereKept, CopyInvKept
<1>2. CASE TickInterrupt
  <2>1. CASE UNCHANGED timeVars
    <3>1. UNCHANGED <<clock, systime, reading, since, whole, copied>> /\ ~ intr'
      BY <1>2, <2>1 DEF TickInterrupt, timeVars
    <3> QED
      BY <3>1, CopyInvKept
  <2>2. CASE ~ Copying /\ UpdateStart
    <3>1. /\ ~ intr' /\ reading = 0 /\ reading' = 1 /\ since' = clock
          /\ UNCHANGED <<clock, systime, whole, copied>>
      BY <1>2, <2>2 DEF TickInterrupt, UpdateStart
    <3> QED
      BY <2>2, <3>1 DEF CopyInv, TimeType, Copying
  <2> QED
    BY <1>2, <2>1, <2>2 DEF TickInterrupt
<1>3. CASE TickUpdate
  BY <1>3, CopyInvUpdate
<1>4. CASE Clock
  BY <1>4 DEF Clock, ClockTicks, CopyInv, TimeType, Copying
<1>5. ASSUME NEW r \in Reader, TimeCall(r) PROVE CopyInv'
  BY <1>5, CopyInvCall
<1>6. ASSUME NEW r \in Reader, TimeCopy(r) PROVE CopyInv'
  BY <1>6, CopyInvCopy
<1>7. CASE UNCHANGED vars
  BY <1>7, CopyInvKept DEF vars, timeVars
<1> QED
  BY <1>1, <1>2, <1>3, <1>4, <1>5, <1>6, <1>7 DEF Next, Elsewhere

\* The last field completes a copy of one update.
LEMMA CopyEnds ==
  ASSUME CopyInv, NEW r \in Reader, TimeCopy(r), copied'[r].ok
  PROVE  copied'[r].time = whole
<1>1. TimeType /\ CopyField(r) /\ systime = whole
  BY DEF CopyInv, TimeCopy
<1>2. /\ copied[r].pos = 6
      /\ copied'[r].time = [copied[r].time EXCEPT ![CopyOrder[6]] = systime[CopyOrder[6]]]
  BY <1>1, CopyFieldType
<1>3. \A i \in 1 .. 5 : copied[r].time[CopyOrder[i]] = whole[CopyOrder[i]]
  BY <1>2 DEF CopyInv
<1>4. \A f \in Fields : \E i \in 1 .. 6 : f = CopyOrder[i]
  BY FieldSix DEF CopyOrder
<1>5. copied[r].time \in Time /\ whole \in Time
  BY <1>1 DEF TimeType
<1>6. ASSUME NEW f \in Fields PROVE copied'[r].time[f] = whole[f]
  <2>1. PICK i \in 1 .. 6 : f = CopyOrder[i]
    BY <1>4
  <2>2. CASE f = CopyOrder[6]
    BY <1>1, <1>2, <1>5, <2>2 DEF Time
  <2>3. CASE f # CopyOrder[6]
    <3>1. i \in 1 .. 5
      BY <2>1, <2>3
    <3> QED
      BY <1>2, <1>3, <1>5, <2>1, <2>3, <3>1 DEF Time
  <2> QED
    BY <2>2, <2>3
<1>7. copied'[r].time \in Time
  BY <1>2, <1>5, <1>1 DEF Time
<1> QED
  BY <1>5, <1>6, <1>7 DEF Time

\* A copy that ends is of one update: the fields of two are never mixed.
THEOREM CopyCoherent == Spec => CopyWhole
<1> DEFINE Whole == \A r \in Reader : copied'[r].ok /\ ~ copied[r].ok => copied'[r].time = whole
<1>1. CopyInv /\ [Next]_vars => [Whole]_timeVars
  <2> SUFFICES ASSUME CopyInv, [Next]_vars PROVE Whole \/ UNCHANGED timeVars
    OBVIOUS
  <2>1. CASE UNCHANGED copied
    BY <2>1
  <2>2. ASSUME NEW r \in Reader, TimeCall(r) PROVE Whole
    BY <2>2 DEF TimeCall, CopyStart, CopyInv, TimeType
  <2>3. ASSUME NEW r \in Reader, TimeCopy(r) PROVE Whole
    <3>1. \A s \in Reader \ {r} : copied'[s] = copied[s]
      BY <2>3, CopyFieldType DEF TimeCopy, CopyInv, TimeType
    <3>2. copied'[r].ok => copied'[r].time = whole
      BY <2>3, CopyEnds
    <3> QED
      BY <3>1, <3>2
  <2>4. CASE Elsewhere
    BY <2>1, <2>4, ElsewhereKept
  <2>5. CASE TickInterrupt \/ TickUpdate \/ Clock
    BY <2>1, <2>5 DEF TickInterrupt, TickUpdate, Clock, UpdateStart, UpdateField, ClockTicks, timeVars
  <2>6. CASE UNCHANGED vars
    BY <2>6 DEF vars
  <2> QED
    BY <2>2, <2>3, <2>4, <2>5, <2>6 DEF Next, Elsewhere
<1> QED
  BY <1>1, CopyInvInit, CopyInvStep, PTL DEF Spec, CopyWhole
-----------------------------------------------------------------------------
\* Two times have the same fields above the i-th.
Same(i, a, b) == \A j \in i + 1 .. 6 : a[Field[j]] = b[Field[j]]

LEMMA ShownNat == \A i \in DOMAIN Readings, n \in 1 .. 6 : Shown(i)[Field[n]] \in Nat
BY ValueNat, FieldSix DEF Shown

LEMMA Later ==
  ASSUME NEW i \in DOMAIN Readings, NEW j \in DOMAIN Readings, i <= j,
         NEW n \in 1 .. 6, Same(n, Shown(j), Shown(i))
  PROVE  Shown(j)[Field[n]] >= Shown(i)[Field[n]]
BY ClockAssumption, FieldSix DEF NotBefore, Same

\* How many fields of the time are of the last update, and when each was read.
ReadSoFar == IF reading = 0 THEN 6 ELSE reading - 1

ReadAt(c, n) ==
  /\ c \in [1 .. 6 -> DOMAIN Readings]
  /\ \A i \in 1 .. n :
       /\ since <= c[i] /\ c[i] <= clock
       /\ systime[Field[i]] = Shown(c[i])[Field[i]]
  /\ \A i, j \in 1 .. n : i <= j => c[i] <= c[j]

ReadInOrder ==
  /\ since <= clock
  /\ reading > 0 \/ systime # NoTime => \E c : ReadAt(c, ReadSoFar)

LEMMA SameBelow ==
  ASSUME TimeType, NEW c, ReadAt(c, 6), NEW n \in 2 .. 6,
         Same(n - 1, systime, Shown(since)),
         \A k \in DOMAIN Readings :
           since <= k /\ k <= c[n] => Same(n, Shown(k), Shown(since))
  PROVE  \A k \in DOMAIN Readings :
           since <= k /\ k <= c[n - 1] => Same(n - 1, Shown(k), Shown(since))
<1> SUFFICES ASSUME NEW k \in DOMAIN Readings, since <= k, k <= c[n - 1]
             PROVE  Same(n - 1, Shown(k), Shown(since))
  OBVIOUS
<1>1. /\ c[n] \in DOMAIN Readings /\ c[n - 1] \in DOMAIN Readings /\ since \in DOMAIN Readings
      /\ c[n - 1] <= c[n] /\ since <= c[n]
      /\ DOMAIN Readings \subseteq Int
      /\ systime[Field[n]] = Shown(c[n])[Field[n]]
  <2>1. n \in 1 .. 6 /\ n - 1 \in 1 .. 6 /\ n - 1 <= n
    OBVIOUS
  <2>2. /\ c \in [1 .. 6 -> DOMAIN Readings]
        /\ \A i \in 1 .. 6 : since <= c[i] /\ systime[Field[i]] = Shown(c[i])[Field[i]]
        /\ \A i, j \in 1 .. 6 : i <= j => c[i] <= c[j]
    BY DEF ReadAt
  <2>3. since \in DOMAIN Readings /\ DOMAIN Readings \subseteq Int
    BY SystemTimeAssumption DEF TimeType
  <2> QED BY <2>1, <2>2, <2>3
<1>2. k <= c[n]
  BY <1>1
<1>3. Same(n, Shown(k), Shown(since)) /\ Same(n, Shown(c[n]), Shown(since))
  BY <1>1, <1>2
<1>4. Same(n, Shown(c[n]), Shown(k))
  BY <1>3 DEF Same
<1>5. Shown(k)[Field[n]] >= Shown(since)[Field[n]]
  BY <1>1, <1>3, Later
<1>6. Shown(c[n])[Field[n]] >= Shown(k)[Field[n]]
  BY <1>1, <1>2, <1>4, Later
<1>7. Shown(c[n])[Field[n]] = Shown(since)[Field[n]]
  BY <1>1 DEF Same
<1>8. Shown(k)[Field[n]] = Shown(since)[Field[n]]
  BY <1>1, <1>5, <1>6, <1>7, ShownNat
<1> QED
  BY <1>3, <1>8 DEF Same

\* Each field is at least what the clock showed for it when the update began, if
\* all higher ones are what it showed.
LEMMA ReadForward ==
  ASSUME TimeType, NEW c, ReadAt(c, 6)
  PROVE  NotBefore(systime, Shown(since))
<1> DEFINE Between(n) == \A k \in DOMAIN Readings :
             since <= k /\ k <= c[n] => Same(n, Shown(k), Shown(since))
<1>6. Between(6)
  BY DEF Same
<1>5. Same(5, systime, Shown(since)) => Between(5)
  BY <1>6, SameBelow
<1>4. Same(4, systime, Shown(since)) => Between(4)
  BY <1>5, SameBelow DEF Same
<1>3. Same(3, systime, Shown(since)) => Between(3)
  BY <1>4, SameBelow DEF Same
<1>2. Same(2, systime, Shown(since)) => Between(2)
  BY <1>3, SameBelow DEF Same
<1>1. Same(1, systime, Shown(since)) => Between(1)
  BY <1>2, SameBelow DEF Same
<1>7. ASSUME NEW n \in 1 .. 6, Same(n, systime, Shown(since))
      PROVE  systime[Field[n]] >= Shown(since)[Field[n]]
  <2>1. Between(n)
    BY <1>1, <1>2, <1>3, <1>4, <1>5, <1>6, <1>7
  <2>2. /\ c[n] \in DOMAIN Readings /\ since \in DOMAIN Readings /\ since <= c[n]
        /\ DOMAIN Readings \subseteq Int
        /\ systime[Field[n]] = Shown(c[n])[Field[n]]
    BY SystemTimeAssumption DEF ReadAt, TimeType
  <2>3. Same(n, Shown(c[n]), Shown(since))
    BY <2>1, <2>2
  <2> QED
    BY <2>2, <2>3, Later
<1> QED
  BY <1>7, FieldSix DEF NotBefore, Same

LEMMA ReadInOrderInit == Init => ReadInOrder
BY DEF Init, TimeInit, ReadInOrder

LEMMA ReadInOrderKept ==
  ASSUME ReadInOrder, UNCHANGED <<clock, systime, reading, since>>
  PROVE  ReadInOrder'
BY DEF ReadInOrder, ReadAt, ReadSoFar

LEMMA ReadInOrderField ==
  ASSUME CopyInv, ReadInOrder, TickUpdate
  PROVE  ReadInOrder'
<1>1. /\ reading \in 1 .. 6 /\ reading' = (IF reading = 6 THEN 0 ELSE reading + 1)
      /\ UNCHANGED <<clock, since>>
      /\ clock \in DOMAIN Readings /\ since \in DOMAIN Readings /\ systime \in Time
      /\ DOMAIN Readings \subseteq Int
  BY FieldSix, SystemTimeAssumption DEF CopyInv, TimeType, TickUpdate, UpdateField
<1>2. systime' = [systime EXCEPT ![Field[reading]] = Shown(clock)[Field[reading]]]
  BY <1>1, FieldSix DEF TickUpdate, UpdateField, RegisterOf, Shown
<1>3. PICK c : ReadAt(c, reading - 1)
  BY <1>1 DEF ReadInOrder, ReadSoFar
<1>4. since <= clock
  BY DEF ReadInOrder
<1>5. PICK m \in 1 .. 6 : m = reading
  BY <1>1
<1>6. PICK d \in [1 .. 6 -> DOMAIN Readings] :
        d[m] = clock /\ \A i \in 1 .. 6 \ {m} : d[i] = c[i]
  <2>1. [c EXCEPT ![m] = clock] \in [1 .. 6 -> DOMAIN Readings]
    BY <1>1, <1>3 DEF ReadAt
  <2> QED
    BY <1>3, <2>1 DEF ReadAt
<1>7. ASSUME NEW i \in 1 .. m
      PROVE  /\ since <= d[i] /\ d[i] <= clock
             /\ systime'[Field[i]] = Shown(d[i])[Field[i]]
  <2>1. CASE i = m
    BY <1>1, <1>2, <1>4, <1>5, <1>6, <2>1, FieldSix DEF Time
  <2>2. CASE i # m
    <3>1. i \in 1 .. reading - 1 /\ d[i] = c[i] /\ Field[i] # Field[m] /\ Field[i] \in Fields
      BY <1>5, <1>6, <2>2, FieldSix
    <3> QED
      BY <1>1, <1>2, <1>3, <1>5, <3>1 DEF ReadAt, Time
  <2> QED
    BY <2>1, <2>2
<1>8. ASSUME NEW i \in 1 .. m, NEW j \in 1 .. m, i <= j
      PROVE  d[i] <= d[j]
  BY <1>1, <1>3, <1>5, <1>6, <1>7, <1>8 DEF ReadAt
<1>9. ReadSoFar' = m
  BY <1>1, <1>5 DEF ReadSoFar
<1>10. ReadAt(d, m)'
  BY <1>1, <1>7, <1>8 DEF ReadAt
<1> QED
  BY <1>1, <1>4, <1>9, <1>10 DEF ReadInOrder

LEMMA ReadInOrderStep == CopyInv /\ ReadInOrder /\ [Next]_vars => ReadInOrder'
<1> SUFFICES ASSUME CopyInv, ReadInOrder, [Next]_vars PROVE ReadInOrder'
  OBVIOUS
<1>0. clock \in DOMAIN Readings /\ DOMAIN Readings \subseteq Int /\ since \in DOMAIN Readings
  BY SystemTimeAssumption DEF CopyInv, TimeType
<1>1. CASE Elsewhere
  BY <1>1, ElsewhereKept, ReadInOrderKept
<1>2. CASE TickInterrupt
  <2>1. CASE UNCHANGED timeVars
    BY <2>1, ReadInOrderKept DEF timeVars
  <2>2. CASE UpdateStart
    <3>1. reading' = 1 /\ since' = clock /\ UNCHANGED <<clock, systime>>
      BY <2>2 DEF UpdateStart
    <3>2. ReadSoFar' = 0
      BY <3>1 DEF ReadSoFar
    <3>3. ReadAt([i \in 1 .. 6 |-> clock], 0)'
      BY <1>0, <3>1 DEF ReadAt
    <3> QED
      BY <1>0, <3>1, <3>2, <3>3 DEF ReadInOrder
  <2> QED
    BY <1>2, <2>1, <2>2 DEF TickInterrupt
<1>3. CASE TickUpdate
  BY <1>3, ReadInOrderField
<1>4. CASE Clock
  <2>1. clock' = clock + 1 /\ UNCHANGED <<systime, reading, since>>
    BY <1>4 DEF Clock, ClockTicks
  <2>2. PICK n \in 0 .. 6 : n = ReadSoFar /\ n = ReadSoFar'
    BY <2>1 DEF ReadSoFar, CopyInv, TimeType
  <2>3. ASSUME NEW c, ReadAt(c, n) PROVE ReadAt(c, n)'
    <3>1. \A i \in 1 .. n : c[i] \in Int /\ (c[i] <= clock => c[i] <= clock + 1)
      BY <1>0, <2>3 DEF ReadAt
    <3> QED
      BY <2>1, <2>3, <3>1 DEF ReadAt
  <2> QED
    BY <1>0, <2>1, <2>2, <2>3 DEF ReadInOrder
<1>5. ASSUME NEW r \in Reader, TimeCall(r) \/ TimeCopy(r) PROVE ReadInOrder'
  BY <1>5, ReadInOrderKept DEF TimeCall, TimeCopy, CopyStart, CopyField
<1>6. CASE UNCHANGED vars
  BY <1>6, ReadInOrderKept DEF vars, timeVars
<1> QED
  BY <1>1, <1>2, <1>3, <1>4, <1>5, <1>6 DEF Next, Elsewhere

\* The time of the system never falls behind the clock of the last update,
\* although the clock goes on between the reads of its registers.
THEOREM TimeForward == Spec => []NeverBehind
<1>1. CopyInv /\ ReadInOrder => NeverBehind
  <2> SUFFICES ASSUME CopyInv, ReadInOrder, reading = 0, systime # NoTime
               PROVE  NotBefore(systime, Shown(since))
    BY DEF NeverBehind
  <2>1. PICK c : ReadAt(c, 6)
    BY DEF ReadInOrder, ReadSoFar
  <2> QED
    BY <2>1, ReadForward DEF CopyInv
<1> QED
  BY <1>1, CopyInvInit, CopyInvStep, ReadInOrderInit,
     ReadInOrderStep, PTL DEF Spec
-----------------------------------------------------------------------------
(***************************************************************************)
(* The counts of the devices.                                              *)
(***************************************************************************)

DevRecord == [made : BOOLEAN, drv : Device \cup {"none"}, count : Nat,
              ext : {"none", "disk", "board"}, need : Nat, room : Nat]

Opens(d) == {u \in User : d \in opened[u]}
Asks(d) == {u \in User : asked[u] = d}

\* Nobody uses a device before the kernel runs.
CountInv ==
  /\ at.driver \in 1 .. 3 /\ at \in [driver : 1 .. 3, step : Int]
  /\ dev \in [Device -> DevRecord]
  /\ opened \in [User -> SUBSET Device]
  /\ asked \in [User -> Counted \cup {"none"}]
  /\ phase = "drivers" => \A u \in User : opened[u] = {} /\ asked[u] = "none"
  /\ phase = "drivers" => \A d \in Device : dev[d].count = 0
  /\ \A d \in Counted : dev[d].count = Cardinality(Opens(d)) + Cardinality(Asks(d))

LEMMA DeviceSet == Device = {"tick", "rfs", "keyboard"} /\ Drivers = <<"tick", "rfs", "keyboard">>
BY DEF Device, Drivers, ToSet

LEMMA CountInvInit == Init => CountInv
<1> SUFFICES ASSUME Init PROVE CountInv
  OBVIOUS
<1>1. /\ phase = "drivers" /\ at = [driver |-> 1, step |-> 1]
      /\ dev = [d \in Device |-> NoDevice]
      /\ opened = [u \in User |-> {}] /\ asked = [u \in User |-> "none"]
  BY DEF Init, DevicesInit
<1>2. NoDevice \in DevRecord /\ NoDevice.count = 0
  BY DEF NoDevice, DevRecord
<1>3. \A d \in Counted : Opens(d) = {} /\ Asks(d) = {}
  BY <1>1 DEF Opens, Asks, Counted
<1>4. Counted \subseteq Device
  BY DeviceSet DEF Counted
<1> QED
  BY <1>1, <1>2, <1>3, <1>4, FS_EmptySet DEF CountInv

\* The entry functions change the counts of nobody.
LEMMA DriveCounts ==
  ASSUME CountInv, Drive
  PROVE  /\ at' \in [driver : 1 .. 3, step : Int]
         /\ dev' \in [Device -> DevRecord]
         /\ \A d \in Device : dev'[d].count = 0
<1>1. phase = "drivers" /\ at \in [driver : 1 .. 3, step : Int] /\ dev \in [Device -> DevRecord]
      /\ \A d \in Device : dev[d].count = 0
  BY DriveEffect DEF CountInv
<1>2. Current \in Device
  BY <1>1, DeviceSet DEF Current
<1>3. at' \in [driver : 1 .. 3, step : Int]
  <2>1. Proceed => at' \in [driver : 1 .. 3, step : Int]
    BY <1>1, DeviceSet DEF Proceed
  <2>2. Fail \/ NullWrite => at' = at
    BY DEF Fail, NullWrite
  <2>3. DriverInit => Proceed \/ Fail \/ NullWrite
    BY DEF DriverInit, DriverNew, DeviceNew, DiskNew, ExtNew, AddDriver, Register,
           InstallCallback, InitKeyboard, EnableLine, Format, DriverAddSystem
  <2> QED
    BY <1>1, <2>1, <2>2, <2>3 DEF Drive
<1>4. CASE DeviceNew
  <2>1. [NoDevice EXCEPT !.made = TRUE] \in DevRecord /\ [NoDevice EXCEPT !.made = TRUE].count = 0
    BY DEF NoDevice, DevRecord
  <2>2. dev' = dev \/ dev' = [dev EXCEPT ![Current] = [NoDevice EXCEPT !.made = TRUE]]
    BY <1>4 DEF DeviceNew, Fail, NullWrite
  <2> QED
    BY <1>1, <1>2, <1>3, <2>1, <2>2
<1>5. CASE ExtNew
  <2>1. PICK n \in Nat, m \in Nat :
          \/ dev' = dev
          \/ dev' = [dev EXCEPT ![Current].ext = "disk", ![Current].need = n,
                               ![Current].room = m]
    <3>1. DevextSize \in Nat
          /\ ((PointerSize + ObjectSize - 1) \div ObjectSize) * ObjectSize \in Nat
      BY DevicesAssumption
    <3> QED
      BY <1>5, <3>1 DEF ExtNew, NullWrite
  <2> QED
    BY <1>1, <1>2, <1>3, <2>1 DEF DevRecord
<1>6. CASE AddDriver
  <2>1. dev' = dev \/ dev' = [dev EXCEPT ![Current].drv = Current]
    BY <1>6 DEF AddDriver, Fail
  <2> QED
    BY <1>1, <1>2, <1>3, <2>1 DEF DevRecord
<1>7. CASE InitKeyboard
  <2>1. dev' = dev \/ dev' = [dev EXCEPT ![Current].ext = "board"]
    BY <1>7 DEF InitKeyboard
  <2> QED
    BY <1>1, <1>2, <1>3, <2>1 DEF DevRecord
<1>8. CASE DriverNew \/ DiskNew \/ Register \/ InstallCallback \/ EnableLine \/ Format \/ DriverAddSystem
  <2>1. dev' = dev
    BY <1>8 DEF DriverNew, DiskNew, Register, InstallCallback, EnableLine, Format, DriverAddSystem, Fail, NullWrite
  <2> QED
    BY <1>1, <1>3, <2>1
<1> QED
  BY <1>4, <1>5, <1>6, <1>7, <1>8 DEF Drive, DriverInit

LEMMA CountInvDrive == CountInv /\ Drive => CountInv'
<1> SUFFICES ASSUME CountInv, Drive PROVE CountInv'
  OBVIOUS
<1>1. phase = "drivers" /\ UNCHANGED <<opened, asked>>
  BY DriveEffect
<1>2. \A d \in Counted : Opens(d)' = Opens(d) /\ Asks(d)' = Asks(d)
  BY <1>1 DEF Opens, Asks
<1>3. \A d \in Counted : d \in Device
  BY DeviceSet DEF Counted
<1> QED
  BY <1>1, <1>2, <1>3, DriveCounts DEF CountInv

\* The numbers of those who have a device open and of those who leave it, when
\* one user moves.
LEMMA Counts ==
  ASSUME IsFiniteSet(User), NEW u \in User, NEW P, NEW Q,
         P \in SUBSET User, Q \in SUBSET User,
         \A v \in User \ {u} : v \in P <=> v \in Q
  PROVE  /\ Cardinality(P) \in Nat /\ Cardinality(Q) \in Nat
         /\ u \in P => Cardinality(P) >= 1
         /\ (u \in P <=> u \in Q) => Cardinality(Q) = Cardinality(P)
         /\ u \notin P /\ u \in Q => Cardinality(Q) = Cardinality(P) + 1
         /\ u \in P /\ u \notin Q => Cardinality(Q) = Cardinality(P) - 1
<1>1. IsFiniteSet(P) /\ IsFiniteSet(Q)
  BY FS_Subset
<1>2. Cardinality(P) \in Nat /\ Cardinality(Q) \in Nat
  BY <1>1, FS_CardinalityType
<1>3. (u \in P <=> u \in Q) => Cardinality(Q) = Cardinality(P)
  <2>1. (u \in P <=> u \in Q) => P = Q
    OBVIOUS
  <2> QED
    BY <2>1
<1>4. u \notin P /\ u \in Q => Cardinality(Q) = Cardinality(P) + 1
  <2>1. u \notin P /\ u \in Q => Q = P \cup {u}
    OBVIOUS
  <2> QED
    BY <1>1, <2>1, FS_AddElement
<1>5. u \in P /\ u \notin Q => Cardinality(Q) = Cardinality(P) - 1
  <2>1. u \in P /\ u \notin Q => Q = P \ {u}
    OBVIOUS
  <2> QED
    BY <1>1, <2>1, FS_RemoveElement
<1>6. u \in P => Cardinality(P) >= 1
  BY <1>1, <1>2, FS_EmptySet
<1> QED
  BY <1>2, <1>3, <1>4, <1>5, <1>6

\* Callers close what they have opened, and use no code that only stops.
Discipline == OwnOnly /\ "dev_stop" \notin Opcodes

LEMMA CountInvOpen ==
  ASSUME IsFiniteSet(User), CountInv, NEW u \in User, NEW d \in Device, Open(u, d),
         phase' = phase
  PROVE  CountInv'
<1>1. /\ phase = "up" /\ d \in Counted /\ d \notin opened[u]
      /\ dev' = [dev EXCEPT ![d].count = @ + 1]
      /\ opened' = [opened EXCEPT ![u] = @ \cup {d}]
      /\ UNCHANGED <<at, asked>>
  BY DEF Open
<1>2. dev' \in [Device -> DevRecord]
  BY <1>1 DEF CountInv, DevRecord
<1>3. opened' \in [User -> SUBSET Device]
  BY <1>1 DEF CountInv
<1>4. ASSUME NEW e \in Counted
      PROVE  dev'[e].count = Cardinality(Opens(e)') + Cardinality(Asks(e)')
  <2>1. e \in Device /\ Asks(e)' = Asks(e)
    BY <1>1, DeviceSet DEF Counted, Asks
  <2>2. dev[e].count = Cardinality(Opens(e)) + Cardinality(Asks(e))
    BY DEF CountInv
  <2>3. Opens(e) \in SUBSET User /\ Opens(e)' \in SUBSET User /\ Asks(e) \in SUBSET User
    BY DEF Opens, Asks
  <2>4. \A v \in User \ {u} : v \in Opens(e) <=> v \in Opens(e)'
    BY <1>1 DEF Opens, CountInv
  <2>5. Cardinality(Opens(e)) \in Nat /\ Cardinality(Asks(e)) \in Nat
    BY <2>3, Counts
  <2>6. CASE e = d
    <3>1. u \notin Opens(e) /\ u \in Opens(e)'
      BY <1>1, <2>6 DEF Opens, CountInv
    <3>2. Cardinality(Opens(e)') = Cardinality(Opens(e)) + 1
      BY <2>3, <2>4, <3>1, Counts
    <3>3. dev'[e].count = dev[e].count + 1
      BY <1>1, <2>1, <2>6 DEF CountInv, DevRecord
    <3> QED
      BY <2>1, <2>2, <2>5, <3>2, <3>3
  <2>7. CASE e # d
    <3>1. u \in Opens(e) <=> u \in Opens(e)'
      BY <1>1, <2>7 DEF Opens, CountInv
    <3>2. Opens(e)' = Opens(e)
      BY <2>3, <2>4, <3>1
    <3>3. dev'[e].count = dev[e].count
      BY <1>1, <2>1, <2>7 DEF CountInv, DevRecord
    <3> QED
      BY <2>1, <2>2, <3>2, <3>3
  <2> QED
    BY <2>6, <2>7
<1> QED
  BY <1>1, <1>2, <1>3, <1>4 DEF CountInv

LEMMA CountInvRelease ==
  ASSUME IsFiniteSet(User), Discipline, CountInv,
         NEW u \in User, NEW d \in Device, NEW op \in Opcodes, Release(u, d, op),
         phase' = phase
  PROVE  CountInv'
<1>1. /\ phase = "up" /\ op = "close" /\ d \in Counted /\ d \in opened[u] /\ asked[u] = "none"
      /\ asked' = [asked EXCEPT ![u] = IF StillCounted(d) THEN d ELSE "none"]
      /\ opened' = [opened EXCEPT ![u] = @ \ {d}]
      /\ UNCHANGED <<at, dev>>
  <2>1. op = "close"
    BY DevicesAssumption DEF Release, Discipline
  <2>2. Decrements(op) = Counted
    BY <2>1 DEF Decrements
  <2> QED
    BY <2>1, <2>2 DEF Release, Discipline
<1>2. opened' \in [User -> SUBSET Device] /\ asked' \in [User -> Counted \cup {"none"}]
  BY <1>1 DEF CountInv
<1>3. ASSUME NEW e \in Counted
      PROVE  dev'[e].count = Cardinality(Opens(e)') + Cardinality(Asks(e)')
  <2>1. e \in Device /\ dev'[e].count = dev[e].count /\ dev[e].count \in Nat
    BY <1>1, DeviceSet DEF Counted, CountInv, DevRecord
  <2>2. dev[e].count = Cardinality(Opens(e)) + Cardinality(Asks(e))
    BY DEF CountInv
  <2>3. /\ Opens(e) \in SUBSET User /\ Opens(e)' \in SUBSET User
        /\ Asks(e) \in SUBSET User /\ Asks(e)' \in SUBSET User
    BY DEF Opens, Asks
  <2>4. \A v \in User \ {u} : (v \in Opens(e) <=> v \in Opens(e)') /\ (v \in Asks(e) <=> v \in Asks(e)')
    BY <1>1 DEF Opens, Asks, CountInv
  <2>5. Cardinality(Opens(e)) \in Nat /\ Cardinality(Asks(e)) \in Nat
    BY <2>3, Counts
  <2>6. CASE e = d
    <3>1. u \in Opens(e) /\ u \notin Opens(e)' /\ u \notin Asks(e)
      BY <1>1, <2>1, <2>6, DeviceSet DEF Opens, Asks, CountInv
    <3>2. Cardinality(Opens(e)) >= 1
      BY <2>3, <3>1, Counts
    <3>3. StillCounted(d)
      BY <2>2, <2>5, <2>6, <3>2 DEF StillCounted
    <3>4. u \in Asks(e)'
      BY <1>1, <2>6, <3>3 DEF Asks, CountInv
    <3>5. Cardinality(Opens(e)') = Cardinality(Opens(e)) - 1
      BY <2>3, <2>4, <3>1, Counts
    <3>6. Cardinality(Asks(e)') = Cardinality(Asks(e)) + 1
      BY <2>3, <2>4, <3>1, <3>4, Counts
    <3> QED
      BY <2>1, <2>2, <2>5, <3>5, <3>6
  <2>7. CASE e # d
    <3>1. (u \in Opens(e) <=> u \in Opens(e)') /\ (u \in Asks(e) <=> u \in Asks(e)')
      BY <1>1, <2>1, <2>7, DeviceSet DEF Opens, Asks, CountInv
    <3>2. Opens(e)' = Opens(e) /\ Asks(e)' = Asks(e)
      BY <2>3, <2>4, <3>1
    <3> QED
      BY <2>1, <2>2, <3>2
  <2> QED
    BY <2>6, <2>7
<1> QED
  BY <1>1, <1>2, <1>3 DEF CountInv

LEMMA CountInvDecrement ==
  ASSUME IsFiniteSet(User), CountInv, NEW u \in User, Decrement(u), phase = "up", phase' = phase
  PROVE  CountInv'
<1>1. PICK d \in Counted : d = asked[u]
  BY DEF Decrement, CountInv
<1>2. /\ d \in Device /\ d # "none"
      /\ dev' = [dev EXCEPT ![d].count = @ - 1]
      /\ asked' = [asked EXCEPT ![u] = "none"]
      /\ UNCHANGED <<at, opened>>
  BY <1>1, DeviceSet DEF Decrement, Counted
<1>3. asked' \in [User -> Counted \cup {"none"}]
  BY <1>2 DEF CountInv
<1>4. ASSUME NEW e \in Counted
      PROVE  /\ dev'[e].count = Cardinality(Opens(e)') + Cardinality(Asks(e)')
             /\ dev'[e].count \in Nat
  <2>1. e \in Device /\ Opens(e)' = Opens(e) /\ dev[e].count \in Nat
    BY <1>2, DeviceSet DEF Counted, Opens, CountInv, DevRecord
  <2>2. dev[e].count = Cardinality(Opens(e)) + Cardinality(Asks(e))
    BY DEF CountInv
  <2>3. Opens(e) \in SUBSET User /\ Asks(e) \in SUBSET User /\ Asks(e)' \in SUBSET User
    BY DEF Opens, Asks
  <2>4. \A v \in User \ {u} : v \in Asks(e) <=> v \in Asks(e)'
    BY <1>2 DEF Asks, CountInv
  <2>5. /\ Cardinality(Opens(e)) \in Nat /\ Cardinality(Asks(e)) \in Nat
        /\ Cardinality(Asks(e)') \in Nat
    BY <2>3, <2>4, Counts
  <2>6. CASE e = d
    <3>1. u \in Asks(e) /\ u \notin Asks(e)'
      BY <1>1, <1>2, <2>6 DEF Asks, CountInv
    <3>2. Cardinality(Asks(e)') = Cardinality(Asks(e)) - 1
      BY <2>3, <2>4, <3>1, Counts
    <3>3. dev'[e].count = dev[e].count - 1
      BY <1>2, <2>1, <2>6 DEF CountInv, DevRecord
    <3> QED
      BY <2>1, <2>2, <2>5, <3>2, <3>3
  <2>7. CASE e # d
    <3>1. u \in Asks(e) <=> u \in Asks(e)'
      BY <1>1, <1>2, <2>7, DeviceSet DEF Asks, CountInv, Counted
    <3>2. Asks(e)' = Asks(e)
      BY <2>3, <2>4, <3>1
    <3>3. dev'[e].count = dev[e].count
      BY <1>2, <2>1, <2>7 DEF CountInv, DevRecord
    <3> QED
      BY <2>1, <2>2, <3>2, <3>3
  <2> QED
    BY <2>6, <2>7
<1>5. dev' \in [Device -> DevRecord]
  <2>1. dev[d].count - 1 \in Nat
    BY <1>2, <1>4 DEF CountInv, DevRecord
  <2> QED
    BY <1>2, <2>1 DEF CountInv, DevRecord
<1> QED
  BY <1>2, <1>3, <1>4, <1>5 DEF CountInv

LEMMA CountInvKept ==
  ASSUME CountInv, UNCHANGED <<at, dev, opened, asked>>, phase' = "drivers" => phase = "drivers"
  PROVE  CountInv'
<1>1. \A d \in Counted : Opens(d)' = Opens(d) /\ Asks(d)' = Asks(d)
  BY DEF Opens, Asks
<1> QED
  BY <1>1 DEF CountInv

LEMMA CountInvStep ==
  ASSUME IsFiniteSet(User), Discipline, CountInv, [Next]_vars
  PROVE  CountInv'
<1>1. CASE Drive
  BY <1>1, CountInvDrive
<1>2. CASE UseDevice
  <2>1. phase = "up" /\ phase' = phase /\ Calls
    BY <1>2 DEF UseDevice, ThreadsRun
  <2>2. ASSUME NEW u \in User, NEW d \in Device, Open(u, d) PROVE CountInv'
    BY <2>1, <2>2, CountInvOpen
  <2>3. ASSUME NEW u \in User, NEW d \in Device, NEW op \in Opcodes, Release(u, d, op)
        PROVE  CountInv'
    BY <2>1, <2>3, CountInvRelease
  <2>4. ASSUME NEW u \in User, Decrement(u) PROVE CountInv'
    BY <2>1, <2>4, CountInvDecrement
  <2> QED
    BY <2>1, <2>2, <2>3, <2>4 DEF Calls
<1>3. CASE ScheduleInit \/ IdleNew \/ IdleStart \/ TickInterrupt \/ TickUpdate \/ Clock
  <2>1. UNCHANGED <<at, dev, opened, asked>>
    BY <1>3 DEF ScheduleInit, IdleNew, IdleStart, TickInterrupt, TickUpdate, Clock, deviceVars, userVars
  <2>2. phase' = phase \/ phase' \in {"idle", "ring", "dead_idle", "up", "dead_tick", "spin"}
    BY <1>3 DEF ScheduleInit, IdleNew, IdleStart, TickInterrupt, TickUpdate, Clock
  <2> QED
    BY <2>1, <2>2, CountInvKept
<1>4. CASE RingThread
  <2>1. UNCHANGED <<at, dev, opened, asked>>
    BY <1>4 DEF RingThread, deviceVars, userVars
  <2>2. phase' # "drivers"
    BY <1>4 DEF RingThread
  <2> QED
    BY <2>1, <2>2, CountInvKept
<1>5. ASSUME NEW r \in Reader, TimeCall(r) \/ TimeCopy(r) \/ TimeFault(r) \/ TimeServed(r)
      PROVE  CountInv'
  BY <1>5, CountInvKept DEF TimeCall, TimeCopy, TimeFault, TimeServed, deviceVars, userVars
<1>6. CASE NewThread
  BY <1>6, CountInvKept DEF NewThread, deviceVars, userVars
<1>7. CASE UNCHANGED vars
  BY <1>7, CountInvKept DEF vars, deviceVars, userVars
<1> QED
  BY <1>1, <1>2, <1>3, <1>4, <1>5, <1>6, <1>7 DEF Next

\* For any finite number of users who close what they have opened, and no other
\* way to give a device up, the count of a device is that of its users, although
\* it is looked at before the lock is taken.
THEOREM CountsTrue ==
  ASSUME IsFiniteSet(User), Discipline
  PROVE  Spec => []CountTrue
<1>1. CountInv => CountTrue
  BY DEF CountInv, CountTrue, Opens, Asks
<1>2. CountInv /\ [Next]_vars => CountInv'
  BY CountInvStep
<1> QED
  BY <1>1, <1>2, CountInvInit, PTL DEF Spec
-----------------------------------------------------------------------------
(***************************************************************************)
(* The memory of threads.                                                  *)
(***************************************************************************)

StackInv ==
  /\ threads \in Seq([kind : {"krnl", "user"}, priority : Nat, frame : Int])
  /\ blocks \in [Use -> Int]
  /\ lost \in Nat
  /\ StacksReturned

LEMMA StackInvInit == Init => StackInv
<1> SUFFICES ASSUME Init PROVE StackInv
  OBVIOUS
<1>1. threads = <<>> /\ blocks = [u \in Use |-> 0] /\ lost = 0
  BY DEF Init, ThreadsInit, NoBlocks
<1>2. UsersOf(threads) = {}
  BY <1>1 DEF UsersOf
<1> QED
  BY <1>1, <1>2, FS_EmptySet DEF StackInv, StacksReturned, Use

\* One more thread, and the stacks and the thread_t that go with it.
LEMMA OneMore ==
  ASSUME NEW ts \in Seq([kind : {"krnl", "user"}, priority : Nat, frame : Int]),
         NEW t \in [kind : {"krnl", "user"}, priority : Nat, frame : Int]
  PROVE  /\ Append(ts, t) \in Seq([kind : {"krnl", "user"}, priority : Nat, frame : Int])
         /\ Len(Append(ts, t)) = Len(ts) + 1
         /\ Cardinality(UsersOf(ts)) \in Nat
         /\ t.kind = "user" => Cardinality(UsersOf(Append(ts, t))) = Cardinality(UsersOf(ts)) + 1
         /\ t.kind # "user" => Cardinality(UsersOf(Append(ts, t))) = Cardinality(UsersOf(ts))
<1>1. /\ Append(ts, t) \in Seq([kind : {"krnl", "user"}, priority : Nat, frame : Int])
      /\ Len(ts) \in Nat /\ DOMAIN ts = 1 .. Len(ts)
      /\ Len(Append(ts, t)) = Len(ts) + 1
      /\ DOMAIN Append(ts, t) = 1 .. Len(ts) + 1
      /\ \A i \in 1 .. Len(ts) : Append(ts, t)[i] = ts[i]
      /\ Append(ts, t)[Len(ts) + 1] = t
  OBVIOUS
<1>2. IsFiniteSet(UsersOf(ts))
  <2>1. IsFiniteSet(1 .. Len(ts))
    BY <1>1, FS_Interval
  <2>2. UsersOf(ts) \subseteq 1 .. Len(ts)
    BY <1>1 DEF UsersOf
  <2> QED
    BY <2>1, <2>2, FS_Subset
<1>3. Cardinality(UsersOf(ts)) \in Nat
  BY <1>2, FS_CardinalityType
<1>4. t.kind = "user" => UsersOf(Append(ts, t)) = UsersOf(ts) \cup {Len(ts) + 1}
  BY <1>1 DEF UsersOf
<1>5. t.kind # "user" => UsersOf(Append(ts, t)) = UsersOf(ts)
  BY <1>1 DEF UsersOf
<1>6. Len(ts) + 1 \notin UsersOf(ts)
  BY <1>1 DEF UsersOf
<1>7. t.kind = "user" => Cardinality(UsersOf(Append(ts, t))) = Cardinality(UsersOf(ts)) + 1
  BY <1>2, <1>4, <1>6, FS_AddElement
<1>8. t.kind # "user" => Cardinality(UsersOf(Append(ts, t))) = Cardinality(UsersOf(ts))
  BY <1>5
<1> QED
  BY <1>1, <1>3, <1>7, <1>8

\* The requests a thread may be made for.
LEMMA ThreadType ==
  ASSUME NEW r, r.kind \in {"krnl", "user"}, r.priority \in Nat, r.ksz \in Nat
  PROVE  /\ Thread(r) \in [kind : {"krnl", "user"}, priority : Nat, frame : Int]
         /\ Thread(r).kind = r.kind
<1>1. FrameAt(r.ksz) \in Int
  BY ThreadCreationAssumption DEF FrameAt
<1> QED
  BY <1>1 DEF Thread

LEMMA KrnlThreadStacks ==
  ASSUME StackInv, NEW r, r.priority \in Nat, r.ksz \in Nat, KrnlThread(r)
  PROVE  StackInv'
<1>1. /\ r.kind = "krnl" /\ threads' = Append(threads, Thread(r))
      /\ blocks' = [u \in Use |-> blocks[u] + IF u \in {"krl", "thread"} THEN 1 ELSE 0]
      /\ lost' = lost
  BY DEF KrnlThread, Take
<1>2. /\ blocks' \in [Use -> Int]
      /\ blocks'["krl"] = blocks["krl"] + 1
      /\ blocks'["thread"] = blocks["thread"] + 1
      /\ blocks'["usr"] = blocks["usr"]
  BY <1>1 DEF StackInv, Use
<1>3. Thread(r) \in [kind : {"krnl", "user"}, priority : Nat, frame : Int] /\ Thread(r).kind = "krnl"
  BY <1>1, ThreadType
<1>4. /\ threads' \in Seq([kind : {"krnl", "user"}, priority : Nat, frame : Int])
      /\ Len(threads') = Len(threads) + 1
      /\ Cardinality(UsersOf(threads')) = Cardinality(UsersOf(threads))
  BY <1>1, <1>3, OneMore DEF StackInv
<1>5. Len(threads) \in Nat
  BY DEF StackInv
<1> QED
  BY <1>1, <1>2, <1>4, <1>5 DEF StackInv, StacksReturned

LEMMA UserThreadStacks ==
  ASSUME StackInv, NEW r, r.priority \in Nat, r.ksz \in Nat, UserThread(r)
  PROVE  StackInv'
<1>1. /\ r.kind = "user" /\ threads' = Append(threads, Thread(r))
      /\ blocks' = [u \in Use |-> blocks[u] + IF u \in {"usr", "krl", "thread"} THEN 1 ELSE 0]
      /\ lost' = lost
  BY DEF UserThread, Take
<1>2. /\ blocks' \in [Use -> Int]
      /\ blocks'["krl"] = blocks["krl"] + 1
      /\ blocks'["thread"] = blocks["thread"] + 1
      /\ blocks'["usr"] = blocks["usr"] + 1
  BY <1>1 DEF StackInv, Use
<1>3. Thread(r) \in [kind : {"krnl", "user"}, priority : Nat, frame : Int] /\ Thread(r).kind = "user"
  BY <1>1, ThreadType
<1>4. /\ threads' \in Seq([kind : {"krnl", "user"}, priority : Nat, frame : Int])
      /\ Len(threads') = Len(threads) + 1
      /\ Cardinality(UsersOf(threads')) = Cardinality(UsersOf(threads)) + 1
      /\ Cardinality(UsersOf(threads)) \in Nat
  BY <1>1, <1>3, OneMore DEF StackInv
<1>5. Len(threads) \in Nat
  BY DEF StackInv
<1> QED
  BY <1>1, <1>2, <1>4, <1>5 DEF StackInv, StacksReturned

\* What is taken and given back in one step leaves nothing behind.
LEMMA FailureStacks ==
  ASSUME StackInv, NEW r,
         KrnlNoThread(r) \/ UserNoStack(r) \/ UserNoThread(r) \/ IdleNoThread
  PROVE  StackInv'
<1>1. Use = {"krl", "usr", "thread"} /\ blocks \in [Use -> Int]
  BY DEF Use, StackInv
<1>2. CASE KrnlNoThread(r) \/ UserNoStack(r) \/ IdleNoThread
  <2>1. blocks' = Give(Take(blocks, {"krl"}), {"krl"}) \/ blocks' = Give(Take(blocks, {"usr"}), {"usr"})
    BY <1>2 DEF KrnlNoThread, UserNoStack, IdleNoThread
  <2>2. blocks' = blocks
    BY <1>1, <2>1 DEF Give, Take
  <2>3. UNCHANGED <<threads, lost>>
    BY <1>2 DEF KrnlNoThread, UserNoStack, IdleNoThread
  <2> QED
    BY <2>2, <2>3 DEF StackInv, StacksReturned
<1>3. CASE UserNoThread(r)
  <2>1. /\ blocks' \in [Use -> Int]
        /\ blocks'["krl"] = blocks["krl"] + 1
        /\ blocks'["thread"] = blocks["thread"] /\ blocks'["usr"] = blocks["usr"]
    BY <1>1, <1>3 DEF UserNoThread, Give, Take
  <2>2. lost' = lost + 1 /\ threads' = threads
    BY <1>3 DEF UserNoThread
  <2>3. Len(threads) \in Nat
    BY DEF StackInv
  <2>4. blocks["krl"] \in Int
    BY <1>1
  <2> QED
    BY <2>1, <2>2, <2>3, <2>4 DEF StackInv, StacksReturned
<1> QED
  BY <1>2, <1>3

LEMMA AskType ==
  \A p \in Nat : Ask("krnl", p).priority \in Nat /\ Ask("krnl", p).ksz \in Nat
BY ThreadCreationAssumption DEF Ask

LEMMA StackInvStep == StackInv /\ [Next]_vars => StackInv'
<1> SUFFICES ASSUME StackInv, [Next]_vars PROVE StackInv'
  OBVIOUS
<1>1. ASSUME UNCHANGED threadVars PROVE StackInv'
  BY <1>1 DEF threadVars, StackInv, StacksReturned
<1>2. CASE IdleNew
  <2>1. CASE IdleThread
    BY <2>1, AskType, KrnlThreadStacks DEF IdleThread
  <2>2. CASE IdleNoThread
    BY <2>2, FailureStacks
  <2> QED
    BY <1>1, <1>2, <2>1, <2>2 DEF IdleNew, threadVars
<1>3. CASE RingThread
  <2>1. \/ KrnlThread(Ask("krnl", RingPriority)) \/ KrnlNoThread(Ask("krnl", RingPriority))
        \/ UNCHANGED threadVars
    BY <1>3 DEF RingThread
  <2>2. RingPriority \in Nat
    BY DEF RingPriority
  <2>3. CASE KrnlThread(Ask("krnl", RingPriority))
    BY <2>2, <2>3, AskType, KrnlThreadStacks
  <2>4. CASE KrnlNoThread(Ask("krnl", RingPriority))
    BY <2>4, FailureStacks
  <2> QED
    BY <1>1, <2>1, <2>3, <2>4
<1>4. CASE NewThread
  <2>1. PICK r \in Requests : \/ KrnlThread(r) \/ KrnlNoThread(r) \/ UserThread(r)
                             \/ UserNoStack(r) \/ UserNoThread(r)
    BY <1>4 DEF NewThread
  <2>2. r.priority \in Nat /\ r.ksz \in Nat
    BY ThreadCreationAssumption
  <2> QED
    BY <2>1, <2>2, KrnlThreadStacks, UserThreadStacks, FailureStacks
<1>5. CASE Drive
  BY <1>1, <1>5 DEF Drive
<1>6. CASE ScheduleInit \/ IdleStart \/ TickInterrupt \/ TickUpdate \/ Clock \/ UseDevice
  BY <1>1, <1>6 DEF ScheduleInit, IdleStart, TickInterrupt, TickUpdate, Clock, UseDevice
<1>7. ASSUME NEW r \in Reader, TimeCall(r) \/ TimeCopy(r) \/ TimeFault(r) \/ TimeServed(r)
      PROVE  StackInv'
  BY <1>1, <1>7 DEF TimeCall, TimeCopy, TimeFault, TimeServed
<1>8. CASE UNCHANGED vars
  BY <1>1, <1>8 DEF vars
<1> QED
  BY <1>2, <1>3, <1>4, <1>5, <1>6, <1>7, <1>8 DEF Next

\* Whatever is asked for and whatever fails, all the memory of threads that are
\* not made is given back, but for the kernel stacks counted by lost.
THEOREM StacksGivenBack == Spec => []StacksReturned
<1>1. StackInv => StacksReturned
  BY DEF StackInv
<1> QED
  BY <1>1, StackInvInit, StackInvStep, PTL DEF Spec
-----------------------------------------------------------------------------
(***************************************************************************)
(* The lists of device.c.  A walk along a circle of nodes comes back to    *)
(* its head, and meets the others before.                                  *)
(***************************************************************************)

Links == [Node -> [prev : Node, next : Node]]

LEMMA Least ==
  ASSUME NEW S \in SUBSET Nat, S # {}
  PROVE  \E x \in S : \A y \in S : x <= y
<1>1. PICK x \in S : \A y \in S : ~ (<<y, x>> \in OpToRel(<, Nat))
  BY WFMin, NatLessThanWellFounded, Zenon
<1>2. ASSUME NEW y \in S PROVE x <= y
  <2>1. ~ (y < x)
    BY <1>1, <1>2 DEF OpToRel
  <2> QED BY <2>1
<1> QED BY <1>2

\* What holds of a and is handed on up to b holds from a to b.
LEMMA Upwards ==
  ASSUME NEW a \in Nat, NEW b \in Nat, NEW T,
         a <= b => a \in T, \A c \in a .. b - 1 : c \in T => c + 1 \in T
  PROVE  a .. b \subseteq T
<1> DEFINE I == {c \in a .. b : c \notin T}
<1> SUFFICES ASSUME I # {} PROVE FALSE
  OBVIOUS
<1>1. PICK x \in I : \A y \in I : x <= y
  <2>1. I \in SUBSET Nat
    OBVIOUS
  <2> HIDE DEF I
  <2> QED BY <2>1, Least, Zenon
<1>2. x \in a .. b /\ x # a
  BY <1>1
<1>3. x - 1 \in a .. b - 1 /\ ~ (x <= x - 1) /\ (x - 1) + 1 = x
  BY <1>2
<1>4. x - 1 \in T
  BY <1>1, <1>3
<1> QED BY <1>1, <1>3, <1>4

LEMMA NodeIs ==
  Node = {Global, ListHead("tick"), ListHead("rfs"), ListHead("keyboard"),
          Hook("tick"), Hook("rfs"), Hook("keyboard")}
BY DeviceSet DEF Node

LEMMA NodeCount == IsFiniteSet(Node) /\ Cardinality(Node) \in Nat /\ Cardinality(Node) >= 4
<1> DEFINE A == {Global}
           B == A \cup {Hook("tick")}
           C == B \cup {Hook("rfs")}
           D == C \cup {Hook("keyboard")}
           E == D \cup {ListHead("tick")}
           F == E \cup {ListHead("rfs")}
<1>1. Node = F \cup {ListHead("keyboard")}
  BY NodeIs
<1>2. Hook("tick") \notin A /\ Hook("rfs") \notin B /\ Hook("keyboard") \notin C
  BY DEF Hook, Global
<1>3. IsFiniteSet(A) /\ Cardinality(A) = 1
  BY FS_Singleton
<1> HIDE DEF A
<1>4. IsFiniteSet(B) /\ Cardinality(B) = 2
  BY <1>2, <1>3, FS_AddElement
<1> HIDE DEF B
<1>5. IsFiniteSet(C) /\ Cardinality(C) = 3
  BY <1>2, <1>4, FS_AddElement
<1> HIDE DEF C
<1>6. IsFiniteSet(D) /\ Cardinality(D) = 4
  BY <1>2, <1>5, FS_AddElement
<1>7. D \subseteq Node
  BY <1>1
<1> HIDE DEF D
<1>8. IsFiniteSet(E)
  BY <1>6, FS_AddElement
<1> HIDE DEF E
<1>9. IsFiniteSet(F)
  BY <1>8, FS_AddElement
<1> HIDE DEF F
<1>10. IsFiniteSet(Node)
  BY <1>1, <1>9, FS_AddElement
<1> QED BY <1>6, <1>7, <1>10, FS_Subset, FS_CardinalityType

\* The recursion of Walk has a solution.
LEMMA WalkSteps ==
  ASSUME NEW l \in Links, NEW head \in Node, NEW way
  PROVE  /\ DOMAIN Walk(l, head, way) = 1 .. Cardinality(Node)
         /\ \A i \in 1 .. Cardinality(Node) :
              Walk(l, head, way)[i] =
                Follow(l, IF i = 1 THEN head ELSE Walk(l, head, way)[i - 1], way)
<1> DEFINE Part(n, g) == \A i \in 1 .. n : g[i] = Follow(l, IF i = 1 THEN head ELSE g[i - 1], way)
           T == {n \in Nat : \E g \in [1 .. n -> Node] : Part(n, g)}
<1>1. PICK N \in Nat : N = Cardinality(Node)
  BY NodeCount
<1>2. \A n \in Node : Follow(l, n, way) \in Node
  BY DEF Follow, Links
<1>3. 0 \in T
  <2>1. [i \in 1 .. 0 |-> head] \in [1 .. 0 -> Node]
    OBVIOUS
  <2>2. \A g : Part(0, g)
    OBVIOUS
  <2> HIDE DEF Part
  <2> QED BY <2>1, <2>2
<1>4. ASSUME NEW n \in Nat, n \in T PROVE n + 1 \in T
  <2>1. PICK g \in [1 .. n -> Node] : Part(n, g)
    BY <1>4
  <2> DEFINE last == IF n = 0 THEN head ELSE g[n]
             h == [i \in 1 .. n + 1 |-> IF i = n + 1 THEN Follow(l, last, way) ELSE g[i]]
  <2>2. last \in Node
    BY <2>1
  <2>3. h \in [1 .. n + 1 -> Node]
    BY <1>2, <2>2
  <2>4. ASSUME NEW i \in 1 .. n + 1
        PROVE  h[i] = Follow(l, IF i = 1 THEN head ELSE h[i - 1], way)
    <3>1. CASE i = n + 1
      <4>1. (IF i = 1 THEN head ELSE h[i - 1]) = last
        BY <3>1
      <4> HIDE DEF last
      <4> QED BY <3>1, <4>1
    <3>2. CASE i # n + 1
      <4>1. i \in 1 .. n /\ h[i] = g[i] /\ (i # 1 => h[i - 1] = g[i - 1])
        BY <3>2
      <4>2. (IF i = 1 THEN head ELSE h[i - 1]) = (IF i = 1 THEN head ELSE g[i - 1])
        BY <4>1
      <4> HIDE DEF h
      <4> QED BY <2>1, <4>1, <4>2
    <3> QED BY <3>1, <3>2
  <2> HIDE DEF h
  <2>5. Part(n + 1, h)
    BY <2>4
  <2> HIDE DEF Part
  <2> QED BY <2>3, <2>5
<1>5. N \in T
  <2> HIDE DEF T
  <2>1. 0 .. N \subseteq T
    BY <1>3, <1>4, Upwards
  <2> QED BY <2>1
<1>6. PICK g \in [1 .. N -> Node] : Part(N, g)
  BY <1>5
<1>7. g = [i \in 1 .. N |-> Follow(l, IF i = 1 THEN head ELSE g[i - 1], way)]
  BY <1>6
<1> DEFINE W == CHOOSE w : w = [i \in 1 .. N |-> Follow(l, IF i = 1 THEN head ELSE w[i - 1], way)]
<1>8. W = [i \in 1 .. N |-> Follow(l, IF i = 1 THEN head ELSE W[i - 1], way)]
  <2> HIDE DEF Part, T
  <2> QED BY <1>7, Zenon
<1>9. Walk(l, head, way) = W
  BY <1>1 DEF Walk
<1> HIDE DEF W
<1> QED BY <1>1, <1>8, <1>9

\* A circle of nodes, and what a walk along it meets.
IsCircle(l, way, n, c) ==
  /\ c \in [0 .. n -> Node] /\ c[n] = c[0] /\ \A k \in 1 .. n - 1 : c[k] # c[0]
  /\ \A k \in 0 .. n - 1 : Follow(l, c[k], way) = c[k + 1]

Walked(l, way, n, c) == Ends(l, c[0], way) /\ Listed(l, c[0], way) = {c[k] : k \in 1 .. n - 1}

\* A circle of at most as many nodes as there are.
LEMMA Circle ==
  ASSUME NEW l \in Links, NEW way, NEW n \in 1 .. Cardinality(Node), NEW c, IsCircle(l, way, n, c)
  PROVE  Walked(l, way, n, c)
<1> SUFFICES ASSUME c \in [0 .. n -> Node], \A k \in 0 .. n - 1 : Follow(l, c[k], way) = c[k + 1],
                    c[n] = c[0], \A k \in 1 .. n - 1 : c[k] # c[0]
             PROVE  Ends(l, c[0], way) /\ Listed(l, c[0], way) = {c[k] : k \in 1 .. n - 1}
  BY DEF IsCircle, Walked
<1> DEFINE w == Walk(l, c[0], way)
           T == {k \in Nat : k \in 1 .. n => w[k] = c[k]}
<1>1. PICK N \in Nat : N = Cardinality(Node)
  BY NodeCount
<1>2. /\ DOMAIN w = 1 .. N
      /\ \A i \in 1 .. N : w[i] = Follow(l, IF i = 1 THEN c[0] ELSE w[i - 1], way)
  <2>1. c[0] \in Node
    BY <1>1
  <2> QED BY <1>1, <2>1, WalkSteps
<1> HIDE DEF w
<1>3. n \in 1 .. N
  BY <1>1
<1>4. 1 \in T
  <2>1. w[1] = Follow(l, c[0], way)
    BY <1>2, <1>3
  <2> QED BY <2>1, <1>3
<1>5. ASSUME NEW k \in 1 .. n - 1, k \in T PROVE k + 1 \in T
  <2>1. k + 1 \in 1 .. N /\ k + 1 # 1 /\ (k + 1) - 1 = k /\ k \in 1 .. n /\ k \in 0 .. n - 1
    BY <1>3
  <2>2. w[k + 1] = Follow(l, w[k], way)
    BY <1>2, <2>1
  <2>3. w[k] = c[k] /\ Follow(l, c[k], way) = c[k + 1]
    BY <1>5, <2>1
  <2> QED BY <2>2, <2>3
<1>6. ASSUME NEW k \in 1 .. n PROVE w[k] = c[k]
  <2> HIDE DEF T
  <2>1. n \in Nat /\ 1 \in Nat /\ \A j \in 1 .. n - 1 : j \in T => j + 1 \in T
    BY <1>3, <1>5
  <2>2. 1 .. n \subseteq T
    BY <1>4, <2>1, Upwards
  <2>3. k \in T
    BY <2>2
  <2> QED BY <2>3 DEF T
<1>7. Ends(l, c[0], way)
  <2>1. n \in DOMAIN w /\ w[n] = c[0]
    BY <1>2, <1>3, <1>6
  <2> QED BY <2>1 DEF Ends, w
<1>8. ASSUME NEW i \in 1 .. N
      PROVE  (\A k \in 1 .. i : w[k] # c[0]) <=> i \in 1 .. n - 1
  <2>1. CASE i < n
    <3>1. ASSUME NEW k \in 1 .. i PROVE w[k] # c[0]
      <4>1. k \in 1 .. n /\ k \in 1 .. n - 1
        BY <1>3, <2>1
      <4> QED BY <1>6, <4>1
    <3> QED BY <3>1, <2>1, <1>3
  <2>2. CASE i >= n
    <3>1. n \in 1 .. i /\ w[n] = c[0]
      BY <1>3, <1>6, <2>2
    <3> QED BY <3>1, <1>3
  <2> QED BY <2>1, <2>2, <1>3
<1>9. Listed(l, c[0], way) = {w[i] : i \in {i \in 1 .. N : \A k \in 1 .. i : w[k] # c[0]}}
  BY <1>2 DEF Listed, w
<1>10. {i \in 1 .. N : \A k \in 1 .. i : w[k] # c[0]} = 1 .. n - 1
  <2> DEFINE P(i) == \A k \in 1 .. i : w[k] # c[0]
  <2>1. 1 .. n - 1 \subseteq 1 .. N
    BY <1>3
  <2>2. \A i \in 1 .. N : P(i) <=> i \in 1 .. n - 1
    BY <1>8
  <2> HIDE DEF P
  <2>3. {i \in 1 .. N : P(i)} = 1 .. n - 1
    BY <2>1, <2>2
  <2> QED BY <2>3 DEF P
<1>11. Listed(l, c[0], way) = {w[i] : i \in 1 .. n - 1}
  BY <1>9, <1>10
<1>12. {w[i] : i \in 1 .. n - 1} = {c[k] : k \in 1 .. n - 1}
  BY <1>3, <1>6
<1> QED BY <1>7, <1>11, <1>12
-----------------------------------------------------------------------------
(***************************************************************************)
(* driver_init.  The drivers and their steps are known, so that what has   *)
(* been built is known from how far it has come, and stays as it was when  *)
(* a step fails: the steps are numbered 11 to 17, 21 to 28 and 31 to 38,   *)
(* and 39 is the end.                                                      *)
(***************************************************************************)

Steps == 11 .. 17 \cup 21 .. 28 \cup 31 .. 38

Stage ==
  IF phase # "drivers" /\ at.driver = 3 /\ at.step = 8 THEN 39 ELSE 10 * at.driver + at.step

\* The step after step n.
After(n) == IF n = 17 THEN 21 ELSE IF n = 28 THEN 31 ELSE n + 1

\* The steps that call device_add_driver, device_register, install_callback,
\* hal_enable_intline and driver_add_system.
AddStep == [d \in Device |-> CASE d = "tick" -> 13 [] d = "rfs" -> 25 [] d = "keyboard" -> 33]
RegStep == [d \in Device |-> CASE d = "tick" -> 14 [] d = "rfs" -> 26 [] d = "keyboard" -> 34]
CallStep == [d \in Counted |-> IF d = "tick" THEN 15 ELSE 35]
SystemStep == [d \in Device |-> CASE d = "tick" -> 17 [] d = "rfs" -> 28 [] d = "keyboard" -> 38]
LineStep == [d \in Counted |-> IF d = "tick" THEN 16 ELSE 37]

Classes == {Class[d] : d \in Device}

\* What the machine has after the steps before n.
DevBuilt(n, D) ==
  /\ \A d \in Device : D[d].drv = IF n > AddStep[d] THEN d ELSE "none"
  /\ n > 24 => D["rfs"].ext = "disk"

ServBuilt(n, s, L) ==
  /\ \A d \in Counted : s[Line[d]] = IF n > CallStep[d] THEN <<d>> ELSE <<>>
  /\ \A l \in 0 .. 15 : l \in L <=> \E d \in Counted : l = Line[d] /\ n > LineStep[d]

TableBuilt(n, t) ==
  /\ \A d \in Device : t.devlsts[Class[d]] = IF n > RegStep[d] THEN <<d>> ELSE <<>>
  /\ t.devNum = IF n > 34 THEN 3 ELSE IF n > 26 THEN 2 ELSE IF n > 14 THEN 1 ELSE 0
  /\ t.drvNum = Len(t.drvlst)
  /\ \A d \in Device : d \in ToSet(t.drvlst) <=> n > SystemStep[d]

\* The nodes of the global list in the order of the pointers next, from the head
\* to the head.
Ring(n) ==
  IF n > 34 THEN <<Global, Hook("keyboard"), Hook("rfs"), Hook("tick"), Global>> ELSE
  IF n > 26 THEN <<Global, Hook("rfs"), Hook("tick"), Global>> ELSE
  IF n > 14 THEN <<Global, Hook("tick"), Global>> ELSE <<Global, Global>>

Chained(l, c) == \A i \in 1 .. Len(c) - 1 : l[c[i]].next = c[i + 1] /\ l[c[i + 1]].prev = c[i]

LinkBuilt(n, l) ==
  /\ \A d \in Device : n <= AddStep[d] => l[ListHead(d)].next = ListHead(d)
  /\ Chained(l, Ring(n))

BuildType ==
  /\ at \in [driver : 1 .. 3, step : 1 .. 8] /\ Stage \in Steps \cup {39}
  /\ link \in Links
  /\ DOMAIN dev = Device /\ \A d \in Device : dev[d] \in [made : BOOLEAN, drv : Device \cup {"none"},
       count : Int, ext : {"none", "disk", "board"}, need : Nat, room : Nat]
  /\ serv \in [0 .. 15 -> Seq(Device)] /\ lines \subseteq 0 .. 15
  /\ table \in [devNum : Nat, drvNum : Nat, drvlst : Seq(Device), devlsts : [Classes -> Seq(Device)]]

BuildInv ==
  /\ BuildType
  /\ DevBuilt(Stage, dev) /\ ServBuilt(Stage, serv, lines)
  /\ TableBuilt(Stage, table) /\ LinkBuilt(Stage, link)
  /\ DriversDone => Stage = 39

\* Which driver and which step the number of a step stands for.
LEMMA StepNumbers ==
  ASSUME BuildType, phase = "drivers"
  PROVE  /\ Stage \in Steps /\ Stage = 10 * at.driver + at.step
         /\ at.driver = 1 => Current = "tick" /\ at.step \in 1 .. 7
         /\ at.driver = 2 => Current = "rfs" /\ at.step \in 1 .. 8
         /\ at.driver = 3 => Current = "keyboard" /\ at.step \in 1 .. 8
<1>1. Stage = 10 * at.driver + at.step
  BY DEF Stage
<1>2. at.driver \in 1 .. 3 /\ at.step \in 1 .. 8
  BY DEF BuildType
<1>3. Stage \in Steps
  <2>1. 10 * at.driver + at.step # 39
    BY <1>2
  <2> QED BY <1>1, <2>1 DEF BuildType
<1>4. at.driver = 1 => at.step \in 1 .. 7
  BY <1>1, <1>2, <1>3 DEF Steps
<1> QED BY <1>1, <1>2, <1>3, <1>4, DeviceSet DEF Current

\* The steps at which the calls are made.
LEMMA CallSteps ==
  ASSUME BuildType, phase = "drivers"
  PROVE  /\ At("add") <=> Stage = AddStep[Current]
         /\ At("register") <=> Stage = RegStep[Current]
         /\ At("callback") <=> Current \in Counted /\ Stage = CallStep[Current]
         /\ At("line") <=> Current \in Counted /\ Stage = LineStep[Current]
         /\ At("ext") <=> Stage = 24
         /\ At("system") <=> Stage \in {17, 28, 38}
         /\ At("driver") <=> Stage \in {11, 21, 31}
         /\ At("device") <=> Stage \in {12, 22, 32}
         /\ Len(Entry(Current)) = IF Current = "tick" THEN 7 ELSE 8
<1>1. CASE at.driver = 1
  <2>1. Current = "tick" /\ at.step \in 1 .. 7 /\ Stage = 10 + at.step
    BY <1>1, StepNumbers
  <2> QED BY <2>1, DeviceSet DEF At, Entry, AddStep, RegStep, CallStep, LineStep, Counted
<1>2. CASE at.driver = 2
  <2>1. Current = "rfs" /\ at.step \in 1 .. 8 /\ Stage = 20 + at.step
    BY <1>2, StepNumbers
  <2> QED BY <2>1, DeviceSet DEF At, Entry, AddStep, RegStep, CallStep, LineStep, Counted
<1>3. CASE at.driver = 3
  <2>1. Current = "keyboard" /\ at.step \in 1 .. 8 /\ Stage = 30 + at.step
    BY <1>3, StepNumbers
  <2> QED BY <2>1, DeviceSet DEF At, Entry, AddStep, RegStep, CallStep, LineStep, Counted
<1> QED BY <1>1, <1>2, <1>3 DEF BuildType

\* A step that succeeds is followed by the next one.
LEMMA Proceeds ==
  ASSUME BuildType, phase = "drivers", Proceed
  PROVE  /\ at' \in [driver : 1 .. 3, step : 1 .. 8] /\ Stage' = After(Stage)
         /\ Stage' \in Steps \cup {39}
         /\ phase' # "drivers" => Stage' = 39
<1>1. at \in [driver : 1 .. 3, step : 1 .. 8]
  BY DEF BuildType
<1>5. Len(Drivers) = 3
  BY DEF Drivers
<1>2. CASE at.driver = 1
  <2>1. Current = "tick" /\ at.step \in 1 .. 7 /\ Stage = 10 + at.step /\ Len(Entry(Current)) = 7
    BY <1>2, StepNumbers, CallSteps
  <2>2. CASE at.step < 7
    <3>1. at' = [at EXCEPT !.step = @ + 1] /\ phase' = phase
      BY <2>1, <2>2 DEF Proceed
    <3>2. at'.driver = 1 /\ at'.step = at.step + 1
      BY <1>1, <1>2, <3>1
    <3> QED BY <1>1, <2>1, <2>2, <3>1, <3>2 DEF Stage, After, Steps
  <2>3. CASE at.step = 7
    <3>1. ~ (at.step < Len(Entry(Current))) /\ (at.driver < Len(Drivers))
      <4>1. PICK n, d : n = Len(Entry(Current)) /\ d = Len(Drivers)
        OBVIOUS
      <4>2. ~ (at.step < n)
        BY <2>1, <2>3, <4>1
      <4>3. (at.driver < d)
        BY <1>2, <1>5, <4>1
      <4> QED BY <4>1, <4>2, <4>3, Zenon
    <3>2. at' = [driver |-> at.driver + 1, step |-> 1] /\ phase' = phase
      BY <3>1 DEF Proceed
    <3>3. at'.driver = 2 /\ at'.step = 1 /\ at' \in [driver : 1 .. 3, step : 1 .. 8]
      BY <1>2, <3>2
    <3> QED BY <2>1, <2>3, <3>2, <3>3 DEF Stage, After, Steps
  <2> QED BY <2>1, <2>2, <2>3
<1>3. CASE at.driver = 2
  <2>1. Current = "rfs" /\ at.step \in 1 .. 8 /\ Stage = 20 + at.step /\ Len(Entry(Current)) = 8
    BY <1>3, StepNumbers, CallSteps
  <2>2. CASE at.step < 8
    <3>1. at' = [at EXCEPT !.step = @ + 1] /\ phase' = phase
      BY <2>1, <2>2 DEF Proceed
    <3>2. at'.driver = 2 /\ at'.step = at.step + 1
      BY <1>1, <1>3, <3>1
    <3> QED BY <1>1, <2>1, <2>2, <3>1, <3>2 DEF Stage, After, Steps
  <2>3. CASE at.step = 8
    <3>1. ~ (at.step < Len(Entry(Current))) /\ (at.driver < Len(Drivers))
      <4>1. PICK n, d : n = Len(Entry(Current)) /\ d = Len(Drivers)
        OBVIOUS
      <4>2. ~ (at.step < n)
        BY <2>1, <2>3, <4>1
      <4>3. (at.driver < d)
        BY <1>3, <1>5, <4>1
      <4> QED BY <4>1, <4>2, <4>3, Zenon
    <3>2. at' = [driver |-> at.driver + 1, step |-> 1] /\ phase' = phase
      BY <3>1 DEF Proceed
    <3>3. at'.driver = 3 /\ at'.step = 1 /\ at' \in [driver : 1 .. 3, step : 1 .. 8]
      BY <1>3, <3>2
    <3> QED BY <2>1, <2>3, <3>2, <3>3 DEF Stage, After, Steps
  <2> QED BY <2>1, <2>2, <2>3
<1>4. CASE at.driver = 3
  <2>1. Current = "keyboard" /\ at.step \in 1 .. 8 /\ Stage = 30 + at.step /\ Len(Entry(Current)) = 8
    BY <1>4, StepNumbers, CallSteps
  <2>2. CASE at.step < 8
    <3>1. at' = [at EXCEPT !.step = @ + 1] /\ phase' = phase
      BY <2>1, <2>2 DEF Proceed
    <3>2. at'.driver = 3 /\ at'.step = at.step + 1
      BY <1>1, <1>4, <3>1
    <3> QED BY <1>1, <2>1, <2>2, <3>1, <3>2 DEF Stage, After, Steps
  <2>3. CASE at.step = 8
    <3>1. ~ (at.step < Len(Entry(Current))) /\ ~ (at.driver < Len(Drivers))
      <4>1. PICK n, d : n = Len(Entry(Current)) /\ d = Len(Drivers)
        OBVIOUS
      <4>2. ~ (at.step < n)
        BY <2>1, <2>3, <4>1
      <4>3. ~ (at.driver < d)
        BY <1>4, <1>5, <4>1
      <4> QED BY <4>1, <4>2, <4>3, Zenon
    <3>2. at' = at /\ phase' = "schedule"
      BY <3>1 DEF Proceed
    <3> QED BY <1>1, <1>4, <2>1, <2>3, <3>2 DEF Stage, After, Steps
  <2> QED BY <2>1, <2>2, <2>3
<1> QED BY <1>1, <1>2, <1>3, <1>4

\* A failure leaves everything as it was.
LEMMA FailureBuilds ==
  ASSUME BuildInv, phase = "drivers", ~ At("system"), Fail \/ NullWrite
  PROVE  BuildInv'
<1>1. UNCHANGED <<at, link, table, dev, serv, lines>> /\ phase' \in {"dead_driver", "fault"}
  BY DEF Fail, NullWrite
<1>2. Stage # 38
  BY CallSteps DEF BuildInv
<1>3. ~ (at.driver = 3 /\ at.step = 8)
  BY <1>2 DEF Stage
<1>4. Stage' = Stage
  BY <1>1, <1>3 DEF Stage
<1>5. BuildType'
  BY <1>1, <1>4 DEF BuildInv, BuildType
<1> QED BY <1>1, <1>4, <1>5 DEF BuildInv, DriversDone

\* The steps of each driver.
LEMMA StepRanges ==
  ASSUME BuildType, phase = "drivers"
  PROVE  \/ Current = "tick" /\ Stage \in 11 .. 17
         \/ Current = "rfs" /\ Stage \in 21 .. 28
         \/ Current = "keyboard" /\ Stage \in 31 .. 38
<1>1. CASE at.driver = 1
  <2>1. Current = "tick" /\ at.step \in 1 .. 7 /\ Stage = 10 + at.step
    BY <1>1, StepNumbers
  <2> QED BY <2>1
<1>2. CASE at.driver = 2
  <2>1. Current = "rfs" /\ at.step \in 1 .. 8 /\ Stage = 20 + at.step
    BY <1>2, StepNumbers
  <2> QED BY <2>1
<1>3. CASE at.driver = 3
  <2>1. Current = "keyboard" /\ at.step \in 1 .. 8 /\ Stage = 30 + at.step
    BY <1>3, StepNumbers
  <2> QED BY <2>1
<1> QED BY <1>1, <1>2, <1>3 DEF BuildType

LEMMA StepValues ==
  /\ Device = {"tick", "rfs", "keyboard"} /\ Counted = {"tick", "keyboard"}
  /\ AddStep["tick"] = 13 /\ AddStep["rfs"] = 25 /\ AddStep["keyboard"] = 33
  /\ RegStep["tick"] = 14 /\ RegStep["rfs"] = 26 /\ RegStep["keyboard"] = 34
  /\ CallStep["tick"] = 15 /\ CallStep["keyboard"] = 35
  /\ LineStep["tick"] = 16 /\ LineStep["keyboard"] = 37
BY DeviceSet DEF Counted, AddStep, RegStep, CallStep, LineStep

LEMMA SystemValues ==
  SystemStep["tick"] = 17 /\ SystemStep["rfs"] = 28 /\ SystemStep["keyboard"] = 38
BY DeviceSet DEF SystemStep

\* After a step, its marks are passed, and no others.
LEMMA Passed ==
  ASSUME BuildType, phase = "drivers", NEW n \in Steps, n = Stage
  PROVE  /\ \A d \in Device : After(n) > AddStep[d] <=> n > AddStep[d] \/ (At("add") /\ d = Current)
         /\ \A d \in Device : After(n) > RegStep[d] <=> n > RegStep[d] \/ (At("register") /\ d = Current)
         /\ \A d \in Counted : After(n) > CallStep[d] <=> n > CallStep[d] \/ (At("callback") /\ d = Current)
         /\ \A d \in Counted : After(n) > LineStep[d] <=> n > LineStep[d] \/ (At("line") /\ d = Current)
         /\ After(n) > 24 <=> n > 24 \/ At("ext")
         /\ After(n) > n /\ Current \in Device
<1>1. \/ Current = "tick" /\ n \in 11 .. 17
      \/ Current = "rfs" /\ n \in 21 .. 28
      \/ Current = "keyboard" /\ n \in 31 .. 38
  BY StepRanges
<1>3. CASE Current = "tick" /\ n \in 11 .. 17
  <2>1. /\ At("add") <=> n = AddStep[Current]
        /\ At("register") <=> n = RegStep[Current]
        /\ At("callback") <=> Current \in Counted /\ n = CallStep[Current]
        /\ At("line") <=> Current \in Counted /\ n = LineStep[Current]
        /\ At("ext") <=> n = 24
    BY CallSteps
  <2>2. After(n) = IF n = 17 THEN 21 ELSE IF n = 28 THEN 31 ELSE n + 1
    BY DEF After
  <2>3. \A d \in Device : After(n) > AddStep[d] <=> n > AddStep[d] \/ (At("add") /\ d = Current)
    BY <1>3, <2>1, <2>2, StepValues
  <2>4. \A d \in Device : After(n) > RegStep[d] <=> n > RegStep[d] \/ (At("register") /\ d = Current)
    BY <1>3, <2>1, <2>2, StepValues
  <2>5. \A d \in Counted : After(n) > CallStep[d] <=> n > CallStep[d] \/ (At("callback") /\ d = Current)
    BY <1>3, <2>1, <2>2, StepValues
  <2>6. \A d \in Counted : After(n) > LineStep[d] <=> n > LineStep[d] \/ (At("line") /\ d = Current)
    BY <1>3, <2>1, <2>2, StepValues
  <2>7. After(n) > 24 <=> n > 24 \/ At("ext")
    BY <1>3, <2>1, <2>2
  <2>8. After(n) > n /\ Current \in Device
    BY <1>3, <2>2, StepValues
  <2> QED BY <2>3, <2>4, <2>5, <2>6, <2>7, <2>8
<1>4. CASE Current = "rfs" /\ n \in 21 .. 28
  <2>1. /\ At("add") <=> n = AddStep[Current]
        /\ At("register") <=> n = RegStep[Current]
        /\ At("callback") <=> Current \in Counted /\ n = CallStep[Current]
        /\ At("line") <=> Current \in Counted /\ n = LineStep[Current]
        /\ At("ext") <=> n = 24
    BY CallSteps
  <2>2. After(n) = IF n = 17 THEN 21 ELSE IF n = 28 THEN 31 ELSE n + 1
    BY DEF After
  <2>3. \A d \in Device : After(n) > AddStep[d] <=> n > AddStep[d] \/ (At("add") /\ d = Current)
    BY <1>4, <2>1, <2>2, StepValues
  <2>4. \A d \in Device : After(n) > RegStep[d] <=> n > RegStep[d] \/ (At("register") /\ d = Current)
    BY <1>4, <2>1, <2>2, StepValues
  <2>5. \A d \in Counted : After(n) > CallStep[d] <=> n > CallStep[d] \/ (At("callback") /\ d = Current)
    BY <1>4, <2>1, <2>2, StepValues
  <2>6. \A d \in Counted : After(n) > LineStep[d] <=> n > LineStep[d] \/ (At("line") /\ d = Current)
    BY <1>4, <2>1, <2>2, StepValues
  <2>7. After(n) > 24 <=> n > 24 \/ At("ext")
    BY <1>4, <2>1, <2>2
  <2>8. After(n) > n /\ Current \in Device
    BY <1>4, <2>2, StepValues
  <2> QED BY <2>3, <2>4, <2>5, <2>6, <2>7, <2>8
<1>5. CASE Current = "keyboard" /\ n \in 31 .. 38
  <2>1. /\ At("add") <=> n = AddStep[Current]
        /\ At("register") <=> n = RegStep[Current]
        /\ At("callback") <=> Current \in Counted /\ n = CallStep[Current]
        /\ At("line") <=> Current \in Counted /\ n = LineStep[Current]
        /\ At("ext") <=> n = 24
    BY CallSteps
  <2>2. After(n) = IF n = 17 THEN 21 ELSE IF n = 28 THEN 31 ELSE n + 1
    BY DEF After
  <2>3. \A d \in Device : After(n) > AddStep[d] <=> n > AddStep[d] \/ (At("add") /\ d = Current)
    BY <1>5, <2>1, <2>2, StepValues
  <2>4. \A d \in Device : After(n) > RegStep[d] <=> n > RegStep[d] \/ (At("register") /\ d = Current)
    BY <1>5, <2>1, <2>2, StepValues
  <2>5. \A d \in Counted : After(n) > CallStep[d] <=> n > CallStep[d] \/ (At("callback") /\ d = Current)
    BY <1>5, <2>1, <2>2, StepValues
  <2>6. \A d \in Counted : After(n) > LineStep[d] <=> n > LineStep[d] \/ (At("line") /\ d = Current)
    BY <1>5, <2>1, <2>2, StepValues
  <2>7. After(n) > 24 <=> n > 24 \/ At("ext")
    BY <1>5, <2>1, <2>2
  <2>8. After(n) > n /\ Current \in Device
    BY <1>5, <2>2, StepValues
  <2> QED BY <2>3, <2>4, <2>5, <2>6, <2>7, <2>8
<1> QED BY <1>1, <1>3, <1>4, <1>5

\* What a step that is none of the four leaves.
LEMMA DevSame ==
  ASSUME BuildInv, phase = "drivers", ~ At("add"), ~ At("ext")
  PROVE  DevBuilt(After(Stage), dev)
<1>1. PICK n \in Steps : n = Stage
  BY StepNumbers DEF BuildInv
<1>2. /\ \A d \in Device : After(n) > AddStep[d] <=> n > AddStep[d]
      /\ After(n) > 24 <=> n > 24
  BY <1>1, Passed DEF BuildInv
<1>3. DevBuilt(n, dev)
  BY <1>1 DEF BuildInv
<1> QED BY <1>1, <1>2, <1>3 DEF DevBuilt

LEMMA ServSame ==
  ASSUME BuildInv, phase = "drivers", ~ At("callback"), ~ At("line")
  PROVE  ServBuilt(After(Stage), serv, lines)
<1>1. PICK n \in Steps : n = Stage
  BY StepNumbers DEF BuildInv
<1>2. \A d \in Counted : (After(n) > CallStep[d] <=> n > CallStep[d])
                         /\ (After(n) > LineStep[d] <=> n > LineStep[d])
  BY <1>1, Passed DEF BuildInv
<1>3. ServBuilt(n, serv, lines)
  BY <1>1 DEF BuildInv
<1> QED BY <1>1, <1>2, <1>3 DEF ServBuilt

LEMMA RegisterSteps ==
  ASSUME BuildType, phase = "drivers"
  PROVE  At("register") <=> Stage \in {14, 26, 34}
<1>1. At("register") <=> Stage = RegStep[Current]
  BY CallSteps
<1>2. \/ Current = "tick" /\ Stage \in 11 .. 17
      \/ Current = "rfs" /\ Stage \in 21 .. 28
      \/ Current = "keyboard" /\ Stage \in 31 .. 38
  BY StepRanges
<1> QED BY <1>1, <1>2, StepValues

LEMMA TableSame ==
  ASSUME BuildInv, phase = "drivers", ~ At("register"), ~ At("system")
  PROVE  TableBuilt(After(Stage), table)
<1>1. PICK n \in Steps : n = Stage
  BY StepNumbers DEF BuildInv
<1>2. n \notin {17, 28, 38, 14, 26, 34}
  BY <1>1, RegisterSteps, CallSteps DEF BuildInv
<1>3. /\ After(n) > 14 <=> n > 14
      /\ After(n) > 26 <=> n > 26
      /\ After(n) > 34 <=> n > 34
      /\ After(n) > 17 <=> n > 17
      /\ After(n) > 28 <=> n > 28
      /\ After(n) > 38 <=> n > 38
  BY <1>2 DEF After, Steps
<1>4. /\ \A d \in Device : After(n) > RegStep[d] <=> n > RegStep[d]
      /\ \A d \in Device : After(n) > SystemStep[d] <=> n > SystemStep[d]
  BY <1>3, StepValues, SystemValues
<1> QED BY <1>1, <1>3, <1>4 DEF BuildInv, TableBuilt

LEMMA RingSame ==
  ASSUME BuildInv, phase = "drivers", ~ At("register")
  PROVE  Ring(After(Stage)) = Ring(Stage)
<1>1. PICK n \in Steps : n = Stage
  BY StepNumbers DEF BuildInv
<1>2. n \notin {14, 26, 34}
  BY <1>1, RegisterSteps DEF BuildInv
<1>3. /\ After(n) > 14 <=> n > 14
      /\ After(n) > 26 <=> n > 26
      /\ After(n) > 34 <=> n > 34
  BY <1>2 DEF After, Steps
<1> QED BY <1>1, <1>3 DEF Ring

LEMMA HooksApart ==
  /\ \A d \in Device : Global # Hook(d) /\ Global # ListHead(d)
  /\ \A d, e \in Device : ListHead(d) # Hook(e) /\ (d # e => Hook(d) # Hook(e) /\ ListHead(d) # ListHead(e))
  /\ \A d \in Device : Hook(d) \in Node /\ ListHead(d) \in Node
  /\ Global \in Node
BY DEF Global, Hook, ListHead, Node

LEMMA RingNodes ==
  ASSUME NEW n \in Int
  PROVE  \A i \in 1 .. Len(Ring(n)) :
           Ring(n)[i] = Global \/ \E d \in Device : Ring(n)[i] = Hook(d) /\ n > RegStep[d]
<1>1. CASE n > 34
  <2>1. Ring(n) = <<Global, Hook("keyboard"), Hook("rfs"), Hook("tick"), Global>>
    BY <1>1 DEF Ring
  <2>2. n > RegStep["keyboard"] /\ n > RegStep["rfs"] /\ n > RegStep["tick"]
    BY <1>1, StepValues
  <2> QED BY <2>1, <2>2, StepValues
<1>2. CASE n > 26 /\ ~ (n > 34)
  <2>1. Ring(n) = <<Global, Hook("rfs"), Hook("tick"), Global>>
    BY <1>2 DEF Ring
  <2>2. n > RegStep["rfs"] /\ n > RegStep["tick"]
    BY <1>2, StepValues
  <2> QED BY <2>1, <2>2, StepValues
<1>3. CASE n > 14 /\ ~ (n > 26)
  <2>1. Ring(n) = <<Global, Hook("tick"), Global>>
    BY <1>3 DEF Ring
  <2>2. n > RegStep["tick"]
    BY <1>3, StepValues
  <2> QED BY <2>1, <2>2, StepValues
<1>4. CASE ~ (n > 14)
  BY <1>4 DEF Ring
<1> QED BY <1>1, <1>2, <1>3, <1>4

\* Links that keep what the global list is made of.
LEMMA LinkSame ==
  ASSUME BuildInv, phase = "drivers", ~ At("register"),
         NEW l,
         \A d \in Device : After(Stage) <= AddStep[d] => l[ListHead(d)].next = ListHead(d),
         l[Global] = link[Global],
         \A d \in Device : Stage > RegStep[d] => l[Hook(d)] = link[Hook(d)]
  PROVE  LinkBuilt(After(Stage), l)
<1>1. PICK n \in Int : n = Stage
  BY StepNumbers DEF BuildInv, Steps
<1>2. Ring(After(n)) = Ring(n)
  BY <1>1, RingSame
<1>3. PICK c : c = Ring(n)
  OBVIOUS
<1>4. ASSUME NEW i \in 1 .. Len(c) PROVE l[c[i]] = link[c[i]]
  <2>1. c[i] = Global \/ \E d \in Device : c[i] = Hook(d) /\ n > RegStep[d]
    BY <1>3, RingNodes
  <2> QED BY <1>1, <2>1
<1>5. Chained(link, c)
  BY <1>1, <1>3 DEF BuildInv, LinkBuilt
<1>6. Len(c) \in Nat
  BY <1>3 DEF Ring
<1>7. Chained(l, c)
  <2>1. ASSUME NEW i \in 1 .. Len(c) - 1
        PROVE  l[c[i]].next = c[i + 1] /\ l[c[i + 1]].prev = c[i]
    <3>1. i \in 1 .. Len(c) /\ i + 1 \in 1 .. Len(c)
      BY <1>6
    <3> QED BY <1>4, <1>5, <3>1 DEF Chained
  <2> QED BY <2>1 DEF Chained
<1> QED BY <1>1, <1>2, <1>3, <1>7 DEF LinkBuilt

\* What is left to show of a step that succeeds.
LEMMA Succeeds ==
  ASSUME BuildInv, phase = "drivers", Proceed,
         link' \in Links,
         DOMAIN dev' = Device, \A d \in Device : dev'[d] \in [made : BOOLEAN, drv : Device \cup {"none"},
           count : Int, ext : {"none", "disk", "board"}, need : Nat, room : Nat],
         serv' \in [0 .. 15 -> Seq(Device)], lines' \subseteq 0 .. 15,
         table' \in [devNum : Nat, drvNum : Nat, drvlst : Seq(Device), devlsts : [Classes -> Seq(Device)]],
         DevBuilt(After(Stage), dev'), ServBuilt(After(Stage), serv', lines'),
         TableBuilt(After(Stage), table'), LinkBuilt(After(Stage), link')
  PROVE  BuildInv'
<1>1. /\ at' \in [driver : 1 .. 3, step : 1 .. 8] /\ Stage' = After(Stage)
      /\ Stage' \in Steps \cup {39} /\ (phase' # "drivers" => Stage' = 39)
  BY Proceeds DEF BuildInv
<1>2. BuildType'
  BY <1>1 DEF BuildType
<1> QED BY <1>1, <1>2 DEF BuildInv, DriversDone

LEMMA DriverNewBuilds ==
  ASSUME BuildInv, phase = "drivers", DriverNew
  PROVE  BuildInv'
<1>1. At("driver") /\ Stage \in {11, 21, 31}
  BY CallSteps DEF DriverNew, BuildInv
<1>2. ~ At("system") /\ ~ At("register") /\ ~ At("add") /\ ~ At("ext") /\ ~ At("callback") /\ ~ At("line")
  BY <1>1 DEF At
<1>3. CASE Fail
  BY <1>2, <1>3, FailureBuilds
<1>4. CASE /\ link' = Alone(link, ListHead(Current)) /\ Proceed
           /\ UNCHANGED <<table, dev, serv, lines>>
  <2>1. link \in Links /\ Current \in Device
    BY Passed, StepNumbers DEF BuildInv, BuildType
  <2>2. link' \in Links
    BY <1>4, <2>1, HooksApart DEF Links, Alone
  <2>3. /\ link'[ListHead(Current)].next = ListHead(Current)
        /\ \A n \in Node \ {ListHead(Current)} : link'[n] = link[n]
    BY <1>4, <2>1, HooksApart DEF Links, Alone
  <2>4. \A d \in Device : After(Stage) <= AddStep[d] => link'[ListHead(d)].next = ListHead(d)
    <3>1. ASSUME NEW d \in Device, d # Current, After(Stage) <= AddStep[d]
          PROVE  link'[ListHead(d)].next = ListHead(d)
      <4>1. Stage <= AddStep[d]
        BY <1>1, <3>1, DeviceSet DEF After, AddStep
      <4> QED BY <2>1, <2>3, <3>1, <4>1, HooksApart DEF BuildInv, LinkBuilt
    <3> QED BY <2>3, <3>1
  <2>5. LinkBuilt(After(Stage), link')
    <3>1. link'[Global] = link[Global] /\ \A d \in Device : link'[Hook(d)] = link[Hook(d)]
      BY <2>1, <2>3, HooksApart
    <3> QED BY <1>2, <2>4, <3>1, LinkSame
  <2>6. DevBuilt(After(Stage), dev') /\ ServBuilt(After(Stage), serv', lines') /\ TableBuilt(After(Stage), table')
    BY <1>2, <1>4, DevSame, ServSame, TableSame
  <2> QED BY <1>4, <2>2, <2>5, <2>6, Succeeds DEF BuildInv, BuildType
<1> QED BY <1>3, <1>4 DEF DriverNew

LEMMA DeviceNewBuilds ==
  ASSUME BuildInv, phase = "drivers", DeviceNew
  PROVE  BuildInv'
<1>1. At("device") /\ Stage \in {12, 22, 32}
  BY CallSteps DEF DeviceNew, BuildInv
<1>2. ~ At("system") /\ ~ At("register") /\ ~ At("add") /\ ~ At("ext") /\ ~ At("callback") /\ ~ At("line")
  BY <1>1 DEF At
<1>3. CASE Fail \/ NullWrite
  BY <1>2, <1>3, FailureBuilds
<1>4. CASE /\ link' = Alone(link, Hook(Current))
           /\ dev' = [dev EXCEPT ![Current] = [NoDevice EXCEPT !.made = TRUE]]
           /\ Proceed
           /\ UNCHANGED <<table, serv, lines>>
  <2>1. link \in Links /\ Current \in Device
    BY Passed, StepNumbers DEF BuildInv, BuildType
  <2>2. link' \in Links
    BY <1>4, <2>1, HooksApart DEF Links, Alone
  <2>3. \A n \in Node \ {Hook(Current)} : link'[n] = link[n]
    BY <1>4, <2>1, HooksApart DEF Links, Alone
  <2>4. Stage <= AddStep[Current] /\ Stage <= RegStep[Current] /\ After(Stage) = Stage + 1
    BY <1>1, StepRanges, StepValues DEF After, BuildInv
  <2>5. LinkBuilt(After(Stage), link')
    <3>1. link'[Global] = link[Global] /\ \A d \in Device : link'[ListHead(d)] = link[ListHead(d)]
      BY <2>1, <2>3, HooksApart
    <3>2. \A d \in Device : Stage > RegStep[d] => link'[Hook(d)] = link[Hook(d)]
      <4>1. ASSUME NEW d \in Device, Stage > RegStep[d] PROVE Hook(d) \in Node \ {Hook(Current)}
        <5>1. d # Current
          BY <1>1, <2>4, <4>1, StepValues
        <5> QED BY <5>1, <2>1, HooksApart
      <4> QED BY <4>1, <2>3
    <3>3. \A d \in Device : After(Stage) <= AddStep[d] => link'[ListHead(d)].next = ListHead(d)
      BY <1>1, <2>4, <3>1, StepValues DEF BuildInv, LinkBuilt
    <3> QED BY <1>2, <3>1, <3>2, <3>3, LinkSame
  <2>6. ServBuilt(After(Stage), serv', lines') /\ TableBuilt(After(Stage), table')
    BY <1>2, <1>4, ServSame, TableSame
  <2>7. DOMAIN dev = Device
    BY DEF BuildInv, BuildType
  <2>8. /\ DOMAIN dev' = Device /\ dev'[Current] = [NoDevice EXCEPT !.made = TRUE]
        /\ \A d \in Device \ {Current} : dev'[d] = dev[d]
    BY <1>4, <2>1, <2>7
  <2>9. /\ dev'[Current].drv = "none"
        /\ dev'[Current] \in [made : BOOLEAN, drv : Device \cup {"none"}, count : Int,
                              ext : {"none", "disk", "board"}, need : Nat, room : Nat]
    <3>1. /\ [NoDevice EXCEPT !.made = TRUE].drv = "none"
          /\ [NoDevice EXCEPT !.made = TRUE] \in [made : BOOLEAN, drv : Device \cup {"none"}, count : Int,
                ext : {"none", "disk", "board"}, need : Nat, room : Nat]
      <4>1. NoDevice \in DevRecord /\ NoDevice.drv = "none"
        BY DEF NoDevice, DevRecord
      <4>2. PICK x : x = NoDevice
        OBVIOUS
      <4>3. x \in DevRecord /\ x.drv = "none"
        BY <4>1, <4>2
      <4>4. /\ [x EXCEPT !.made = TRUE].drv = "none"
            /\ [x EXCEPT !.made = TRUE] \in DevRecord
        BY <4>3 DEF DevRecord
      <4>5. DevRecord \subseteq [made : BOOLEAN, drv : Device \cup {"none"}, count : Int,
                ext : {"none", "disk", "board"}, need : Nat, room : Nat]
        BY DEF DevRecord
      <4> QED BY <4>2, <4>4, <4>5
    <3> QED BY <2>8, <3>1
  <2>10. DevBuilt(After(Stage), dev')
    <3>1. PICK n \in Int : n = Stage /\ n \in {12, 22, 32} /\ n <= AddStep[Current] /\ n + 1 = After(Stage)
      BY <1>1, <2>4
    <3>2. ASSUME NEW d \in Device
          PROVE  dev'[d].drv = IF n + 1 > AddStep[d] THEN d ELSE "none"
      <4>1. CASE d = Current
        <5>1. ~ (n + 1 > AddStep[d])
          BY <3>1, <4>1, StepValues
        <5> QED BY <2>9, <4>1, <5>1
      <4>2. CASE d # Current
        <5>1. n + 1 > AddStep[d] <=> n > AddStep[d]
          BY <3>1, StepValues
        <5>2. dev[d].drv = IF n > AddStep[d] THEN d ELSE "none"
          BY <3>1 DEF BuildInv, DevBuilt
        <5> QED BY <2>8, <4>2, <5>1, <5>2
      <4> QED BY <4>1, <4>2
    <3>3. n + 1 > 24 => dev'["rfs"].ext = "disk"
      <4>1. ASSUME n + 1 > 24 PROVE n = 32 /\ Current = "keyboard"
        BY <3>1, <4>1, StepRanges DEF BuildInv
      <4>2. n > 24 => dev["rfs"].ext = "disk"
        BY <3>1 DEF BuildInv, DevBuilt
      <4> QED BY <2>8, <4>1, <4>2, StepValues
    <3> QED BY <3>1, <3>2, <3>3 DEF DevBuilt
  <2> QED BY <1>4, <2>2, <2>5, <2>6, <2>8, <2>9, <2>10, Succeeds DEF BuildInv, BuildType
<1> QED BY <1>3, <1>4 DEF DeviceNew

\* The steps that only succeed or fail.
LEMMA PlainBuilds ==
  ASSUME BuildInv, phase = "drivers", DiskNew \/ Format
  PROVE  BuildInv'
<1>1. ~ At("system") /\ ~ At("register") /\ ~ At("add") /\ ~ At("ext") /\ ~ At("callback") /\ ~ At("line")
      /\ ~ At("driver")
  BY DEF DiskNew, Format, At
<1>2. CASE Fail \/ NullWrite
  BY <1>1, <1>2, FailureBuilds
<1>3. CASE Proceed /\ UNCHANGED <<link, table, dev, serv, lines>>
  <2>1. LinkBuilt(After(Stage), link')
    <3>1. \A d \in Device : After(Stage) <= AddStep[d] => link[ListHead(d)].next = ListHead(d)
      <4>1. PICK n \in Steps : n = Stage
        BY StepNumbers DEF BuildInv
      <4>2. \A d \in Device : After(n) > AddStep[d] <=> n > AddStep[d]
        BY <1>1, <4>1, Passed DEF BuildInv
      <4>3. After(n) \in Int /\ n \in Int /\ \A d \in Device : AddStep[d] \in Int
        BY StepValues DEF After, Steps
      <4> QED BY <4>1, <4>2, <4>3 DEF BuildInv, LinkBuilt
    <3> QED BY <1>1, <1>3, <3>1, LinkSame
  <2>2. DevBuilt(After(Stage), dev') /\ ServBuilt(After(Stage), serv', lines') /\ TableBuilt(After(Stage), table')
    BY <1>1, <1>3, DevSame, ServSame, TableSame
  <2> QED BY <1>3, <2>1, <2>2, Succeeds DEF BuildInv, BuildType
<1> QED BY <1>2, <1>3 DEF DiskNew, Format

\* Where the list heads are alone that are to be.
LEMMA HeadsSame ==
  ASSUME BuildInv, phase = "drivers"
  PROVE  \A d \in Device : After(Stage) <= AddStep[d] => link[ListHead(d)].next = ListHead(d)
<1>1. PICK n \in Steps : n = Stage
  BY StepNumbers DEF BuildInv
<1>2. \A d \in Device : n > AddStep[d] => After(n) > AddStep[d]
  BY <1>1, Passed DEF BuildInv
<1>3. After(n) \in Int /\ n \in Int /\ \A d \in Device : AddStep[d] \in Int
  BY StepValues DEF After, Steps
<1> QED BY <1>1, <1>2, <1>3 DEF BuildInv, LinkBuilt

\* The keyboard_t is there or not.
LEMMA BoardBuilds ==
  ASSUME BuildInv, phase = "drivers", InitKeyboard
  PROVE  BuildInv'
<1>1. /\ At("board") /\ Proceed /\ UNCHANGED <<link, table, serv, lines>>
      /\ dev' = [dev EXCEPT ![Current].ext = "board"] \/ dev' = dev
  BY DEF InitKeyboard
<1>2. ~ At("system") /\ ~ At("register") /\ ~ At("add") /\ ~ At("ext") /\ ~ At("callback") /\ ~ At("line")
  BY <1>1 DEF At
<1>3. Current = "keyboard"
  <2>1. Current \in {"tick", "rfs", "keyboard"}
    BY StepRanges DEF BuildInv
  <2>2. at.step \in 1 .. 8
    BY DEF BuildInv, BuildType
  <2>3. Current = "tick" => at.step \in 1 .. 7
    <3>1. at.driver \in 1 .. 3 /\ BuildType
      BY DEF BuildInv, BuildType
    <3>2. CASE at.driver = 1
      BY <3>1, <3>2, StepNumbers
    <3>3. CASE at.driver = 2 \/ at.driver = 3
      <4>1. Current # "tick"
        BY <3>1, <3>3, StepNumbers
      <4> QED BY <4>1
    <3> QED BY <3>1, <3>2, <3>3
  <2> QED BY <1>1, <2>1, <2>2, <2>3 DEF At, Entry
<1>4. LinkBuilt(After(Stage), link') /\ ServBuilt(After(Stage), serv', lines')
      /\ TableBuilt(After(Stage), table') /\ DevBuilt(After(Stage), dev)
  BY <1>1, <1>2, HeadsSame, LinkSame, ServSame, TableSame, DevSame
<1>5. DOMAIN dev = Device /\ "keyboard" \in Device /\ "rfs" \in Device
      /\ \A d \in Device : dev[d] \in [made : BOOLEAN, drv : Device \cup {"none"}, count : Int,
                                       ext : {"none", "disk", "board"}, need : Nat, room : Nat]
  BY StepValues DEF BuildInv, BuildType
<1>6. /\ DOMAIN dev' = Device /\ \A d \in Device : dev'[d].drv = dev[d].drv
      /\ dev'["rfs"].ext = dev["rfs"].ext
      /\ \A d \in Device : dev'[d] \in [made : BOOLEAN, drv : Device \cup {"none"}, count : Int,
                                        ext : {"none", "disk", "board"}, need : Nat, room : Nat]
  BY <1>1, <1>3, <1>5
<1>7. DevBuilt(After(Stage), dev')
  BY <1>4, <1>6 DEF DevBuilt
<1> QED BY <1>1, <1>4, <1>6, <1>7, Succeeds DEF BuildInv, BuildType

LEMMA ExtNewBuilds ==
  ASSUME BuildInv, phase = "drivers", ExtNew
  PROVE  BuildInv'
<1>1. At("ext") /\ Stage = 24 /\ Current = "rfs"
  BY CallSteps, StepRanges DEF ExtNew, BuildInv
<1>2. ~ At("system") /\ ~ At("register") /\ ~ At("add") /\ ~ At("callback") /\ ~ At("line")
  BY <1>1 DEF At
<1>3. CASE NullWrite
  BY <1>2, <1>3, FailureBuilds
<1>4. CASE ~ NullWrite
  <2>1. PICK m \in Nat, k \in Nat :
          /\ dev' = [dev EXCEPT !["rfs"].ext = "disk", !["rfs"].need = m, !["rfs"].room = k]
          /\ Proceed /\ UNCHANGED <<link, table, serv, lines>>
    <3>1. DevextSize \in Nat
          /\ ((PointerSize + ObjectSize - 1) \div ObjectSize) * ObjectSize \in Nat
      BY DevicesAssumption
    <3> QED BY <1>1, <1>4, <3>1 DEF ExtNew
  <2>2. LinkBuilt(After(Stage), link') /\ ServBuilt(After(Stage), serv', lines')
        /\ TableBuilt(After(Stage), table')
    BY <1>2, <2>1, HeadsSame, LinkSame, ServSame, TableSame
  <2>3. DOMAIN dev = Device /\ "rfs" \in Device /\ dev["rfs"] \in [made : BOOLEAN,
          drv : Device \cup {"none"}, count : Int, ext : {"none", "disk", "board"}, need : Nat, room : Nat]
    BY StepValues DEF BuildInv, BuildType
  <2>4. /\ DOMAIN dev' = Device /\ \A d \in Device \ {"rfs"} : dev'[d] = dev[d]
        /\ dev'["rfs"] = [dev["rfs"] EXCEPT !.ext = "disk", !.need = m, !.room = k]
    BY <2>1, <2>3
  <2>5. /\ dev'["rfs"].drv = dev["rfs"].drv /\ dev'["rfs"].ext = "disk"
        /\ dev'["rfs"] \in [made : BOOLEAN, drv : Device \cup {"none"}, count : Int,
                            ext : {"none", "disk", "board"}, need : Nat, room : Nat]
    BY <2>3, <2>4
  <2>6. After(Stage) = 25
    BY <1>1 DEF After
  <2>7. DevBuilt(25, dev')
    <3>1. \A d \in Device : 25 > AddStep[d] <=> 24 > AddStep[d]
      BY StepValues
    <3>2. DevBuilt(24, dev)
      BY <1>1 DEF BuildInv
    <3>3. ASSUME NEW d \in Device
          PROVE  dev'[d].drv = IF 25 > AddStep[d] THEN d ELSE "none"
      <4>1. dev'[d].drv = dev[d].drv
        BY <2>4, <2>5
      <4>2. dev[d].drv = IF 24 > AddStep[d] THEN d ELSE "none"
        BY <3>2 DEF DevBuilt
      <4> QED BY <3>1, <4>1, <4>2
    <3> QED BY <2>5, <3>3 DEF DevBuilt
  <2> QED BY <2>1, <2>2, <2>4, <2>5, <2>6, <2>7, Succeeds DEF BuildInv, BuildType
<1> QED BY <1>3, <1>4

\* __list_add.
Added(l, new, head, m) ==
  /\ m \in Links
  /\ m[new] = [prev |-> head, next |-> l[head].next]
  /\ m[head].next = new
  /\ l[head].next # head => m[head].prev = l[head].prev
  /\ l[head].next = head => m[head].prev = new
  /\ l[head].next # head => m[l[head].next] = [prev |-> new, next |-> l[l[head].next].next]
  /\ \A n \in Node \ {new, head, l[head].next} : m[n] = l[n]

LEMMA ListAddLinks ==
  ASSUME NEW l \in Links, NEW new \in Node, NEW head \in Node, new # head, new # l[head].next
  PROVE  Added(l, new, head, ListAdd(l, new, head))
<1>1. PICK next \in Node : next = l[head].next
  BY DEF Links
<1>2. PICK one : one = [l EXCEPT ![next].prev = new]
  OBVIOUS
<1>3. /\ one \in Links /\ one[next] = [prev |-> new, next |-> l[next].next]
      /\ \A n \in Node \ {next} : one[n] = l[n]
  <2>1. l[next] \in [prev : Node, next : Node]
    BY DEF Links
  <2> QED BY <1>2, <2>1 DEF Links
<1>4. PICK two : two = [one EXCEPT ![new] = [prev |-> head, next |-> next]]
  OBVIOUS
<1>5. /\ two \in Links /\ two[new] = [prev |-> head, next |-> next]
      /\ \A n \in Node \ {new} : two[n] = one[n]
  BY <1>3, <1>4 DEF Links
<1>6. PICK three : three = [two EXCEPT ![head].next = new]
  OBVIOUS
<1>7. /\ three \in Links /\ three[head].next = new /\ three[head].prev = two[head].prev
      /\ \A n \in Node \ {head} : three[n] = two[n]
  <2>1. two[head] \in [prev : Node, next : Node]
    BY <1>5 DEF Links
  <2> QED BY <1>5, <1>6, <2>1 DEF Links
<1>8. ListAdd(l, new, head) = three
  BY <1>1, <1>2, <1>4, <1>6 DEF ListAdd
<1> QED BY <1>1, <1>3, <1>5, <1>7, <1>8 DEF Added

LEMMA AddDriverBuilds ==
  ASSUME BuildInv, phase = "drivers", AddDriver
  PROVE  BuildInv'
<1>1. At("add") /\ Stage = AddStep[Current] /\ Current \in Device
  BY CallSteps, StepRanges, StepValues DEF AddDriver, BuildInv
<1>2. ~ At("system") /\ ~ At("register") /\ ~ At("ext") /\ ~ At("callback") /\ ~ At("line")
  BY <1>1 DEF At
<1>3. CASE Fail
  BY <1>2, <1>3, FailureBuilds
<1>4. CASE ~ Fail
  <2>1. /\ link' = ListAdd(link, Hook(Current), ListHead(Current))
        /\ dev' = [dev EXCEPT ![Current].drv = Current]
        /\ Proceed /\ UNCHANGED <<table, serv, lines>>
    BY <1>4 DEF AddDriver
  <2>2. link \in Links /\ link[ListHead(Current)].next = ListHead(Current)
    <3>1. Stage <= AddStep[Current]
      BY <1>1, StepValues
    <3> QED BY <1>1, <3>1 DEF BuildInv, BuildType, LinkBuilt
  <2>3. /\ link' \in Links
        /\ \A n \in Node \ {Hook(Current), ListHead(Current)} : link'[n] = link[n]
    <3>1. PICK new \in Node, head \in Node : new = Hook(Current) /\ head = ListHead(Current)
      BY <1>1, HooksApart
    <3>2. new # head /\ link[head].next = head /\ link \in Links
      BY <1>1, <2>2, <3>1, HooksApart
    <3>3. /\ ListAdd(link, new, head) \in Links
          /\ \A n \in Node \ {new, head} : ListAdd(link, new, head)[n] = link[n]
      <4>1. new # link[head].next
        BY <3>2
      <4>2. Added(link, new, head, ListAdd(link, new, head))
        BY <3>2, <4>1, ListAddLinks, Zenon
      <4> QED BY <3>2, <4>2 DEF Added
    <3> QED BY <2>1, <3>1, <3>3
  <2>4. PICK n \in Int : n = Stage /\ n = AddStep[Current] /\ After(Stage) = n + 1
    BY <1>1, StepValues DEF After
  <2>5. LinkBuilt(After(Stage), link')
    <3>1. link'[Global] = link[Global]
      BY <1>1, <2>3, HooksApart
    <3>2. \A d \in Device : n > RegStep[d] => d # Current
      BY <2>4, StepValues
    <3>3. \A d \in Device : Stage > RegStep[d] => link'[Hook(d)] = link[Hook(d)]
      BY <1>1, <2>3, <2>4, <3>2, HooksApart
    <3>4. \A d \in Device : n + 1 <= AddStep[d] => d # Current /\ n <= AddStep[d]
      BY <2>4, StepValues
    <3>5. ASSUME NEW d \in Device, After(Stage) <= AddStep[d]
          PROVE  link'[ListHead(d)].next = ListHead(d)
      <4>1. d # Current /\ Stage <= AddStep[d]
        BY <2>4, <3>4, <3>5
      <4>2. link[ListHead(d)].next = ListHead(d)
        BY <4>1 DEF BuildInv, LinkBuilt
      <4> QED BY <1>1, <2>3, <4>1, <4>2, HooksApart
    <3> QED BY <1>2, <3>1, <3>3, <3>5, LinkSame
  <2>6. ServBuilt(After(Stage), serv', lines') /\ TableBuilt(After(Stage), table')
    BY <1>2, <2>1, ServSame, TableSame
  <2>7. DOMAIN dev = Device /\ dev[Current] \in [made : BOOLEAN,
          drv : Device \cup {"none"}, count : Int, ext : {"none", "disk", "board"}, need : Nat, room : Nat]
    BY <1>1 DEF BuildInv, BuildType
  <2>8. /\ DOMAIN dev' = Device /\ \A d \in Device \ {Current} : dev'[d] = dev[d]
        /\ dev'[Current].drv = Current /\ dev'[Current].ext = dev[Current].ext
        /\ dev'[Current] \in [made : BOOLEAN, drv : Device \cup {"none"}, count : Int,
                              ext : {"none", "disk", "board"}, need : Nat, room : Nat]
    BY <1>1, <2>1, <2>7
  <2>9. DevBuilt(n + 1, dev')
    <3>1. ASSUME NEW d \in Device
          PROVE  dev'[d].drv = IF n + 1 > AddStep[d] THEN d ELSE "none"
      <4>1. n + 1 > AddStep[d] <=> (n > AddStep[d] \/ d = Current)
        BY <1>1, <2>4, StepValues
      <4>2. dev[d].drv = IF n > AddStep[d] THEN d ELSE "none"
        BY <2>4 DEF BuildInv, DevBuilt
      <4> QED BY <2>8, <4>1, <4>2
    <3>2. n + 1 > 24 => n > 24
      BY <1>1, <2>4, StepValues
    <3>3. n > 24 => dev["rfs"].ext = "disk"
      BY <2>4 DEF BuildInv, DevBuilt
    <3>4. dev'["rfs"].ext = dev["rfs"].ext
      BY <2>8, StepValues
    <3> QED BY <3>1, <3>2, <3>3, <3>4 DEF DevBuilt
  <2> QED BY <2>1, <2>3, <2>4, <2>5, <2>6, <2>8, <2>9, Succeeds DEF BuildInv, BuildType
<1> QED BY <1>3, <1>4

\* Chain d is chain c with one more node behind the head.
Grown(c, new, d) ==
  /\ Len(d) = Len(c) + 1 /\ d[1] = Global /\ d[2] = new
  /\ \A i \in 2 .. Len(c) : d[i + 1] = c[i]

\* __list_add puts a node between the head of a chain and the first of it.
LEMMA ChainGrows ==
  ASSUME NEW l \in Links, NEW new \in Node, NEW c \in Seq(Node), Len(c) >= 2,
         c[1] = Global, c[Len(c)] = Global, \A i \in 2 .. Len(c) - 1 : c[i] # Global,
         \A i, j \in 2 .. Len(c) - 1 : c[i] = c[j] => i = j,
         \A i \in 1 .. Len(c) : c[i] # new,
         Chained(l, c),
         NEW m, Added(l, new, Global, m), NEW d, Grown(c, new, d)
  PROVE  Chained(m, d)
<1>1. PICK k \in Nat : k = Len(c) /\ k >= 2
  OBVIOUS
<1>2. /\ Len(d) = k + 1 /\ d[1] = Global /\ d[2] = new
      /\ \A i \in 2 .. k : d[i + 1] = c[i]
  BY <1>1 DEF Grown
<1>3. l[Global].next = c[2] /\ l[c[2]].prev = Global /\ c[2] \in Node
  <2>1. 1 \in 1 .. Len(c) - 1
    BY <1>1
  <2> QED BY <2>1 DEF Chained
<1>4. m[new].next = c[2] /\ m[new].prev = Global /\ m[Global].next = new /\ m[c[2]].prev = new
  <2>1. CASE c[2] = Global
    BY <1>3, <2>1 DEF Added
  <2>2. CASE c[2] # Global
    BY <1>3, <2>2 DEF Added
  <2> QED BY <2>1, <2>2
<1>5. ASSUME NEW i \in 2 .. k - 1
      PROVE  m[c[i]].next = c[i + 1] /\ m[c[i + 1]].prev = c[i]
  <2>1. l[c[i]].next = c[i + 1] /\ l[c[i + 1]].prev = c[i]
    <3>1. i \in 1 .. Len(c) - 1
      BY <1>1
    <3> QED BY <3>1 DEF Chained
  <2>2. c[2] # Global /\ c[i] # Global /\ c[i] # new /\ c[i] \in Node /\ c[i + 1] \in Node /\ c[i + 1] # new
    BY <1>1
  <2>3. m[c[i]].next = c[i + 1]
    <3>1. CASE i = 2
      BY <1>3, <2>1, <2>2, <3>1 DEF Added
    <3>2. CASE i # 2
      <4>1. c[i] # c[2]
        BY <1>1, <3>2
      <4> QED BY <1>3, <2>1, <2>2, <4>1 DEF Added
    <3> QED BY <3>1, <3>2
  <2>4. m[c[i + 1]].prev = c[i]
    <3>1. CASE i + 1 = k
      BY <1>1, <1>3, <2>1, <2>2, <3>1 DEF Added
    <3>2. CASE i + 1 # k
      <4>1. i + 1 \in 2 .. Len(c) - 1 /\ 2 \in 2 .. Len(c) - 1 /\ i + 1 # 2
        BY <1>1, <3>2
      <4>2. c[i + 1] # Global /\ c[i + 1] # c[2]
        BY <4>1
      <4> QED BY <1>3, <2>1, <2>2, <4>2 DEF Added
    <3> QED BY <3>1, <3>2
  <2> QED BY <2>3, <2>4
<1>6. ASSUME NEW j \in 1 .. Len(d) - 1
      PROVE  m[d[j]].next = d[j + 1] /\ m[d[j + 1]].prev = d[j]
  <2>1. CASE j = 1
    BY <1>2, <1>4, <2>1
  <2>2. CASE j = 2
    <3>1. d[3] = c[2]
      <4>1. 2 \in 2 .. k /\ 2 + 1 = 3
        BY <1>1
      <4> QED BY <1>2, <4>1
    <3> QED BY <1>2, <1>4, <2>2, <3>1
  <2>3. CASE j > 2
    <3>1. PICK i \in 2 .. k - 1 : j = i + 1
      <4>1. j - 1 \in 2 .. k - 1 /\ j = (j - 1) + 1
        BY <1>1, <1>2, <2>3
      <4> QED BY <4>1
    <3>2. d[j] = c[i] /\ d[j + 1] = c[i + 1]
      <4>1. i \in 2 .. k /\ i + 1 \in 2 .. k
        BY <1>1, <3>1
      <4> QED BY <1>2, <3>1, <4>1
    <3> QED BY <1>5, <3>1, <3>2
  <2> QED BY <2>1, <2>2, <2>3, <1>1, <1>2
<1> QED BY <1>6 DEF Chained

\* The ring is one, and gets the hook of the next device in front.
LEMMA RingShape ==
  ASSUME NEW n \in Int
  PROVE  LET c == Ring(n) IN
         /\ c \in Seq(Node) /\ Len(c) >= 2 /\ c[1] = Global /\ c[Len(c)] = Global
         /\ \A i \in 2 .. Len(c) - 1 : c[i] # Global
         /\ \A i, j \in 2 .. Len(c) - 1 : c[i] = c[j] => i = j
<1> USE HooksApart, StepValues
<1>1. CASE n > 34
  <2>1. Ring(n) = <<Global, Hook("keyboard"), Hook("rfs"), Hook("tick"), Global>>
    BY <1>1 DEF Ring
  <2> QED BY <2>1
<1>2. CASE n > 26 /\ ~ (n > 34)
  <2>1. Ring(n) = <<Global, Hook("rfs"), Hook("tick"), Global>>
    BY <1>2 DEF Ring
  <2> QED BY <2>1
<1>3. CASE n > 14 /\ ~ (n > 26)
  <2>1. Ring(n) = <<Global, Hook("tick"), Global>>
    BY <1>3 DEF Ring
  <2> QED BY <2>1
<1>4. CASE ~ (n > 14)
  BY <1>4 DEF Ring
<1> QED BY <1>1, <1>2, <1>3, <1>4

LEMMA RingGrows ==
  ASSUME NEW d \in Device
  PROVE  /\ Grown(Ring(RegStep[d]), Hook(d), Ring(RegStep[d] + 1))
         /\ \A i \in 1 .. Len(Ring(RegStep[d])) : Ring(RegStep[d])[i] # Hook(d)
<1> USE HooksApart, StepValues
<1>1. CASE d = "tick"
  <2>1. Ring(14) = <<Global, Global>> /\ Ring(15) = <<Global, Hook("tick"), Global>>
    BY DEF Ring
  <2>2. RegStep[d] = 14 /\ Hook(d) = Hook("tick") /\ 14 + 1 = 15
    BY <1>1
  <2>3. Grown(Ring(14), Hook("tick"), Ring(15))
    <3>1. PICK c, r : c = <<Global, Global>> /\ r = <<Global, Hook("tick"), Global>>
      OBVIOUS
    <3>2. Len(c) = 2 /\ Len(r) = 3 /\ r[1] = Global /\ r[2] = Hook("tick")
      BY <3>1
    <3>3. r[3] = c[2]
      BY <3>1
    <3>4. \A i \in 2 .. 2 : i = 2 /\ i + 1 = 3
      OBVIOUS
    <3>5. Grown(c, Hook("tick"), r)
      BY <3>2, <3>3, <3>4 DEF Grown
    <3> QED BY <2>1, <3>1, <3>5
  <2>4. \A i \in 1 .. Len(Ring(14)) : Ring(14)[i] # Hook("tick")
    BY <2>1
  <2> QED BY <2>2, <2>3, <2>4
<1>2. CASE d = "rfs"
  <2>1. Ring(26) = <<Global, Hook("tick"), Global>> /\ Ring(27) = <<Global, Hook("rfs"), Hook("tick"), Global>>
    BY DEF Ring
  <2>2. RegStep[d] = 26 /\ Hook(d) = Hook("rfs") /\ 26 + 1 = 27
    BY <1>2
  <2>3. Grown(Ring(26), Hook("rfs"), Ring(27))
    <3>1. PICK c, r : c = <<Global, Hook("tick"), Global>> /\ r = <<Global, Hook("rfs"), Hook("tick"), Global>>
      OBVIOUS
    <3>2. Len(c) = 3 /\ Len(r) = 4 /\ r[1] = Global /\ r[2] = Hook("rfs")
      BY <3>1
    <3>3. r[3] = c[2] /\ r[4] = c[3]
      BY <3>1
    <3>4. \A i \in 2 .. 3 : (i = 2 /\ i + 1 = 3) \/ (i = 3 /\ i + 1 = 4)
      OBVIOUS
    <3>5. Grown(c, Hook("rfs"), r)
      BY <3>2, <3>3, <3>4 DEF Grown
    <3> QED BY <2>1, <3>1, <3>5
  <2>4. \A i \in 1 .. Len(Ring(26)) : Ring(26)[i] # Hook("rfs")
    BY <2>1
  <2> QED BY <2>2, <2>3, <2>4
<1>3. CASE d = "keyboard"
  <2>1. /\ Ring(34) = <<Global, Hook("rfs"), Hook("tick"), Global>>
        /\ Ring(35) = <<Global, Hook("keyboard"), Hook("rfs"), Hook("tick"), Global>>
    BY DEF Ring
  <2>2. RegStep[d] = 34 /\ Hook(d) = Hook("keyboard") /\ 34 + 1 = 35
    BY <1>3
  <2>3. Grown(Ring(34), Hook("keyboard"), Ring(35))
    <3>1. PICK c, r : c = <<Global, Hook("rfs"), Hook("tick"), Global>> /\ r = <<Global, Hook("keyboard"), Hook("rfs"), Hook("tick"), Global>>
      OBVIOUS
    <3>2. Len(c) = 4 /\ Len(r) = 5 /\ r[1] = Global /\ r[2] = Hook("keyboard")
      BY <3>1
    <3>3. r[3] = c[2] /\ r[4] = c[3] /\ r[5] = c[4]
      BY <3>1
    <3>4. \A i \in 2 .. 4 : (i = 2 /\ i + 1 = 3) \/ (i = 3 /\ i + 1 = 4) \/ (i = 4 /\ i + 1 = 5)
      OBVIOUS
    <3>5. Grown(c, Hook("keyboard"), r)
      BY <3>2, <3>3, <3>4 DEF Grown
    <3> QED BY <2>1, <3>1, <3>5
  <2>4. \A i \in 1 .. Len(Ring(34)) : Ring(34)[i] # Hook("keyboard")
    BY <2>1
  <2> QED BY <2>2, <2>3, <2>4
<1> QED BY <1>1, <1>2, <1>3

LEMMA RegisterBuilds ==
  ASSUME BuildInv, phase = "drivers", Register
  PROVE  BuildInv'
<1>1. At("register") /\ Stage = RegStep[Current] /\ Current \in Device
  BY CallSteps, StepRanges, StepValues DEF Register, BuildInv
<1>2. ~ At("system") /\ ~ At("add") /\ ~ At("ext") /\ ~ At("callback") /\ ~ At("line")
  BY <1>1 DEF At
<1>3. CASE Fail
  BY <1>2, <1>3, FailureBuilds
<1>4. CASE ~ Fail
  <2>1. /\ link' = ListAdd(link, Hook(Current), Global)
        /\ table' = [table EXCEPT !.devNum = @ + 1,
                                  !.devlsts[Class[Current]] = <<Current>> \o @]
        /\ Proceed /\ UNCHANGED <<dev, serv, lines>>
    BY <1>4 DEF Register
  <2>2. PICK n \in Int : n = Stage /\ n = RegStep[Current] /\ After(Stage) = n + 1
    BY <1>1, StepValues DEF After
  <2>3. PICK c : c = Ring(n)
    OBVIOUS
  <2>4. /\ c \in Seq(Node) /\ Len(c) >= 2 /\ c[1] = Global /\ c[Len(c)] = Global
        /\ \A i \in 2 .. Len(c) - 1 : c[i] # Global
        /\ \A i, j \in 2 .. Len(c) - 1 : c[i] = c[j] => i = j
    BY <2>3, RingShape
  <2>5. PICK new \in Node : new = Hook(Current) /\ new # Global
    BY <1>1, HooksApart
  <2>6. \A i \in 1 .. Len(c) : c[i] # new
    BY <1>1, <2>2, <2>3, <2>5, RingGrows
  <2>7. link \in Links /\ Chained(link, c)
    BY <2>2, <2>3 DEF BuildInv, BuildType, LinkBuilt
  <2>8. Added(link, new, Global, link')
    <3>1. link[Global].next = c[2] /\ c[2] # new
      <4>1. 1 \in 1 .. Len(c) - 1 /\ 2 \in 1 .. Len(c)
        BY <2>4
      <4> QED BY <2>4, <2>6, <2>7, <4>1 DEF Chained
    <3>2. Global \in Node /\ new # Global /\ new # link[Global].next
      BY <2>5, <3>1, HooksApart
    <3>3. Added(link, new, Global, ListAdd(link, new, Global))
      BY <2>7, <3>2, ListAddLinks, Zenon
    <3> QED BY <2>1, <2>5, <3>3
  <2>9. LinkBuilt(n + 1, link')
    <3>1. PICK m, r : m = link' /\ r = Ring(n + 1)
      OBVIOUS
    <3>2. Chained(m, r)
      <4>1. Grown(c, new, r)
        BY <1>1, <2>2, <2>3, <2>5, <3>1, RingGrows
      <4> QED BY <2>4, <2>6, <2>7, <2>8, <3>1, <4>1, ChainGrows
    <3>3. ASSUME NEW d \in Device, n + 1 <= AddStep[d]
          PROVE  link'[ListHead(d)].next = ListHead(d)
      <4>1. n <= AddStep[d]
        BY <3>3, StepValues
      <4>2. link[ListHead(d)].next = ListHead(d)
        BY <2>2, <4>1 DEF BuildInv, LinkBuilt
      <4>3. link[Global].next # ListHead(d)
        <5>1. link[Global].next = c[2] /\ 2 \in 1 .. Len(c)
          <6>1. 1 \in 1 .. Len(c) - 1
            BY <2>4
          <6> QED BY <2>4, <2>7, <6>1 DEF Chained
        <5>2. c[2] = Global \/ \E e \in Device : c[2] = Hook(e)
          BY <2>3, <5>1, RingNodes
        <5> QED BY <5>1, <5>2, HooksApart
      <4> QED BY <1>1, <2>5, <2>8, <4>2, <4>3, HooksApart DEF Added
    <3> QED BY <3>1, <3>2, <3>3 DEF LinkBuilt
  <2>10. link' \in Links
    BY <2>8 DEF Added
  <2>11. DevBuilt(After(Stage), dev') /\ ServBuilt(After(Stage), serv', lines')
    BY <1>2, <2>1, DevSame, ServSame
  <2>12. table \in [devNum : Nat, drvNum : Nat, drvlst : Seq(Device), devlsts : [Classes -> Seq(Device)]]
         /\ TableBuilt(n, table) /\ Class[Current] \in Classes
    BY <1>1, <2>2 DEF BuildInv, BuildType, Classes
  <2>13. PICK k \in Classes, e \in Device : k = Class[Current] /\ e = Current
    BY <1>1, <2>12
  <2>14. /\ table'.devNum = table.devNum + 1 /\ table'.drvNum = table.drvNum
         /\ table'.drvlst = table.drvlst
         /\ table'.devlsts = [table.devlsts EXCEPT ![k] = <<e>> \o @]
         /\ table' \in [devNum : Nat, drvNum : Nat, drvlst : Seq(Device), devlsts : [Classes -> Seq(Device)]]
    <3>1. table.devlsts[k] \in Seq(Device)
      BY <2>12
    <3>2. <<e>> \o table.devlsts[k] \in Seq(Device)
      BY <3>1
    <3>3. PICK t : t = table
      OBVIOUS
    <3>4. PICK f \in [Classes -> Seq(Device)] : f = [t.devlsts EXCEPT ![k] = <<e>> \o @]
      <4>1. [t.devlsts EXCEPT ![k] = <<e>> \o @] \in [Classes -> Seq(Device)]
        BY <2>12, <3>2, <3>3
      <4> QED BY <4>1
    <3>5. PICK m \in Nat : m = t.devNum + 1
      BY <2>12, <3>3
    <3>6. table' = [t EXCEPT !.devNum = m, !.devlsts = f]
      BY <2>1, <2>12, <2>13, <3>3, <3>4, <3>5
    <3> QED BY <2>12, <3>3, <3>4, <3>5, <3>6
  <2>15. TableBuilt(n + 1, table')
    <3>1. \A d \in Device : Class[d] = k <=> d = e
      BY <1>1, <2>13, StepValues DEF Class
    <3>2. ASSUME NEW d \in Device
          PROVE  table'.devlsts[Class[d]] = IF n + 1 > RegStep[d] THEN <<d>> ELSE <<>>
      <4>1. Class[d] \in Classes
        BY DEF Classes
      <4>2. table.devlsts[Class[d]] = IF n > RegStep[d] THEN <<d>> ELSE <<>>
        BY <2>12 DEF TableBuilt
      <4>3. CASE d = e
        <5>1. table.devlsts[Class[d]] = <<>> /\ n + 1 > RegStep[d]
          BY <2>2, <2>13, <4>2, <4>3, StepValues
        <5>2. <<e>> \o <<>> = <<e>>
          OBVIOUS
        <5> QED BY <2>12, <2>13, <2>14, <3>1, <4>1, <4>3, <5>1, <5>2
      <4>4. CASE d # e
        <5>1. n + 1 > RegStep[d] <=> n > RegStep[d]
          BY <1>1, <2>2, <2>13, <4>4, StepValues
        <5> QED BY <2>12, <2>14, <3>1, <4>1, <4>2, <4>4, <5>1
      <4> QED BY <4>3, <4>4
    <3>3. n \in {14, 26, 34}
      BY <1>1, <2>2, StepValues
    <3>4. table'.devNum = IF n + 1 > 34 THEN 3 ELSE IF n + 1 > 26 THEN 2 ELSE IF n + 1 > 14 THEN 1 ELSE 0
      BY <2>12, <2>14, <3>3 DEF TableBuilt
    <3>5. \A d \in Device : n + 1 > SystemStep[d] <=> n > SystemStep[d]
      BY <3>3, StepValues, SystemValues
    <3> QED BY <2>12, <2>14, <3>2, <3>4, <3>5 DEF TableBuilt
  <2> QED BY <2>1, <2>2, <2>9, <2>10, <2>11, <2>14, <2>15, Succeeds DEF BuildInv, BuildType
<1> QED BY <1>3, <1>4

LEMMA CallbackBuilds ==
  ASSUME BuildInv, phase = "drivers", InstallCallback
  PROVE  BuildInv'
<1>1. At("callback") /\ Current \in Counted /\ Stage = CallStep[Current]
  BY CallSteps DEF InstallCallback, BuildInv
<1>2. ~ At("system") /\ ~ At("register") /\ ~ At("add") /\ ~ At("ext") /\ ~ At("line")
  BY <1>1 DEF At
<1>3. CASE Fail
  BY <1>2, <1>3, FailureBuilds
<1>4. CASE ~ Fail
  <2>1. /\ serv' = [serv EXCEPT ![Line[Current]] = <<Current>> \o @]
        /\ Proceed /\ UNCHANGED <<link, table, dev, lines>>
    BY <1>4 DEF InstallCallback
  <2>2. PICK n \in Int : n = Stage /\ n = CallStep[Current] /\ After(Stage) = n + 1
    BY <1>1, StepValues DEF After
  <2>3. LinkBuilt(After(Stage), link') /\ DevBuilt(After(Stage), dev') /\ TableBuilt(After(Stage), table')
    BY <1>2, <2>1, HeadsSame, LinkSame, DevSame, TableSame
  <2>4. /\ serv \in [0 .. 15 -> Seq(Device)] /\ lines \subseteq 0 .. 15
        /\ ServBuilt(n, serv, lines)
    BY <2>2 DEF BuildInv, BuildType
  <2>5. /\ \A d \in Counted : Line[d] \in 0 .. 15 /\ d \in Device
        /\ \A d, e \in Counted : Line[d] = Line[e] => d = e
    BY StepValues DEF Line
  <2>6. PICK e \in Counted : e = Current
    BY <1>1
  <2>7. serv[Line[e]] = <<>>
    <3>1. ~ (n > CallStep[e])
      BY <2>2, <2>6, StepValues
    <3> QED BY <2>4, <3>1 DEF ServBuilt
  <2>8. PICK q : q = <<e>> \o <<>>
    OBVIOUS
  <2>9. q = <<e>>
    BY <2>8
  <2>10. serv' = [serv EXCEPT ![Line[e]] = <<e>>]
    BY <2>1, <2>6, <2>7, <2>8, <2>9
  <2>11. serv' \in [0 .. 15 -> Seq(Device)]
    <3>1. <<e>> \in Seq(Device)
      BY <2>5
    <3> QED BY <2>4, <2>10, <3>1
  <2>12. ASSUME NEW d \in Counted
         PROVE  serv'[Line[d]] = IF n + 1 > CallStep[d] THEN <<d>> ELSE <<>>
    <3>1. serv[Line[d]] = IF n > CallStep[d] THEN <<d>> ELSE <<>>
      BY <2>4 DEF ServBuilt
    <3>2. n + 1 > CallStep[d] <=> (n > CallStep[d] \/ d = e)
      BY <2>2, <2>6, StepValues
    <3>3. CASE d = e
      BY <2>4, <2>5, <2>10, <3>2, <3>3
    <3>4. CASE d # e
      <4>1. Line[d] # Line[e]
        BY <2>5, <3>4
      <4> QED BY <2>4, <2>5, <2>10, <3>1, <3>2, <3>4, <4>1
    <3> QED BY <3>3, <3>4
  <2>13. \A d \in Counted : n + 1 > LineStep[d] <=> n > LineStep[d]
    BY <2>2, <2>6, StepValues
  <2>14. ServBuilt(n + 1, serv', lines')
    BY <2>1, <2>4, <2>12, <2>13 DEF ServBuilt
  <2> QED BY <2>1, <2>2, <2>3, <2>11, <2>14, Succeeds DEF BuildInv, BuildType
<1> QED BY <1>3, <1>4

LEMMA EnableLineBuilds ==
  ASSUME BuildInv, phase = "drivers", EnableLine
  PROVE  BuildInv'
<1>1. At("line") /\ Current \in Counted /\ Stage = LineStep[Current]
  BY CallSteps DEF EnableLine, BuildInv
<1>2. ~ At("system") /\ ~ At("register") /\ ~ At("add") /\ ~ At("ext") /\ ~ At("callback")
  BY <1>1 DEF At
<1>3. lines' = Unmasked(Line[Current]) /\ Proceed /\ UNCHANGED <<link, table, dev, serv>>
  BY DEF EnableLine
<1>4. PICK n \in Int : n = Stage /\ n = LineStep[Current] /\ After(Stage) = n + 1
  BY <1>1, StepValues DEF After
<1>5. LinkBuilt(After(Stage), link') /\ DevBuilt(After(Stage), dev') /\ TableBuilt(After(Stage), table')
  BY <1>2, <1>3, HeadsSame, LinkSame, DevSame, TableSame
<1>6. PICK e \in Counted : e = Current
  BY <1>1
<1>7. Line[e] \in 0 .. 15 /\ lines' = lines \cup {Line[e]}
  BY <1>3, <1>6, StepValues DEF Line, Unmasked
<1>8. lines \subseteq 0 .. 15 /\ ServBuilt(n, serv, lines)
  BY <1>4 DEF BuildInv, BuildType
<1>9. \A d \in Counted : n + 1 > LineStep[d] <=> (n > LineStep[d] \/ d = e)
  BY <1>4, <1>6, StepValues
<1>10. \A d \in Counted : n + 1 > CallStep[d] <=> n > CallStep[d]
  BY <1>4, <1>6, StepValues
<1>11. \A l \in 0 .. 15 : l \in lines' <=> \E d \in Counted : l = Line[d] /\ n + 1 > LineStep[d]
  BY <1>7, <1>8, <1>9 DEF ServBuilt
<1>12. ServBuilt(n + 1, serv', lines')
  BY <1>3, <1>8, <1>10, <1>11 DEF ServBuilt
<1> QED BY <1>3, <1>4, <1>5, <1>7, <1>8, <1>12, Succeeds DEF BuildInv, BuildType

LEMMA SystemBuilds ==
  ASSUME BuildInv, phase = "drivers", DriverAddSystem
  PROVE  BuildInv'
<1>1. At("system") /\ Stage \in {17, 28, 38}
  BY CallSteps DEF DriverAddSystem, BuildInv
<1>2. ~ At("register") /\ ~ At("add") /\ ~ At("ext") /\ ~ At("callback") /\ ~ At("line")
  BY <1>1 DEF At
<1>3. table' = [table EXCEPT !.drvNum = @ + 1, !.drvlst = <<Current>> \o @]
      /\ Proceed /\ UNCHANGED <<link, dev, serv, lines>>
  BY DEF DriverAddSystem
<1>4. PICK n \in {17, 28, 38} : n = Stage
  BY <1>1
<1>5. LinkBuilt(After(Stage), link') /\ DevBuilt(After(Stage), dev') /\ ServBuilt(After(Stage), serv', lines')
  BY <1>2, <1>3, HeadsSame, LinkSame, DevSame, ServSame
<1>6. PICK t : t = table
  OBVIOUS
<1>7. t \in [devNum : Nat, drvNum : Nat, drvlst : Seq(Device), devlsts : [Classes -> Seq(Device)]]
      /\ TableBuilt(n, t)
  BY <1>4, <1>6 DEF BuildInv, BuildType
<1>8. \/ n = 17 /\ Current = "tick"
      \/ n = 28 /\ Current = "rfs"
      \/ n = 38 /\ Current = "keyboard"
  BY <1>4, StepRanges DEF BuildInv
<1>9. PICK q \in Seq(Device) : /\ q = <<Current>> \o t.drvlst
                               /\ Len(q) = Len(t.drvlst) + 1
                               /\ ToSet(q) = ToSet(t.drvlst) \cup {Current}
  <2>1. PICK e \in Device : e = Current
    BY <1>8, StepValues
  <2>2. PICK r \in Seq(Device) : r = t.drvlst
    BY <1>7
  <2>3. PICK q \in Seq(Device) : q = <<e>> \o r
    <3>1. <<e>> \o r \in Seq(Device)
      OBVIOUS
    <3> QED BY <3>1, Zenon
  <2>4. /\ Len(q) = Len(r) + 1 /\ q[1] = e
        /\ \A i \in 1 .. Len(r) : q[i + 1] = r[i]
    BY <2>3
  <2>5. \A i \in 1 .. Len(q) : i = 1 \/ (i - 1 \in 1 .. Len(r) /\ i = (i - 1) + 1)
    BY <2>4
  <2>6. ToSet(q) = ToSet(r) \cup {e}
    <3>1. \A x : x \in ToSet(q) <=> \E i \in 1 .. Len(q) : x = q[i]
      BY DEF ToSet
    <3>2. \A x : x \in ToSet(r) <=> \E i \in 1 .. Len(r) : x = r[i]
      BY DEF ToSet
    <3>3. \A i \in 1 .. Len(r) : i + 1 \in 1 .. Len(q) /\ 1 \in 1 .. Len(q)
      BY <2>4
    <3>4. 1 \in 1 .. Len(q)
      BY <2>4
    <3>5. ASSUME NEW x \in ToSet(q) PROVE x = e \/ x \in ToSet(r)
      <4>1. PICK i \in 1 .. Len(q) : x = q[i]
        BY <3>1, <3>5
      <4>2. CASE i = 1
        BY <2>4, <4>1, <4>2
      <4>3. CASE i # 1
        <5>1. i - 1 \in 1 .. Len(r) /\ i = (i - 1) + 1
          BY <2>5, <4>3
        <5>2. q[i] = r[i - 1]
          BY <2>4, <5>1
        <5> QED BY <3>2, <4>1, <5>1, <5>2
      <4> QED BY <4>2, <4>3
    <3>6. \A x \in ToSet(r) : x \in ToSet(q)
      BY <3>1, <3>2, <3>3, <2>4
    <3>7. e \in ToSet(q)
      BY <3>1, <3>4, <2>4
    <3> QED BY <3>5, <3>6, <3>7
  <2> QED BY <2>1, <2>2, <2>3, <2>4, <2>6
<1>10. PICK m \in Nat : m = t.drvNum + 1
  BY <1>7
<1>11. table' = [t EXCEPT !.drvNum = m, !.drvlst = q]
  BY <1>3, <1>6, <1>7, <1>9, <1>10
<1>12. /\ table'.devNum = t.devNum /\ table'.drvNum = m
       /\ table'.drvlst = q /\ table'.devlsts = t.devlsts
       /\ table' \in [devNum : Nat, drvNum : Nat, drvlst : Seq(Device), devlsts : [Classes -> Seq(Device)]]
  BY <1>7, <1>11
<1>13. /\ \A d \in Device : After(n) > RegStep[d] <=> n > RegStep[d]
       /\ After(n) > 34 <=> n > 34
       /\ After(n) > 26 <=> n > 26
       /\ After(n) > 14 <=> n > 14
  BY StepValues DEF After
<1>14. m = Len(q)
  BY <1>7, <1>9, <1>10 DEF TableBuilt
<1>15. \A d \in Device : d \in ToSet(q) <=> After(n) > SystemStep[d]
  <2>1. \A d \in Device : After(n) > SystemStep[d] <=> (n > SystemStep[d] \/ d = Current)
    BY <1>8, StepValues, SystemValues DEF After
  <2> QED BY <1>7, <1>9, <2>1 DEF TableBuilt
<1>16. TableBuilt(After(n), table')
  BY <1>7, <1>12, <1>13, <1>14, <1>15 DEF TableBuilt
<1> QED BY <1>3, <1>4, <1>5, <1>12, <1>16, Succeeds DEF BuildInv, BuildType
-----------------------------------------------------------------------------
LEMMA BuildInvInit == Init => BuildInv
<1> SUFFICES ASSUME Init PROVE BuildInv
  OBVIOUS
<1>1. /\ phase = "drivers" /\ at = [driver |-> 1, step |-> 1]
      /\ link = [n \in Node |-> [prev |-> n, next |-> n]]
      /\ table = [devNum |-> 0, drvNum |-> 0, drvlst |-> <<>>,
                  devlsts |-> [c \in {Class[d] : d \in Device} |-> <<>>]]
      /\ dev = [d \in Device |-> NoDevice]
      /\ serv = [l \in 0 .. 15 |-> <<>>] /\ lines = {}
  BY DEF Init, DevicesInit
<1>2. Stage = 11
  BY <1>1 DEF Stage
<1>3. BuildType
  <2>1. link \in Links
    BY <1>1 DEF Links
  <2>2. \A d \in Device : dev[d] \in [made : BOOLEAN, drv : Device \cup {"none"}, count : Int,
          ext : {"none", "disk", "board"}, need : Nat, room : Nat]
    BY <1>1 DEF NoDevice
  <2>3. table \in [devNum : Nat, drvNum : Nat, drvlst : Seq(Device), devlsts : [Classes -> Seq(Device)]]
    BY <1>1 DEF Classes
  <2>4. at \in [driver : 1 .. 3, step : 1 .. 8] /\ 11 \in Steps
    BY <1>1 DEF Steps
  <2> QED BY <1>1, <1>2, <2>1, <2>2, <2>3, <2>4 DEF BuildType
<1>4. DevBuilt(11, dev)
  BY <1>1, StepValues DEF DevBuilt, NoDevice
<1>5. ServBuilt(11, serv, lines)
  <2>1. \A d \in Counted : Line[d] \in 0 .. 15
    BY StepValues DEF Line
  <2> QED BY <1>1, <2>1, StepValues DEF ServBuilt
<1>6. TableBuilt(11, table)
  <2>1. \A d \in Device : ~ (11 > RegStep[d]) /\ ~ (11 > SystemStep[d])
    BY StepValues, SystemValues
  <2>2. ToSet(<<>>) = {} /\ Len(<<>>) = 0
    BY DEF ToSet
  <2> QED BY <1>1, <2>1, <2>2 DEF TableBuilt
<1>7. LinkBuilt(11, link)
  <2>1. Ring(11) = <<Global, Global>>
    BY DEF Ring
  <2>2. link[Global].next = Global /\ link[Global].prev = Global
    BY <1>1, HooksApart
  <2>3. Chained(link, Ring(11))
    BY <2>1, <2>2 DEF Chained
  <2> QED BY <1>1, <2>3, HooksApart DEF LinkBuilt
<1> QED BY <1>1, <1>2, <1>3, <1>4, <1>5, <1>6, <1>7 DEF BuildInv, DriversDone

\* After driver_init only the counts of the devices change.
LEMMA BuildKept ==
  ASSUME BuildInv, phase # "drivers",
         UNCHANGED <<at, link, table, serv, lines>>, DOMAIN dev' = Device,
         \A d \in Device : /\ dev'[d].drv = dev[d].drv /\ dev'[d].ext = dev[d].ext
                           /\ dev'[d] \in [made : BOOLEAN, drv : Device \cup {"none"},
                                count : Int, ext : {"none", "disk", "board"}, need : Nat, room : Nat],
         phase' # "drivers", DriversDone' => DriversDone
  PROVE  BuildInv'
<1>1. Stage' = Stage
  BY DEF Stage
<1>2. BuildType'
  BY <1>1 DEF BuildInv, BuildType
<1>3. DevBuilt(Stage, dev')
  BY StepValues DEF BuildInv, DevBuilt
<1>4. DriversDone' => Stage = 39
  BY DEF BuildInv
<1> QED BY <1>1, <1>2, <1>3, <1>4 DEF BuildInv

LEMMA BuildInvStep == Started /\ BuildInv /\ [Next]_vars => BuildInv'
<1> SUFFICES ASSUME Started, BuildInv, [Next]_vars PROVE BuildInv'
  OBVIOUS
<1>1. CASE Drive
  <2>1. phase = "drivers" /\ DriverInit
    BY <1>1, DriveEffect DEF Drive
  <2> QED BY <2>1, DriverNewBuilds, DeviceNewBuilds, PlainBuilds, BoardBuilds, ExtNewBuilds,
             AddDriverBuilds, RegisterBuilds, CallbackBuilds, EnableLineBuilds, SystemBuilds DEF DriverInit
<1>2. ASSUME UNCHANGED <<at, link, table, dev, serv, lines>>, phase' = phase
      PROVE  BuildInv'
  <2>1. Stage' = Stage
    BY <1>2 DEF Stage
  <2> QED BY <1>2, <2>1 DEF BuildInv, BuildType, DriversDone
<1>3. ASSUME UNCHANGED <<at, link, table, dev, serv, lines>>, phase # "drivers",
             phase' # "drivers", DriversDone' => DriversDone
      PROVE  BuildInv'
  BY <1>3, BuildKept DEF BuildInv, BuildType
<1>4. CASE ScheduleInit \/ IdleNew \/ RingThread \/ IdleStart
  <2>1. UNCHANGED <<at, link, table, dev, serv, lines>>
    BY <1>4 DEF ScheduleInit, IdleNew, RingThread, IdleStart, deviceVars
  <2>2. phase \in {"schedule", "idle", "ring", "ring1", "ring2", "start"} /\ phase' # "drivers"
    BY <1>4 DEF ScheduleInit, IdleNew, RingThread, IdleStart
  <2> QED BY <1>3, <2>1, <2>2 DEF DriversDone
<1>5. CASE TickInterrupt
  <2>1. UNCHANGED <<at, link, table, dev, serv, lines>>
    BY <1>5 DEF TickInterrupt, deviceVars
  <2>2. CASE phase' = phase
    BY <1>2, <2>1, <2>2
  <2>3. CASE phase' = "dead_tick"
    <3>1. phase = "fault" \/ phase \notin {"drivers"}
      BY <1>5, <2>3 DEF TickInterrupt, Started
    <3> QED BY <1>3, <2>1, <2>3, <3>1 DEF DriversDone
  <2>4. CASE phase' = "spin" /\ phase' # phase
    <3>1. Copying
      BY <1>5, <2>4 DEF TickInterrupt
    <3> QED BY <1>3, <2>1, <2>4, <3>1 DEF DriversDone, Started
  <2> QED BY <1>5, <2>2, <2>3, <2>4 DEF TickInterrupt
<1>6. CASE TickUpdate \/ Clock \/ NewThread \/ \E r \in Reader : TimeCopy(r) \/ TimeFault(r) \/ TimeServed(r)
  <2>1. UNCHANGED <<at, link, table, dev, serv, lines>> /\ phase' = phase
    BY <1>6 DEF TickUpdate, Clock, NewThread, TimeCopy, TimeFault, TimeServed, deviceVars
  <2> QED BY <1>2, <2>1
<1>9. ASSUME NEW r \in Reader, TimeCall(r) PROVE BuildInv'
  <2>1. UNCHANGED <<at, link, table, dev, serv, lines>> /\ phase = "up" /\ phase' \in {"up", "spin"}
    BY <1>9 DEF TimeCall, ThreadsRun, deviceVars
  <2> QED BY <1>3, <2>1 DEF DriversDone
<1>7. CASE UseDevice
  <2>1. phase = "up" /\ phase' = phase /\ Calls
    BY <1>7 DEF UseDevice, ThreadsRun
  <2>2. CASE dev' = dev /\ UNCHANGED <<at, link, table, serv, lines>>
    BY <1>2, <2>1, <2>2
  <2>3. ASSUME NEW x, NEW c \in Int, UNCHANGED <<at, link, table, serv, lines>>,
               x \in Device => dev[x].count \in Int,
               dev' = [dev EXCEPT ![x].count = @ + c]
        PROVE  BuildInv'
    <3>1. /\ DOMAIN dev = Device
          /\ \A d \in Device : dev[d] \in [made : BOOLEAN, drv : Device \cup {"none"},
                count : Int, ext : {"none", "disk", "board"}, need : Nat, room : Nat]
      BY DEF BuildInv, BuildType
    <3>2. DOMAIN dev' = Device /\ \A d \in Device \ {x} : dev'[d] = dev[d]
      BY <2>3, <3>1
    <3>3. ASSUME x \in Device
          PROVE  /\ dev'[x].drv = dev[x].drv /\ dev'[x].ext = dev[x].ext
                 /\ dev'[x] \in [made : BOOLEAN, drv : Device \cup {"none"},
                      count : Int, ext : {"none", "disk", "board"}, need : Nat, room : Nat]
      <4>1. PICK k \in Int : k = dev[x].count + c
        BY <2>3, <3>3
      <4>2. dev'[x] = [dev[x] EXCEPT !.count = k]
        BY <2>3, <3>1, <3>3, <4>1
      <4> QED BY <3>1, <3>3, <4>2
    <3> QED BY <2>1, <2>3, <3>1, <3>2, <3>3, BuildKept DEF DriversDone
  <2>4. ASSUME NEW u \in User, NEW d \in Device, Open(u, d) PROVE BuildInv'
    <3>1. dev[d].count \in Int
      BY DEF BuildInv, BuildType
    <3>2. /\ dev' = [dev EXCEPT ![d].count = @ + 1]
          /\ UNCHANGED <<at, link, table, serv, lines>>
      BY <2>4 DEF Open
    <3>3. 1 \in Int
      OBVIOUS
    <3> QED BY <2>3, <3>1, <3>2, <3>3
  <2>5. ASSUME NEW u \in User, Decrement(u) PROVE BuildInv'
    <3>1. DOMAIN dev = Device /\ \A d \in Device : dev[d].count \in Int
      BY DEF BuildInv, BuildType
    <3>2. /\ dev' = [dev EXCEPT ![asked[u]].count = @ - 1]
          /\ UNCHANGED <<at, link, table, serv, lines>>
      BY <2>5 DEF Decrement
    <3>3. PICK x : x = asked[u]
      OBVIOUS
    <3>4. CASE x \in Device
      <4>1. dev[x].count - 1 = dev[x].count + (0 - 1)
        BY <3>1, <3>4
      <4>2. dev' = [dev EXCEPT ![x].count = @ + (0 - 1)]
        BY <3>2, <3>3, <4>1
      <4>3. 0 - 1 \in Int
        OBVIOUS
      <4> QED BY <2>3, <3>1, <3>2, <3>4, <4>2, <4>3
    <3>5. CASE x \notin Device
      <4>1. DOMAIN dev' = Device /\ \A d \in Device : dev'[d] = dev[d]
        BY <3>1, <3>2, <3>3, <3>5
      <4>2. \A d \in Device : dev[d] \in [made : BOOLEAN, drv : Device \cup {"none"},
                count : Int, ext : {"none", "disk", "board"}, need : Nat, room : Nat]
        BY DEF BuildInv, BuildType
      <4> QED BY <2>1, <3>2, <4>1, <4>2, BuildKept DEF DriversDone
    <3> QED BY <3>4, <3>5
  <2>6. ASSUME NEW u \in User, NEW d \in Device, NEW op \in Opcodes, Release(u, d, op) PROVE BuildInv'
    BY <2>2, <2>6 DEF Release
  <2> QED BY <2>1, <2>4, <2>5, <2>6 DEF Calls
<1>8. CASE UNCHANGED vars
  BY <1>2, <1>8 DEF vars, deviceVars
<1> QED BY <1>1, <1>4, <1>5, <1>6, <1>7, <1>8, <1>9 DEF Next

-----------------------------------------------------------------------------
(***************************************************************************)
(* What is there when driver_init is over, and on the way.                 *)
(***************************************************************************)

LEMMA RegisteredIs ==
  ASSUME BuildInv
  PROVE  /\ Stage \in Int /\ Registered \subseteq Device
         /\ \A d \in Device : d \in Registered <=> Stage > RegStep[d]
<1>1. /\ Stage \in Steps \cup {39} /\ DOMAIN table.devlsts = Classes
      /\ \A c \in Classes : table.devlsts[c] \in Seq(Device)
  BY DEF BuildInv, BuildType
<1>2. Stage \in Int
  BY <1>1 DEF Steps
<1>3. \A d \in Device : table.devlsts[Class[d]] = IF Stage > RegStep[d] THEN <<d>> ELSE <<>>
  BY DEF BuildInv, TableBuilt
<1>4. \A e : ToSet(<<e>>) = {e}
  <2>1. ASSUME NEW e PROVE ToSet(<<e>>) = {e}
    <3>1. DOMAIN <<e>> = {1} /\ <<e>>[1] = e
      OBVIOUS
    <3> QED BY <3>1 DEF ToSet
  <2> QED BY <2>1
<1>5. ToSet(<<>>) = {}
  BY DEF ToSet
<1>6. ASSUME NEW d \in Device, NEW x
      PROVE  x \in ToSet(table.devlsts[Class[d]]) <=> x = d /\ Stage > RegStep[d]
  <2>1. CASE Stage > RegStep[d]
    BY <1>3, <1>4, <2>1
  <2>2. CASE ~ (Stage > RegStep[d])
    BY <1>3, <1>5, <2>2
  <2> QED BY <2>1, <2>2
<1>7. \A x : x \in Registered <=> \E d \in Device : x \in ToSet(table.devlsts[Class[d]])
  BY <1>1 DEF Registered, Classes
<1>8. ASSUME NEW x PROVE x \in Registered <=> x \in Device /\ Stage > RegStep[x]
  BY <1>6, <1>7
<1> QED BY <1>2, <1>8

\* The devices that are registered at a stage.
LEMMA RegisteredSets ==
  ASSUME BuildInv
  PROVE  /\ Stage > 34 => Registered = {"tick", "rfs", "keyboard"}
         /\ Stage > 26 /\ ~ (Stage > 34) => Registered = {"tick", "rfs"}
         /\ Stage > 14 /\ ~ (Stage > 26) => Registered = {"tick"} /\ ~ (Stage > 34)
         /\ ~ (Stage > 14) => Registered = {} /\ ~ (Stage > 34) /\ ~ (Stage > 26)
<1> DEFINE R == Registered
<1>1. /\ Stage \in Int /\ R \subseteq {"tick", "rfs", "keyboard"}
      /\ "tick" \in R <=> Stage > 14
      /\ "rfs" \in R <=> Stage > 26
      /\ "keyboard" \in R <=> Stage > 34
  BY RegisteredIs, StepValues
<1> HIDE DEF R
<1>2. Stage > 34 => R = {"tick", "rfs", "keyboard"}
  <2>1. Stage > 34 => "tick" \in R /\ "rfs" \in R /\ "keyboard" \in R
    BY <1>1
  <2> QED BY <1>1, <2>1, Zenon
<1>3. Stage > 26 /\ ~ (Stage > 34) => R = {"tick", "rfs"}
  <2>1. Stage > 26 /\ ~ (Stage > 34) => "tick" \in R /\ "rfs" \in R /\ "keyboard" \notin R
    BY <1>1
  <2> QED BY <1>1, <2>1, Zenon
<1>4. Stage > 14 /\ ~ (Stage > 26) => R = {"tick"} /\ ~ (Stage > 34)
  <2>1. Stage > 14 /\ ~ (Stage > 26) =>
          ~ (Stage > 34) /\ "tick" \in R /\ "rfs" \notin R /\ "keyboard" \notin R
    BY <1>1
  <2> QED BY <1>1, <2>1, Zenon
<1>5. ~ (Stage > 14) => R = {} /\ ~ (Stage > 34) /\ ~ (Stage > 26)
  <2>1. ~ (Stage > 14) => /\ ~ (Stage > 34) /\ ~ (Stage > 26)
                          /\ "tick" \notin R /\ "rfs" \notin R /\ "keyboard" \notin R
    BY <1>1
  <2> QED BY <1>1, <2>1, Zenon
<1> QED BY <1>2, <1>3, <1>4, <1>5 DEF R

LEMMA BuildComplete == BuildInv => DriversComplete
<1> SUFFICES ASSUME BuildInv, DriversDone
             PROVE  /\ ToSet(table.drvlst) = Device /\ Registered = Device
                    /\ \A d \in Device : dev[d].drv = d
                    /\ \A d \in Counted : serv[Line[d]] = <<d>> /\ Line[d] \in lines
                    /\ dev["rfs"].ext = "disk"
  BY DEF DriversComplete
<1>1. Stage = 39
  BY DEF BuildInv
<1>2. /\ \A d \in Device : 39 > RegStep[d] /\ 39 > AddStep[d] /\ 39 > SystemStep[d]
      /\ \A d \in Counted : 39 > CallStep[d] /\ 39 > LineStep[d]
  BY StepValues, SystemValues
<1>3. Registered = Device
  BY <1>1, <1>2, RegisteredIs
<1>4. ToSet(table.drvlst) = Device
  <2>1. table.drvlst \in Seq(Device)
    BY DEF BuildInv, BuildType
  <2>2. ToSet(table.drvlst) \subseteq Device
    BY <2>1 DEF ToSet
  <2>3. \A d \in Device : d \in ToSet(table.drvlst)
    BY <1>1, <1>2 DEF BuildInv, TableBuilt
  <2> QED BY <2>2, <2>3
<1>5. (\A d \in Device : dev[d].drv = d) /\ dev["rfs"].ext = "disk"
  BY <1>1, <1>2 DEF BuildInv, DevBuilt
<1>6. \A d \in Counted : serv[Line[d]] = <<d>>
  BY <1>1, <1>2 DEF BuildInv, ServBuilt
<1>7. \A d \in Counted : Line[d] \in lines
  <2>1. \A d \in Counted : Line[d] \in 0 .. 15
    BY DEF Line
  <2> QED BY <1>1, <1>2, <2>1 DEF BuildInv, ServBuilt
<1> QED BY <1>3, <1>4, <1>5, <1>6, <1>7

LEMMA BuildServes == BuildInv => LinesServed
<1> SUFFICES ASSUME BuildInv, NEW l \in lines
             PROVE  \E i \in DOMAIN serv[l] : serv[l][i] \in Registered
  BY DEF LinesServed
<1>1. l \in 0 .. 15
  BY DEF BuildInv, BuildType
<1>2. PICK d \in Counted : l = Line[d] /\ Stage > LineStep[d]
  BY <1>1 DEF BuildInv, ServBuilt
<1>3. Stage > CallStep[d] /\ Stage > RegStep[d] /\ d \in Device
  BY <1>2, StepValues, RegisteredIs
<1>4. serv[l] = <<d>>
  BY <1>2, <1>3 DEF BuildInv, ServBuilt
<1>5. d \in Registered
  BY <1>3, RegisteredIs
<1> QED BY <1>4, <1>5

\* What is chained can be walked in both directions.
LEMMA ChainWalked ==
  ASSUME NEW l \in Links, NEW n \in 1 .. Cardinality(Node), NEW s \in Seq(Node), Len(s) = n + 1,
         s[n + 1] = s[1], \A k \in 2 .. n : s[k] # s[1], Chained(l, s)
  PROVE  \A way \in {"next", "prev"} :
           Ends(l, s[1], way) /\ Listed(l, s[1], way) = {s[k] : k \in 2 .. n}
<1>1. n \in Nat /\ \A k \in 1 .. n + 1 : s[k] \in Node
  BY NodeCount
<1>2. Ends(l, s[1], "next") /\ Listed(l, s[1], "next") = {s[k] : k \in 2 .. n}
  <2>1. PICK c : c = [k \in 0 .. n |-> s[k + 1]]
    OBVIOUS
  <2>2. c \in [0 .. n -> Node] /\ \A k \in 0 .. n : c[k] = s[k + 1]
    BY <1>1, <2>1
  <2>3. \A k \in 0 .. n - 1 : Follow(l, c[k], "next") = c[k + 1]
    <3>1. ASSUME NEW k \in 0 .. n - 1 PROVE Follow(l, c[k], "next") = c[k + 1]
      <4>1. k + 1 \in 1 .. Len(s) - 1 /\ c[k] = s[k + 1] /\ c[k + 1] = s[(k + 1) + 1]
        BY <1>1, <2>2
      <4> QED BY <4>1 DEF Follow, Chained
    <3> QED BY <3>1
  <2>4. c[0] = s[1] /\ c[n] = c[0] /\ \A k \in 1 .. n - 1 : c[k] # c[0]
    BY <1>1, <2>2
  <2>5. {c[k] : k \in 1 .. n - 1} = {s[k] : k \in 2 .. n}
    <3>1. ASSUME NEW k \in 1 .. n - 1 PROVE k + 1 \in 2 .. n /\ c[k] = s[k + 1]
      BY <1>1, <2>2
    <3>2. ASSUME NEW k \in 2 .. n PROVE k - 1 \in 1 .. n - 1 /\ c[k - 1] = s[k]
      <4>1. k - 1 \in 0 .. n /\ (k - 1) + 1 = k
        BY <1>1
      <4> QED BY <1>1, <2>2, <4>1
    <3> QED BY <3>1, <3>2
  <2>6. Ends(l, c[0], "next") /\ Listed(l, c[0], "next") = {c[k] : k \in 1 .. n - 1}
    <3>1. IsCircle(l, "next", n, c)
      BY <2>2, <2>3, <2>4 DEF IsCircle
    <3>2. Walked(l, "next", n, c)
      BY <3>1, Circle, Zenon
    <3> QED BY <3>2 DEF Walked
  <2> QED BY <2>4, <2>5, <2>6
<1>3. Ends(l, s[1], "prev") /\ Listed(l, s[1], "prev") = {s[k] : k \in 2 .. n}
  <2>1. PICK c : c = [k \in 0 .. n |-> s[(n + 1) - k]]
    OBVIOUS
  <2>2. c \in [0 .. n -> Node] /\ \A k \in 0 .. n : c[k] = s[(n + 1) - k]
    BY <1>1, <2>1
  <2>3. \A k \in 0 .. n - 1 : Follow(l, c[k], "prev") = c[k + 1]
    <3>1. ASSUME NEW k \in 0 .. n - 1 PROVE Follow(l, c[k], "prev") = c[k + 1]
      <4>1. PICK i \in 1 .. Len(s) - 1 : i = n - k
        BY <1>1
      <4>2. i + 1 = (n + 1) - k /\ i = (n + 1) - (k + 1)
        BY <1>1, <4>1
      <4>3. c[k] = s[i + 1] /\ c[k + 1] = s[i]
        BY <1>1, <2>2, <4>2
      <4> QED BY <4>1, <4>3 DEF Follow, Chained
    <3> QED BY <3>1
  <2>4. c[0] = s[1] /\ c[n] = c[0] /\ \A k \in 1 .. n - 1 : c[k] # c[0]
    <3>1. (n + 1) - 0 = n + 1 /\ (n + 1) - n = 1 /\ \A k \in 1 .. n - 1 : (n + 1) - k \in 2 .. n
      BY <1>1
    <3> QED BY <1>1, <2>2, <3>1
  <2>5. {c[k] : k \in 1 .. n - 1} = {s[k] : k \in 2 .. n}
    <3>1. ASSUME NEW k \in 1 .. n - 1 PROVE (n + 1) - k \in 2 .. n /\ c[k] = s[(n + 1) - k]
      BY <1>1, <2>2
    <3>2. ASSUME NEW k \in 2 .. n PROVE (n + 1) - k \in 1 .. n - 1 /\ c[(n + 1) - k] = s[k]
      <4>1. (n + 1) - k \in 1 .. n - 1 /\ (n + 1) - ((n + 1) - k) = k
        BY <1>1
      <4> QED BY <1>1, <2>2, <4>1
    <3> QED BY <3>1, <3>2
  <2>6. Ends(l, c[0], "prev") /\ Listed(l, c[0], "prev") = {c[k] : k \in 1 .. n - 1}
    <3>1. IsCircle(l, "prev", n, c)
      BY <2>2, <2>3, <2>4 DEF IsCircle
    <3>2. Walked(l, "prev", n, c)
      BY <3>1, Circle, Zenon
    <3> QED BY <3>2 DEF Walked
  <2> QED BY <2>4, <2>5, <2>6
<1> QED BY <1>2, <1>3

\* The global list, as the hooks of the registered devices.
LEMMA RingWalked ==
  ASSUME BuildInv
  PROVE  \A way \in {"next", "prev"} :
           Ends(link, Global, way) /\ Listed(link, Global, way) = {Hook(d) : d \in Registered}
<1> DEFINE R == Ring(Stage)
<1>1. /\ Stage \in Int /\ link \in Links /\ Chained(link, R)
      /\ Registered \subseteq Device /\ \A d \in Device : d \in Registered <=> Stage > RegStep[d]
  BY RegisteredIs DEF BuildInv, BuildType, LinkBuilt
<1>2. /\ R \in Seq(Node) /\ R[1] = Global
      /\ \E n \in 1 .. 4 : /\ Len(R) = n + 1 /\ R[n + 1] = R[1] /\ \A k \in 2 .. n : R[k] # R[1]
                           /\ {R[k] : k \in 2 .. n} = {Hook(d) : d \in Registered}
  <2>1. CASE Stage > 34
    <3>1. R = <<Global, Hook("keyboard"), Hook("rfs"), Hook("tick"), Global>>
      BY <2>1 DEF Ring
    <3>2. Registered = {"tick", "rfs", "keyboard"}
      BY <2>1, RegisteredSets
    <3>3. R \in Seq(Node) /\ Len(R) = 5
      BY <3>1, HooksApart, StepValues
    <3>4. /\ R[1] = Global /\ R[2] = Hook("keyboard") /\ R[3] = Hook("rfs") /\ R[4] = Hook("tick")
          /\ R[5] = Global
      BY <3>1
    <3>5. \A k \in 2 .. 4 : k = 2 \/ k = 3 \/ k = 4
      OBVIOUS
    <3>6. 2 \in 2 .. 4 /\ 3 \in 2 .. 4 /\ 4 \in 2 .. 4 /\ 4 \in 1 .. 4 /\ 5 = 4 + 1
      OBVIOUS
    <3> HIDE DEF R
    <3>7. {R[k] : k \in 2 .. 4} = {Hook(d) : d \in Registered}
      BY <3>2, <3>4, <3>5, <3>6
    <3>8. \A k \in 2 .. 4 : R[k] # R[1]
      BY <3>4, <3>5, HooksApart, StepValues
    <3> QED BY <3>3, <3>4, <3>6, <3>7, <3>8
  <2>2. CASE Stage > 26 /\ ~ (Stage > 34)
    <3>1. R = <<Global, Hook("rfs"), Hook("tick"), Global>>
      BY <2>2 DEF Ring
    <3>2. Registered = {"tick", "rfs"}
      BY <2>2, RegisteredSets
    <3>3. R \in Seq(Node) /\ Len(R) = 4
      BY <3>1, HooksApart, StepValues
    <3>4. R[1] = Global /\ R[2] = Hook("rfs") /\ R[3] = Hook("tick") /\ R[4] = Global
      BY <3>1
    <3>5. \A k \in 2 .. 3 : k = 2 \/ k = 3
      OBVIOUS
    <3>6. 2 \in 2 .. 3 /\ 3 \in 2 .. 3 /\ 3 \in 1 .. 4 /\ 4 = 3 + 1
      OBVIOUS
    <3> HIDE DEF R
    <3>7. {R[k] : k \in 2 .. 3} = {Hook(d) : d \in Registered}
      BY <3>2, <3>4, <3>5, <3>6
    <3>8. \A k \in 2 .. 3 : R[k] # R[1]
      BY <3>4, <3>5, HooksApart, StepValues
    <3> QED BY <3>3, <3>4, <3>6, <3>7, <3>8
  <2>3. CASE Stage > 14 /\ ~ (Stage > 26)
    <3>1. R = <<Global, Hook("tick"), Global>>
      BY <1>1, <2>3 DEF Ring
    <3>2. Registered = {"tick"}
      BY <2>3, RegisteredSets
    <3>3. R \in Seq(Node) /\ Len(R) = 3
      BY <3>1, HooksApart, StepValues
    <3>4. R[1] = Global /\ R[2] = Hook("tick") /\ R[3] = Global
      BY <3>1
    <3>5. (\A k \in 2 .. 2 : k = 2) /\ 2 \in 2 .. 2 /\ 2 \in 1 .. 4 /\ 3 = 2 + 1
      OBVIOUS
    <3> HIDE DEF R
    <3>7. {R[k] : k \in 2 .. 2} = {Hook(d) : d \in Registered}
      BY <3>2, <3>4, <3>5
    <3>8. \A k \in 2 .. 2 : R[k] # R[1]
      BY <3>4, <3>5, HooksApart, StepValues
    <3> QED BY <3>3, <3>4, <3>5, <3>7, <3>8
  <2>4. CASE ~ (Stage > 14)
    <3>1. R = <<Global, Global>>
      BY <1>1, <2>4 DEF Ring
    <3>2. Registered = {}
      BY <2>4, RegisteredSets
    <3>3. R \in Seq(Node) /\ Len(R) = 2 /\ R[1] = Global /\ R[2] = Global
      BY <3>1, HooksApart
    <3>4. 2 .. 1 = {} /\ 1 \in 1 .. 4 /\ 2 = 1 + 1
      OBVIOUS
    <3> HIDE DEF R
    <3> QED BY <3>2, <3>3, <3>4
  <2> QED BY <2>1, <2>2, <2>3, <2>4
<1> HIDE DEF R
<1>3. PICK n \in 1 .. 4 : /\ Len(R) = n + 1 /\ R[n + 1] = R[1] /\ \A k \in 2 .. n : R[k] # R[1]
                          /\ {R[k] : k \in 2 .. n} = {Hook(d) : d \in Registered}
  BY <1>2
<1>4. n \in 1 .. Cardinality(Node)
  BY NodeCount
<1>5. \A way \in {"next", "prev"} :
        Ends(link, R[1], way) /\ Listed(link, R[1], way) = {R[k] : k \in 2 .. n}
  BY <1>1, <1>2, <1>3, <1>4, ChainWalked
<1> QED BY <1>2, <1>3, <1>5

LEMMA BuildSound == BuildInv => TableSound
<1> SUFFICES ASSUME BuildInv PROVE TableSound
  OBVIOUS
<1>1. /\ Stage \in Int /\ Registered \subseteq Device
      /\ \A d \in Device : d \in Registered <=> Stage > RegStep[d]
  BY RegisteredIs
<1>2. /\ Cardinality({}) = 0 /\ IsFiniteSet({"tick"}) /\ Cardinality({"tick"}) = 1
      /\ IsFiniteSet({"tick", "rfs"}) /\ Cardinality({"tick", "rfs"}) = 2
      /\ Cardinality({"tick", "rfs", "keyboard"}) = 3
  <2>1. Cardinality({}) = 0 /\ IsFiniteSet({"tick"}) /\ Cardinality({"tick"}) = 1
    BY FS_EmptySet, FS_Singleton
  <2>2. {"tick"} \cup {"rfs"} = {"tick", "rfs"} /\ "rfs" \notin {"tick"}
    OBVIOUS
  <2>3. IsFiniteSet({"tick", "rfs"}) /\ Cardinality({"tick", "rfs"}) = 2
    <3>1. /\ IsFiniteSet({"tick"} \cup {"rfs"})
          /\ Cardinality({"tick"} \cup {"rfs"}) = Cardinality({"tick"}) + 1
      BY <2>1, <2>2, FS_AddElement
    <3> QED BY <2>1, <2>2, <3>1
  <2>4. {"tick", "rfs"} \cup {"keyboard"} = {"tick", "rfs", "keyboard"} /\ "keyboard" \notin {"tick", "rfs"}
    OBVIOUS
  <2>5. Cardinality({"tick", "rfs", "keyboard"}) = 3
    BY <2>3, <2>4, FS_AddElement
  <2> QED BY <2>1, <2>3, <2>5
<1>3. table.devNum = IF Stage > 34 THEN 3 ELSE IF Stage > 26 THEN 2 ELSE IF Stage > 14 THEN 1 ELSE 0
  BY DEF BuildInv, TableBuilt
<1>4. table.devNum = Cardinality(Registered)
  <2>1. CASE Stage > 34
    <3>1. Registered = {"tick", "rfs", "keyboard"}
      BY <2>1, RegisteredSets
    <3>2. table.devNum = 3
      BY <1>3, <2>1, <3>1
    <3> QED BY <1>2, <3>1, <3>2
  <2>2. CASE Stage > 26 /\ ~ (Stage > 34)
    <3>1. Registered = {"tick", "rfs"}
      BY <2>2, RegisteredSets
    <3>2. table.devNum = 2
      BY <1>3, <2>2, <3>1
    <3> QED BY <1>2, <3>1, <3>2
  <2>3. CASE Stage > 14 /\ ~ (Stage > 26)
    <3>1. Registered = {"tick"} /\ ~ (Stage > 34)
      BY <2>3, RegisteredSets
    <3>2. table.devNum = 1
      BY <1>3, <2>3, <3>1
    <3> QED BY <1>2, <3>1, <3>2
  <2>4. CASE ~ (Stage > 14)
    <3>1. Registered = {} /\ ~ (Stage > 34) /\ ~ (Stage > 26)
      BY <2>4, RegisteredSets
    <3>2. table.devNum = 0
      BY <1>3, <2>4, <3>1
    <3> QED BY <1>2, <3>1, <3>2
  <2> QED BY <2>1, <2>2, <2>3, <2>4
<1>5. table.drvNum = Len(table.drvlst)
  BY DEF BuildInv, TableBuilt
<1> QED BY <1>4, <1>5, RingWalked DEF TableSound

\* In every state the list of all devices can be walked in both directions and
\* holds the devices that device_register has counted, although the hook that it
\* links is on the list of the driver too (device.c:335).
THEOREM TableIsSound == Spec => []TableSound
BY StartedInit, StartedStep, BuildInvInit, BuildInvStep, BuildSound, PTL DEF Spec

\* A boot that gets past driver_init has registered the device of every driver,
\* installed its handler and opened its line, and the file system has its disk,
\* whichever allocation failed on the way (drvtick.c:190).  It says nothing of the
\* keyboard_t, without which the boot goes on (drvkeyboard.c:395).
THEOREM DriversAreComplete == Spec => []DriversComplete
BY StartedInit, StartedStep, BuildInvInit, BuildInvStep, BuildComplete, PTL DEF Spec

\* No line is unmasked before its handler is installed and its device registered
\* (drvtick.c:201).
THEOREM LinesAreServed == Spec => []LinesServed
BY StartedInit, StartedStep, BuildInvInit, BuildInvStep, BuildServes, PTL DEF Spec
=============================================================================
