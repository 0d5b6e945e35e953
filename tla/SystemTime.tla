----------------------------- MODULE SystemTime -----------------------------
(***************************************************************************)
(* The time of day of kernel/systime.c.  The handler of the timer copies   *)
(* the registers of the CMOS clock into systime, one after the other and   *)
(* with the interrupts closed; the clock goes on meanwhile.  A thread gets *)
(* a copy of systime by the one system call there is.                      *)
(*                                                                         *)
(* The clock is an external device: a sequence of readings of its          *)
(* registers, in binary coded decimals.  One that shows the registers      *)
(* while it changes them is left out.                                      *)
(***************************************************************************)
EXTENDS Integers, Sequences, SequencesExt

CONSTANTS
  Readings, \* what the clock shows, one second after the other
  Reader    \* threads that ask for the time

\* The registers in the order in which systime_update reads them.
Field == <<"second", "minute", "hour", "day", "month", "year">>
Fields == ToSet(Field)

\* Two digits each.
ASSUME SystemTimeAssumption ==
  /\ Readings # <<>> /\ Readings \in Seq([Fields -> 0 .. 255])
  /\ \A i \in DOMAIN Readings, f \in Fields :
       Readings[i][f] % 16 <= 9 /\ Readings[i][f] \div 16 <= 9

VARIABLES
  clock,   \* which reading the clock shows
  systime, \* the time of the system
  reading, \* how many registers systime_update has read; 0 while it is not running
  since,   \* history: what the clock showed when the last update began
  whole,   \* history: systime as the last update has left it
  copied   \* how far a thread is with systime_copy, and its time_t

timeVars == <<clock, systime, reading, since, whole, copied>>

\* BCD_TO_BIN.
BcdToBin(b) == (b % 16) + (b \div 16) * 10

\* The value the field gets; the year has two digits only.
Value(f, b) == BcdToBin(b) + IF f = "year" THEN 2000 ELSE 0

Shown(i) == [f \in Fields |-> Value(f, Readings[i][f])]

\* The later of two times has the greater of the highest fields that differ.
NotBefore(a, b) ==
  \A i \in DOMAIN Field :
    (\A j \in i + 1 .. Len(Field) : a[Field[j]] = b[Field[j]]) => a[Field[i]] >= b[Field[i]]

\* The clock goes forward.
ASSUME ClockAssumption ==
  \A i, j \in DOMAIN Readings : i <= j => NotBefore(Shown(j), Shown(i))

NoTime == [f \in Fields |-> 0]

TimeInit ==
  /\ clock = 1 /\ reading = 0 /\ since = 1
  /\ systime = NoTime
  /\ whole = NoTime
  /\ copied = [r \in Reader |-> [pos |-> 0, time |-> NoTime, ok |-> FALSE]]

\* The clock of the machine.
ClockTicks ==
  /\ clock < Len(Readings)
  /\ clock' = clock + 1
  /\ UNCHANGED <<systime, reading, since, whole, copied>>

\* systime_update begins.
UpdateStart ==
  /\ reading = 0
  /\ reading' = 1
  /\ since' = clock
  /\ UNCHANGED <<clock, systime, whole, copied>>

\* A bug: the registers are read from the year downwards.
RegisterDown(n) == Field[Len(Field) + 1 - n]

RegisterOf(n) == Field[n]

\* CMOS_READ of one register.
UpdateField ==
  /\ reading > 0
  /\ LET f == RegisterOf(reading)
     IN systime' = [systime EXCEPT ![f] = Value(f, Readings[clock][f])]
  /\ reading' = IF reading = Len(Field) THEN 0 ELSE reading + 1
  /\ whole' = IF reading = Len(Field) THEN systime' ELSE whole
  /\ UNCHANGED <<clock, since, copied>>

\* systime_copy: from the year to the second.  The date, which nobody sets, is
\* left out.
CopyOrder == <<"year", "month", "day", "hour", "minute", "second">>

\* krlservice with a number that is in osservicetab, sve_time and the start of
\* systime_copy.
CopyStart(r) ==
  /\ copied[r].pos = 0
  /\ copied' = [copied EXCEPT ![r] = [pos |-> 1, time |-> copied[r].time, ok |-> FALSE]]
  /\ UNCHANGED <<clock, systime, reading, since, whole>>

CopyField(r) ==
  /\ copied[r].pos > 0
  /\ LET f == CopyOrder[copied[r].pos]
         last == copied[r].pos = Len(CopyOrder)
     IN copied' = [copied EXCEPT ![r] =
                     [pos |-> IF last THEN 0 ELSE copied[r].pos + 1,
                      time |-> [copied[r].time EXCEPT ![f] = systime[f]],
                      ok |-> last]]
  /\ UNCHANGED <<clock, systime, reading, since, whole>>

Copying == \E r \in Reader : copied[r].pos > 0
-----------------------------------------------------------------------------
(***************************************************************************)
(* Properties.                                                             *)
(***************************************************************************)

SystemTimeTypeOK ==
  /\ clock \in DOMAIN Readings
  /\ systime \in [Fields -> Nat]
  /\ reading \in 0 .. Len(Field)
  /\ since \in DOMAIN Readings
  /\ whole \in [Fields -> Nat]
  /\ \A r \in Reader :
       /\ copied[r].pos \in 0 .. Len(Field)
       /\ copied[r].time \in [Fields -> Nat]
       /\ copied[r].ok \in BOOLEAN

\* However often the clock goes on while the registers are read, the time of
\* the system is not behind what the clock showed when the update began
\* (systime.c:45: the seconds are read first, the year last).
NeverBehind ==
  reading = 0 /\ systime # NoTime => NotBefore(systime, Shown(since))

\* A thread gets the time as the last update has left it, not the fields of two
\* (systime.c:96).
CopyWhole ==
  [][\A r \in Reader : copied'[r].ok /\ ~copied[r].ok => copied'[r].time = whole]_timeVars
=============================================================================
