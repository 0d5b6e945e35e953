------------------------------- MODULE Devices -------------------------------
(***************************************************************************)
(* The devices of wind-os, kernel/device.c: driver_init runs the entry     *)
(* function of every driver of drventries, and each of them makes a device *)
(* and links it on the lists of the kernel, hands the kernel a handler for *)
(* its interrupt and unmasks the line.  Then callers open and close the    *)
(* devices, which counts them.                                             *)
(*                                                                         *)
(* The lists that share the hook of a device are modelled by their         *)
(* pointers, the others as sequences.  Every allocation may fail.  error() *)
(* and die() stop the kernel.  Nothing is mapped at the address 0 any more *)
(* (mmu_init clears the entry), so a write through a null pointer raises a *)
(* page fault: its handler opens the interrupts, refuses an address below  *)
(* the first page, and stops the kernel with the interrupts open.          *)
(***************************************************************************)
EXTENDS Integers, Sequences, FiniteSets, SequencesExt

CONSTANTS
  User,      \* threads that open and close devices
  Opcodes,   \* what they ask of a device: "open", "close", "dev_stop"
  OwnOnly,   \* they close only what they have opened
  PointerSize, DevextSize, \* sizeof(devext_t*) and sizeof(devext_t)
  ObjectSize \* the unit of small memory objects

\* The drivers in the order of drventries.
Drivers == <<"tick", "rfs", "keyboard">>
Device == ToSet(Drivers)
Counted == {"tick", "keyboard"} \* rfs_open and rfs_close do not count

Class == [d \in Device |-> CASE d = "tick" -> "SYSTICK_DEVICE"
                             [] d = "rfs" -> "FILESYS_DEVICE"
                             [] d = "keyboard" -> "UART_DEVICE"]

\* The line of a device that has one; its vector is the line plus 0x20.
Line == [d \in Counted |-> IF d = "tick" THEN 0 ELSE 1]

ASSUME DevicesAssumption ==
  /\ Opcodes \subseteq {"open", "close", "dev_stop"} /\ OwnOnly \in BOOLEAN
  /\ PointerSize \in Nat /\ DevextSize \in Nat /\ ObjectSize \in Nat \ {0}

VARIABLES
  phase,  \* how far the boot is: "drivers", "schedule", "idle", ..., "up", or its end
  at,     \* in driver_init: the driver and the step of its entry function
  link,   \* prev and next of the hooks and heads that device.c links
  table,  \* devtable: devNum, drvNum, the class lists, drvlst
  dev,    \* what is known of a device_t
  serv,   \* intFaults[].servlst: the devices that handle a line
  lines,  \* the lines the 8259A lets through
  intr,   \* the interrupt flag of the processor
  opened, \* the devices a user has opened and not closed
  asked   \* the device a user is in device_dec_devcount for

deviceVars == <<at, link, table, dev, serv, lines>>
userVars == <<opened, asked>>

-----------------------------------------------------------------------------
(***************************************************************************)
(* Lists.                                                                  *)
(***************************************************************************)

\* The heads of the global list and of each driver's list, and the hooks.
ListHead(d) == <<"alldevlst", d>>
Hook(d) == <<"hook", d>>
Global == <<"devlst", "table">>
Node == {Global} \cup {ListHead(d) : d \in Device} \cup {Hook(d) : d \in Device}

\* list_t_init.
Alone(l, n) == [l EXCEPT ![n] = [prev |-> n, next |-> n]]

\* A bug: the old first node keeps pointing back to the head.
ListAddForward(l, new, head) ==
  LET next == l[head].next
  IN [l EXCEPT ![new] = [prev |-> head, next |-> next], ![head].next = new]

\* list_add: the four assignments of __list_add, in their order.
ListAdd(l, new, head) ==
  LET next == l[head].next
      one == [l EXCEPT ![next].prev = new]
      two == [one EXCEPT ![new] = [prev |-> head, next |-> next]]
  IN [two EXCEPT ![head].next = new]

\* What a loop from head along next, or along prev, comes by, at most as many
\* steps as there are nodes.
Follow(l, n, way) == IF way = "next" THEN l[n].next ELSE l[n].prev
Walk(l, head, way) ==
  LET w[i \in 1 .. Cardinality(Node)] == Follow(l, IF i = 1 THEN head ELSE w[i - 1], way)
  IN w

\* The nodes before the loop is back at head.
Listed(l, head, way) ==
  LET w == Walk(l, head, way)
  IN {w[n] : n \in {n \in DOMAIN w : \A k \in 1 .. n : w[k] # head}}

Ends(l, head, way) == \E n \in DOMAIN Walk(l, head, way) : Walk(l, head, way)[n] = head
-----------------------------------------------------------------------------
(***************************************************************************)
(* The entry functions.                                                    *)
(***************************************************************************)

\* A bug: the line is unmasked first.
EntryLineFirst(d) ==
  IF d = "rfs" THEN <<"driver", "device", "disk", "ext", "add", "register", "format", "system">>
  ELSE IF d = "tick" THEN <<"driver", "device", "line", "add", "register", "callback", "system">>
  ELSE <<"driver", "device", "line", "add", "register", "callback", "board", "system">>

\* run_drventry and, between its two ends, drvtick_entry, drvrfs_entry and
\* drvkeyboard_entry: what each does, in order.
Entry(d) ==
  CASE d = "tick" ->
         <<"driver", "device", "add", "register", "callback", "line", "system">>
    [] d = "rfs" ->
         <<"driver", "device", "disk", "ext", "add", "register", "format", "system">>
    [] d = "keyboard" ->
         <<"driver", "device", "add", "register", "callback", "board", "line", "system">>

Current == Drivers[at.driver]

At(step) == phase = "drivers" /\ Entry(Current)[at.step] = step

\* The rest of the step succeeds: the next one, or the next driver.
Proceed ==
  IF at.step < Len(Entry(Current))
  THEN at' = [at EXCEPT !.step = @ + 1] /\ UNCHANGED phase
  ELSE IF at.driver < Len(Drivers)
  THEN at' = [driver |-> at.driver + 1, step |-> 1] /\ UNCHANGED phase
  ELSE phase' = "schedule" /\ UNCHANGED at

\* A bug of driver_init: it goes on with the next driver.
FailSkips ==
  /\ IF at.driver < Len(Drivers)
     THEN at' = [driver |-> at.driver + 1, step |-> 1] /\ UNCHANGED phase
     ELSE phase' = "schedule" /\ UNCHANGED at
  /\ UNCHANGED <<link, table, dev, serv, lines>>

\* DFCERRSTUS reaches driver_init, which stops the machine.
Fail ==
  /\ phase' = "dead_driver"
  /\ UNCHANGED <<at, link, table, dev, serv, lines>>

\* A write through a null pointer, and hal_fault_allocator.
NullWrite ==
  /\ phase' = "fault"
  /\ intr' = TRUE
  /\ UNCHANGED <<at, link, table, dev, serv, lines>>

\* A bug: every unlock opens the interrupts instead of restoring the flag.
UnlockOpens(saved) == intr' = TRUE

\* spinlock_unlock_sti.
Unlock(saved) == intr' = saved

NoDevice == [made |-> FALSE, drv |-> "none", count |-> 0, ext |-> "none", need |-> 0, room |-> 0]

DevicesInit ==
  /\ at = [driver |-> 1, step |-> 1]
  /\ link = [n \in Node |-> [prev |-> n, next |-> n]]
  /\ table = [devNum |-> 0, drvNum |-> 0, drvlst |-> <<>>,
              devlsts |-> [c \in {Class[d] : d \in Device} |-> <<>>]]
  /\ dev = [d \in Device |-> NoDevice]
  /\ serv = [l \in 0 .. 15 |-> <<>>]
  /\ lines = {}
  /\ opened = [u \in User |-> {}]
  /\ asked = [u \in User |-> "none"]

\* driver_new.
DriverNew ==
  /\ At("driver")
  /\ \/ /\ link' = Alone(link, ListHead(Current))
        /\ Proceed
        /\ UNCHANGED <<table, dev, serv, lines>>
     \/ Fail
  /\ UNCHANGED intr

\* device_new; drvrfs_entry does not look at its result.
DeviceNew ==
  /\ At("device")
  /\ \/ /\ link' = Alone(link, Hook(Current))
        /\ dev' = [dev EXCEPT ![Current] = [NoDevice EXCEPT !.made = TRUE]]
        /\ Proceed
        /\ UNCHANGED <<table, serv, lines, intr>>
     \/ Current # "rfs" /\ Fail /\ UNCHANGED intr
     \/ Current = "rfs" /\ NullWrite

\* new_devext: the disk.
DiskNew ==
  /\ At("disk")
  /\ \/ Proceed /\ UNCHANGED <<link, table, dev, serv, lines>>
     \/ Fail
  /\ UNCHANGED intr

\* new_devext: the room for a devext_t, that of a pointer to one, rounded up to
\* an object; its result is not looked at either.
ExtNew ==
  /\ At("ext")
  /\ \/ /\ dev' = [dev EXCEPT
                     ![Current].ext = "disk",
                     ![Current].need = DevextSize,
                     ![Current].room = ((PointerSize + ObjectSize - 1) \div ObjectSize) * ObjectSize]
        /\ Proceed
        /\ UNCHANGED <<link, table, serv, lines, intr>>
     \/ NullWrite

\* device_add_driver.
AddDriver ==
  /\ At("add")
  /\ IF \E e \in Device : Hook(e) \in Listed(link, ListHead(Current), "next") /\ Class[e] = Class[Current]
     THEN Fail
     ELSE /\ link' = ListAdd(link, Hook(Current), ListHead(Current))
          /\ dev' = [dev EXCEPT ![Current].drv = Current]
          /\ Proceed
          /\ UNCHANGED <<table, serv, lines>>
  /\ UNCHANGED intr

\* device_register.
Register ==
  /\ At("register")
  /\ IF \E e \in Device : Hook(e) \in Listed(link, Global, "next") /\ Class[e] = Class[Current]
     THEN Fail
     ELSE /\ link' = ListAdd(link, Hook(Current), Global)
          /\ table' = [table EXCEPT !.devNum = @ + 1,
                                    !.devlsts[Class[Current]] = <<Current>> \o @]
          /\ Proceed
          /\ UNCHANGED <<dev, serv, lines>>
  /\ Unlock(intr)

\* install_callback and add_irqhandle.
InstallCallback ==
  /\ At("callback")
  /\ \/ /\ serv' = [serv EXCEPT ![Line[Current]] = <<Current>> \o @]
        /\ Proceed
        /\ UNCHANGED <<link, table, dev, lines>>
        /\ Unlock(intr)
     \/ Fail /\ UNCHANGED intr

\* init_keyboard: that there is no keyboard_t is only printed, and the boot goes on.
InitKeyboard ==
  /\ At("board")
  /\ \/ dev' = [dev EXCEPT ![Current].ext = "board"]
     \/ UNCHANGED dev
  /\ Proceed
  /\ UNCHANGED <<link, table, serv, lines, intr>>

\* i8259_enable_line: a line of the second chip comes through line 2.
Unmasked(line) == lines \cup {line} \cup (IF line < 8 THEN {} ELSE {2})

\* hal_enable_intline.
EnableLine ==
  /\ At("line")
  /\ lines' = Unmasked(Line[Current])
  /\ Proceed
  /\ UNCHANGED <<link, table, dev, serv, intr>>

\* rfc_init: superblock_create writes to the buffer it could not get.
Format ==
  /\ At("format")
  /\ \/ Proceed /\ UNCHANGED <<link, table, dev, serv, lines, intr>>
     \/ NullWrite

\* driver_add_system.
DriverAddSystem ==
  /\ At("system")
  /\ table' = [table EXCEPT !.drvNum = @ + 1, !.drvlst = <<Current>> \o @]
  /\ Proceed
  /\ UNCHANGED <<link, dev, serv, lines>>
  /\ Unlock(intr)

DriverInit ==
  \/ DriverNew \/ DeviceNew \/ DiskNew \/ ExtNew \/ AddDriver \/ Register
  \/ InstallCallback \/ InitKeyboard \/ EnableLine \/ Format \/ DriverAddSystem
-----------------------------------------------------------------------------
(***************************************************************************)
(* Opening and closing.                                                    *)
(***************************************************************************)

\* device_call_driver with IOIF_CODE_OPEN, and device_inc_devcount.
Open(u, d) ==
  /\ phase = "up" /\ "open" \in Opcodes /\ asked[u] = "none"
  /\ d \in Counted /\ dev[d].drv # "none" /\ d \notin opened[u]
  /\ dev' = [dev EXCEPT ![d].count = @ + 1]
  /\ opened' = [opened EXCEPT ![u] = @ \cup {d}]
  /\ UNCHANGED <<at, link, table, serv, lines, asked>>

\* device_call_driver with another code: tick_close, keyboard_close and, for
\* the keyboard alone, keyboard_dev_stop call device_dec_devcount, which looks
\* at the count before it takes the lock.
Decrements(op) ==
  CASE op = "close" -> Counted [] op = "dev_stop" -> {"keyboard"} [] OTHER -> {}

\* A bug: the last one who has opened a device cannot close it.
CountedOnceMore(d) == dev[d].count > 1

StillCounted(d) == dev[d].count >= 1

\* A close also ends the use of the device, a stop does not.
Release(u, d, op) ==
  /\ phase = "up" /\ op \in Opcodes \ {"open"} /\ asked[u] = "none"
  /\ d \in Decrements(op) /\ dev[d].drv # "none"
  /\ OwnOnly => d \in opened[u]
  /\ asked' = [asked EXCEPT ![u] = IF StillCounted(d) THEN d ELSE "none"]
  /\ opened' = [opened EXCEPT ![u] = IF op = "close" THEN @ \ {d} ELSE @]
  /\ UNCHANGED <<dev, at, link, table, serv, lines>>

\* The locked part of device_dec_devcount.
Decrement(u) ==
  /\ asked[u] # "none"
  /\ dev' = [dev EXCEPT ![asked[u]].count = @ - 1]
  /\ asked' = [asked EXCEPT ![u] = "none"]
  /\ UNCHANGED <<at, link, table, serv, lines, opened>>

Calls ==
  \/ \E u \in User, d \in Device : Open(u, d) \/ \E op \in Opcodes : Release(u, d, op)
  \/ \E u \in User : Decrement(u)
-----------------------------------------------------------------------------
(***************************************************************************)
(* Properties.                                                             *)
(***************************************************************************)

DevicesTypeOK ==
  /\ at \in [driver : 1 .. Len(Drivers), step : 1 .. 8]
  /\ link \in [Node -> [prev : Node, next : Node]]
  /\ table.devNum \in Nat /\ table.drvNum \in Nat
  /\ table.drvlst \in Seq(Device)
  /\ \A c \in DOMAIN table.devlsts : table.devlsts[c] \in Seq(Device)
  /\ dev \in [Device -> [made : BOOLEAN, drv : Device \cup {"none"}, count : Nat,
                         ext : {"none", "disk", "board"}, need : Nat, room : Nat]]
  /\ serv \in [0 .. 15 -> Seq(Device)]
  /\ lines \subseteq 0 .. 15 /\ intr \in BOOLEAN
  /\ opened \in [User -> SUBSET Device]
  /\ asked \in [User -> Device \cup {"none"}]

Registered == UNION {ToSet(table.devlsts[c]) : c \in DOMAIN table.devlsts}

\* The global list can be walked in both directions and holds exactly the
\* devices of the class lists, as many as devNum says, although device_register
\* links the hook that already is on the list of its driver (device.c:335).
TableSound ==
  /\ \A way \in {"next", "prev"} :
       /\ Ends(link, Global, way)
       /\ Listed(link, Global, way) = {Hook(d) : d \in Registered}
  /\ table.devNum = Cardinality(Registered)
  /\ table.drvNum = Len(table.drvlst)

\* The list of a driver can be walked, and holds its devices (device_t.h:67).
DriverListsSound ==
  \A d \in Device : dev[d].drv # "none" =>
    /\ Ends(link, ListHead(dev[d].drv), "next")
    /\ Hook(d) \in Listed(link, ListHead(dev[d].drv), "next")

\* The boot has come to its end with the drivers.
DriversDone == phase \notin {"drivers", "dead_driver", "fault", "dead_tick"}

\* Once the drivers are there, each is registered with its device, its line has a
\* handler and is open, and the file system has its disk; only the keyboard may be
\* without its keyboard_t (drvtick.c:190: after a failure half of them is there).
DriversComplete ==
  DriversDone =>
    /\ ToSet(table.drvlst) = Device /\ Registered = Device
    /\ \A d \in Device : dev[d].drv = d
    /\ \A d \in Counted : serv[Line[d]] = <<d>> /\ Line[d] \in lines
    /\ dev["rfs"].ext = "disk"

\* The keyboard has its keyboard_t, which keyboard_read does not check for
\* (drvkeyboard.c:278).
KeyboardReady == DriversDone => dev["keyboard"].ext = "board"

\* A line that may interrupt has a handler, and its device is registered
\* (drvtick.c:201).
LinesServed ==
  \A l \in lines : \E i \in DOMAIN serv[l] : serv[l][i] \in Registered

\* The count of a device is the number of those who have opened it, those still
\* on their way out of device_dec_devcount included (device.c:432).
CountTrue ==
  \A d \in Counted :
    dev[d].count = Cardinality({u \in User : d \in opened[u]})
                     + Cardinality({u \in User : asked[u] = d})

\* The instance of devext_t fits into the storage allocated for it
\* (drvrfs.c:50).
ExtFits == \A d \in Device : dev[d].need <= dev[d].room
=============================================================================
