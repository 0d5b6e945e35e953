# A formal model of wind-os

wind-os is a small x86-64 kernel that runs on one processor. This directory
holds TLA+ modules that model its core, configurations with which TLC checks
them on small instances, and theorems about them that TLAPS proves for every
value of the constants. `PROJECT.json` lists the runs, the mutants that show
that each property can fail, the source lines behind each definition, the
findings and the hazards.

    tlc -workers 2 -config ring.cfg MCKernel      # check a run
    tlapm KernelProofs.tla                         # check the proofs of a module

## 1. The system

| component | state | operations | interacts with |
|---|---|---|---|
| scheduler (`kernel/schedule.c`) | per CPU: one `thdlst_t` (list, counter, current thread) per priority, `curthd`, `cpuidle`, `flags` | `schedule_add`, `schedule_wait`, `schedule_up`, `krl_schedule` = `select_thread` + `switch_thread`, `schedule_inc_tick`, `schedule_check` | called by semaphores, by the interrupt path and by thread creation |
| semaphores and wait lists (`sem.c`, `waitlist.c`) | `count`, list of threads, `waitsNum` | `sem_down`, `sem_up`, `waitlist_add/del/allup` | block and wake through the scheduler |
| interrupts (`hal/x86/interrupt.c`, `_isr.asm`) | frames on the kernel stack of the interrupted thread | `hal_hwint_allocator`, `run_callback`, then `schedule_check` | open interrupts before the handler is done, so they nest |
| idle thread and ring (`idle.c`) | three semaphores, threads A, B, C | boot; `sem_down(own)`, print, `sem_up(next)` | the only threads the tree starts |
| timer, keyboard (`drvtick.c`, `drvkeyboard.c`) | tick of the running thread; three words of buffer and a semaphore | `tick_handle`, `keyboard_handle`, `keyboard_read` | run in interrupts; raise the scheduler's flag |
| thread creation (`thread.c`) | stacks, `thread_t`, initial frames | `krlnew_thread`, `krnl_thread_core`, `user_thread_core` | memory pool, scheduler |
| boot (`pack.c`, `machine.c`, `remmu.c`, `memview.c`, `memmgr.c`) | the image, the memory map of the BIOS, where the next file or table goes | `pack`, `kernel_init`, `font_init`, `logo_init`, `memmgr_init` and what it calls | leaves the lists of the page allocator |
| physical pages (`memapi.c`, `memtable.c`, `mempage.c`, `memarea.c`) | per area: free runs by order, counts per page; one list of single pages for applications | `mem_divide`, `mem_merge`, `mem_divide_apps` | used by the pool, the object allocator, page tables, page faults |
| objects and pool (`memobject.c`, `mempool.c`) | 64 mount points with containers, their extensions and free objects; lists of page runs | `mobj_new`, `mobj_delete`, `mempool_new`, `mempool_delete` | used by everything that allocates |
| process memory (`kvmprocess.c`, `kvmarea.c`, `kvmbox.c`) | list of areas, a cache of the last one, boxes of pages | `kvm_new`, `kvm_delete`, page faults | page allocator, page tables |
| page tables (`mmu.c`) | four levels, a page for every table | `mmu_transform`, `mmu_untransform` | page allocator |
| devices (`device.c`, `krlinterrupt.c`, `i8259.c`) | device table, lists that share the hook of a device, reference counts, interrupt services, masks of the lines | `driver_init` with the entry function of each driver; open and close | drivers; the timer's line is open while the rest of the boot runs |
| RAM file system (`drvrfs.c`) | bitmap, root directory, one block per file | create, delete, open, read, write | device requests |
| time of day, system calls (`systime.c`, `service.c`, `syscall.c`) | `systime`, written register by register | `systime_update` in the handler of the timer, `systime_copy` in the one system call there is | the clock of the machine goes on meanwhile |
| object nodes, console, descriptor tables, libraries | - | without a caller, written once, or only print | - |

What makes it hard, and what has to be right:

* **Scheduler, semaphores, interrupts.** A thread has one list hook for ready
  lists and wait lists; counters are kept by hand; an interrupt may come between
  `select_thread` and `switch_thread`, run the scheduler itself, and leave the
  outer one with an old choice. To be right: a thread is in one place, the
  counters tell the truth, nobody sleeps on a semaphore that can be taken, no
  unit of a semaphore appears or vanishes, every thread gets its turn.
* **Keyboard.** The semaphore counts events while the buffer holds one.
* **Memory.** Runs are cut and joined without alignment, by several callers that
  do not agree on how many pages they give back; containers are extended and
  destroyed under their objects. To be right: no page or object has two owners,
  what is given back is found again, no cache points at what is gone.
* **Processes.** Areas are grown, cut and joined at any address by a thread that
  holds one lock, while page faults of others look at them under another. To be
  right: areas stay apart and cover what callers were told, also where a sum
  wraps; a page comes in only for an address somebody still has; the cached area
  exists.
* **Page tables.** A mapping may fail at any of three levels and has to be undone.
  To be right: what is given back is not reached any more, and the reverse; one
  call changes one mapping.
* **Files.** Every call copies the superblock or a block and writes it back; an
  open node points into the directory. To be right: no block lost or shared, a
  file is there while callers were told so, a call changes one file.
* **Boot.** Memory maps come in any order, with holes and ends inside a page; runs
  of pages are cut along the bits of their length; the files are copied towards
  the image they come from. To be right: a page is handed out by one list, once,
  if it is whole, usable and not in use, and no file is overwritten unread.
* **Devices.** `device_register` links a hook that is on another list already; an
  entry function may fail half-way; a line is open long before the first thread
  runs, so whatever lock is given back on the way must not open the interrupts;
  a count is looked at before the lock is taken.
* **Time.** The clock goes on while its registers are read, and a tick may come
  while a thread copies the time.
* **Thread creation.** Two or three allocations in turn, each of which may fail;
  requests at the limits of priority and size.

The hazards, each at its line, are in `PROJECT.json`.

## 2. Modules

| module | models | refers to |
|---|---|---|
| `RunQueue` | the ready queues as values: `Enqueue`, `Dequeue`, `SelectQueues`, `SelectThread` | `schedule.c` |
| `Kernel` (extends `RunQueue`) | threads, semaphores, scheduler, interrupts, boot | `schedule.c`, `sem.c`, `waitlist.c`, `idle.c`, `interrupt.c`, the handlers of both drivers |
| `TokenRing` | abstract: one token that goes from semaphore to thread to semaphore | what `idle.c` relies on |
| `MCKernel` | threads, priorities and semaphores of the instances | |
| `Keyboard` | the buffer and the semaphore of the keyboard, readers byte by byte | `drvkeyboard.c` |
| `PageOwner` | abstract: consecutive pages, to one owner at a time | what `memapi.c` promises |
| `PageAllocator` | free runs by order, page counts, the list of single pages, the holders | `memapi.c`, `memtable.c`, `mempool.c`, `kvmprocess.c` |
| `ObjectPool` | mount points, containers, extensions, cache, free objects | `memobject.c` |
| `AddressRanges` | abstract: addresses given out once until given back | what `kvm_new` and `kvm_delete` promise |
| `AddressSpace` | areas, the cached and the last one, boxes, page faults of several threads | `kvmprocess.c`, `kvmarea.c` |
| `AddressMap` | abstract: a map from virtual to physical pages | what `mmu_transform` and `mmu_untransform` promise |
| `PageTables` | the entries of four levels of tables, the lists of their pages | `mmu.c` |
| `FileStore` | abstract: the contents of files | what `drvrfs.c` promises |
| `RamFS` | bitmap, directory, blocks, open nodes, the copies of the callers | `drvrfs.c`, `_string.c` |
| `Boot` | packing the image, loading it, and the way from the memory map to the lists of the three areas | `pack.c`, `image.c`, `machine.c`, `remmu.c`, `memview.c`, `mempage.c`, `memarea.c`, `memtable.c`, `memmgr.c` |
| `Devices` | the entry functions step by step, the lists by their pointers, lines, open and close | `device.c`, `krlinterrupt.c`, `drvtick.c`, `drvrfs.c`, `drvkeyboard.c`, `i8259.c` |
| `SystemTime` | the clock, its registers being read, copies of the time | `systime.c` |
| `ThreadCreation` | stacks and thread structures taken and given back | `thread.c`, `idle.c` |
| `Startup` (extends the last three) | `kernel_entry` from `driver_init` on, the interrupt flag, ticks, system calls | `kernel.c`, `idle.c`, `interrupt.c`, `spinlock.c` |
| `MCAddressSpace`, `MCPageTables`, `MCRamFS`, `MCBoot`, `MCStartup` | instances and symmetry | |
| `KernelProofs`, `KeyboardProofs`, `PageAllocatorProofs`, `ObjectPoolProofs`, `VirtualMemoryProofs` (of `AddressSpace` and `PageTables`), `RamFSProofs`, `StartupProofs`, `BootProofs` | the theorems | |

### Kernel

With one processor, code that runs with interrupts off is one step; code that
runs with interrupts on is cut where an interrupt makes a difference. The stack
of a thread is `at[t]` with `depth[t]` interrupt frames on it; `at[t][0]` is the
thread's own program. Only the top frame of `curthd` moves. A worker of `idle.c`
brackets `sem_down` with `CLI` and `STI`, so `SemDownBlocks` includes
`schedule_wait` and all of `krl_schedule`; a reader of the keyboard does not, so
`ReadBlocks`, `Select` and `Switch` are three steps. `sem_up` keeps interrupts
off, yet `WakeOne` is a step for each turn of the loop in `waitlist_allup`, so
that the states in between are visible to the invariants.

| action | code |
|---|---|
| `Spawn`, `BootDone` | `schedule_add` from `krlnew_thread`; `init_abc_thread`, `idle_start` |
| `SemDownTakes`, `SemDownBlocks` | `sem_down` of a worker |
| `SemUp`, `WakeOne`, `WakeDone` | `sem_up`, `waitlist_allup` with `schedule_up` |
| `ReadTakes`, `ReadBlocks`, `ReadReturns` | `sem_down` within `keyboard_read` |
| `Select`, `Switch` | `krl_schedule` with interrupts on |
| `TimerIrq`, `KbdIrq` | an interrupt is taken: a new frame |
| `TimerHandler`, `KbdHandler`, `KbdReturns`, `ScheduleCheck`, `IrqExit` | `tick_handle`, `keyboard_handle` with and without a `keyboard_t`, `schedule_check`, return |

The variable `prio` of a thread is a constant because no code changes it. Stack
contents, locks (never found taken on one processor), statistics and the clock
are left out.

### Keyboard

Events are numbered; a word of the buffer is the number of the event that wrote
it, and so is each byte copied from it. `Handle` is one step because
`keyboard_handle` runs under the lock of the interrupt descriptor; `Copy` is a
step for each byte because `memcpy` copies bytes with interrupts on, so that a
read may end inside a word, and a word may be of two events. How a reader sleeps
is in `Kernel`.

### PageAllocator and ObjectPool

A free run in list `k` stands for 2^k pages; `last` is what its `next` points
to. `Cut` is the closed form of the loop of `divide_execute`, `Grown`, `Stop`
and `MergeInto` that of `merge_execute`. `held` is what the rest of the kernel
keeps (`mempool.pages`, `container->mems`, page tables, boxes) with the number
of pages that was asked for, because `mempool_delete` gives back that number.
The count of a page keeps its width: it wraps at `CountMax`.

`ObjectPool` numbers runs of pages by address, because `mobj_delete` finds the
container of an object by comparing addresses. `mem_divide` may return any run
that is not used or fail, which is what `PageOwner` allows. `live` is what the
callers hold, `stuck` the objects whose `mobj_delete` returned FALSE.

### AddressSpace and PageTables

`kvm_new` and three of the four cases of `kvm_delete` are one step each under
the lock of the space; the fourth case, which cuts an area in two, is
`DeleteCuts` and `DeleteLinks`, for a page fault may come in between: its
handler takes the lock of the process, not of the space, and closes no
interrupts. The handler is `Raise`, then `Find` or `Miss`, then `Map` or
`MapFails`. Locks are guards: `Unlocked` for the space, `CanLock` for the
process. `Plus` and `Align` wrap as `addr_t` does, so that a size close to
`AddrMod` passes the comparisons of `kvm_new` and `kvm_delete` as it does in the
code. A freed area that is still cached may match whatever is looked for: the
fault handler then goes on with it (`FindStale`) and brings in a page
(`MapStale`), and so it does with an area that was freed after it was found.
Only a write to freed memory ends the model (`undefined`): that of `kvm_new` and
`kvm_delete` (`NewStale`, `DeleteStale`), and that of a new box. The walk over the
list of areas is one step. `owned` counts what callers have been told, from the
replies alone; `gone` has the threads that are about to bring in a page for an
address given back since, or for an area deleted before it was found.

`PageTables` has a function of entries for every table. `Hang` is what
`transform_pt1` to `transform_pt3` have in common, `Unhang` what their
counterparts have; `Transform` chooses beforehand what each `mem_divide` would
return. `untransform_pt1` uses the second index, and so does `Retreat2`; what
`untransform_pt3` does with the NULL page it gets is nothing. `Clean` is
`mmu_clean` of the tables the processor uses, which it does from `kvm_init` on.
The processor's cache of translations is left out.

| action | code |
|---|---|
| `NewGrows`, `NewArea` | `kvm_new` |
| `DeleteWhole`, `DeleteSide`, `DeleteCuts`, `DeleteLinks` | the four cases of `kvm_delete_core` |
| `NewStale`, `DeleteStale` | both, with a cached area that was freed |
| `Raise`, `Find`, `FindStale`, `Miss`, `Map`, `MapStale`, `MapFails` | the page fault: `vma_map_fairvadrs` and below |
| `Transform`, `Untransform`, `Clean` | `mmu_transform`, `mmu_untransform`, `mmu_clean` |

### RamFS

`SuperblockRead` and `BlockRead` copy, every other action works on the copy and
ends with the write back; `ReadFile` and `WriteFile` move the offset in the
superblock on the disk, as the code does through `fnode`. Names are short
sequences, because `strcpy` leaves what stood behind a shorter name and
`strcmp` returns a difference that `rfs_new_file` compares with `TRUE`. An
offset beyond the block sets `undefined`, and nothing is said of what comes
after. `names` counts what callers have been told. A copy of a block is one
step: with one thread that is what the code does; with several the code can do
this and more. Without memory for its copy of the superblock a call returns an
error and changes nothing, which is no step.

| action | code |
|---|---|
| `NewFile`, `NewFileFails` | `rfs_new_file` |
| `DeleteFile`, `NotFound` | `rfs_delete_file` |
| `OpenFile`, `NotFound`, `CloseFile` | `rfs_open_file`, `rfs_close_file` |
| `ReadFile`, `WriteFile`, `Overrun` | `fileblock_read`, `fileblock_write` |
| `NoBuffer`, `NoBufferStops` | the same without memory for the buffer: at the beginning of a file all copies do nothing and the offset moves; behind it the offset is taken for an address |

### Boot

A state is a point between two calls of `memmgr_init`; the memory map, in any
order of its entries, and the sizes of the packed files are chosen at the start.
`placed` is what was put into memory one behind the other; `pages` is the array
of `MemPage`, of which the number, the area and the count matter. `Sorted` is the
selection sort, swap by swap. `PartOf` is the closed form of the loop of
`split_continuous`, `Runs` of `Next`; `MountTable` puts what they make on a list,
run by run, as `mount_table` and `list_add` do. `mark_occupy`
has no other end than a page beyond the region: where the last page is in use
it leaves the array, and the model stops (`OccupyOverruns`).

| action | code |
|---|---|
| `LoadFile` | `kernel_init`, `font_init`, `logo_init` |
| `RemmuInit`, `MemviewInit`, `MempageInit`, `MemareaInit` | the functions of these names |
| `Occupy`, `OccupyOverruns` | `mark_occupy`, for the four regions of `mempage_occupy` |
| `MarkAreas`, `MountRuns`, `MountSingles` | the two traversals of `mount_pages` |
| `SetMemmgr` | `set_memmgr` |

`PageAllocator` begins where this ends, with lists of its own choice: it does not
import those of an instance of `Boot`, whose pages would be too many for it.
`set_memmgr` counts a page that two regions use as free (`memmgr.c:100`); only
statistics follow from that.

### Startup: Devices, SystemTime, ThreadCreation

One processor, one interrupt flag (`intr`). It is off from the loader to
`first_sched`; from there on threads run. `phase` is how far the boot is, and its
bad ends: `error()` prints and stops the kernel (`dead_driver`, `dead_idle`,
`dead_tick`); a write through a null pointer raises a page fault, for `mmu_init`
has cleared the entry of the address 0 in the table that `kvm_init` loads, and
the fault handler opens the interrupts, refuses the address and stops the kernel
with them open (`fault`), so that the timer may still tick; a lock that is held
by the thread the tick came to is waited for without end (`spin`). A page fault
on the pointer that the caller of the system call gave opens the interrupts too,
in the middle of the copy (`TimeFault`), and closes them again when the page is
there (`TimeServed`). Every allocation may fail; that of the `keyboard_t` is only
printed, and the keyboard goes without. The list a device is on as a member of
its driver and the global list share one hook, so these lists are modelled by
their `prev` and `next` pointers; the four assignments of `__list_add` keep their
order. A handler of the timer that reads the clock keeps the interrupts closed,
and so does a thread that copies the time; the clock goes on.

| action | code |
|---|---|
| `DriverNew`, `DeviceNew`, `DiskNew`, `ExtNew`, `AddDriver`, `Register`, `InstallCallback`, `InitKeyboard`, `EnableLine`, `Format`, `DriverAddSystem` | the steps of `run_drventry` and of the three entry functions, in the order of `Entry` |
| `ScheduleInit`, `IdleNew`, `RingThread`, `IdleStart` | `schedule_init`, `idle_new`, each `krlnew_thread` of `init_abc_thread`, `idle_start` with `first_sched` |
| `TickInterrupt`, `TickUpdate` | `hal_hwint_allocator` to `tick_handle`; a register of `systime_update` |
| `TimeCall`, `TimeCopy`, `Clock` | `hal_syscal_allocator` to `systime_copy`; an assignment of it; the clock of the machine |
| `TimeFault`, `TimeServed`; `NullWrite` | `hal_fault_allocator` for an address of the caller; for the address 0 |
| `UseDevice`: `Open`, `Release`, `Decrement` | `device_inc_devcount`; `device_dec_devcount` before and after it has the lock |
| `NewThread`: `KrnlThread`, `KrnlNoThread`, `UserThread`, `UserNoStack`, `UserNoThread` | `krlnew_thread` |

`Kernel` takes over when `Startup` is `up`: which thread runs, and how one
sleeps, is there. `krlnew_thread` passes on the sizes it was asked for and not
the defaults it computed, so a request for size 0 fails, and one for a size that
is too small puts its registers in front of the stack.

## 3. Runs

| run | question | result |
|---|---|---|
| `ring` | the ring of `init_abc_thread`, timer and keyboard not nesting | queues and counters are consistent, the token is one and moves, every worker runs for ever |
| `nested` | two interrupts deep; two threads compete for a semaphore, a reader of higher priority is in `sem_down` with interrupts on | places, wait lists, token and its refinement survive; counters of the queues do not |
| `nested_count` | the counter of a ready queue with nested interrupts | violated: finding |
| `keys` | two readers and three events | a read never begins before its event; a torn read, be it inside a word, is torn forwards |
| `pages` | blocks of three pages given back as three, and blocks that are given back whole | no page in two hands; while all is given back whole, every page is held or free and ends of runs are known; refines `PageOwner` |
| `pool` | two object sizes over three runs of pages | nothing used twice, no stale cache, nothing kept idle |
| `areas` | a caller of `kvm_new` and `kvm_delete` at any address, a thread that faults | areas stay apart and cover what was given out; refines `AddressRanges`; one is missed only while a cut is half done, and a page comes in for one that nobody has only if `kvm_delete` came between |
| `tables` | six addresses, allocations that fail at any level | the lists are the tree; refines `AddressMap` |
| `files` | a caller with two nodes creates, deletes, opens, reads and writes | blocks and names are kept; refines `FileStore` |
| `boot` | six memory maps in all orders, images with and without a font, a logo or a kernel | every usable page that nothing occupies is on one list, once, and no other page is on any; no file is overwritten unread |
| `startup` | the boot with any allocation failing, then two users of the devices, a reader of the time, requests for threads, while the year turns | the device table is whole, lines have handlers, a tick finds a thread or a kernel that has stopped; counts, stacks and the time are right |
| `startup_ext` | the storage of a `devext_t` | violated: finding |

**Bounds.** Three threads and two priorities give every case of
`select_thread`: an empty queue, one with only its current thread, one whose
head takes its place, a lower one that is passed over. Interrupts nest at most
`MaxIrqDepth` deep, 1 or 2: the second level is what makes the choice of
`select_thread` stale. `MaxKeys`, 1 or 2, bounds the keys typed and not read.
`RunTick` is 0 or 1 instead of 20, so that every tick or every second one asks
for the scheduler. `UintMax` is 1000, so that a wrapped counter is told from a
true one. In `nested` the constraint `DriftBound` with `MaxDrift` 0 does not go on
from states whose counters have left their range, because they can drift for
ever; `OnePlace`, `NoLostWakeup` and `TokenPasses` are proved without it, so that
it is `WaitersCounted` alone that rests on it (and that is proved up to the first
counter that wraps). The two threads that compete are
alike, hence the symmetry. Three events
and two readers are enough for one event to overwrite another in the middle of a
read, of six bytes as in the code. Seven pages are a run of four, of two and of one at boot, so that cutting
and joining cross two orders; `CountMax` is 3, so that counts wrap. Three runs
of pages let a container be extended above and below itself while another one
exists, or twice. In `AddressSpace` an address is half a page, so that there are
unaligned ones, and the end of the space is odd, as `USER_VIRADR_END` is; they
count modulo 32, more than three times the space, so that in `areas` no sum of
the sizes 1 and 4 wraps, and in `areas_open` the size 30, which is two less than
nothing, does; three
areas are the two of the boot and one more or the right part of a cut; one
thread that faults is enough, as its handler shares nothing but the pages with
that of another. The six addresses of `PageTables` share a first, second or third
table with each other or none, and one has a second index whose entry in the
first table belongs to the loader, two one that belongs to another address;
with six pages for tables the addresses cannot all be mapped at once. Three
entries and three names of `RamFS` let a deleted entry lie before, between or
behind others; a block has two units, so that an offset can be inside, at the
end and beyond; with more blocks than entries, as in the code, the bitmap is
never full. The names of `files` have one length (names of two lengths are in
`files_names`), and differ by one and by more. Areas, pages, nodes, data and
threads are interchangeable, and the runs of `AddressSpace`, `PageTables` and
`RamFS` use that symmetry; the users of `startup` are alike too (none of these
runs has a liveness property).

In `boot` a page has 8 units and memory 24 pages, with the borders of areas, the
stack that is not aligned, the kernel and the image where the code has them
relative to each other. Its maps have a hole below the kernel, in the middle of
the kernel's area, across the border of the applications' area, an end inside a
page, and an end with the last page of the image, so that `mark_occupy` overruns;
all usable ranges begin with a page, the others are in `boot_partial`. The sizes
of files are such that the kernel ends inside a page, with a page, and is not
there, with and without a file behind it. In `startup` the clock shows two
readings, the last second of a year and the next one: all six registers change at
once, so each cut of the update gives another mixture. `MaxThreads` is 4, the
idle thread and the ring; a request for one more comes when a thread of the ring
could not be made, and those that fail come at any time. The sizes are those of
the code (`sizeof(devext_t)` is 64, a pointer 8, an object 32), and so are
`THREAD_PRIORITY_MAX` and the size of a stack.

**Fairness.** `FairSpec` of `Kernel` asks that the processor executes what is
on top of the stack (weak fairness of boot, scheduler and interrupt steps), that
the timer ticks (strong fairness of `TimerIrq`: interrupts are off again and
again, and the controller keeps the tick until they are on), and that a thread
gets some instructions done between two interrupts (strong fairness of its own
steps: the handlers take less than a period of the timer). Nothing is asked of
the keyboard. Liveness is checked in `ring` only, where interrupts do not nest.
Of `Keyboard` no liveness is claimed: whether a reader that could go on gets the
processor is a matter of `Kernel`, where a reader is in `sem_down` with interrupts
on and the counter of a ready queue may go wrong (`nested_count` shows it for nested
interrupts; with a reader one level is enough, as `QueueCount` checked under the
constants of `nested` with `MaxIrqDepth = 1` shows), so that `ring`, without readers,
says nothing of them. A system in which nobody types
stops there, so the keyboard runs do not look for deadlocks.
The runs of `AddressSpace`, `PageTables` and `RamFS` do not either: after a
pointer to freed memory has been followed or a buffer left there is no next
step, `error()` and a fault at address 0 stop a thread for good, and after
`mmu_clean` the lock is never free again. Nor do those of `Boot`, which ends, or
has no kernel to run, and of `Startup`, where `error()` and a null pointer end
all.

`TypeOK` is a property of the run `ring`, and in `Kernel` and `Keyboard` part of
what is proved; the other modules have one to be read, and to be added to a
configuration when a module is changed.

## 4. Proofs

For every value of the constants that the modules' assumptions allow:

| theorem | says |
|---|---|
| `KernelProofs!TypeCorrect` | `Spec => []TypeOK` |
| `KernelProofs!TokenUnique` | `Spec => []OneToken` |
| `KernelProofs!KernelImplementsRing` | `Spec => TokenPasses`: `Kernel` implements `TokenRing` |
| `KernelProofs!WakeupsKept` | `Spec => []NoLostWakeup` |
| `KernelProofs!ThreadsInOnePlace` | `Spec => []OnePlace` |
| `KernelProofs!QueuesConsistent` | `Spec => [](QueueCount /\ RunningIsCurrent)` if interrupts do not nest and there is no reader |
| `KernelProofs!WaitersCover` | `Spec /\ []NoneFull => []WaitersCounted`: until the counter of a wait list comes back to zero |
| `KernelProofs!WaitersExact` | `Spec => [](WaitersCounted /\ Exactly)` if interrupts do not nest and there is no reader |
| `KernelProofs!SelectProps` | `select_thread` loses no thread and keeps counters right |
| `KeyboardProofs!ReadsAreRecent` | `Spec => []WrittenBeforeRead` |
| `KeyboardProofs!TornInOrder` | `Spec => []BytesInOrder` |
| `PageAllocatorProofs!PagesStayApart` | `Spec => []FreeApart` |
| `PageAllocatorProofs!NoneIsLost` | `Spec => []ExactAccounted` |
| `PageAllocatorProofs!EndsAreKnown` | `Spec => []EndsKnown` |
| `PageAllocatorProofs!NobodysPages` | `Spec => OwnersApart`: `PageAllocator` implements `PageOwner` |
| `ObjectPoolProofs!PoolTyped` | `Spec => []TypeOK` |
| `ObjectPoolProofs!ContainersKeepApart` | `Spec => []RunsApart` |
| `ObjectPoolProofs!LiveIsKept` | `Spec => []LiveKept` |
| `ObjectPoolProofs!CacheIsFresh` | `Spec => []CacheFresh` |
| `ObjectPoolProofs!NoneIsIdle` | `Spec => []NothingIdle` |
| `VirtualMemoryProofs!SpaceTyped` | `NoneWraps => (Spec => []TypeOK)` |
| `VirtualMemoryProofs!AreasStayApart` | `NoneWraps => (Spec => []AreasApart)` |
| `VirtualMemoryProofs!MissesAreExplained` | `NoneWraps => (Spec => []MissesExplained)` |
| `VirtualMemoryProofs!FillsAreExplained` | `NoneWraps => (Spec => FillsExplained)` |
| `VirtualMemoryProofs!SpaceKeepsRanges` | `NoneWraps => (Spec => RangesKept)`: `AddressSpace` implements `AddressRanges` |
| `VirtualMemoryProofs!TablesAreTree` | `TablesSpec => []ListsMatchTree` |
| `VirtualMemoryProofs!PageTablesImplementMap` | `TablesSpec => MapKept`: `PageTables` implements `AddressMap` |
| `RamFSProofs!BlocksKept` | `Spec => []BlocksOwned` for a single caller |
| `RamFSProofs!RamFSImplementsFileStore` | `Spec => FilesKept`: `RamFS` implements `FileStore`, for a single caller |
| `RamFSProofs!FilesAreFound` | `Spec => []NamesKept` for a single caller and names of one length |
| `StartupProofs!TickHasThread` | `Spec => TicksFindThread`: a tick that finds no thread finds a kernel that has stopped at a null pointer |
| `StartupProofs!CopyCoherent` | `Spec => CopyWhole` |
| `StartupProofs!TimeForward` | `Spec => []NeverBehind` |
| `StartupProofs!CountsTrue` | `Spec => []CountTrue` for finitely many users who close what they have opened |
| `StartupProofs!StacksGivenBack` | `Spec => []StacksReturned` |
| `StartupProofs!TableIsSound` | `Spec => []TableSound` |
| `StartupProofs!DriversAreComplete` | `Spec => []DriversComplete`, which excepts the `keyboard_t` |
| `StartupProofs!LinesAreServed` | `Spec => []LinesServed` |
| `BootProofs!ImageIsWhole` | `Spec => []CopiesWhole` if kernel and font fit below the image |
| `BootProofs!ListsAreFree` | `Spec => []FreeIsFree` for the maps of `GoodMaps` |
| `BootProofs!ListsAreComplete` | `Spec => []EachOnce` for the maps of `GoodMaps` |

Each assumption beyond those of the constants is needed: `QueuesConsistent` has
`MaxIrqDepth <= 1` and `Reader = {}`, and `nested_count` violates it without;
`WaitersExact` has the same, and `WaitersCover`, without them, stops where a
counter that drifted upwards is about to wrap (`NoneFull`);
`NoneWraps` says that twice the space and a size, rounded up, are less than
`AddrMod`, as they are with 2^47 addresses and 64 bits unless a caller asks for
more than 2^63 bytes; `areas_open.cfg` shows what one that does can get;
the theorems of `RamFS` have one caller, and `files_race.cfg` shows what two do;
`RamFSImplementsFileStore` wants `None`, the value that marks a file that is not
there, not to be the contents of one; `CountsTrue` has `OwnOnly` and no
`dev_stop`, with which `startup_open.cfg` violates it. `ClockAssumption` says
that the clock goes forward, `RamFSAssumption` that there are more blocks than
entries, as in the code. `FilesFit` and `GoodMaps` are what the code counts on
without a check (see Boot below); every map and file of `boot.cfg` satisfies them,
and the maps of `boot_partial.cfg` do not.

### Kernel

*Types.* `TypeOK` is inductive with `BootOK`: while the kernel boots only the
idle thread is current and nobody has a frame, so the ghost of a thread that
never ran cannot move. *Token.* `OneToken` counts the semaphores with a unit and
the workers past `sem_down` as holders of one token; it is inductive with the
types, because each step that takes a unit from one holder gives it to another,
and no interrupt touches a worker's own frame. The refinement follows: the token
is the holder, `SemDownTakes` is `Take`, `SemUp` is `Put`, `BootDone` is
`Start`, all else stutters. *Wakeups.* A `sem_down` finds the count at zero and
is on the list in one step, and `sem_up` opens interrupts only when the list is
empty. *Places.* `OnePlace` needs to know that a thread which blocks may be on
a list already (it is when a stale choice woke it): `list_del` takes it off
whatever it is on, so the invariant is that ready lists, current threads and
wait lists are disjoint and cover the threads; it does not need the counters.
`select_thread` changes a queue only by rotation. *Counters.* `QueuesConsistent`
needs that the running thread is its queue's current one, which is true only if
nobody selects between another's selection and switch; with one frame that is
immediate. *Wait lists.* A thread that sleeps while a stale choice left it on a
list goes to the new list with `list_del`, so it leaves the old one and the
counter of that one stays: counters only get too great. Hence `WaitersCounted` is
inductive as long as none wraps. With one frame the thread that sleeps is the
current one of its queue, which `OnePlace` says is on no wait list, and the
counters are exact.

The first part of `KernelProofs` is about the operators: what `Enqueue`,
`Dequeue`, `Rotate` and `select_thread` do to the sets of queued threads, to
`Separate` and to `Counted`.

### Keyboard

The invariant `KInv` adds to the types that units and reads make up the events
(`count + taken = typed`), and that the three words of the buffer are of the last
event, so that a byte which is copied is at least as recent as any copied before
and as the ticket of the reader.

### Physical pages

`PInv` is about tiles: each free run of list `k` covers `Size[k]` pages from its
head, each run of a holder those of its order; tiles stay in the area and do not
overlap, and as long as `exact` they cover it (`Laid`). Cutting a run of order
`s` down to order `k` replaces its tile by one of each order from `k` to `s - 1`
and the one that is given out, which lie behind each other within it; so no two
overlap, and together they are the old tile. Merging takes the tile of a holder in
hand (`InHand`) and joins it, list by list, with a free one that an end says is
beside it (`GrownTo`). An end lies within its tile, so the joined run covers no
page of another one even when fewer pages come back than were taken; while they
all come back, ends are the last pages (`EndsRight`), the two tiles touch, and
none is lost; the counts of pages are then exact too (`Counted`), so that no run
is taken for shared. `PInv` was checked with TLC on the constants of `pages`
before it was proved.
`Size` and `Left` are recursive functions: the provers take `^` for an unknown
operator, and that a function which is defined by recursion has its values is
shown from the least number for which it would not (`WFMin`).

### Object allocator

`PInv`: a mount point has no container and nothing outside (`Idle`), or one
container and something outside (`Busy`). One is enough, because another one is
made only when none is found; `find_container_for_create` would serve from any.
The container and what is outside of it fit each other (`Fits`): free objects and
those outside are different, lie in its runs of pages, and add up to its total.
Hence an object that `mobj_delete` gives back goes to the container it is of, for
there is no other one that could be found for it, and the total is reached exactly
when it is the last one (`LastOne`); a delete that fails leaves the container with
an object outside for good. What one mount point does leaves the others alone
(`Elsewhere`), as it grows only by runs nobody has.

### Process virtual memory

`AInv` adds to the types that areas end before the end of the space (`Bounded`),
and three facts to `AreasApart`. `Ledger`: an address is with somebody exactly if
one of the valid areas contains it, where the right part that `kvm_delete` has yet
to link is valid though not on the list. `CutSound`: that part has its place
behind the left one, and keeps it because nobody changes the list while the lock
of the space is held. `Explained`: whoever is about to bring in a page has an
address of somebody, or is in `gone`; `kvm_delete` puts him there as it gives the
address back. Four lemmas about lists carry the steps: an area may change within
its room (`Resizes`), be put where it has a place (`Inserts`) or be taken out
(`Removes`), and nobody is in the room behind an area (`RoomFree`), which is why
what `kvm_new` gives out was nobody's and the refinement holds. With `NoneWraps`
the sums are sums, so that a comparison with the end of an area means what it
seems to. The cached area may be any object, a freed one included: `Pick` takes it
only if it is good.

### Page tables

`Tree(entries, pts)` is the invariant: entries of a table of one level point to
tables on the list of the next, every listed table hangs in an entry, and in no
second one. The whole proof is about three changes of such a tree. A new table,
empty, is hung where an entry was null (`Grows`): nothing is found through it. An
empty table that is on the list of its level is taken off the entry it hangs in
(`Shrinks`): nothing was found through it. An entry of a last table is written
(`Puts`): since a table hangs in one entry, only one address comes by there. The
indexes the way back goes by, wrong as one of them is, do not matter to
`RetreatKeeps`: what is taken off is empty and on its list whichever it is.

### RAM file system

`FInv`: a single caller's copy of the superblock is the superblock, and blocks
belong to one entry each. That `block_apply` does not return 0, which
`rfs_new_file` would take for a block, needs a count: as there are more blocks
than entries and one of the entries is empty, the blocks in use are fewer than
all (`FS_PigeonHole`). *Names.* `NInv` says that every entry, that of a deleted file
included, has zeros where a name has them (`Clean`), so that a new name covers
the old one and is the caller's own, and that of each name as many entries are
used as the callers made and did not delete. *Refinement.* `RInv` adds that the
block a caller holds has what the disk has, and maps a file to the contents of
its block.

### Boot

What is put into memory follows one another (`PlacedInv`): every thing ends where
`next_addr` is or before, as `Align` never goes back. The files are read from the
image while `next_addr` is still below it, and that needs the room between
`KERNEL_ADR` and `IMAGE_ADR` to hold the kernel and the font, each rounded up to
pages (`FilesFit`). Nothing in the code checks this; with the 32 MB between
0x2000000 and 0x4000000 it is a matter of packing. The logo and the tables may go
beyond `IMAGE_ADR`: nothing is read from the image after the logo.

`FreeIsFree` and `EachOnce` follow from `MapInv` and `ListInv`. *Map.* The sort
leaves the ranges what they were and in order, so the descriptors are the whole
usable pages, each once, in ascending order (`DescInv`). `mark_occupy` counts the
pages that begin in a region (`OccupiedIs`): it starts at the descriptor of the
region's first page and ascends. So at each step the count of a page is positive
where one of the regions marked so far covers it (`CountInv`, `MarkedAt`), and
after the four regions that is where something in use touches it
(`UntouchedIs`); `mark_area` gives every page one of the three areas (`AreaIs`,
`AreaInv`). *Lists.* `ListInv` says that each list is what its mount function
makes of the descriptors, once it was called. The runs cover the mountable
descriptors and have none in common (`RunHas`, `RunsMeet`). `mount_table` puts
what is made of a run before what it made of lower ones, so a list descends and
names no page twice (`MountFacts`). `split_continuous` puts the pages of a run
between the cuts `Cut(n, k + 1)` and `Cut(n, k)` on list k, where `Cut(n, k)` is
the length without its bits below k. These cuts fall from n to 0, so every page
is between two of them (`SplitReaches`: the least order whose upper cut is not
above it) and no page is between two pairs (`SplitOnce`). Counting what is on the
lists needs a bijection from the mountable descriptors to their pages.

`GoodMaps` asks of a map that there is memory where the machine boots (a whole
usable page at 0, and where stack, kernel and image begin), that usable ranges
begin with a page and do not overlap, and that they end before
`Size[MaxOrder + 1]` pages, which no address of the machine reaches. Without the
first `mark_occupy` finds no page to begin with and marks nothing; of a range that
begins inside a page `boot_partial` shows that its pages are not whole.

### Startup

*Ticks.* `Started`: without a current thread the interrupts are closed and no
update runs, unless the kernel has stopped at a null pointer. Every lock gives back
the flag it found, so nothing else in the boot opens them. *Copies.* `CopyInv`: only one of open interrupts, an update and a copy
is the case, a copy has the fields of `whole` as far as it is, and `systime` is
`whole` while no update runs. *Time.* `ReadInOrder`: the registers read so far
are not behind the clock at the start in the highest field that differs; a later
reading has a greater higher field or the same and a greater lower one, so
reading the lowest first is what makes the argument work (the mutant that reads
the year first fails). *Counts.* `CountInv` is `CountTrue` for sets of users that
are finite; a `Release` moves a user from those who have opened to those on their
way out, or does not touch the count. *Stacks.* `StackInv` adds types.

*Boot.* The drivers and their steps are written down in the code, so `BuildInv`
numbers the steps (`Stage`) and says for each what has been built before it:
`DevBuilt`, `ServBuilt`, `TableBuilt`, and `LinkBuilt`, by which the pointers of
the global list go around `Ring(Stage)`. A step that succeeds goes on to the next
number and builds what that one has more (`Proceeds`, `Passed`); a step that fails
changes nothing and ends the boot; after the boot only the counts change. That a
driver's own list is empty when its device is put on it, and that the global list
has no device of the class, is part of the invariant, so `Fail` for a device that
is there already never comes. `Circle` then says of any pointers what `TableSound`
asks of a walk: along a circle of nodes it comes back to its head and meets the
others before. `Walk` is a recursive function so that the provers can follow it.

Model-checked only: liveness (`TokenMoves`, `EveryWorkerRuns`), which is out of
the prover's reach.

## 5. Findings

Two places where the code does not do what its comments say are listed as runs:

1. `schedule.c:327`: a nested tick between selection and switch leaves the
   counter of a ready queue wrong (`nested_count`).
2. `drvrfs.c:51`: the storage of a `devext_t` has the size of a pointer
   (`startup_ext`).

The others have a configuration, with which TLC finds the property violated.
Where one has several properties, `tlc -continue` shows that each is.

| configuration | module | property | what it shows |
|---|---|---|---|
| `keys_once` | `Keyboard` | `EveryEventOnce` | `drvkeyboard.c:239`: an unread event is overwritten while the semaphore counts both |
| | | `WordsWhole` | `drvkeyboard.c:284`: a key between two bytes of the copy makes a word of two events |
| `pages_lost` | `PageAllocator` | `Accounted` | `mempool.c:125`: pages are given back in another number than they were taken in; some are never found again |
| `apps_lost` | `PageAllocator` | `AppsAccounted` | `kvmprocess.c:467`: a page of the applications' list is refused when it is given back |
| `pool_stuck` | `ObjectPool` | `DeletesSucceed` | `memobject.c:424`: an object in an extension above its container cannot be deleted |
| `areas_open` | `MCAddressSpace` | `AreasApart` | `kvmprocess.c:206`, `224`: a sum of start and size that wraps is within the space or the area, and areas end below their start or in another one |
| `faults_open` | `MCAddressSpace` | `CacheLive` | `kvmprocess.c:274`: the cached area is freed and stays cached |
| | | `SummaryRight` | `kvmprocess.c:177`: new areas are not counted, and the last one is not stored as the last |
| | | `BoxManages` | `kvmprocess.c:294`: after a cut the pages of the right part are in the box of the left one |
| | | `MissesUnowned` | `kvmprocess.c:302`: a page fault during a cut finds no area and stops the thread |
| | | `FillsOwned` | `kvmprocess.c:518`: a page is brought in for an address that was given back after the area was found |
| `faults_twice` | `MCAddressSpace` | `FillsMissing` | `kvmprocess.c:515`: of two faults on one page the second replaces the frame |
| `tables_open` | `MCPageTables` | `LastLevelFull` | `mmu.c:377`: tables of the last level are never given back |
| | | `SecondLevelFull` | `mmu.c:433`: the second table is looked up with the wrong index on the way back |
| | | `CleanReturnsAll` | `mmu.c:769`: `mmu_clean` gives nothing back and keeps the lock |
| `files_names` | `MCRamFS` | `NamesKept` | `drvrfs.c:244`: a name in place of a longer one keeps its end, and the file is not found |
| `files_open` | `MCRamFS` | `NamesDistinct` | `drvrfs.c:230`: a second file of the same name is made, and one whose name is one less is refused |
| | | `InsideBlock` | `drvrfs.c:355`, `392`: the offset leaves the buffer |
| | | `NodesLive` | `drvrfs.c:279`: a file is deleted while it is open |
| | | `OffsetsEarned` | `drvrfs.c:349`, `386`: without memory for a buffer nothing is copied, the offset moves on, and the reply is that all went well |
| `files_race` | `MCRamFS` | `NamesKept` | `drvrfs.c:303`: of two calls that overlap one is undone |
| `files_start` | `MCRamFS` | `NewAtStart` | `drvrfs.c:245`: a new file begins at the offset of the deleted one |
| `boot_partial` | `MCBoot` | `NoPartialPage` | `mempage.c:76`: of a range that does not begin with a page the first page is not whole |
| `startup_open` | `MCStartup` | `KeyboardReady` | `drvkeyboard.c:396`: without a `keyboard_t` the boot goes on, and `keyboard_read` goes down on a semaphore of the null pointer |
| | | `NoTickDies` | `drvrfs.c:54`, `149`, `562`: a write through a null pointer; its page fault opens the interrupts (`interrupt.c:129`), and the tick finds no thread |
| | | `NobodySpins` | `systime.c:98`: a page fault on the caller's pointer opens the interrupts with the lock held, and the tick waits for it for ever |
| | | `CountTrue` | `drvkeyboard.c:305`: `keyboard_dev_stop` decrements a count that `dev_start` has not incremented |
| | | `NothingLost` | `thread.c:252`: the kernel stack is given back with the size 0, which is refused |
| | | `StacksFull` | `thread.c:309`: the size that was asked for is passed on, not the default that was computed |
| | | `PrioritiesInRange` | `thread.c:295`: `THREAD_PRIORITY_MAX` is let through, one past the array of queues |
| | | `RingComplete` | `idle.c:134`: that a thread of the ring could not be made goes unnoticed |
| | | `DriverListsSound` | `device.c:335`: the hook is linked on a second list, and the list of the driver has no end any more |

Three more have no caller and no model: `device_io` refuses exactly the nodes of
devices (`device.c:407`); `get_intFault` and `hal_enable_intline` let one number
too many through; masking a line of the second 8259A masks line 2, and with it
the others of that chip.

## 6. Not modelled, and what could come next

Not modelled: the console, descriptor tables and libraries (pure output, written
once, or data); the checks of the processor, the first page tables and the VESA
mode in the loader (set once); `devid_allocate`, `device_io` and object nodes,
which nothing calls; the key map; the cache of translations; more than one
processor (the kernel starts none and `hal_retn_cpuid` is 0). Spinlocks appear
as what they do to the interrupt flag, and as guards where they do not close it.

What could come next: the composition of `Boot` and `PageAllocator`, so that the
lists the boot leaves are those the allocator begins with, and the proof that
these are well formed in its sense.
