------------------------------ MODULE MCStartup ------------------------------
(***************************************************************************)
(* The start of the kernel around the turn of a year, with two users of    *)
(* the devices, readers of the time and a few requests for threads.       *)
(***************************************************************************)
EXTENDS Startup

\* 0x23 is 2023 in binary coded decimals.
Reading(year, month, day, hour, minute, second) ==
  [year |-> year, month |-> month, day |-> day, hour |-> hour, minute |-> minute,
   second |-> second]

\* 0x23 = 35, 0x12 = 18, 0x31 = 49, 0x59 = 89.
TurnOfYear ==
  <<Reading(35, 18, 49, 35, 89, 89),
    Reading(36, 1, 1, 0, 0, 0)>>

Request(kind, priority, size) ==
  [kind |-> kind, privilege |-> "sys", priority |-> priority, usz |-> size, ksz |-> size]

\* 0x8000 is the default size of a stack; 64 is a size krlnew_thread accepts.
KernelAndUser == {Request("krnl", 2, 32768), Request("user", 2, 32768)}
AllRequests == KernelAndUser \cup {Request("user", 2, 64), Request("krnl", 64, 32768)}

\* The users of the devices are alike, and so are the readers of the time.
Users == Permutations(User) \cup Permutations(Reader)
=============================================================================
