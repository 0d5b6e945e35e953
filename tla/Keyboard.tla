------------------------------ MODULE Keyboard ------------------------------
(***************************************************************************)
(* The buffer of the keyboard of driver/drvkeyboard.c: keyboard_handle     *)
(* writes the three words of an event and raises the semaphore,            *)
(* keyboard_read goes down on it and copies them byte by byte (memcpy of   *)
(* _string.h) with interrupts on.                                          *)
(*                                                                         *)
(* Events are numbered in the order they are typed; a word, and each byte  *)
(* copied from it, is the number of the event that wrote it: which key it  *)
(* was, pressed or released, makes no difference.  How a thread sleeps in  *)
(* sem_down is in Kernel; here it cannot go on while the count is zero.    *)
(***************************************************************************)
EXTENDS Integers, Sequences, FiniteSets, SequencesExt

CONSTANTS
  Reader,   \* threads that call keyboard_read
  Bytes,    \* sz of keyboard_read: 6, or fewer for a short buffer
  MaxTyped  \* bound: events typed

ASSUME KeyboardAssumption ==
  Bytes \in 0 .. 6 /\ MaxTyped \in Nat

VARIABLES
  typed,  \* events so far
  count,  \* keyboard->sem.count
  buf,    \* keyboard->buf[0..2], words of two bytes
  copy,   \* the bytes a reader has copied so far
  phase,  \* where a reader is
  taken,  \* how many times sem_down has returned, to anybody
  ticket, \* which of these times a reader's last one was
  got     \* the copies that were returned, to anybody

vars == <<typed, count, buf, copy, phase, taken, ticket, got>>

TypeOK ==
  /\ typed \in 0 .. MaxTyped
  /\ count \in 0 .. MaxTyped
  /\ buf \in [0 .. 2 -> 0 .. MaxTyped]
  /\ copy \in [Reader -> Seq(0 .. MaxTyped)]
  /\ phase \in [Reader -> {"down", "copy"}]
  /\ taken \in 0 .. MaxTyped
  /\ ticket \in [Reader -> 0 .. MaxTyped]
  /\ got \in Seq(Seq(0 .. MaxTyped))
  /\ \A r \in Reader : Len(copy[r]) <= Bytes

Init ==
  /\ typed = 0 /\ count = 0 /\ taken = 0
  /\ buf = [i \in 0 .. 2 |-> 0]
  /\ copy = [r \in Reader |-> <<>>]
  /\ phase = [r \in Reader |-> "down"]
  /\ ticket = [r \in Reader |-> 0]
  /\ got = <<>>

\* kbd_write_scan: a press writes buf[0], clears buf[1] and maps into buf[2], a
\* release clears buf[0] and writes the others.
WriteScan(n) == [i \in 0 .. 2 |-> n]

\* A bug keyboard_handle could have: the semaphore is raised before the buffer is
\* written.
HandleUpFirst ==
  /\ typed < MaxTyped
  /\ IF count + taken > typed
     THEN typed' = typed + 1 /\ buf' = WriteScan(typed') /\ UNCHANGED count
     ELSE count' = count + 1 /\ UNCHANGED <<typed, buf>>
  /\ UNCHANGED <<copy, phase, taken, ticket, got>>

\* keyboard_handle.
Handle ==
  /\ typed < MaxTyped
  /\ typed' = typed + 1
  /\ buf' = WriteScan(typed')
  /\ count' = count + 1
  /\ UNCHANGED <<copy, phase, taken, ticket, got>>

\* keyboard_read: sem_down, then memcpy.
Down(r) ==
  /\ phase[r] = "down" /\ count >= 1
  /\ count' = count - 1
  /\ taken' = taken + 1
  /\ ticket' = [ticket EXCEPT ![r] = taken']
  /\ phase' = [phase EXCEPT ![r] = "copy"]
  /\ UNCHANGED <<typed, buf, copy, got>>

\* A bug memcpy could have: the last byte is copied first.
CopyBackwards(r) ==
  /\ phase[r] = "copy" /\ Len(copy[r]) < Bytes
  /\ copy' = [copy EXCEPT ![r] = <<buf[(Bytes - 1 - Len(@)) \div 2]>> \o @]
  /\ UNCHANGED <<typed, count, buf, phase, taken, ticket, got>>

\* The next byte: two of them make a word.
Copy(r) ==
  /\ phase[r] = "copy" /\ Len(copy[r]) < Bytes
  /\ copy' = [copy EXCEPT ![r] = Append(@, buf[Len(@) \div 2])]
  /\ UNCHANGED <<typed, count, buf, phase, taken, ticket, got>>

Return(r) ==
  /\ phase[r] = "copy" /\ Len(copy[r]) = Bytes
  /\ got' = Append(got, copy[r])
  /\ copy' = [copy EXCEPT ![r] = <<>>]
  /\ phase' = [phase EXCEPT ![r] = "down"]
  /\ UNCHANGED <<typed, count, buf, taken, ticket>>

Next == Handle \/ \E r \in Reader : Down(r) \/ Copy(r) \/ Return(r)

Spec == Init /\ [][Next]_vars
-----------------------------------------------------------------------------
(***************************************************************************)
(* Properties.                                                             *)
(***************************************************************************)

\* The k-th read sees no byte older than the k-th event: the semaphore lets a
\* read begin only after the event it is for has been written
\* (drvkeyboard.c:197).
WrittenBeforeRead ==
  \A r \in Reader :
    phase[r] = "copy" => \A i \in DOMAIN copy[r] : copy[r][i] >= ticket[r]

\* The bytes of one read, even the two of one word, may be of several events, as
\* a key comes in between, but then a later byte is of a later event
\* (drvkeyboard.c:284).
BytesInOrder ==
  \A r \in Reader : \A i, j \in DOMAIN copy[r] : i < j => copy[r][i] <= copy[r][j]

\* The two bytes of a word are of one event: buf is an array of u16_t
\* (drvkeyboard_t.h:28).
WordsWhole ==
  \A r \in Reader : \A i, j \in DOMAIN copy[r] :
    (i - 1) \div 2 = (j - 1) \div 2 => copy[r][i] = copy[r][j]

\* All events that were typed are read, each of them once: a producer and a
\* consumer (drvkeyboard.c:198).
EveryEventOnce == IsInjective(got)
=============================================================================
