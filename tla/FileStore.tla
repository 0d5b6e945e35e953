----------------------------- MODULE FileStore -----------------------------
(***************************************************************************)
(* What driver/drvrfs.c promises of the contents of files: a call makes,   *)
(* removes or writes one file and leaves all others as they are.           *)
(***************************************************************************)
EXTENDS Naturals

CONSTANTS
  File,       \* the files there may be
  BlockSize,  \* the length of a file
  Data,       \* what may be written
  NoFile      \* in place of the contents of a file that does not exist

VARIABLE contents

Contents == [0 .. BlockSize - 1 -> Data]

Init == contents = [f \in File |-> NoFile]

\* A new file keeps what its block has.
New(f) ==
  /\ contents[f] = NoFile
  /\ \E c \in Contents : contents' = [contents EXCEPT ![f] = c]

Delete(f) ==
  /\ contents[f] # NoFile
  /\ contents' = [contents EXCEPT ![f] = NoFile]

\* One value from one offset up to another.
Write(f) ==
  /\ contents[f] # NoFile
  /\ \E from, to \in 0 .. BlockSize, d \in Data :
       contents' = [contents EXCEPT ![f] =
         [i \in 0 .. BlockSize - 1 |-> IF from <= i /\ i < to THEN d ELSE contents[f][i]]]

Next == \E f \in File : New(f) \/ Delete(f) \/ Write(f)

Spec == Init /\ [][Next]_contents
=============================================================================
