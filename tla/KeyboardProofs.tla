--------------------------- MODULE KeyboardProofs ---------------------------
(***************************************************************************)
(* For every number of readers, bytes and events: what a read returns is   *)
(* not older than the event it was woken for, and not out of order.        *)
(*                                                                         *)
(* The argument: the handler writes all three words before it raises the   *)
(* semaphore, so every word of the buffer is the last event, and the       *)
(* events are those still counted and those taken by reads.  Hence a read  *)
(* that took the k-th unit finds at least the k-th event in the buffer.    *)
(***************************************************************************)
EXTENDS Keyboard, SequenceTheorems, TLAPS

\* The words of the buffer are the last event, and the semaphore counts what
\* has not been taken.
Counted ==
  /\ \A i \in 0 .. 2 : buf[i] = typed
  /\ typed = count + taken
  /\ \A r \in Reader : ticket[r] <= taken

\* What a reader has copied lies between the event it was woken for and the last.
Recent ==
  \A r \in Reader :
    /\ phase[r] = "down" => copy[r] = <<>>
    /\ \A i \in 1 .. Len(copy[r]) : ticket[r] <= copy[r][i] /\ copy[r][i] <= typed

Ordered ==
  \A r \in Reader : \A i, j \in 1 .. Len(copy[r]) : i < j => copy[r][i] <= copy[r][j]

KInv == TypeOK /\ Counted /\ Recent /\ Ordered

LEMMA InitKInv == Init => KInv
  <1> SUFFICES ASSUME Init PROVE KInv
    OBVIOUS
  <1> USE KeyboardAssumption
  <1>1. \A r \in Reader : copy[r] = <<>> /\ Len(copy[r]) = 0
    BY DEF Init
  <1>2. TypeOK
    BY <1>1 DEF Init, TypeOK
  <1>3. Counted
    BY DEF Init, Counted
  <1>4. Recent /\ Ordered
    BY <1>1 DEF Recent, Ordered
  <1> QED BY <1>2, <1>3, <1>4 DEF KInv

LEMMA HandleKeeps ==
  ASSUME KInv, Handle
  PROVE  KInv'
  <1> USE KeyboardAssumption
  <1>1. typed \in 0 .. MaxTyped /\ typed' = typed + 1 /\ typed' \in 0 .. MaxTyped
    BY DEF KInv, TypeOK, Handle
  <1>2. buf' = [i \in 0 .. 2 |-> typed']
    BY DEF Handle, WriteScan
  <1>3. count' \in 0 .. MaxTyped
    BY <1>1 DEF KInv, TypeOK, Counted, Handle
  <1>4. TypeOK'
    BY <1>1, <1>2, <1>3 DEF KInv, TypeOK, Handle
  <1>5. Counted'
    BY <1>1, <1>2 DEF KInv, TypeOK, Counted, Handle
  <1>6. Recent'
    <2> SUFFICES ASSUME NEW r \in Reader
                 PROVE  /\ phase[r] = "down" => copy[r] = <<>>
                        /\ \A i \in 1 .. Len(copy[r]) :
                             ticket[r] <= copy[r][i] /\ copy[r][i] <= typed'
      BY DEF Recent, Handle
    <2>1. copy[r] \in Seq(0 .. MaxTyped)
      BY DEF KInv, TypeOK
    <2>2. \A i \in 1 .. Len(copy[r]) : copy[r][i] \in 0 .. MaxTyped
      BY <2>1
    <2> QED BY <1>1, <2>2 DEF KInv, Recent
  <1>7. Ordered'
    BY DEF KInv, Ordered, Handle
  <1> QED BY <1>4, <1>5, <1>6, <1>7 DEF KInv

LEMMA DownKeeps ==
  ASSUME KInv, NEW r \in Reader, Down(r)
  PROVE  KInv'
  <1> USE KeyboardAssumption
  <1>1. /\ typed \in 0 .. MaxTyped /\ count \in 0 .. MaxTyped
        /\ taken \in 0 .. MaxTyped /\ typed = count + taken /\ count >= 1
    BY DEF KInv, TypeOK, Counted, Down
  <1>2. count' = count - 1 /\ taken' = taken + 1 /\ taken' <= typed
    BY <1>1 DEF Down
  <1>3. count' \in 0 .. MaxTyped /\ taken' \in 0 .. MaxTyped
    BY <1>1, <1>2
  <1>4. TypeOK'
    BY <1>3 DEF KInv, TypeOK, Down
  <1>5. Counted'
    <2>1. typed' = typed /\ buf' = buf
      BY DEF Down
    <2>2. \A s \in Reader : ticket[s] \in 0 .. MaxTyped /\ ticket[s] <= taken
      BY DEF KInv, TypeOK, Counted
    <2>3. \A s \in Reader : ticket'[s] = IF s = r THEN taken' ELSE ticket[s]
      BY DEF Down, KInv, TypeOK
    <2>4. \A s \in Reader : ticket'[s] <= taken'
      BY <1>1, <1>2, <2>2, <2>3
    <2> QED BY <1>1, <1>2, <2>1, <2>4 DEF KInv, Counted
  <1>6. copy[r] = <<>> /\ Len(copy[r]) = 0
    BY DEF KInv, Recent, Down
  <1>7. Recent'
    <2> SUFFICES ASSUME NEW s \in Reader
                 PROVE  /\ phase'[s] = "down" => copy[s] = <<>>
                        /\ \A i \in 1 .. Len(copy[s]) :
                             ticket'[s] <= copy[s][i] /\ copy[s][i] <= typed
      BY DEF Recent, Down
    <2>1. CASE s = r
      BY <2>1, <1>6
    <2>2. CASE s # r
      <3>1. phase'[s] = phase[s] /\ ticket'[s] = ticket[s]
        BY <2>2 DEF Down, KInv, TypeOK
      <3> QED BY <3>1 DEF KInv, Recent
    <2> QED BY <2>1, <2>2
  <1>8. Ordered'
    BY DEF KInv, Ordered, Down
  <1> QED BY <1>4, <1>5, <1>7, <1>8 DEF KInv

LEMMA CopyKeeps ==
  ASSUME KInv, NEW r \in Reader, Copy(r)
  PROVE  KInv'
  <1> USE KeyboardAssumption
  <1> DEFINE n == Len(copy[r])
  <1>1. copy[r] \in Seq(0 .. MaxTyped) /\ n \in Nat /\ n < Bytes /\ n \div 2 \in 0 .. 2
    <2>1. copy[r] \in Seq(0 .. MaxTyped)
      BY DEF KInv, TypeOK
    <2>2. n \in Nat
      BY <2>1
    <2>3. n < Bytes
      BY DEF Copy
    <2>4. \A k \in Nat : k < Bytes => k \div 2 \in 0 .. 2
      BY KeyboardAssumption
    <2> QED BY <2>1, <2>2, <2>3, <2>4
  <1>2. buf[n \div 2] = typed /\ typed \in 0 .. MaxTyped
    BY <1>1 DEF KInv, Counted, TypeOK
  <1>3. copy'[r] = Append(copy[r], typed)
    BY <1>2 DEF Copy, KInv, TypeOK
  <1>4. \A s \in Reader \ {r} : copy'[s] = copy[s]
    BY DEF Copy, KInv, TypeOK
  <1>5. /\ copy'[r] \in Seq(0 .. MaxTyped) /\ Len(copy'[r]) = n + 1
        /\ \A i \in 1 .. n : copy'[r][i] = copy[r][i]
        /\ copy'[r][n + 1] = typed
    BY <1>1, <1>2, <1>3
  <1>6. TypeOK'
    <2>1. copy' = [copy EXCEPT ![r] = Append(copy[r], typed)]
      BY <1>2 DEF Copy
    <2>2. copy' \in [Reader -> Seq(0 .. MaxTyped)]
      BY <2>1, <1>3, <1>5 DEF KInv, TypeOK
    <2>3. ASSUME NEW s \in Reader PROVE Len(copy'[s]) <= Bytes
      <3>1. CASE s = r
        BY <3>1, <1>1, <1>5
      <3>2. CASE s # r
        BY <3>2, <1>4 DEF KInv, TypeOK
      <3> QED BY <3>1, <3>2
    <2> QED BY <2>2, <2>3 DEF KInv, TypeOK, Copy
  <1>7. Counted'
    BY DEF KInv, Counted, Copy
  <1>8. /\ ticket[r] \in 0 .. MaxTyped /\ ticket[r] <= typed
        /\ \A i \in 1 .. n : /\ copy[r][i] \in 0 .. MaxTyped
                             /\ ticket[r] <= copy[r][i] /\ copy[r][i] <= typed
    <2>1. ticket[r] \in 0 .. MaxTyped /\ ticket[r] <= taken
          /\ taken \in 0 .. MaxTyped /\ count \in 0 .. MaxTyped /\ typed = count + taken
      BY DEF KInv, Counted, TypeOK
    <2>2. \A i \in 1 .. n : copy[r][i] \in 0 .. MaxTyped
      BY <1>1
    <2>3. \A i \in 1 .. n : ticket[r] <= copy[r][i] /\ copy[r][i] <= typed
      BY DEF KInv, Recent
    <2> QED BY <2>1, <2>2, <2>3
  <1>9. Recent'
    <2> SUFFICES ASSUME NEW s \in Reader
                 PROVE  /\ phase[s] = "down" => copy'[s] = <<>>
                        /\ \A i \in 1 .. Len(copy'[s]) :
                             ticket[s] <= copy'[s][i] /\ copy'[s][i] <= typed
      BY DEF Recent, Copy
    <2>1. CASE s # r
      BY <2>1, <1>4 DEF KInv, Recent
    <2>2. CASE s = r
      <3>1. phase[s] = "copy"
        BY <2>2 DEF Copy
      <3>2. ASSUME NEW i \in 1 .. Len(copy'[r])
            PROVE  ticket[r] <= copy'[r][i] /\ copy'[r][i] <= typed
        <4>1. i \in 1 .. n \/ i = n + 1
          BY <1>1, <1>5
        <4>2. CASE i \in 1 .. n
          BY <4>2, <1>5, <1>8
        <4>3. CASE i = n + 1
          <5>1. copy'[r][i] = typed /\ typed \in Nat
            BY <4>3, <1>2, <1>5
          <5> QED BY <5>1, <1>8
        <4> QED BY <4>1, <4>2, <4>3
      <3> QED BY <2>2, <3>1, <3>2
    <2> QED BY <2>1, <2>2
  <1>10. Ordered'
    <2> SUFFICES ASSUME NEW s \in Reader, NEW i \in 1 .. Len(copy'[s]),
                        NEW j \in 1 .. Len(copy'[s]), i < j
                 PROVE  copy'[s][i] <= copy'[s][j]
      BY DEF Ordered
    <2>1. CASE s # r
      BY <2>1, <1>4 DEF KInv, Ordered
    <2>2. CASE s = r
      <3>1. i \in 1 .. n /\ (j \in 1 .. n \/ j = n + 1)
        <4>1. n \in Nat /\ Len(copy'[s]) = n + 1
          BY <2>2, <1>1, <1>5
        <4> QED BY <4>1
      <3>2. CASE j \in 1 .. n
        BY <2>2, <3>1, <3>2, <1>5 DEF KInv, Ordered
      <3>3. CASE j = n + 1
        BY <2>2, <3>1, <3>3, <1>5, <1>8
      <3> QED BY <3>1, <3>2, <3>3
    <2> QED BY <2>1, <2>2
  <1> QED BY <1>6, <1>7, <1>9, <1>10 DEF KInv

LEMMA ReturnKeeps ==
  ASSUME KInv, NEW r \in Reader, Return(r)
  PROVE  KInv'
  <1> USE KeyboardAssumption
  <1>1. copy'[r] = <<>> /\ Len(copy'[r]) = 0
    BY DEF Return, KInv, TypeOK
  <1>2. \A s \in Reader \ {r} : copy'[s] = copy[s] /\ phase'[s] = phase[s]
    BY DEF Return, KInv, TypeOK
  <1>3. TypeOK'
    <2>1. copy[r] \in Seq(0 .. MaxTyped)
      BY DEF KInv, TypeOK
    <2>2. got' \in Seq(Seq(0 .. MaxTyped))
      BY <2>1 DEF Return, KInv, TypeOK
    <2>3. copy' \in [Reader -> Seq(0 .. MaxTyped)]
      BY DEF Return, KInv, TypeOK
    <2>4. ASSUME NEW s \in Reader PROVE Len(copy'[s]) <= Bytes
      <3>1. CASE s = r
        BY <3>1, <1>1
      <3>2. CASE s # r
        BY <3>2, <1>2 DEF KInv, TypeOK
      <3> QED BY <3>1, <3>2
    <2> QED BY <2>2, <2>3, <2>4 DEF KInv, TypeOK, Return
  <1>4. Counted'
    BY DEF KInv, Counted, Return
  <1>5. Recent'
    <2> SUFFICES ASSUME NEW s \in Reader
                 PROVE  /\ phase'[s] = "down" => copy'[s] = <<>>
                        /\ \A i \in 1 .. Len(copy'[s]) :
                             ticket[s] <= copy'[s][i] /\ copy'[s][i] <= typed
      BY DEF Recent, Return
    <2>1. CASE s = r
      BY <2>1, <1>1
    <2>2. CASE s # r
      BY <2>2, <1>2 DEF KInv, Recent
    <2> QED BY <2>1, <2>2
  <1>6. Ordered'
    <2> SUFFICES ASSUME NEW s \in Reader, NEW i \in 1 .. Len(copy'[s]),
                        NEW j \in 1 .. Len(copy'[s]), i < j
                 PROVE  copy'[s][i] <= copy'[s][j]
      BY DEF Ordered
    <2>1. s # r
      BY <1>1
    <2> QED BY <2>1, <1>2 DEF KInv, Ordered
  <1> QED BY <1>3, <1>4, <1>5, <1>6 DEF KInv

LEMMA KInvInvariant == Spec => []KInv
  <1>1. Init => KInv
    BY InitKInv
  <1>2. KInv /\ [Next]_vars => KInv'
    <2> SUFFICES ASSUME KInv, [Next]_vars PROVE KInv'
      OBVIOUS
    <2>1. CASE UNCHANGED vars
      BY <2>1 DEF vars, KInv, TypeOK, Counted, Recent, Ordered
    <2>2. CASE Handle
      BY <2>2, HandleKeeps
    <2>3. ASSUME NEW r \in Reader, Down(r) \/ Copy(r) \/ Return(r) PROVE KInv'
      BY <2>3, DownKeeps, CopyKeeps, ReturnKeeps
    <2> QED BY <2>1, <2>2, <2>3 DEF Next
  <1> QED BY <1>1, <1>2, PTL DEF Spec

\* However many readers there are, the k-th read sees no byte older than the
\* k-th event: keyboard_handle writes the buffer before krlsem_up
\* (drvkeyboard.c:239, 245), and sem_down takes one unit for each read.
THEOREM ReadsAreRecent == Spec => []WrittenBeforeRead
  <1>1. KInv => WrittenBeforeRead
    <2> SUFFICES ASSUME KInv, NEW r \in Reader, NEW i \in DOMAIN copy[r]
                 PROVE  copy[r][i] >= ticket[r]
      BY DEF WrittenBeforeRead
    <2>1. copy[r] \in Seq(0 .. MaxTyped)
      BY DEF KInv, TypeOK
    <2>2. i \in 1 .. Len(copy[r])
      BY <2>1
    <2>3. copy[r][i] \in 0 .. MaxTyped
      BY <2>1, <2>2, ElementOfSeq
    <2>4. ticket[r] \in 0 .. MaxTyped /\ ticket[r] <= copy[r][i]
      BY <2>2 DEF KInv, TypeOK, Recent
    <2> QED BY <2>3, <2>4, KeyboardAssumption
  <1> QED BY <1>1, KInvInvariant, PTL

\* A read that keys come into the middle of, between two bytes of a word even, is
\* torn in one way only: later bytes are of later events (memcpy takes bytes, with
\* interrupts on, drvkeyboard.c:284).
THEOREM TornInOrder == Spec => []BytesInOrder
  <1>1. KInv => BytesInOrder
    <2> SUFFICES ASSUME KInv, NEW r \in Reader, NEW i \in DOMAIN copy[r],
                        NEW j \in DOMAIN copy[r], i < j
                 PROVE  copy[r][i] <= copy[r][j]
      BY DEF BytesInOrder
    <2>1. copy[r] \in Seq(0 .. MaxTyped)
      BY DEF KInv, TypeOK
    <2>2. i \in 1 .. Len(copy[r]) /\ j \in 1 .. Len(copy[r])
      BY <2>1
    <2> QED BY <2>2 DEF KInv, Ordered
  <1> QED BY <1>1, KInvInvariant, PTL
=============================================================================
