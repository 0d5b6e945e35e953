-------------------------- MODULE VirtualMemoryProofs --------------------------
(***************************************************************************)
(* Proofs about virtual memory: the areas of an address space and the      *)
(* faults in it, then the page tables.                                     *)
(***************************************************************************)
EXTENDS AddressSpace, PageTables, SequenceTheorems, FiniteSetTheorems,
        WellFoundedInduction, TLAPS

-----------------------------------------------------------------------------
(***************************************************************************)
(* For every space, all starts, all sizes that do not wrap and any number  *)
(* of threads that fault: areas stay apart, and they cover what the        *)
(* callers of kvm_new and kvm_delete were told, but for the right part of  *)
(* an area that is being cut.                                              *)
(*                                                                         *)
(* The argument: an area grows, or is put, into the room behind another    *)
(* one, where nobody is; it shrinks, goes or is cut where it was alone.    *)
(* The right part that is not on the list yet keeps its place there,       *)
(* because the lock of the space is held, and a page fault moves nothing.  *)
(***************************************************************************)
Rec == [start : Nat, end : Nat, limits : Limits]

Proper(x) == Page <= x.start /\ x.start < x.end /\ x.end <= SpaceEnd

Within(x, v) == x.start <= v /\ v < x.end

\* AreasApart of any list.
Ordered(s, r) ==
  /\ \A i \in DOMAIN s : Proper(r[s[i]])
  /\ \A i, j \in DOMAIN s : i < j => r[s[i]].end <= r[s[j]].start

\* An area x would stand between s[k] and the next one.
Between(s, r, k, x) ==
  /\ r[s[k]].end <= x.start
  /\ \A j \in DOMAIN s : k < j => x.end <= r[s[j]].start

\* The right part has its place behind the left one.
CutSound ==
  split # NoSplit =>
    /\ split.new \in Area \ Live /\ Proper(rec[split.new])
    /\ \E k \in DOMAIN areas :
         split.left = areas[k] /\ Between(areas, rec, k, rec[split.new])

Covered(V, r, v) == \E a \in V : Within(r[a], v)

\* What the areas V cover is what is with somebody.
Ledger(o, V, r) ==
  /\ o \in [Address -> {0, 1}]
  /\ \A v \in Address : o[v] = 1 <=> Covered(V, r, v)

\* While nothing wraps, no area reaches behind the end of the space.
Bounded == rec \in [Area -> [start : 0 .. SpaceEnd, end : 0 .. SpaceEnd, limits : Limits]]

\* Whoever is about to bring in a page has an address of somebody, or is known
\* to have lost it.
Explained == \A t \in Faulter : fault[t].pc = "found" => fault[t].adr \in Owned \/ t \in gone

Sound == Ordered(areas, rec) /\ CutSound /\ Ledger(owned, Valid, rec)

AInv == TypeOK /\ Bounded /\ Explained /\ Sound

\* A sum below AddrMod is the sum.
LEMMA PlusPlain ==
  ASSUME NEW x \in Nat, NEW y \in Nat, x + y < AddrMod
  PROVE  Plus(x, y) = x + y
  BY SpaceAssumption DEF Plus

LEMMA Sizing ==
  ASSUME NoneWraps, NEW size \in Sizes
  PROVE  /\ Align(size) \in Nat /\ Align(size) > 0
         /\ 2 * SpaceEnd + Align(size) < AddrMod
  <1>1. /\ size \in Nat /\ size > 0 /\ SpaceEnd \in Nat /\ AddrMod \in Nat
        /\ 2 * SpaceEnd + size + 2 <= AddrMod
    BY SpaceAssumption DEF NoneWraps, Page
  <1>2. Plus(size, 1) = size + 1
    BY <1>1, PlusPlain
  <1>3. Align(size) = ((size + 1) \div 2) * 2
    BY <1>2 DEF Align, Page
  <1> QED BY <1>1, <1>3

\* The sums of kvm_new and kvm_delete.
LEMMA Sums ==
  ASSUME NoneWraps, NEW size \in Sizes, NEW x \in 0 .. SpaceEnd, NEW y \in 0 .. SpaceEnd
  PROVE  /\ Plus(x, Align(size)) = x + Align(size)
         /\ Plus(x, Plus(y, Align(size))) = x + (y + Align(size))
  <1>1. PICK n : n = Align(size)
    OBVIOUS
  <1>2. /\ n \in Nat /\ x \in Nat /\ y \in Nat /\ x + (y + n) < AddrMod
        /\ x + n < AddrMod /\ y + n < AddrMod /\ AddrMod \in Nat
    BY <1>1, Sizing, SpaceAssumption
  <1>3. Plus(x, n) = x + n /\ Plus(y, n) = y + n
    BY <1>2, PlusPlain
  <1>4. PICK z : z = y + n
    OBVIOUS
  <1>5. z \in Nat /\ Plus(x, z) = x + z
    BY <1>2, <1>4, PlusPlain
  <1> QED BY <1>1, <1>3, <1>4, <1>5

\* The bounds of areas are within the type.
LEMMA Widens ==
  ASSUME NEW r \in [Area -> [start : 0 .. SpaceEnd, end : 0 .. SpaceEnd, limits : Limits]]
  PROVE  r \in [Area -> [start : Word, end : Word, limits : Limits]]
  <1>1. 0 .. SpaceEnd \subseteq Word
    BY SpaceAssumption DEF Word, Page
  <1> QED BY <1>1
-----------------------------------------------------------------------------
(***************************************************************************)
(* Lists of areas.                                                         *)
(***************************************************************************)

LEMMA MembersOf ==
  ASSUME NEW s \in Seq(Area)
  PROVE  /\ DOMAIN s = 1 .. Len(s) /\ Len(s) \in Nat
         /\ \A i \in DOMAIN s : s[i] \in Area
         /\ \A a : a \in ToSet(s) <=> \E i \in DOMAIN s : s[i] = a
         /\ ToSet(s) \subseteq Area
  <1>1. DOMAIN s = 1 .. Len(s) /\ Len(s) \in Nat /\ s \in [1 .. Len(s) -> Area]
    BY LenProperties
  <1> QED BY <1>1 DEF ToSet

LEMMA RecFields ==
  ASSUME NEW a \in Rec
  PROVE  a.start \in Nat /\ a.end \in Nat
BY DEF Rec

\* No area is on the list twice.
LEMMA OnlyOnce ==
  ASSUME NEW s \in Seq(Area), NEW r \in [Area -> Rec], Ordered(s, r),
         NEW i \in DOMAIN s, NEW j \in DOMAIN s, s[i] = s[j]
  PROVE  i = j
  <1>1. i \in Int /\ j \in Int /\ s[i] \in Area /\ s[j] \in Area
    BY MembersOf
  <1>2. r[s[i]].start \in Nat /\ r[s[i]].end \in Nat
    BY <1>1 DEF Rec
  <1>3. r[s[i]].start < r[s[i]].end
    BY DEF Ordered, Proper
  <1>4. i < j => r[s[i]].end <= r[s[i]].start
    BY DEF Ordered
  <1>5. j < i => r[s[i]].end <= r[s[i]].start
    BY DEF Ordered
  <1> QED BY <1>1, <1>2, <1>3, <1>4, <1>5

\* An area that changes within its room.
LEMMA Resizes ==
  ASSUME NEW s \in Seq(Area), NEW r \in [Area -> Rec], NEW q \in [Area -> Rec],
         Ordered(s, r), NEW k \in DOMAIN s, Proper(q[s[k]]),
         r[s[k]].start <= q[s[k]].start,
         \A j \in DOMAIN s : k < j => q[s[k]].end <= r[s[j]].start,
         \A a \in ToSet(s) \ {s[k]} : q[a] = r[a]
  PROVE  Ordered(s, q)
  <1>1. \A i \in DOMAIN s : s[i] \in Area /\ i \in Int /\ r[s[i]] \in Rec /\ q[s[i]] \in Rec
    BY MembersOf
  <1>2. \A i \in DOMAIN s : i # k => q[s[i]] = r[s[i]]
    <2> SUFFICES ASSUME NEW i \in DOMAIN s, i # k PROVE q[s[i]] = r[s[i]]
      OBVIOUS
    <2>1. s[i] # s[k] /\ s[i] \in ToSet(s)
      BY OnlyOnce, MembersOf
    <2> QED BY <2>1
  <1>3. ASSUME NEW i \in DOMAIN s PROVE Proper(q[s[i]])
    BY <1>2 DEF Ordered
  <1>4. ASSUME NEW i \in DOMAIN s, NEW j \in DOMAIN s, i < j
        PROVE  q[s[i]].end <= q[s[j]].start
    <2>1. r[s[i]].end <= r[s[j]].start
      BY <1>4 DEF Ordered
    <2>2. CASE i = k
      BY <1>1, <1>2, <1>4, <2>2
    <2>3. CASE j = k
      <3>1. q[s[i]] = r[s[i]]
        BY <1>1, <1>2, <1>4, <2>3
      <3>2. r[s[i]].end \in Int /\ r[s[k]].start \in Int /\ q[s[k]].start \in Int
        <4>1. r[s[i]] \in Rec /\ r[s[k]] \in Rec /\ q[s[k]] \in Rec
          BY <1>1
        <4> QED BY <4>1, RecFields
      <3> QED BY <2>1, <2>3, <3>1, <3>2
    <2>4. CASE i # k /\ j # k
      BY <1>2, <2>1, <2>4
    <2> QED BY <2>2, <2>3, <2>4
  <1> QED BY <1>3, <1>4 DEF Ordered

\* The list t is s with e behind s[k].
Inserted(t, s, k, e) ==
  /\ t \in Seq(Area) /\ Len(t) = Len(s) + 1
  /\ \A i \in 1 .. Len(s) + 1 :
       t[i] = IF i <= k THEN s[i] ELSE IF i = k + 1 THEN e ELSE s[i - 1]

LEMMA InsertAtProps ==
  ASSUME NEW s \in Seq(Area), NEW k \in DOMAIN s, NEW e \in Area,
         NEW t, t = InsertAt(s, k + 1, e)
  PROVE  Inserted(t, s, k, e)
  <1>1. k \in 1 .. Len(s) /\ Len(s) \in Nat /\ \A i \in 1 .. Len(s) : s[i] \in Area
    BY MembersOf
  <1> DEFINE l == SubSeq(s, 1, k)
             m == <<e>>
             n == SubSeq(s, k + 1, Len(s))
  <1>2. l \in Seq(Area) /\ Len(l) = k /\ \A i \in 1 .. k : l[i] = s[i]
    <2>1. \A i \in 1 .. k : s[i] \in Area
      BY <1>1
    <2>2. /\ l \in Seq(Area) /\ Len(l) = IF 1 <= k THEN k - 1 + 1 ELSE 0
          /\ \A i \in 1 .. k - 1 + 1 : l[i] = s[1 + i - 1]
      BY <1>1, <2>1, SubSeqProperties
    <2> QED BY <1>1, <2>2
  <1>3. n \in Seq(Area) /\ Len(n) = Len(s) - k /\ \A i \in 1 .. Len(s) - k : n[i] = s[k + i]
    <2>1. \A i \in k + 1 .. Len(s) : s[i] \in Area
      BY <1>1
    <2>2. k + 1 \in Int /\ Len(s) \in Int
      BY <1>1
    <2>3. /\ n \in Seq(Area)
          /\ Len(n) = IF k + 1 <= Len(s) THEN Len(s) - (k + 1) + 1 ELSE 0
          /\ \A i \in 1 .. Len(s) - (k + 1) + 1 : n[i] = s[(k + 1) + i - 1]
      BY <2>1, <2>2, SubSeqProperties
    <2> QED BY <1>1, <2>3
  <1>4. m \in Seq(Area) /\ Len(m) = 1 /\ m[1] = e
    OBVIOUS
  <1>5. InsertAt(s, k + 1, e) = (l \o m) \o n
    <2>1. (k + 1) - 1 = k
      BY <1>1
    <2> QED BY <2>1 DEF InsertAt
  <1> HIDE DEF l, m, n
  <1>6. /\ l \o m \in Seq(Area) /\ Len(l \o m) = k + 1
        /\ \A i \in 1 .. k + 1 : (l \o m)[i] = IF i <= k THEN s[i] ELSE e
    <2>1. /\ l \o m \in Seq(Area) /\ Len(l \o m) = Len(l) + Len(m)
          /\ \A i \in 1 .. Len(l) + Len(m) :
               (l \o m)[i] = IF i <= Len(l) THEN l[i] ELSE m[i - Len(l)]
      BY <1>2, <1>4, ConcatProperties
    <2> QED BY <1>1, <1>2, <1>4, <2>1
  <1>7. PICK p : p = l \o m
    OBVIOUS
  <1>8. /\ t \in Seq(Area) /\ Len(t) = Len(s) + 1
        /\ \A i \in 1 .. Len(s) + 1 :
             t[i] = IF i <= k + 1 THEN p[i] ELSE n[i - (k + 1)]
    <2>1. p \in Seq(Area) /\ Len(p) = k + 1
      BY <1>6, <1>7
    <2>2. /\ p \o n \in Seq(Area)
          /\ Len(p \o n) = Len(p) + Len(n)
          /\ \A i \in 1 .. Len(p) + Len(n) :
               (p \o n)[i] = IF i <= Len(p) THEN p[i] ELSE n[i - Len(p)]
      BY <1>3, <2>1, ConcatProperties
    <2>3. Len(p) + Len(n) = Len(s) + 1 /\ t = p \o n
      <3>1. t = p \o n
        BY <1>5, <1>7
      <3>2. Len(p) + Len(n) = Len(s) + 1
        <4>1. PICK z : z = Len(s)
          OBVIOUS
        <4>2. k \in 1 .. z /\ z \in Nat /\ Len(n) = z - k
          BY <1>1, <1>3, <4>1
        <4> QED BY <2>1, <4>1, <4>2
      <3> QED BY <3>1, <3>2
    <2> QED BY <2>1, <2>2, <2>3
  <1>9. ASSUME NEW i \in 1 .. Len(s) + 1
        PROVE  t[i] = IF i <= k THEN s[i] ELSE IF i = k + 1 THEN e ELSE s[i - 1]
    <2>1. CASE i <= k + 1
      <3>1. i \in 1 .. k + 1
        BY <1>1, <2>1
      <3>2. t[i] = p[i]
        BY <1>8, <2>1
      <3>3. p[i] = IF i <= k THEN s[i] ELSE e
        BY <1>6, <1>7, <3>1
      <3> QED BY <1>1, <2>1, <3>1, <3>2, <3>3
    <2>2. CASE ~ (i <= k + 1)
      <3>1. PICK j : j = i - (k + 1)
        OBVIOUS
      <3>2. j \in 1 .. Len(s) - k /\ k + j = i - 1 /\ ~ (i <= k) /\ i # k + 1
        <4>1. PICK z : z = Len(s)
          OBVIOUS
        <4>2. i \in 1 .. z + 1 /\ k \in 1 .. z /\ z \in Nat
          BY <1>1, <4>1
        <4>3. j \in 1 .. z - k /\ k + j = i - 1 /\ ~ (i <= k) /\ i # k + 1
          BY <2>2, <3>1, <4>2
        <4> QED BY <4>1, <4>3
      <3>3. t[i] = n[j]
        BY <1>8, <2>2, <3>1
      <3>4. n[j] = s[i - 1]
        BY <1>3, <3>2
      <3> QED BY <3>2, <3>3, <3>4
    <2> QED BY <2>1, <2>2
  <1> QED BY <1>8, <1>9 DEF Inserted

\* list_add behind s[k] of an area that has its place there.
LEMMA Inserts ==
  ASSUME NEW s \in Seq(Area), NEW q \in [Area -> Rec], Ordered(s, q),
         NEW k \in DOMAIN s, NEW e \in Area \ ToSet(s), Proper(q[e]),
         Between(s, q, k, q[e]), NEW t, t = InsertAt(s, k + 1, e)
  PROVE  t \in Seq(Area) /\ Ordered(t, q) /\ ToSet(t) = ToSet(s) \cup {e}
  <1>1. /\ DOMAIN s = 1 .. Len(s) /\ Len(s) \in Nat /\ k \in 1 .. Len(s)
        /\ \A i \in 1 .. Len(s) : s[i] \in Area /\ q[s[i]] \in Rec
    BY MembersOf
  <1>2. /\ t \in Seq(Area) /\ Len(t) = Len(s) + 1
        /\ \A i \in 1 .. Len(s) + 1 :
             t[i] = IF i <= k THEN s[i] ELSE IF i = k + 1 THEN e ELSE s[i - 1]
    <2>1. Inserted(t, s, k, e)
      BY InsertAtProps, Zenon
    <2> QED BY <2>1 DEF Inserted
  <1>3. DOMAIN t = 1 .. Len(s) + 1
    BY <1>2, MembersOf
  <1>4. ASSUME NEW i \in 1 .. Len(s) + 1 PROVE Proper(q[t[i]])
    <2>1. \A g \in 1 .. Len(s) : Proper(q[s[g]])
      BY <1>1 DEF Ordered
    <2>2. CASE i <= k
      <3>1. i \in 1 .. Len(s) /\ t[i] = s[i]
        BY <1>1, <1>2, <2>2
      <3> QED BY <2>1, <3>1
    <2>3. CASE i = k + 1
      <3>1. t[i] = e
        BY <1>1, <1>2, <2>3
      <3> QED BY <3>1
    <2>4. CASE ~ (i <= k) /\ i # k + 1
      <3>1. i - 1 \in 1 .. Len(s) /\ t[i] = s[i - 1]
        BY <1>1, <1>2, <2>4
      <3> QED BY <2>1, <3>1
    <2> QED BY <2>2, <2>3, <2>4
  <1>5. ASSUME NEW i \in 1 .. Len(s) + 1, NEW j \in 1 .. Len(s) + 1, i < j
        PROVE  q[t[i]].end <= q[t[j]].start
    <2>1. /\ \A g, h \in 1 .. Len(s) : g < h => q[s[g]].end <= q[s[h]].start
          /\ \A h \in 1 .. Len(s) : k < h => q[e].end <= q[s[h]].start
          /\ q[s[k]].end <= q[e].start
      BY <1>1 DEF Ordered, Between
    <2>2. CASE i = k + 1
      <3>1. t[i] = e /\ t[j] = s[j - 1] /\ j - 1 \in 1 .. Len(s) /\ k < j - 1
        <4>1. ~ (i <= k) /\ ~ (j <= k) /\ j # k + 1
          BY <1>1, <1>5, <2>2
        <4> QED BY <1>1, <1>2, <1>5, <2>2, <4>1
      <3> QED BY <2>1, <3>1
    <2>3. CASE j = k + 1
      <3>1. t[i] = s[i] /\ t[j] = e /\ i \in 1 .. Len(s) /\ i <= k
        BY <1>1, <1>2, <1>5, <2>3
      <3>2. CASE i = k
        BY <2>1, <3>1, <3>2
      <3>3. CASE i < k
        <4>1. q[s[i]].end <= q[s[k]].start /\ Proper(q[s[k]])
          BY <1>1, <2>1, <3>1, <3>3 DEF Ordered
        <4>2. q[s[i]] \in Rec /\ q[s[k]] \in Rec /\ q[e] \in Rec
          BY <1>1, <3>1
        <4>3. /\ q[s[i]].end \in Nat /\ q[e].start \in Nat
              /\ q[s[k]].start \in Nat /\ q[s[k]].end \in Nat
          BY <4>2 DEF Rec
        <4>4. q[s[k]].start < q[s[k]].end
          BY <4>1 DEF Proper
        <4>5. q[s[i]].end <= q[e].start
          BY <2>1, <4>1, <4>3, <4>4
        <4> QED BY <3>1, <4>5
      <3> QED BY <1>1, <3>1, <3>2, <3>3
    <2>4. CASE i # k + 1 /\ j # k + 1
      <3> DEFINE g == IF i <= k THEN i ELSE i - 1
                 h == IF j <= k THEN j ELSE j - 1
      <3>1. g \in 1 .. Len(s) /\ h \in 1 .. Len(s) /\ g < h
        BY <1>1, <1>5, <2>4
      <3>2. t[i] = s[g] /\ t[j] = s[h]
        BY <1>1, <1>2, <2>4
      <3> HIDE DEF g, h
      <3> QED BY <2>1, <3>1, <3>2
    <2> QED BY <2>2, <2>3, <2>4
  <1>6. ToSet(t) = ToSet(s) \cup {e}
    <2>1. ASSUME NEW x \in ToSet(t) PROVE x \in ToSet(s) \cup {e}
      <3>1. PICK i \in 1 .. Len(s) + 1 : t[i] = x
        BY <1>3 DEF ToSet
      <3>2. i <= k => i \in 1 .. Len(s)
        BY <1>1
      <3>3. i > k + 1 => i - 1 \in 1 .. Len(s)
        BY <1>1
      <3> QED BY <1>1, <1>2, <3>1, <3>2, <3>3 DEF ToSet
    <2>2. e \in ToSet(t)
      <3>1. k + 1 \in 1 .. Len(s) + 1 /\ t[k + 1] = e
        BY <1>1, <1>2
      <3> QED BY <1>3, <3>1 DEF ToSet
    <2>3. ASSUME NEW x \in ToSet(s) PROVE x \in ToSet(t)
      <3>1. PICK i \in 1 .. Len(s) : s[i] = x
        BY <1>1 DEF ToSet
      <3>2. CASE i <= k
        <4>1. i \in 1 .. Len(s) + 1 /\ t[i] = x
          BY <1>1, <1>2, <3>1, <3>2
        <4> QED BY <1>3, <4>1 DEF ToSet
      <3>3. CASE i > k
        <4>1. i + 1 \in 1 .. Len(s) + 1 /\ t[i + 1] = x
          <5>1. i + 1 \in 1 .. Len(s) + 1 /\ ~ (i + 1 <= k) /\ i + 1 # k + 1 /\ (i + 1) - 1 = i
            BY <1>1, <3>1, <3>3
          <5> QED BY <1>2, <3>1, <5>1
        <4> QED BY <1>3, <4>1 DEF ToSet
      <3> QED BY <1>1, <3>2, <3>3
    <2> QED BY <2>1, <2>2, <2>3
  <1> QED BY <1>2, <1>3, <1>4, <1>5, <1>6 DEF Ordered

\* A nonempty set of naturals has a smallest element, and Min is it.
LEMMA MinIn ==
  ASSUME NEW I \in SUBSET Nat, I # {}
  PROVE  Min(I) \in I
  <1>1. PICK x \in I : \A y \in I : ~ (<<y, x>> \in OpToRel(<, Nat))
    BY WFMin, NatLessThanWellFounded, Zenon
  <1>2. ASSUME NEW y \in I PROVE x <= y
    <2>1. ~ (y < x)
      BY <1>1, <1>2 DEF OpToRel
    <2> QED BY <2>1
  <1> QED BY <1>2 DEF Min

\* The list t is s without s[k].
Removed(t, s, k) ==
  /\ t \in Seq(Area) /\ Len(t) = Len(s) - 1
  /\ \A i \in 1 .. Len(s) - 1 : t[i] = IF i < k THEN s[i] ELSE s[i + 1]

LEMMA RemoveAtProps ==
  ASSUME NEW s \in Seq(Area), NEW k \in DOMAIN s, NEW t, t = RemoveAt(s, k)
  PROVE  Removed(t, s, k)
  <1> DEFINE l == SubSeq(s, 1, k - 1)
             r == SubSeq(s, k + 1, Len(s))
  <1>1. k \in 1 .. Len(s) /\ Len(s) \in Nat /\ \A i \in 1 .. Len(s) : s[i] \in Area
    BY MembersOf
  <1>2. l \in Seq(Area) /\ Len(l) = k - 1 /\ \A i \in 1 .. k - 1 : l[i] = s[i]
    BY <1>1, SubSeqProperties
  <1>3. r \in Seq(Area) /\ Len(r) = Len(s) - k /\ \A i \in 1 .. Len(s) - k : r[i] = s[k + i]
    BY <1>1, SubSeqProperties
  <1>4. t = l \o r
    BY DEF RemoveAt
  <1> HIDE DEF l, r
  <1>5. /\ l \o r \in Seq(Area)
        /\ Len(l \o r) = Len(l) + Len(r)
        /\ \A i \in 1 .. Len(l) + Len(r) :
             (l \o r)[i] = IF i <= Len(l) THEN l[i] ELSE r[i - Len(l)]
    BY <1>2, <1>3, ConcatProperties
  <1>6. ASSUME NEW i \in 1 .. Len(s) - 1
        PROVE  (l \o r)[i] = IF i < k THEN s[i] ELSE s[i + 1]
    <2>1. PICK z : z = Len(s)
      OBVIOUS
    <2>2. k \in 1 .. z /\ z \in Nat /\ i \in 1 .. z - 1 /\ Len(l) = k - 1 /\ Len(r) = z - k
      BY <1>1, <1>2, <1>3, <2>1
    <2>3. (l \o r)[i] = IF i <= k - 1 THEN l[i] ELSE r[i - (k - 1)]
      <3>1. Len(l) + Len(r) = z - 1
        BY <2>2
      <3>2. (l \o r)[i] = IF i <= Len(l) THEN l[i] ELSE r[i - Len(l)]
        BY <1>5, <2>2, <3>1
      <3> QED BY <2>2, <3>2
    <2>4. CASE i < k
      <3>1. i \in 1 .. k - 1 /\ i <= k - 1
        BY <2>2, <2>4
      <3> QED BY <1>2, <2>3, <2>4, <3>1
    <2>5. CASE ~ (i < k)
      <3>1. PICK j : j = i - (k - 1)
        OBVIOUS
      <3>2. j \in 1 .. z - k /\ ~ (i <= k - 1) /\ k + j = i + 1
        BY <2>2, <2>5, <3>1
      <3> QED BY <1>3, <2>1, <2>3, <2>5, <3>1, <3>2
    <2> QED BY <2>4, <2>5
  <1>7. Len(l) + Len(r) = Len(s) - 1
    BY <1>1, <1>2, <1>3
  <1> QED BY <1>4, <1>5, <1>6, <1>7 DEF Removed

\* list_del of an area.
LEMMA Removes ==
  ASSUME NEW s \in Seq(Area), NEW r \in [Area -> Rec], Ordered(s, r),
         NEW k \in DOMAIN s, NEW t, t = RemoveFirst(s, s[k])
  PROVE  t \in Seq(Area) /\ Ordered(t, r) /\ ToSet(t) = ToSet(s) \ {s[k]}
  <1>1. /\ DOMAIN s = 1 .. Len(s) /\ Len(s) \in Nat /\ k \in 1 .. Len(s)
        /\ \A i \in 1 .. Len(s) : s[i] \in Area
    BY MembersOf
  <1>2. \A i \in 1 .. Len(s) : s[i] = s[k] => i = k
    BY <1>1, OnlyOnce
  <1>3. Removed(t, s, k)
    <2> DEFINE I == {i \in 1 .. Len(s) : s[i] = s[k]}
    <2>1. I = {k}
      BY <1>1, <1>2
    <2>2. I \in SUBSET Nat /\ I # {} /\ \E i \in 1 .. Len(s) : s[i] = s[k]
      BY <1>1, <2>1
    <2>3. Min(I) = k
      BY <2>1, <2>2, MinIn
    <2>4. SelectInSeq(s, LAMBDA v : v = s[k]) = Min(I)
      BY <2>2 DEF SelectInSeq
    <2>5. RemoveFirst(s, s[k]) = RemoveAt(s, SelectInSeq(s, LAMBDA v : v = s[k]))
      BY <1>1, <2>2 DEF RemoveFirst
    <2>6. t = RemoveAt(s, k)
      BY <2>3, <2>4, <2>5
    <2> QED BY <2>6, RemoveAtProps, Zenon
  <1>4. /\ t \in Seq(Area) /\ Len(t) = Len(s) - 1 /\ DOMAIN t = 1 .. Len(s) - 1
        /\ \A i \in 1 .. Len(s) - 1 : t[i] = IF i < k THEN s[i] ELSE s[i + 1]
    BY <1>3, MembersOf DEF Removed
  <1>5. PICK z : z = Len(s)
    OBVIOUS
  <1>6. /\ z \in Nat /\ k \in 1 .. z /\ DOMAIN s = 1 .. z /\ DOMAIN t = 1 .. z - 1
        /\ \A i \in 1 .. z - 1 : t[i] = IF i < k THEN s[i] ELSE s[i + 1]
    BY <1>1, <1>4, <1>5
  <1>7. Ordered(t, r)
    <2>1. \A g \in 1 .. z : Proper(r[s[g]])
      BY <1>6 DEF Ordered
    <2>2. \A g, h \in 1 .. z : g < h => r[s[g]].end <= r[s[h]].start
      BY <1>6 DEF Ordered
    <2> DEFINE at(i) == IF i < k THEN i ELSE i + 1
    <2>3. ASSUME NEW i \in 1 .. z - 1 PROVE at(i) \in 1 .. z /\ t[i] = s[at(i)]
      <3>1. t[i] = IF i < k THEN s[i] ELSE s[i + 1]
        BY <1>6
      <3>2. at(i) \in 1 .. z
        BY <1>6
      <3>3. CASE i < k
        BY <3>1, <3>2, <3>3
      <3>4. CASE ~ (i < k)
        BY <3>1, <3>2, <3>4
      <3> QED BY <3>3, <3>4
    <2>4. \A i, j \in 1 .. z - 1 : i < j => at(i) < at(j)
      BY <1>6
    <2> HIDE DEF at
    <2>5. ASSUME NEW i \in 1 .. z - 1 PROVE Proper(r[t[i]])
      BY <2>1, <2>3
    <2>6. ASSUME NEW i \in 1 .. z - 1, NEW j \in 1 .. z - 1, i < j
          PROVE  r[t[i]].end <= r[t[j]].start
      <3>1. at(i) \in 1 .. z /\ at(j) \in 1 .. z /\ at(i) < at(j)
        BY <2>3, <2>4, <2>6
      <3>2. t[i] = s[at(i)] /\ t[j] = s[at(j)]
        BY <2>3
      <3> QED BY <2>2, <3>1, <3>2
    <2> QED BY <1>6, <2>5, <2>6 DEF Ordered
  <1>8. ToSet(t) = ToSet(s) \ {s[k]}
    <2>1. ASSUME NEW x \in ToSet(t) PROVE x \in ToSet(s) \ {s[k]}
      <3>1. PICK i \in 1 .. z - 1 : t[i] = x
        BY <1>6, <2>1 DEF ToSet
      <3>2. CASE i < k
        <4>1. i \in 1 .. z /\ i # k /\ s[i] = x
          BY <1>6, <3>1, <3>2
        <4> QED BY <1>2, <1>5, <1>6, <4>1 DEF ToSet
      <3>3. CASE ~ (i < k)
        <4>1. i + 1 \in 1 .. z /\ i + 1 # k /\ s[i + 1] = x
          BY <1>6, <3>1, <3>3
        <4> QED BY <1>2, <1>5, <1>6, <4>1 DEF ToSet
      <3> QED BY <3>2, <3>3
    <2>2. ASSUME NEW x \in ToSet(s) \ {s[k]} PROVE x \in ToSet(t)
      <3>1. PICK j \in 1 .. z : s[j] = x /\ j # k
        BY <1>6, <2>2 DEF ToSet
      <3>2. CASE j < k
        <4>1. j \in 1 .. z - 1 /\ t[j] = x
          BY <1>6, <3>1, <3>2
        <4> QED BY <1>6, <4>1 DEF ToSet
      <3>3. CASE ~ (j < k)
        <4>1. j - 1 \in 1 .. z - 1 /\ ~ (j - 1 < k) /\ (j - 1) + 1 = j
          BY <1>6, <3>1, <3>3
        <4>2. t[j - 1] = x
          BY <1>6, <3>1, <4>1
        <4> QED BY <1>6, <4>1, <4>2 DEF ToSet
      <3> QED BY <3>2, <3>3
    <2> QED BY <2>1, <2>2
  <1> QED BY <1>4, <1>7, <1>8
-----------------------------------------------------------------------------
(***************************************************************************)
(* The space.                                                              *)
(***************************************************************************)

LEMMA Known ==
  ASSUME AInv
  PROVE  /\ areas \in Seq(Area) /\ rec \in [Area -> Rec]
         /\ SpaceEnd \in Nat /\ Page = 2 /\ None \notin Area
         /\ Live \subseteq Area
         /\ \A a \in Area : rec[a].start \in Nat /\ rec[a].end \in Nat
         /\ \A a \in Live : Proper(rec[a])
         /\ split = NoSplit => Valid = Live
         /\ split # NoSplit => Valid = Live \cup {split.new}
  <1>1. areas \in Seq(Area) /\ SpaceEnd \in Nat /\ None \notin Area /\ Page = 2
    BY SpaceAssumption DEF AInv, TypeOK, Page
  <1>2. rec \in [Area -> Rec]
    <2>1. rec \in [Area -> [start : 0 .. SpaceEnd, end : 0 .. SpaceEnd, limits : Limits]]
      BY DEF AInv, Bounded
    <2>2. 0 .. SpaceEnd \subseteq Nat
      BY <1>1
    <2> QED BY <2>1, <2>2 DEF Rec
  <1>3. Live \subseteq Area
    BY <1>1, MembersOf DEF Live
  <1>4. \A a \in Area : rec[a].start \in Nat /\ rec[a].end \in Nat
    BY <1>2 DEF Rec
  <1>5. ASSUME NEW a \in Live PROVE Proper(rec[a])
    <2>1. PICK i \in DOMAIN areas : areas[i] = a
      BY <1>1, <1>5, MembersOf DEF Live
    <2> QED BY <2>1 DEF AInv, Sound, Ordered
  <1>6. split = NoSplit => Valid = Live
    BY <1>1, <1>3 DEF Valid, NoSplit
  <1>7. split # NoSplit => Valid = Live \cup {split.new}
    BY <1>1, <1>3 DEF Valid, AInv, Sound, CutSound
  <1> QED BY <1>1, <1>2, <1>3, <1>4, <1>5, <1>6, <1>7

LEMMA ValidAreas ==
  ASSUME AInv
  PROVE  Live \subseteq Valid /\ Valid \subseteq Area /\ \A a \in Valid : Proper(rec[a])
  <1>1. CASE split = NoSplit
    BY <1>1, Known
  <1>2. CASE split # NoSplit
    BY <1>2, Known DEF AInv, Sound, CutSound
  <1> QED BY <1>1, <1>2

\* No two areas of the list share an address.
LEMMA Alone ==
  ASSUME AInv, NEW a \in Live, NEW b \in Live, NEW v \in Int,
         Within(rec[a], v), Within(rec[b], v)
  PROVE  a = b
  <1>1. PICK i \in DOMAIN areas : areas[i] = a
    BY Known, MembersOf DEF Live
  <1>2. PICK j \in DOMAIN areas : areas[j] = b
    BY Known, MembersOf DEF Live
  <1>3. i \in Int /\ j \in Int /\ a \in Area /\ b \in Area
    BY Known, MembersOf
  <1>4. /\ rec[a].start \in Int /\ rec[a].end \in Int
        /\ rec[b].start \in Int /\ rec[b].end \in Int
    BY <1>3, Known
  <1>5. /\ i < j => rec[a].end <= rec[b].start
        /\ j < i => rec[b].end <= rec[a].start
    BY <1>1, <1>2 DEF AInv, Sound, Ordered
  <1>6. i = j
    BY <1>3, <1>4, <1>5 DEF Within
  <1> QED BY <1>1, <1>2, <1>6

\* IndexOf finds the area, and nobody is in the room behind it.
LEMMA RoomFree ==
  ASSUME AInv, NEW a \in Live
  PROVE  /\ IndexOf(a) \in DOMAIN areas /\ areas[IndexOf(a)] = a
         /\ RoomEnd(a) \in Nat /\ RoomEnd(a) <= SpaceEnd
         /\ \A j \in DOMAIN areas : IndexOf(a) < j => RoomEnd(a) <= rec[areas[j]].start
         /\ \A v \in Int : rec[a].end <= v /\ v < RoomEnd(a) => ~ Covered(Live, rec, v)
  <1>1. PICK k : k = IndexOf(a)
    OBVIOUS
  <1>2. k \in DOMAIN areas /\ areas[k] = a
    <2>1. \E i \in DOMAIN areas : areas[i] = a
      BY Known, MembersOf DEF Live
    <2> QED BY <1>1, <2>1 DEF IndexOf
  <1>3. PICK z : z = Len(areas)
    OBVIOUS
  <1>4. /\ z \in Nat /\ DOMAIN areas = 1 .. z /\ k \in 1 .. z
        /\ \A i \in 1 .. z : areas[i] \in Area /\ areas[i] \in Live
    BY <1>2, <1>3, Known, MembersOf DEF Live
  <1>5. /\ \A i \in 1 .. z : /\ rec[areas[i]].start \in Nat /\ rec[areas[i]].end \in Nat
                             /\ rec[areas[i]].start < rec[areas[i]].end
                             /\ rec[areas[i]].end <= SpaceEnd
        /\ \A i, j \in 1 .. z : i < j => rec[areas[i]].end <= rec[areas[j]].start
    BY <1>4, Known DEF AInv, Sound, Ordered, Proper
  <1>6. RoomEnd(a) = IF k = z THEN SpaceEnd ELSE rec[areas[k + 1]].start
    BY <1>1, <1>3 DEF RoomEnd
  <1>7. PICK e : e = RoomEnd(a)
    OBVIOUS
  <1>8. /\ e \in Nat /\ e <= SpaceEnd
        /\ \A j \in 1 .. z : k < j => e <= rec[areas[j]].start
    <2>1. CASE k = z
      BY <1>4, <1>6, <1>7, <2>1, Known
    <2>2. CASE k # z
      <3>1. PICK n : n = k + 1
        OBVIOUS
      <3>2. n \in 1 .. z /\ e = rec[areas[n]].start
        BY <1>4, <1>6, <1>7, <2>2, <3>1
      <3>3. e \in Nat /\ e <= SpaceEnd
        BY <1>5, <3>2, Known
      <3>4. ASSUME NEW j \in 1 .. z, k < j PROVE e <= rec[areas[j]].start
        <4>1. j = n \/ n < j
          BY <1>4, <3>1, <3>4
        <4>2. CASE j = n
          BY <3>2, <3>3, <4>2
        <4>3. CASE n < j
          <5>1. rec[areas[n]].end <= rec[areas[j]].start
            BY <1>5, <3>2, <4>3
          <5> QED BY <1>5, <3>2, <5>1
        <4> QED BY <4>1, <4>2, <4>3
      <3> QED BY <3>3, <3>4
    <2> QED BY <2>1, <2>2
  <1>9. ASSUME NEW v \in Int, rec[a].end <= v, v < e, NEW b \in Live, Within(rec[b], v)
        PROVE  FALSE
    <2>1. PICK j \in 1 .. z : areas[j] = b
      BY <1>4, Known, MembersOf DEF Live
    <2>2. j < k \/ j = k \/ k < j
      BY <1>4
    <2>3. rec[areas[j]].start <= v /\ v < rec[areas[j]].end
      BY <1>9, <2>1 DEF Within
    <2>4. rec[areas[k]].end <= v
      BY <1>2, <1>9
    <2>5. CASE j < k
      <3>1. rec[areas[j]].end <= rec[areas[k]].start
        BY <1>4, <1>5, <2>5
      <3> QED BY <1>4, <1>5, <2>3, <2>4, <3>1
    <2>6. CASE j = k
      BY <1>4, <1>5, <2>3, <2>4, <2>6
    <2>7. CASE k < j
      BY <1>4, <1>5, <1>8, <1>9, <2>3, <2>7
    <2> QED BY <2>2, <2>5, <2>6, <2>7
  <1> QED BY <1>1, <1>2, <1>4, <1>7, <1>8, <1>9 DEF Covered

\* Pick returns one of the good areas.
LEMMA PickIn ==
  ASSUME AInv, NEW good, good \ {curArea} \subseteq Live, Pick(good) # None
  PROVE  Pick(good) \in good
  <1>1. CASE curArea \in good
    BY <1>1 DEF Pick
  <1>2. CASE curArea \notin good
    <2> DEFINE I == {i \in DOMAIN areas : areas[i] \in good}
    <2>1. Pick(good) = areas[Min(I)] /\ good # {}
      BY <1>2 DEF Pick
    <2>2. I \in SUBSET Nat
      <3>1. DOMAIN areas = 1 .. Len(areas) /\ Len(areas) \in Nat
        BY Known, MembersOf
      <3> QED BY <3>1
    <2>3. I # {}
      <3>1. PICK a : a \in good /\ a \in Live
        BY <1>2, <2>1
      <3>2. PICK i \in DOMAIN areas : areas[i] = a
        BY <3>1, Known, MembersOf DEF Live
      <3> QED BY <3>1, <3>2
    <2>4. Min(I) \in I
      BY <2>2, <2>3, MinIn
    <2> QED BY <2>1, <2>4
  <1> QED BY <1>1, <1>2
-----------------------------------------------------------------------------
(***************************************************************************)
(* What callers were told.                                                 *)
(***************************************************************************)

Span(f, n) == f .. f + n - 1

\* The addresses of Span(f, n) go from x to y on the ledger.
Moved(o, f, n, x, y) ==
  /\ \A v \in Span(f, n) : v \in Address /\ owned[v] = x
  /\ o = [v \in Address |-> IF v \in Span(f, n) THEN y ELSE owned[v]]

LEMMA Credits ==
  ASSUME AInv, NEW f \in Nat, NEW n \in Nat, f + n <= SpaceEnd, NEW W, NEW q,
         \A v \in Span(f, n) : ~ Covered(Valid, rec, v),
         \A v \in Address : Covered(W, q, v) <=> Covered(Valid, rec, v) \/ v \in Span(f, n),
         NEW o, o = Credit(Span(f, n))
  PROVE  Ledger(o, W, q) /\ Moved(o, f, n, 0, 1)
  <1>1. Span(f, n) \subseteq Address
    BY Known DEF Span, Address
  <1>2. /\ \A v \in Address : owned[v] \in {0, 1}
        /\ \A v \in Address : owned[v] = 1 <=> Covered(Valid, rec, v)
    BY DEF AInv, Sound, Ledger
  <1>3. \A v \in Span(f, n) : owned[v] = 0
    BY <1>1, <1>2
  <1>4. \A v \in Address : o[v] = IF v \in Span(f, n) THEN 1 ELSE owned[v]
    BY <1>1, <1>2, <1>3 DEF Credit
  <1>5. o = [v \in Address |-> IF v \in Span(f, n) THEN 1 ELSE owned[v]]
    BY <1>4 DEF Credit
  <1>6. o \in [Address -> {0, 1}]
    BY <1>2, <1>5
  <1>7. \A v \in Address : o[v] = 1 <=> Covered(W, q, v)
    BY <1>2, <1>4
  <1> QED BY <1>1, <1>3, <1>5, <1>6, <1>7 DEF Ledger, Moved

LEMMA Debits ==
  ASSUME AInv, NEW f \in Nat, NEW n \in Nat, f + n <= SpaceEnd, NEW W, NEW q,
         \A v \in Span(f, n) : Covered(Valid, rec, v),
         \A v \in Address : Covered(W, q, v) <=> Covered(Valid, rec, v) /\ v \notin Span(f, n),
         NEW o, o = Debit(Span(f, n))
  PROVE  Ledger(o, W, q) /\ Moved(o, f, n, 1, 0)
  <1>1. Span(f, n) \subseteq Address
    BY Known DEF Span, Address
  <1>2. /\ \A v \in Address : owned[v] \in {0, 1}
        /\ \A v \in Address : owned[v] = 1 <=> Covered(Valid, rec, v)
    BY DEF AInv, Sound, Ledger
  <1>3. \A v \in Span(f, n) : owned[v] = 1
    BY <1>1, <1>2
  <1>4. \A v \in Address : o[v] = IF v \in Span(f, n) THEN 0 ELSE owned[v]
    BY <1>1, <1>2, <1>3 DEF Debit
  <1>5. o = [v \in Address |-> IF v \in Span(f, n) THEN 0 ELSE owned[v]]
    BY <1>4 DEF Debit
  <1>6. o \in [Address -> {0, 1}]
    BY <1>2, <1>5
  <1>7. \A v \in Address : o[v] = 1 <=> Covered(W, q, v)
    BY <1>2, <1>4
  <1> QED BY <1>1, <1>3, <1>5, <1>6, <1>7 DEF Ledger, Moved

RangeStep == [Ranges!Next]_owned

LEMMA Gives ==
  ASSUME AInv, NEW f \in Nat, NEW n \in Nat, 0 < f, f + n <= SpaceEnd, 0 < n,
         Moved(owned', f, n, 0, 1)
  PROVE  RangeStep
  <1>1. f \in Address /\ n \in Address
    BY Known DEF Address
  <1>2. Ranges!New(f, n)
    BY DEF Moved, Span, Ranges!New, Ranges!Range, Ranges!Set
  <1> QED BY <1>1, <1>2 DEF RangeStep, Ranges!Next

LEMMA Takes ==
  ASSUME AInv, NEW f \in Nat, NEW n \in Nat, 0 < f, f + n <= SpaceEnd, 0 < n,
         Moved(owned', f, n, 1, 0)
  PROVE  RangeStep
  <1>1. f \in Address /\ n \in Address
    BY Known DEF Address
  <1>2. Ranges!Delete(f, n)
    BY DEF Moved, Span, Ranges!Delete, Ranges!Range, Ranges!Set
  <1> QED BY <1>1, <1>2 DEF RangeStep, Ranges!Next
\* Nobody loses an address, and no fault moves.
LEMMA StillExplained ==
  ASSUME AInv, fault' = fault, gone' = gone,
         \A v \in Address : owned[v] > 0 => owned'[v] > 0
  PROVE  Explained'
  BY DEF AInv, Explained, Owned

\* The addresses r are given back.
LEMMA LostExplained ==
  ASSUME AInv, fault' = fault, NEW r, gone' = gone \cup Lost(r),
         \A v \in Address : v \notin r /\ owned[v] > 0 => owned'[v] > 0
  PROVE  Explained'
  <1> SUFFICES ASSUME NEW t \in Faulter, fault[t].pc = "found", t \notin gone'
               PROVE  fault[t].adr \in Owned'
    BY DEF Explained
  <1>1. fault[t].adr \in Owned /\ fault[t].adr \notin r
    BY DEF AInv, Explained, Lost
  <1> QED BY <1>1 DEF Owned

\* kvm_delete tells its caller that the addresses are given back.
LEMMA GivesBack ==
  ASSUME NEW start \in Int, NEW size, NEW n \in Int, n = Align(size), GiveBack(start, size)
  PROVE  /\ owned' = Debit(Span(start, n)) /\ gone' = gone \cup Lost(Span(start, n))
         /\ gone' \subseteq gone \cup Faulter
  BY DEF GiveBack, Span, Lost

\* While no sum wraps, check_area_for_new compares as it seems to.
LEMMA FitsPlain ==
  ASSUME AInv, NoneWraps, NEW a \in Area, NEW start \in Address, NEW size \in Sizes,
         Fits(a, start, Align(size))
  PROVE  IF start = 0 THEN rec[a].end + Align(size) <= RoomEnd(a)
         ELSE rec[a].end <= start /\ start + (start + Align(size)) <= RoomEnd(a)
  <1>1. rec[a].end \in 0 .. SpaceEnd /\ start \in 0 .. SpaceEnd
    BY SpaceAssumption DEF AInv, Bounded, Address
  <1>2. /\ Plus(rec[a].end, Align(size)) = rec[a].end + Align(size)
        /\ Plus(start, Plus(start, Align(size))) = start + (start + Align(size))
    BY <1>1, Sums
  <1> QED BY <1>2 DEF Fits
-----------------------------------------------------------------------------
(***************************************************************************)
(* The steps.                                                              *)
(***************************************************************************)

\* kvm_new makes an area longer: the room behind it is nobody's.
LEMMA NewGrowsStep ==
  ASSUME AInv, NoneWraps, NEW start \in Address, NEW size \in Sizes, NEW limits \in Limits,
         NewGrows(start, size, limits)
  PROVE  AInv' /\ RangeStep
  <1>1. PICK a : a = PickNew(start, size)
    OBVIOUS
  <1>2. PICK n : n = Align(size)
    OBVIOUS
  <1>3. n \in Nat /\ n > 0
    BY <1>2, Sizing
  <1>4. a \in Live /\ Fits(a, start, n)
    <2> DEFINE good == {b \in Live : Fits(b, start, Align(size))}
    <2>1. Pick(good) # None /\ a = Pick(good)
      BY <1>1 DEF NewGrows, PickNew
    <2>2. good \ {curArea} \subseteq Live
      OBVIOUS
    <2> HIDE DEF good
    <2>3. a \in good
      BY <2>1, <2>2, PickIn
    <2> QED BY <1>2, <2>3 DEF good
  <1>5. /\ split = NoSplit /\ areas' = areas /\ split' = split /\ fault' = fault
        /\ box' = box /\ endArea' = endArea /\ areasNum' = areasNum
        /\ filled' = filled /\ gone' = gone /\ undefined' = undefined
        /\ start \in {0, rec[a].start}
        /\ rec' = [rec EXCEPT ![a].end = rec[a].end + n]
        /\ owned' = Credit(Span(rec[a].end, n)) /\ curArea' = a
    <2>1. rec[a].end \in 0 .. SpaceEnd
      BY <1>4, Known DEF AInv, Bounded
    <2>2. Plus(rec[a].end, n) = rec[a].end + n
      BY <1>2, <2>1, Sums
    <2>3. rec' = [rec EXCEPT ![a].end = Plus(rec[a].end, n)]
      BY <1>1, <1>2 DEF NewGrows
    <2>4. rec' = [rec EXCEPT ![a].end = rec[a].end + n]
      BY <2>2, <2>3
    <2>5. owned' = Credit(Span(rec[a].end, n))
      BY <1>1, <1>2 DEF NewGrows, Grown, Span
    <2> QED BY <1>1, <2>4, <2>5 DEF NewGrows, Unlocked
  <1>6. PICK f : f = rec[a].end
    OBVIOUS
  <1>7. /\ a \in Area /\ f \in Nat /\ rec[a].start \in Nat
        /\ 2 <= rec[a].start /\ rec[a].start < f
    BY <1>4, <1>6, Known DEF Proper
  <1>8. f + n <= RoomEnd(a)
    <2>1. IF start = 0 THEN rec[a].end + n <= RoomEnd(a)
          ELSE rec[a].end <= start /\ start + (start + n) <= RoomEnd(a)
      BY <1>2, <1>4, <1>7, FitsPlain
    <2>2. start = 0
      BY <1>5, <1>6, <1>7, <2>1
    <2> QED BY <1>6, <2>1, <2>2
  <1>9. f + n <= SpaceEnd
    BY <1>3, <1>4, <1>7, <1>8, RoomFree, Known
  <1>10. /\ rec'[a].start = rec[a].start /\ rec'[a].end = f + n
         /\ \A b \in Area : b # a => rec'[b] = rec[b]
    BY <1>5, <1>6, <1>7, Known DEF Rec
  <1>11. rec' \in [Area -> [start : 0 .. SpaceEnd, end : 0 .. SpaceEnd, limits : Limits]]
    <2>1. rec \in [Area -> [start : 0 .. SpaceEnd, end : 0 .. SpaceEnd, limits : Limits]]
      BY DEF AInv, Bounded
    <2>2. f + n \in 0 .. SpaceEnd
      BY <1>3, <1>7, <1>9, Known
    <2> QED BY <1>5, <1>6, <2>1, <2>2
  <1>12. Ordered(areas, rec')
    <2>1. PICK k : k = IndexOf(a)
      OBVIOUS
    <2>2. k \in DOMAIN areas /\ areas[k] = a
      BY <1>4, <2>1, RoomFree
    <2>3. rec' \in [Area -> Rec]
      <3>1. 0 .. SpaceEnd \subseteq Nat
        OBVIOUS
      <3> QED BY <1>11, <3>1 DEF Rec
    <2>4. Proper(rec'[a])
      BY <1>3, <1>7, <1>9, <1>10, Known DEF Proper
    <2>5. ASSUME NEW j \in DOMAIN areas, k < j PROVE rec'[a].end <= rec[areas[j]].start
      <3>1. RoomEnd(a) \in Nat /\ RoomEnd(a) <= rec[areas[j]].start
        BY <1>4, <2>1, <2>5, RoomFree
      <3>2. rec[areas[j]].start \in Nat
        BY <2>5, Known, MembersOf
      <3> QED BY <1>3, <1>7, <1>8, <1>10, <3>1, <3>2
    <2>6. \A b \in ToSet(areas) \ {a} : rec'[b] = rec[b]
      BY <1>10, Known DEF Live
    <2>7. Ordered(areas, rec)
      BY DEF AInv, Sound
    <2>8. rec[a].start <= rec'[a].start
      BY <1>7, <1>10
    <2> QED BY <2>2, <2>3, <2>4, <2>5, <2>6, <2>7, <2>8, Known, Resizes
  <1>13. Valid = Live /\ Valid' = Live
    BY <1>5, Known DEF Valid, Live
  <1>14. Ledger(owned', Live, rec') /\ Moved(owned', f, n, 0, 1)
    <2>1. \A v \in Span(f, n) : v \in Int /\ f <= v /\ v < f + n
      BY <1>3, <1>7 DEF Span
    <2>2. \A v \in Address : v \in Span(f, n) <=> f <= v /\ v < f + n
      BY <1>3, <1>7 DEF Span, Address
    <2>3. ASSUME NEW v \in Span(f, n) PROVE ~ Covered(Valid, rec, v)
      <3>1. v < RoomEnd(a)
        BY <1>3, <1>4, <1>7, <1>8, <2>1, <2>3, RoomFree
      <3> QED BY <1>4, <1>6, <1>13, <2>1, <2>3, <3>1, RoomFree
    <2>4. ASSUME NEW v \in Address
          PROVE  Covered(Live, rec', v) <=> Covered(Valid, rec, v) \/ v \in Span(f, n)
      <3>1. v \in Int
        BY DEF Address
      <3>2. Within(rec'[a], v) <=> Within(rec[a], v) \/ v \in Span(f, n)
        BY <1>3, <1>6, <1>7, <1>10, <2>2, <3>1 DEF Within
      <3>3. \A b \in Live : b # a => (Within(rec'[b], v) <=> Within(rec[b], v))
        BY <1>10, Known
      <3> QED BY <1>4, <1>13, <3>2, <3>3 DEF Covered
    <2>5. owned' = Credit(Span(f, n))
      BY <1>5, <1>6
    <2> QED BY <1>3, <1>7, <1>9, <2>3, <2>4, <2>5, Credits
  <1>15. TypeOK'
    <2>1. owned' \in [Address -> Int]
      BY <1>14 DEF Ledger
    <2>2. rec' \in [Area -> [start : Word, end : Word, limits : Limits]]
      BY <1>11, Widens
    <2> QED BY <1>5, <1>7, <2>1, <2>2 DEF AInv, TypeOK
  <1>16. Bounded' /\ Explained'
    <2>1. \A v \in Address : owned[v] > 0 => owned'[v] > 0
      BY <1>14 DEF Moved
    <2> QED BY <1>5, <1>11, <2>1, StillExplained DEF Bounded
  <1>17. Sound'
    BY <1>5, <1>12, <1>13, <1>14 DEF Sound, CutSound
  <1>18. RangeStep
    BY <1>3, <1>7, <1>9, <1>14, Gives
  <1> QED BY <1>15, <1>16, <1>17, <1>18 DEF AInv

\* kvm_new puts an area of its own into the room behind another one.
LEMMA NewAreaStep ==
  ASSUME AInv, NoneWraps, NEW start \in Address, NEW size \in Sizes, NEW limits \in Limits,
         NEW new \in FreeAreas, NewArea(start, size, limits, new)
  PROVE  AInv' /\ RangeStep
  <1> DEFINE a == PickNew(start, size)
             n == Align(size)
             f == IF start = 0 THEN rec[a].end ELSE start
  <1>3. n \in Nat /\ n > 0
    BY Sizing
  <1>4. a \in Live /\ Fits(a, start, n)
    <2> DEFINE good == {b \in Live : Fits(b, start, Align(size))}
    <2>1. Pick(good) # None /\ a = Pick(good)
      BY DEF NewArea, PickNew
    <2>2. good \ {curArea} \subseteq Live
      OBVIOUS
    <2> HIDE DEF good
    <2>3. a \in good
      BY <2>1, <2>2, PickIn
    <2> QED BY <2>3 DEF good
  <1>5. f = IF start = 0 THEN rec[a].end ELSE start
    OBVIOUS
  <1>6. /\ split = NoSplit /\ split' = split /\ fault' = fault
        /\ curArea' = curArea /\ areasNum' = areasNum
        /\ filled' = filled /\ gone' = gone /\ undefined' = undefined
        /\ rec' = [rec EXCEPT ![new] = [start |-> f, end |-> f + n, limits |-> limits]]
        /\ box' = [box EXCEPT ![new] = {}]
        /\ areas' = InsertAt(areas, IndexOf(a) + 1, new)
        /\ endArea' = IF IndexOf(a) = Len(areas) THEN a ELSE endArea
        /\ owned' = Credit(Span(f, n))
    <2>1. /\ split = NoSplit /\ split' = split /\ fault' = fault
          /\ curArea' = curArea /\ areasNum' = areasNum
          /\ filled' = filled /\ gone' = gone /\ undefined' = undefined
          /\ box' = [box EXCEPT ![new] = {}]
      BY DEF NewArea, Unlocked
    <2>2. rec' = [rec EXCEPT ![new] = [start |-> f, end |-> f + n, limits |-> limits]]
      <3>1. rec' = [rec EXCEPT ![new] = [start |-> f, end |-> Plus(f, n), limits |-> limits]]
        BY DEF NewArea
      <3>2. f \in 0 .. SpaceEnd
        <4>1. rec[a].end \in 0 .. SpaceEnd
          BY <1>4, Known DEF AInv, Bounded
        <4>2. start \in 0 .. SpaceEnd
          BY Known DEF Address
        <4> QED BY <4>1, <4>2
      <3>3. Plus(f, n) = f + n
        BY <3>2, Sums
      <3> QED BY <3>1, <3>3
    <2>3. /\ areas' = InsertAt(areas, IndexOf(a) + 1, new)
          /\ endArea' = IF IndexOf(a) = Len(areas) THEN a ELSE endArea
      BY DEF NewArea
    <2>4. owned' = Credit(Span(f, n))
      BY DEF NewArea, Span
    <2> QED BY <2>1, <2>2, <2>3, <2>4
  <1> HIDE DEF a, n, f
  <1>7. new \in Area \ Live /\ Valid = Live
    BY <1>6, Known DEF FreeAreas
  <1>8. /\ a \in Area /\ rec[a].end \in Nat /\ rec[a].start \in Nat
        /\ 2 <= rec[a].start /\ rec[a].start < rec[a].end /\ SpaceEnd \in Nat
        /\ RoomEnd(a) \in Nat /\ RoomEnd(a) <= SpaceEnd /\ start \in Nat
    BY <1>4, Known, RoomFree DEF Proper, Address
  <1>9. f \in Nat /\ rec[a].end <= f /\ f + n <= RoomEnd(a)
    <2>0. IF start = 0 THEN rec[a].end + n <= RoomEnd(a)
          ELSE rec[a].end <= start /\ start + (start + n) <= RoomEnd(a)
      BY <1>4, <1>8, FitsPlain DEF n
    <2>1. CASE start = 0
      BY <1>5, <1>8, <2>0, <2>1
    <2>2. CASE start # 0
      BY <1>3, <1>5, <1>8, <2>0, <2>2
    <2> QED BY <2>1, <2>2
  <1>10. f + n <= SpaceEnd /\ 2 < f
    BY <1>3, <1>8, <1>9
  <1>11. /\ rec'[new] = [start |-> f, end |-> f + n, limits |-> limits]
         /\ \A b \in Area : b # new => rec'[b] = rec[b]
    BY <1>6, <1>7, Known
  <1>12. rec' \in [Area -> [start : 0 .. SpaceEnd, end : 0 .. SpaceEnd, limits : Limits]]
    <2>1. rec \in [Area -> [start : 0 .. SpaceEnd, end : 0 .. SpaceEnd, limits : Limits]]
      BY DEF AInv, Bounded
    <2>2. f \in 0 .. SpaceEnd /\ f + n \in 0 .. SpaceEnd
      BY <1>3, <1>8, <1>9, <1>10
    <2> QED BY <1>6, <2>1, <2>2
  <1>13. rec' \in [Area -> Rec]
    <2>1. 0 .. SpaceEnd \subseteq Nat
      OBVIOUS
    <2> QED BY <1>12, <2>1 DEF Rec
  <1>14. Proper(rec'[new])
    BY <1>3, <1>9, <1>10, <1>11 DEF Proper, Page
  <1>15. PICK k : k = IndexOf(a)
    OBVIOUS
  <1>16. k \in DOMAIN areas /\ areas[k] = a
    BY <1>4, <1>15, RoomFree
  <1>17. Ordered(areas, rec') /\ Between(areas, rec', k, rec'[new])
    <2>1. \A j \in DOMAIN areas : areas[j] \in Area /\ areas[j] # new
      BY <1>7, Known, MembersOf DEF Live
    <2>2. \A j \in DOMAIN areas : rec'[areas[j]] = rec[areas[j]]
      BY <1>11, <2>1
    <2>3. Ordered(areas, rec')
      BY <2>2 DEF AInv, Sound, Ordered
    <2>4. rec'[areas[k]].end <= rec'[new].start
      BY <1>9, <1>11, <1>16, <2>2
    <2>5. ASSUME NEW j \in DOMAIN areas, k < j PROVE rec'[new].end <= rec'[areas[j]].start
      <3>1. RoomEnd(a) <= rec[areas[j]].start
        BY <1>4, <1>15, <2>5, RoomFree
      <3>2. rec[areas[j]].start \in Nat
        BY <2>1, Known
      <3> QED BY <1>3, <1>8, <1>9, <1>11, <2>2, <3>1, <3>2
    <2> QED BY <2>3, <2>4, <2>5 DEF Between
  <1>18. areas' \in Seq(Area) /\ Ordered(areas', rec') /\ ToSet(areas') = Live \cup {new}
    <2>1. areas' = InsertAt(areas, k + 1, new)
      BY <1>6, <1>15
    <2>2. new \in Area \ ToSet(areas)
      BY <1>7 DEF Live
    <2>3. areas \in Seq(Area)
      BY Known
    <2> QED BY <1>13, <1>14, <1>16, <1>17, <2>1, <2>2, <2>3, Inserts DEF Live
  <1>19. Valid' = Live \cup {new}
    BY <1>6, <1>7, <1>18, Known DEF Valid, Live, NoSplit
  <1>20. Ledger(owned', Live \cup {new}, rec') /\ Moved(owned', f, n, 0, 1)
    <2>1. \A v \in Span(f, n) : v \in Int /\ f <= v /\ v < f + n
      BY <1>3, <1>9 DEF Span
    <2>2. \A v \in Address : v \in Span(f, n) <=> f <= v /\ v < f + n
      BY <1>3, <1>9 DEF Span, Address
    <2>3. ASSUME NEW v \in Span(f, n) PROVE ~ Covered(Valid, rec, v)
      <3>1. v \in Int /\ v < RoomEnd(a) /\ rec[a].end <= v
        BY <1>3, <1>8, <1>9, <2>1, <2>3
      <3> QED BY <1>4, <1>7, <3>1, RoomFree
    <2>4. ASSUME NEW v \in Address
          PROVE  Covered(Live \cup {new}, rec', v) <=> Covered(Valid, rec, v) \/ v \in Span(f, n)
      <3>1. Within(rec'[new], v) <=> v \in Span(f, n)
        BY <1>11, <2>2 DEF Within
      <3>2. \A b \in Live : Within(rec'[b], v) <=> Within(rec[b], v)
        BY <1>7, <1>11, Known
      <3> QED BY <1>7, <3>1, <3>2 DEF Covered
    <2> QED BY <1>3, <1>6, <1>9, <1>10, <2>3, <2>4, Credits
  <1>21. TypeOK'
    <2>1. owned' \in [Address -> Int]
      BY <1>20 DEF Ledger
    <2>2. box' \in [Area -> SUBSET PageNo]
      BY <1>6 DEF AInv, TypeOK
    <2>3. {curArea', endArea'} \subseteq Area \cup {None}
      BY <1>6, <1>8 DEF AInv, TypeOK
    <2>4. rec' \in [Area -> [start : Word, end : Word, limits : Limits]]
      BY <1>12, Widens
    <2> QED BY <1>6, <1>18, <2>1, <2>2, <2>3, <2>4 DEF AInv, TypeOK
  <1>22. Bounded' /\ Explained'
    <2>1. \A v \in Address : owned[v] > 0 => owned'[v] > 0
      BY <1>20 DEF Moved
    <2> QED BY <1>6, <1>12, <2>1, StillExplained DEF Bounded
  <1>23. Sound'
    BY <1>6, <1>18, <1>19, <1>20 DEF Sound, CutSound
  <1>24. RangeStep
    BY <1>3, <1>9, <1>10, <1>20, Gives
  <1> QED BY <1>21, <1>22, <1>23, <1>24 DEF AInv

\* What find_area_for_delete returns.
LEMMA Holder ==
  ASSUME AInv, split = NoSplit, NEW f \in Int, NEW e \in Int, NEW a, a = PickHolder(f, e), a # None
  PROVE  /\ a \in Live /\ a \in Area /\ rec[a].start <= f /\ e <= rec[a].end
         /\ rec[a].start \in Nat /\ rec[a].end \in Nat /\ 2 <= rec[a].start
         /\ rec[a].start < rec[a].end /\ rec[a].end <= SpaceEnd
  <1> DEFINE good == {b \in Live : rec[b].start <= f /\ e <= rec[b].end}
  <1>1. a = Pick(good) /\ good \ {curArea} \subseteq Live
    BY DEF PickHolder
  <1> HIDE DEF good
  <1>2. a \in good
    BY <1>1, PickIn
  <1> QED BY <1>2, Known DEF good, Proper

\* kvm_delete of all of an area: nobody else had its addresses.
LEMMA DeleteWholeStep ==
  ASSUME AInv, NoneWraps, NEW start \in Address, NEW size \in Sizes, DeleteWhole(start, size)
  PROVE  AInv' /\ RangeStep
  <1>1. PICK n : n = Align(size)
    OBVIOUS
  <1>2. n \in Nat /\ n > 0 /\ start \in Nat /\ n \in Int /\ start \in Int /\ start + n \in Int
    BY <1>1, Sizing DEF Address
  <1>3. PICK a : a = PickHolder(start, start + n)
    OBVIOUS
  <1>4. /\ split = NoSplit /\ split' = split /\ fault' = fault /\ curArea' = curArea
        /\ endArea' = endArea /\ filled' = filled /\ undefined' = undefined
        /\ a # None /\ RangeOf(a) = Span(start, n)
        /\ areas' = RemoveFirst(areas, a)
        /\ owned' = Debit(Span(start, n)) /\ gone' = gone \cup Lost(Span(start, n))
        /\ gone' \subseteq gone \cup Faulter
        /\ rec' = [rec EXCEPT ![a] = Nowhere]
        /\ box' = [box EXCEPT ![a] = {}]
        /\ areasNum' = OneLess
    <2>0. Plus(start, Align(size)) = start + n
      <3>1. start \in 0 .. SpaceEnd
        BY Known DEF Address
      <3> QED BY <1>1, <3>1, Sums
    <2>1. /\ split = NoSplit /\ a # None /\ rec[a].start = start /\ start + n = rec[a].end
          /\ GiveBack(start, size)
          /\ split' = split /\ fault' = fault /\ curArea' = curArea
          /\ endArea' = endArea /\ filled' = filled /\ undefined' = undefined
          /\ areas' = RemoveFirst(areas, a)
          /\ rec' = [rec EXCEPT ![a] = Nowhere]
          /\ box' = [box EXCEPT ![a] = {}]
          /\ areasNum' = OneLess
      BY <1>3, <2>0 DEF DeleteWhole, Unlocked
    <2>2. RangeOf(a) = Span(start, n)
      <3>1. RangeOf(a) = start .. (start + n) - 1
        BY <2>1 DEF RangeOf
      <3> QED BY <1>2, <3>1 DEF Span
    <2>3. /\ owned' = Debit(Span(start, n)) /\ gone' = gone \cup Lost(Span(start, n))
          /\ gone' \subseteq gone \cup Faulter
      BY <1>1, <1>2, <2>1, GivesBack
    <2> QED BY <2>1, <2>2, <2>3
  <1>5. /\ a \in Live /\ a \in Area /\ rec[a].start <= start /\ start + n <= rec[a].end
        /\ rec[a].start \in Nat /\ rec[a].end \in Nat /\ 2 <= rec[a].start
        /\ rec[a].start < rec[a].end /\ rec[a].end <= SpaceEnd /\ SpaceEnd \in Nat
    <2>1. PICK e : e = start + n
      OBVIOUS
    <2>2. e \in Int /\ e = start + n
      BY <1>2, <2>1
    <2>3. a = PickHolder(start, e)
      BY <1>3, <2>1
    <2> QED BY <1>2, <1>4, <2>2, <2>3, Holder, Known
  <1>6. \A v \in Int : v \in Span(start, n) <=> Within(rec[a], v)
    BY <1>4, <1>5 DEF RangeOf, Within
  <1>7. start + n <= SpaceEnd /\ 0 < start
    BY <1>2, <1>5
  <1>8. rec' \in [Area -> [start : 0 .. SpaceEnd, end : 0 .. SpaceEnd, limits : Limits]]
    <2>1. rec \in [Area -> [start : 0 .. SpaceEnd, end : 0 .. SpaceEnd, limits : Limits]]
      BY DEF AInv, Bounded
    <2>2. Nowhere \in [start : 0 .. SpaceEnd, end : 0 .. SpaceEnd, limits : Limits]
      BY <1>5, SpaceAssumption DEF Nowhere
    <2> QED BY <1>4, <2>1, <2>2
  <1>9. \A b \in Area : b # a => rec'[b] = rec[b]
    BY <1>4
  <1>10. areas' \in Seq(Area) /\ Ordered(areas', rec) /\ ToSet(areas') = Live \ {a}
    <2>1. PICK k \in DOMAIN areas : areas[k] = a
      BY <1>5, Known, MembersOf DEF Live
    <2>2. areas \in Seq(Area) /\ rec \in [Area -> Rec] /\ Ordered(areas, rec)
      BY Known DEF AInv, Sound
    <2>3. areas' = RemoveFirst(areas, areas[k])
      BY <1>4, <2>1
    <2> QED BY <2>1, <2>2, <2>3, Removes DEF Live
  <1>11. Ordered(areas', rec')
    <2>1. \A i \in DOMAIN areas' : areas'[i] \in Area \ {a}
      BY <1>10, Known, MembersOf
    <2>2. \A i \in DOMAIN areas' : rec'[areas'[i]] = rec[areas'[i]]
      BY <1>9, <2>1
    <2> QED BY <1>10, <2>2 DEF Ordered
  <1>12. Valid = Live /\ Valid' = Live \ {a}
    BY <1>4, <1>10, Known DEF Valid, Live, NoSplit
  <1>13. Ledger(owned', Live \ {a}, rec') /\ Moved(owned', start, n, 1, 0)
    <2>1. \A v \in Span(start, n) : Covered(Valid, rec, v)
      <3>1. \A v \in Span(start, n) : v \in Int
        BY <1>2 DEF Span
      <3> QED BY <1>5, <1>6, <1>12, <3>1 DEF Covered
    <2>2. ASSUME NEW v \in Address
          PROVE  Covered(Live \ {a}, rec', v) <=> Covered(Valid, rec, v) /\ v \notin Span(start, n)
      <3>1. v \in Int
        BY DEF Address
      <3>2. v \in Span(start, n) <=> Within(rec[a], v)
        BY <1>6, <3>1
      <3>3. \A b \in Live : b # a => (Within(rec'[b], v) <=> Within(rec[b], v))
        BY <1>9, Known
      <3>4. \A b \in Live : Within(rec[b], v) /\ Within(rec[a], v) => b = a
        BY <1>5, <3>1, Alone
      <3> QED BY <1>5, <1>12, <3>2, <3>3, <3>4 DEF Covered
    <2> QED BY <1>2, <1>4, <1>7, <2>1, <2>2, Debits
  <1>14. TypeOK'
    <2>1. owned' \in [Address -> Int]
      BY <1>13 DEF Ledger
    <2>2. box' \in [Area -> SUBSET PageNo]
      BY <1>4 DEF AInv, TypeOK
    <2>3. areasNum' \in 0 .. UintMod - 1
      BY <1>4, SpaceAssumption DEF OneLess, AInv, TypeOK
    <2>4. rec' \in [Area -> [start : Word, end : Word, limits : Limits]]
      BY <1>8, Widens
    <2> QED BY <1>4, <1>10, <2>1, <2>2, <2>3, <2>4 DEF AInv, TypeOK
  <1>15. Bounded' /\ Explained'
    <2>1. \A v \in Address : v \notin Span(start, n) /\ owned[v] > 0 => owned'[v] > 0
      BY <1>13 DEF Moved
    <2> QED BY <1>4, <1>8, <2>1, LostExplained DEF Bounded
  <1>16. Sound'
    BY <1>4, <1>11, <1>12, <1>13 DEF Sound, CutSound
  <1>17. RangeStep
    BY <1>2, <1>7, <1>13, Takes
  <1> QED BY <1>14, <1>15, <1>16, <1>17 DEF AInv

LEMMA SpanIs ==
  ASSUME NEW f \in Int, NEW n \in Int
  PROVE  /\ Span(f, n) = f .. (f + n) - 1
         /\ \A v \in Int : v \in Span(f, n) <=> f <= v /\ v < f + n
  BY DEF Span

\* kvm_delete of the beginning or of the end of an area.
LEMMA DeleteSideStep ==
  ASSUME AInv, NoneWraps, NEW start \in Address, NEW size \in Sizes, DeleteSide(start, size)
  PROVE  AInv' /\ RangeStep
  <1> DEFINE n == Align(size)
             a == PickHolder(start, start + n)
  <1>1. /\ split = NoSplit /\ split' = split /\ fault' = fault /\ curArea' = curArea
        /\ areas' = areas /\ box' = box /\ areasNum' = areasNum
        /\ endArea' = endArea /\ filled' = filled /\ undefined' = undefined
        /\ a # None
        /\ \/ /\ rec[a].start = start /\ start + n < rec[a].end
              /\ rec' = [rec EXCEPT ![a].start = start + n]
           \/ /\ rec[a].start < start /\ start + n = rec[a].end
              /\ rec' = [rec EXCEPT ![a].end = start]
        /\ GiveBack(start, size)
    <2>1. Plus(start, n) = start + n
      <3>1. start \in 0 .. SpaceEnd
        BY Known DEF Address
      <3> QED BY <3>1, Sums
    <2> QED BY <2>1 DEF DeleteSide, Unlocked
  <1>2. n \in Nat /\ n > 0 /\ start \in Nat /\ n \in Int /\ start \in Int
    BY Sizing DEF Address
  <1>0. /\ owned' = Debit(Span(start, n)) /\ gone' = gone \cup Lost(Span(start, n))
        /\ gone' \subseteq gone \cup Faulter
    BY <1>1, <1>2, GivesBack
  <1> HIDE DEF n
  <1>3. PICK e : e = start + n
    OBVIOUS
  <1>4. e \in Int /\ a = PickHolder(start, e)
    BY <1>2, <1>3
  <1> HIDE DEF a
  <1>5. /\ a \in Live /\ a \in Area /\ rec[a].start <= start /\ e <= rec[a].end
        /\ rec[a].start \in Nat /\ rec[a].end \in Nat /\ 2 <= rec[a].start
        /\ rec[a].start < rec[a].end /\ rec[a].end <= SpaceEnd /\ SpaceEnd \in Nat
    BY <1>1, <1>2, <1>4, Holder, Known
  <1>6. owned' = Debit(Span(start, n)) /\ start + n <= SpaceEnd /\ 0 < start
    BY <1>0, <1>2, <1>3, <1>5
  <1>7. \A v \in Int : v \in Span(start, n) <=> start <= v /\ v < e
    BY <1>2, <1>3, SpanIs, Zenon
  <1>8. \A b \in Area : b # a => rec'[b] = rec[b]
    BY <1>1, <1>5, Known
  <1>9. /\ rec[a].start <= rec'[a].start /\ rec'[a].end <= rec[a].end
        /\ rec'[a].start < rec'[a].end
        /\ rec' \in [Area -> [start : 0 .. SpaceEnd, end : 0 .. SpaceEnd, limits : Limits]]
        /\ \A v \in Int : Within(rec'[a], v) <=> Within(rec[a], v) /\ v \notin Span(start, n)
    <2>1. rec \in [Area -> [start : 0 .. SpaceEnd, end : 0 .. SpaceEnd, limits : Limits]]
      BY DEF AInv, Bounded
    <2>2. start \in 0 .. SpaceEnd /\ e \in 0 .. SpaceEnd
      BY <1>2, <1>3, <1>5
    <2>3. CASE rec[a].start = start /\ e < rec[a].end /\ rec' = [rec EXCEPT ![a].start = e]
      <3>1. rec'[a].start = e /\ rec'[a].end = rec[a].end
        BY <1>5, <2>1, <2>3
      <3>2. rec' \in [Area -> [start : 0 .. SpaceEnd, end : 0 .. SpaceEnd, limits : Limits]]
        BY <2>1, <2>2, <2>3
      <3>3. ASSUME NEW v \in Int
            PROVE  Within(rec'[a], v) <=> Within(rec[a], v) /\ v \notin Span(start, n)
        BY <1>2, <1>3, <1>5, <1>7, <2>3, <3>1 DEF Within
      <3> QED BY <1>2, <1>3, <1>5, <2>3, <3>1, <3>2, <3>3
    <2>4. CASE rec[a].start < start /\ e = rec[a].end /\ rec' = [rec EXCEPT ![a].end = start]
      <3>1. rec'[a].start = rec[a].start /\ rec'[a].end = start
        BY <1>5, <2>1, <2>4
      <3>2. rec' \in [Area -> [start : 0 .. SpaceEnd, end : 0 .. SpaceEnd, limits : Limits]]
        BY <2>1, <2>2, <2>4
      <3>3. ASSUME NEW v \in Int
            PROVE  Within(rec'[a], v) <=> Within(rec[a], v) /\ v \notin Span(start, n)
        BY <1>2, <1>3, <1>5, <1>7, <2>4, <3>1 DEF Within
      <3> QED BY <1>2, <1>3, <1>5, <2>4, <3>1, <3>2, <3>3
    <2> QED BY <1>1, <1>3, <2>3, <2>4
  <1>10. rec' \in [Area -> Rec] /\ rec'[a].start \in Nat /\ rec'[a].end \in Nat
    <2>1. 0 .. SpaceEnd \subseteq Nat
      OBVIOUS
    <2>2. rec' \in [Area -> Rec]
      BY <1>9, <2>1 DEF Rec
    <2> QED BY <1>5, <2>2 DEF Rec
  <1>11. Ordered(areas, rec')
    <2>1. PICK k \in DOMAIN areas : areas[k] = a
      BY <1>5, Known, MembersOf DEF Live
    <2>2. Proper(rec'[a])
      BY <1>5, <1>9, <1>10 DEF Proper, Page
    <2>3. Ordered(areas, rec)
      BY DEF AInv, Sound
    <2>4. ASSUME NEW j \in DOMAIN areas, k < j PROVE rec'[a].end <= rec[areas[j]].start
      <3>1. rec[a].end <= rec[areas[j]].start
        BY <2>1, <2>3, <2>4 DEF Ordered
      <3>2. rec[areas[j]].start \in Nat
        BY <2>4, Known, MembersOf
      <3> QED BY <1>5, <1>9, <1>10, <3>1, <3>2
    <2>5. \A b \in ToSet(areas) \ {a} : rec'[b] = rec[b]
      BY <1>8, Known DEF Live
    <2> QED BY <1>9, <1>10, <2>1, <2>2, <2>3, <2>4, <2>5, Known, Resizes
  <1>12. Valid = Live /\ Valid' = Live
    BY <1>1, Known DEF Valid, Live
  <1>13. Ledger(owned', Live, rec') /\ Moved(owned', start, n, 1, 0)
    <2>1. \A v \in Span(start, n) : Covered(Valid, rec, v)
      <3>1. \A v \in Span(start, n) : v \in Int
        BY <1>2 DEF Span
      <3>2. ASSUME NEW v \in Span(start, n) PROVE Within(rec[a], v)
        <4>1. v \in Int /\ start <= v /\ v < e
          BY <1>7, <3>1
        <4> QED BY <1>2, <1>4, <1>5, <4>1 DEF Within
      <3> QED BY <1>5, <1>12, <3>2 DEF Covered
    <2>2. ASSUME NEW v \in Address
          PROVE  Covered(Live, rec', v) <=> Covered(Valid, rec, v) /\ v \notin Span(start, n)
      <3>1. v \in Int
        BY DEF Address
      <3>2. v \in Span(start, n) => Within(rec[a], v)
        <4>1. v \in Span(start, n) <=> start <= v /\ v < e
          BY <1>7, <3>1
        <4> QED BY <1>2, <1>4, <1>5, <3>1, <4>1 DEF Within
      <3>3. \A b \in Live : b # a => (Within(rec'[b], v) <=> Within(rec[b], v))
        BY <1>8, Known
      <3>4. \A b \in Live : Within(rec[b], v) /\ Within(rec[a], v) => b = a
        BY <1>5, <3>1, Alone
      <3> QED BY <1>5, <1>9, <1>12, <3>1, <3>2, <3>3, <3>4 DEF Covered
    <2> QED BY <1>2, <1>6, <2>1, <2>2, Debits
  <1>14. TypeOK'
    <2>1. owned' \in [Address -> Int]
      BY <1>13 DEF Ledger
    <2>2. rec' \in [Area -> [start : Word, end : Word, limits : Limits]]
      BY <1>9, Widens
    <2> QED BY <1>0, <1>1, <2>1, <2>2 DEF AInv, TypeOK
  <1>15. Bounded' /\ Explained'
    <2>1. \A v \in Address : v \notin Span(start, n) /\ owned[v] > 0 => owned'[v] > 0
      BY <1>13 DEF Moved
    <2> QED BY <1>0, <1>1, <1>9, <2>1, LostExplained DEF Bounded
  <1>16. Sound'
    BY <1>1, <1>11, <1>12, <1>13 DEF Sound, CutSound
  <1>17. RangeStep
    BY <1>2, <1>6, <1>13, Takes
  <1> QED BY <1>14, <1>15, <1>16, <1>17 DEF AInv

\* kvm_delete from within an area: its right part has a place behind it.
LEMMA DeleteCutsStep ==
  ASSUME AInv, NoneWraps, NEW start \in Address, NEW size \in Sizes, NEW new \in FreeAreas,
         DeleteCuts(start, size, new)
  PROVE  AInv' /\ RangeStep
  <1> DEFINE n == Align(size)
             a == PickHolder(start, start + n)
  <1>1. /\ split = NoSplit /\ split' = [left |-> a, new |-> new]
        /\ fault' = fault /\ curArea' = curArea
        /\ areas' = areas /\ box' = [box EXCEPT ![new] = {}] /\ areasNum' = areasNum
        /\ endArea' = endArea /\ filled' = filled /\ undefined' = undefined
        /\ a # None
        /\ rec[a].start < start /\ start + n < rec[a].end
        /\ rec' = [rec EXCEPT ![new] = [rec[a] EXCEPT !.start = start + n], ![a].end = start]
        /\ GiveBack(start, size)
    <2>1. Plus(start, n) = start + n
      <3>1. start \in 0 .. SpaceEnd
        BY Known DEF Address
      <3> QED BY <3>1, Sums
    <2> QED BY <2>1 DEF DeleteCuts, Unlocked
  <1>2. n \in Nat /\ n > 0 /\ start \in Nat /\ n \in Int /\ start \in Int
    BY Sizing DEF Address
  <1>0. /\ owned' = Debit(Span(start, n)) /\ gone' = gone \cup Lost(Span(start, n))
        /\ gone' \subseteq gone \cup Faulter
    BY <1>1, <1>2, GivesBack
  <1> HIDE DEF n
  <1>3. PICK e : e = start + n
    OBVIOUS
  <1>4. e \in Int /\ a = PickHolder(start, e)
    BY <1>2, <1>3
  <1> HIDE DEF a
  <1>5. /\ a \in Live /\ a \in Area
        /\ rec[a].start \in Nat /\ rec[a].end \in Nat /\ 2 <= rec[a].start
        /\ rec[a].end <= SpaceEnd /\ SpaceEnd \in Nat
        /\ rec[a].start < start /\ start < e /\ e < rec[a].end
    BY <1>1, <1>2, <1>3, <1>4, Holder, Known
  <1>6. owned' = Debit(Span(start, n)) /\ start + n <= SpaceEnd /\ 0 < start
    BY <1>0, <1>2, <1>3, <1>5
  <1>7. \A v \in Int : v \in Span(start, n) <=> start <= v /\ v < e
    BY <1>2, <1>3, SpanIs, Zenon
  <1>8. Valid = Live /\ new \in Area \ Live /\ new # a
    BY <1>1, <1>5, Known DEF FreeAreas
  <1>9. /\ rec' \in [Area -> [start : 0 .. SpaceEnd, end : 0 .. SpaceEnd, limits : Limits]]
        /\ rec'[a].start = rec[a].start /\ rec'[a].end = start
        /\ rec'[new].start = e /\ rec'[new].end = rec[a].end
        /\ \A b \in Area : b # a /\ b # new => rec'[b] = rec[b]
    <2>1. rec \in [Area -> [start : 0 .. SpaceEnd, end : 0 .. SpaceEnd, limits : Limits]]
      BY DEF AInv, Bounded
    <2>2. start \in 0 .. SpaceEnd /\ e \in 0 .. SpaceEnd
      BY <1>2, <1>4, <1>5
    <2> DEFINE right == [rec[a] EXCEPT !.start = e]
    <2>3. /\ right \in [start : 0 .. SpaceEnd, end : 0 .. SpaceEnd, limits : Limits]
          /\ right.start = e /\ right.end = rec[a].end
      BY <1>5, <2>1, <2>2
    <2>4. rec' = [rec EXCEPT ![new] = right, ![a].end = start]
      BY <1>1, <1>3
    <2> HIDE DEF right
    <2> QED BY <1>5, <1>8, <2>1, <2>2, <2>3, <2>4
  <1>10. rec' \in [Area -> Rec]
    <2>1. 0 .. SpaceEnd \subseteq Nat
      OBVIOUS
    <2> QED BY <1>9, <2>1 DEF Rec
  <1>11. PICK k \in DOMAIN areas : areas[k] = a
    BY <1>5, Known, MembersOf DEF Live
  <1>12. /\ Ordered(areas, rec)
         /\ \A j \in DOMAIN areas : areas[j] \in Live /\ areas[j] # new
         /\ \A b \in Live : b # a => rec'[b] = rec[b]
    BY <1>8, <1>9, Known, MembersOf DEF AInv, Sound, Live
  <1>13. \A j \in DOMAIN areas :
           k < j => rec[areas[j]].start \in Nat /\ rec[a].end <= rec[areas[j]].start
    BY <1>11, <1>12, Known DEF Ordered
  <1>14. Ordered(areas, rec')
    <2>1. Proper(rec'[a])
      BY <1>2, <1>5, <1>9 DEF Proper, Page
    <2>2. ASSUME NEW j \in DOMAIN areas, k < j PROVE rec'[a].end <= rec[areas[j]].start
      <3>1. rec[areas[j]].start \in Nat /\ rec[a].end <= rec[areas[j]].start
        BY <1>13, <2>2
      <3> QED BY <1>2, <1>4, <1>5, <1>9, <3>1
    <2>3. \A b \in ToSet(areas) \ {a} : rec'[b] = rec[b]
      BY <1>12 DEF Live
    <2>4. rec[a].start <= rec'[a].start
      BY <1>5, <1>9
    <2> QED BY <1>10, <1>11, <1>12, <2>1, <2>2, <2>3, <2>4, Known, Resizes
  <1>15. Proper(rec'[new]) /\ Between(areas, rec', k, rec'[new])
    <2>1. Proper(rec'[new])
      BY <1>2, <1>4, <1>5, <1>9 DEF Proper, Page
    <2>2. rec'[areas[k]].end <= rec'[new].start
      BY <1>2, <1>4, <1>5, <1>9, <1>11
    <2>3. ASSUME NEW j \in DOMAIN areas, k < j PROVE rec'[new].end <= rec'[areas[j]].start
      <3>1. areas[j] # a
        <4>1. k \in Int /\ j \in Int
          BY Known, MembersOf
        <4>2. areas \in Seq(Area) /\ rec \in [Area -> Rec]
          BY Known
        <4> QED BY <1>11, <1>12, <2>3, <4>1, <4>2, OnlyOnce
      <3> QED BY <1>9, <1>12, <1>13, <2>3, <3>1
    <2> QED BY <2>1, <2>2, <2>3 DEF Between
  <1>16. Valid' = Live \cup {new} /\ Live' = Live
    BY <1>1, <1>8, Known DEF Valid, Live
  <1>17. Ledger(owned', Live \cup {new}, rec') /\ Moved(owned', start, n, 1, 0)
    <2>1. \A v \in Span(start, n) : Covered(Valid, rec, v)
      <3>1. \A v \in Span(start, n) : v \in Int
        BY <1>2 DEF Span
      <3>2. ASSUME NEW v \in Span(start, n) PROVE Within(rec[a], v)
        <4>1. v \in Int /\ start <= v /\ v < e
          BY <1>7, <3>1
        <4> QED BY <1>2, <1>4, <1>5, <4>1 DEF Within
      <3> QED BY <1>5, <1>8, <3>2 DEF Covered
    <2>2. ASSUME NEW v \in Address
          PROVE  Covered(Live \cup {new}, rec', v) <=> Covered(Valid, rec, v) /\ v \notin Span(start, n)
      <3>1. v \in Int
        BY DEF Address
      <3>2. v \in Span(start, n) <=> start <= v /\ v < e
        BY <1>7, <3>1
      <3>3. Within(rec'[a], v) \/ Within(rec'[new], v)
              <=> Within(rec[a], v) /\ v \notin Span(start, n)
        BY <1>2, <1>4, <1>5, <1>9, <3>1, <3>2 DEF Within
      <3>4. \A b \in Live : b # a => (Within(rec'[b], v) <=> Within(rec[b], v))
        BY <1>12
      <3>5. \A b \in Live : Within(rec[b], v) /\ Within(rec[a], v) => b = a
        BY <1>5, <3>1, Alone
      <3>6. v \in Span(start, n) => Within(rec[a], v)
        BY <1>2, <1>4, <1>5, <3>1, <3>2 DEF Within
      <3> QED BY <1>5, <1>8, <3>3, <3>4, <3>5, <3>6 DEF Covered
    <2> QED BY <1>2, <1>6, <2>1, <2>2, Debits
  <1>18. TypeOK'
    <2>1. owned' \in [Address -> Int]
      BY <1>17 DEF Ledger
    <2>2. box' \in [Area -> SUBSET PageNo]
      BY <1>1 DEF AInv, TypeOK
    <2>3. split' \in [left : Area \cup {None}, new : Area \cup {None}]
      BY <1>1, <1>5, <1>8
    <2>4. rec' \in [Area -> [start : Word, end : Word, limits : Limits]]
      BY <1>9, Widens
    <2> QED BY <1>0, <1>1, <2>1, <2>2, <2>3, <2>4 DEF AInv, TypeOK
  <1>19. Bounded' /\ Explained'
    <2>1. \A v \in Address : v \notin Span(start, n) /\ owned[v] > 0 => owned'[v] > 0
      BY <1>17 DEF Moved
    <2> QED BY <1>0, <1>1, <1>9, <2>1, LostExplained DEF Bounded
  <1>20. CutSound'
    <2>1. split'.left = areas'[k] /\ split'.new = new /\ k \in DOMAIN areas'
      BY <1>1, <1>11
    <2>2. split'.new \in Area \ Live' /\ Proper(rec'[split'.new])
      BY <1>8, <1>15, <1>16, <2>1
    <2>3. Between(areas', rec', k, rec'[split'.new])
      BY <1>1, <1>15, <2>1
    <2> QED BY <2>1, <2>2, <2>3 DEF CutSound
  <1>21. Sound'
    BY <1>1, <1>14, <1>16, <1>17, <1>20 DEF Sound
  <1>22. RangeStep
    BY <1>2, <1>6, <1>17, Takes
  <1> QED BY <1>18, <1>19, <1>21, <1>22 DEF AInv

\* kvm_delete links the right part where it has kept its place.
LEMMA DeleteLinksStep ==
  ASSUME AInv, DeleteLinks
  PROVE  AInv' /\ RangeStep
  <1> DEFINE a == split.left
             new == split.new
             k == IndexOf(a)
  <1>1. /\ split # NoSplit /\ split' = NoSplit
        /\ fault' = fault /\ curArea' = new /\ rec' = rec /\ box' = box
        /\ areas' = InsertAt(areas, k + 1, new)
        /\ areasNum' = (areasNum + 1) % UintMod
        /\ endArea' = IF k = Len(areas) THEN new ELSE endArea
        /\ filled' = filled /\ owned' = owned /\ gone' = gone
        /\ undefined' = undefined
    BY DEF DeleteLinks
  <1>2. new \in Area \ Live /\ Proper(rec[new])
    BY <1>1 DEF AInv, Sound, CutSound
  <1>3. k \in DOMAIN areas /\ Between(areas, rec, k, rec[new])
    <2>1. PICK i \in DOMAIN areas : a = areas[i] /\ Between(areas, rec, i, rec[new])
      BY <1>1 DEF AInv, Sound, CutSound
    <2>2. a \in Live
      BY <2>1, Known, MembersOf DEF Live
    <2>3. k \in DOMAIN areas /\ areas[k] = a
      BY <2>2, RoomFree
    <2>4. areas \in Seq(Area) /\ rec \in [Area -> Rec] /\ Ordered(areas, rec)
      BY Known DEF AInv, Sound
    <2> HIDE DEF k
    <2>5. k = i
      BY <2>1, <2>3, <2>4, OnlyOnce
    <2> QED BY <2>1, <2>5
  <1> HIDE DEF new, k
  <1>4. areas' \in Seq(Area) /\ Ordered(areas', rec) /\ ToSet(areas') = Live \cup {new}
    <2>1. areas \in Seq(Area) /\ rec \in [Area -> Rec] /\ Ordered(areas, rec)
      BY Known DEF AInv, Sound
    <2>2. new \in Area \ ToSet(areas)
      BY <1>2 DEF Live
    <2> QED BY <1>1, <1>2, <1>3, <2>1, <2>2, Inserts DEF Live
  <1>5. Valid = Live \cup {new} /\ Valid' = Live \cup {new}
    <2>1. Valid = Live \cup {new}
      BY <1>1, Known DEF new
    <2>2. Valid' = Live \cup {new}
      BY <1>1, <1>2, <1>4, Known DEF Valid, Live, NoSplit
    <2> QED BY <2>1, <2>2
  <1>6. TypeOK'
    <2>1. areasNum' \in 0 .. UintMod - 1
      BY <1>1, SpaceAssumption DEF AInv, TypeOK
    <2>2. {curArea', endArea'} \subseteq Area \cup {None}
      BY <1>1, <1>2 DEF AInv, TypeOK
    <2>3. split' \in [left : Area \cup {None}, new : Area \cup {None}]
      BY <1>1 DEF NoSplit
    <2> QED BY <1>1, <1>4, <2>1, <2>2, <2>3 DEF AInv, TypeOK
  <1>7. Bounded' /\ Explained'
    BY <1>1 DEF AInv, Bounded, Explained, Owned
  <1>8. Sound'
    BY <1>1, <1>4, <1>5 DEF AInv, Sound, CutSound
  <1>9. RangeStep
    BY <1>1 DEF RangeStep
  <1> QED BY <1>6, <1>7, <1>8, <1>9 DEF AInv

\* Freed memory is followed.
LEMMA FollowStep ==
  ASSUME AInv, Follow
  PROVE  AInv' /\ RangeStep
  <1>1. TypeOK'
    BY DEF Follow, AInv, TypeOK
  <1>2. Bounded' /\ Explained' /\ Sound'
    BY DEF Follow, AInv, Bounded, Explained, Owned, Sound, CutSound, Valid, Live
  <1>3. RangeStep
    BY DEF Follow, RangeStep
  <1> QED BY <1>1, <1>2, <1>3 DEF AInv

\* An address the fault handler finds an area for is with somebody.
LEMMA HeldIsOwned ==
  ASSUME AInv, NEW v, Holders(v) # {}
  PROVE  v \in Address /\ v \in Owned
  <1>1. PICK a : a \in Live \cup ({curArea} \cap Valid) /\ v \in RangeOf(a)
    BY DEF Holders
  <1>2. a \in Valid /\ a \in Area
    BY <1>1, ValidAreas
  <1>3. Proper(rec[a])
    BY <1>2, ValidAreas
  <1>4. v \in Int /\ Within(rec[a], v)
    BY <1>1, <1>2, Known DEF RangeOf, Within
  <1>5. v \in Address
    BY <1>2, <1>3, <1>4, Known DEF Proper, Within, Address
  <1>6. owned[v] = 1
    BY <1>2, <1>4, <1>5 DEF AInv, Sound, Ledger, Covered
  <1> QED BY <1>5, <1>6 DEF Owned

\* A page fault moves no area.
LEMMA FaultStep ==
  ASSUME AInv, NEW t \in Faulter, FaultNext(t)
  PROVE  AInv' /\ RangeStep
  <1> DEFINE Faults == [pc : {"run", "raised", "found", "dead"},
                        adr : Address \cup {SpaceEnd}, area : Area \cup {None}]
             Handled == /\ fault' \in [Faulter -> Faults] /\ gone' \subseteq Faulter
                        /\ \A u \in Faulter : u # t => fault'[u] = fault[u]
                        /\ gone \ {t} \subseteq gone'
                        /\ fault'[t].pc = "found" => fault'[t].adr \in Owned \/ t \in gone'
             Filled == filled' \in [PageNo -> Nat] /\ box' \in [Area -> SUBSET PageNo]
  <1>1. /\ fault \in [Faulter -> Faults] /\ SpaceEnd \in Nat /\ gone \subseteq Faulter
        /\ filled \in [PageNo -> Nat] /\ box \in [Area -> SUBSET PageNo]
        /\ {curArea, endArea} \subseteq Area \cup {None}
    BY Known DEF AInv, TypeOK
  <1>2. SUFFICES ASSUME Handled, Filled,
                        UNCHANGED <<areas, rec, curArea, endArea, areasNum, split, owned>>,
                        undefined' \in BOOLEAN
                 PROVE  AInv' /\ RangeStep
    <2>1. ASSUME NEW v \in Address \cup {SpaceEnd}, Raise(t, v)
          PROVE  Handled
      <3>1. fault' = [fault EXCEPT ![t] = [pc |-> "raised", adr |-> v, area |-> None]]
            /\ gone' = gone
        BY <2>1 DEF Raise
      <3> QED BY <1>1, <3>1
    <2>2. ASSUME Find(t)
          PROVE  Handled
      <3>1. PICK a : /\ a = Pick(Holders(fault[t].adr)) /\ a # None
                     /\ fault' = [fault EXCEPT ![t].pc = "found", ![t].area = a]
                     /\ gone' = gone
        BY <2>2 DEF Find
      <3>2. a \in Holders(fault[t].adr)
        <4>1. PICK good : good = Holders(fault[t].adr)
          OBVIOUS
        <4>2. good \ {curArea} \subseteq Live
          BY <4>1 DEF Holders
        <4> QED BY <3>1, <4>1, <4>2, PickIn
      <3>3. a \in Area
        BY <3>2, ValidAreas DEF Holders
      <3>4. fault[t].adr \in Owned
        BY <3>2, HeldIsOwned
      <3> QED BY <1>1, <3>1, <3>3, <3>4
    <2>3. ASSUME FindStale(t)
          PROVE  Handled
      BY <1>1, <2>3 DEF FindStale
    <2>4. ASSUME Miss(t) \/ MapFails(t)
          PROVE  Handled
      <3>1. CASE Miss(t)
        BY <1>1, <3>1 DEF Miss
      <3>2. CASE MapFails(t)
        BY <1>1, <3>2 DEF MapFails
      <3> QED BY <2>4, <3>1, <3>2
    <2>5. ASSUME BringIn(t)
          PROVE  Handled /\ filled' \in [PageNo -> Nat] /\ PageOf(fault[t].adr) \in PageNo
      <3>1. PICK p : p = PageOf(fault[t].adr)
        OBVIOUS
      <3>2. /\ fault' = [fault EXCEPT ![t] = Running] /\ gone' = gone \ {t}
            /\ filled' = [filled EXCEPT ![p] = filled[p] + 1]
        BY <2>5, <3>1 DEF BringIn
      <3>3. Running \in Faults /\ Running.pc = "run"
        BY <1>1 DEF Running, Address
      <3>4. Handled
        BY <1>1, <3>2, <3>3
      <3>5. fault[t].adr \in 0 .. SpaceEnd
        BY <1>1 DEF Address
      <3>6. p \in PageNo
        BY <3>1, <3>5 DEF PageNo
      <3>7. filled[p] + 1 \in Nat
        BY <1>1, <3>6
      <3> QED BY <1>1, <3>1, <3>2, <3>4, <3>6, <3>7
    <2>6. CASE \E v \in Address \cup {SpaceEnd} : Raise(t, v)
      <3>1. PICK v \in Address \cup {SpaceEnd} : Raise(t, v)
        BY <2>6
      <3> QED BY <1>1, <1>2, <2>1, <3>1 DEF Raise, AInv, TypeOK
    <2>7. CASE Find(t)
      BY <1>1, <1>2, <2>2, <2>7 DEF Find, AInv, TypeOK
    <2>8. CASE FindStale(t)
      BY <1>1, <1>2, <2>3, <2>8 DEF FindStale, AInv, TypeOK
    <2>9. CASE Miss(t) \/ MapFails(t)
      BY <1>1, <1>2, <2>4, <2>9 DEF Miss, MapFails, AInv, TypeOK
    <2>10. CASE Map(t)
      <3>1. BringIn(t) /\ box' = [box EXCEPT ![fault[t].area] = @ \cup {PageOf(fault[t].adr)}]
        BY <2>10 DEF Map
      <3>2. box' \in [Area -> SUBSET PageNo]
        BY <1>1, <2>5, <3>1
      <3>3. Handled /\ Filled
        BY <2>5, <3>1, <3>2
      <3> QED BY <1>2, <2>10, <3>3 DEF Map, AInv, TypeOK
    <2>11. CASE MapStale(t)
      BY <1>1, <1>2, <2>5, <2>11 DEF MapStale
    <2> QED BY <2>6, <2>7, <2>8, <2>9, <2>10, <2>11 DEF FaultNext
  <1>3. TypeOK' /\ Bounded'
    BY <1>2 DEF AInv, TypeOK, Bounded
  <1>4. Explained'
    <2> SUFFICES ASSUME NEW u \in Faulter, fault'[u].pc = "found"
                 PROVE  fault'[u].adr \in Owned' \/ u \in gone'
      BY DEF Explained
    <2>1. Owned' = Owned
      BY <1>2 DEF Owned
    <2>2. CASE u = t
      BY <1>2, <2>1, <2>2
    <2>3. CASE u # t
      BY <1>2, <2>1, <2>3 DEF AInv, Explained
    <2> QED BY <2>2, <2>3
  <1>5. Sound'
    BY <1>2 DEF AInv, Sound, CutSound, Valid, Live
  <1>6. RangeStep
    BY <1>2 DEF RangeStep
  <1> QED BY <1>3, <1>4, <1>5, <1>6 DEF AInv
-----------------------------------------------------------------------------
(***************************************************************************)
(* The theorems.                                                           *)
(***************************************************************************)

LEMMA InitInv == Init => AInv
  <1> SUFFICES ASSUME Init PROVE AInv
    OBVIOUS
  <1>1. PICK first \in Area, stack \in Area :
          /\ first # stack
          /\ areas = <<first, stack>>
          /\ rec = [a \in Area |->
                     CASE a = first -> [Nowhere EXCEPT !.start = Page, !.end = Page + FirstSize]
                       [] a = stack -> [Nowhere EXCEPT !.start = StackStart, !.end = SpaceEnd]
                       [] OTHER     -> Nowhere]
          /\ box = [a \in Area |-> {}]
          /\ curArea = None /\ endArea = stack /\ areasNum = 2
          /\ split = NoSplit
          /\ fault = [t \in Faulter |-> Running]
          /\ filled = [p \in PageNo |-> 0]
          /\ owned = [v \in Address |-> IF v \in BootRanges THEN 1 ELSE 0]
          /\ gone = {} /\ undefined = FALSE
    BY DEF Init
  <1>2. /\ SpaceEnd \in Nat /\ StackStart \in Int /\ FirstSize \in Nat /\ FirstSize > 0
        /\ 2 + FirstSize <= StackStart /\ StackStart < SpaceEnd /\ None \notin Area
        /\ 0 \in Limits
    <2>1. StackStart \in Int
      <3>1. PICK z : z = SpaceEnd - StackSize
        OBVIOUS
      <3>2. z \in Nat /\ z + 1 < AddrMod
        BY <3>1, SpaceAssumption DEF Page
      <3>3. Plus(z, 1) = z + 1
        BY <3>2, PlusPlain
      <3> QED BY <3>1, <3>2, <3>3 DEF StackStart, Align, Page
    <2> QED BY <2>1, SpaceAssumption DEF Page
  <1>3. /\ rec[first].start = 2 /\ rec[first].end = 2 + FirstSize
        /\ rec[stack].start = StackStart /\ rec[stack].end = SpaceEnd
        /\ rec \in [Area -> [start : 0 .. SpaceEnd, end : 0 .. SpaceEnd, limits : Limits]]
    <2> DEFINE R == [start : 0 .. SpaceEnd, end : 0 .. SpaceEnd, limits : Limits]
               f == [Nowhere EXCEPT !.start = Page, !.end = Page + FirstSize]
               s == [Nowhere EXCEPT !.start = StackStart, !.end = SpaceEnd]
    <2>1. /\ 0 \in 0 .. SpaceEnd /\ 2 \in 0 .. SpaceEnd /\ SpaceEnd \in 0 .. SpaceEnd
          /\ 2 + FirstSize \in 0 .. SpaceEnd /\ StackStart \in 0 .. SpaceEnd
      BY <1>2
    <2>2. Nowhere \in R
      BY <1>2, <2>1 DEF Nowhere
    <2>3. f \in R /\ f.start = 2 /\ f.end = 2 + FirstSize
      BY <2>2, <2>1 DEF Page
    <2>4. s \in R /\ s.start = StackStart /\ s.end = SpaceEnd
      BY <2>2, <2>1
    <2>5. rec = [a \in Area |-> IF a = first THEN f ELSE IF a = stack THEN s ELSE Nowhere]
      BY <1>1
    <2> HIDE DEF R, f, s
    <2>6. rec[first] = f /\ rec[stack] = s /\ rec \in [Area -> R]
      BY <1>1, <2>3, <2>4, <2>2, <2>5
    <2> QED BY <2>3, <2>4, <2>6 DEF R
  <1>4. /\ areas \in Seq(Area) /\ DOMAIN areas = {1, 2}
        /\ areas[1] = first /\ areas[2] = stack
    BY <1>1
  <1>5. TypeOK
    <2>1. 0 \in Address
      BY <1>2 DEF Address
    <2>2. fault \in [Faulter -> [pc : {"run", "raised", "found", "dead"},
                                 adr : Address \cup {SpaceEnd}, area : Area \cup {None}]]
      BY <1>1, <2>1 DEF Running
    <2>3. areasNum \in 0 .. UintMod - 1
      BY <1>1, SpaceAssumption
    <2>4. split \in [left : Area \cup {None}, new : Area \cup {None}]
      BY <1>1 DEF NoSplit
    <2>5. box \in [Area -> SUBSET PageNo] /\ filled \in [PageNo -> Nat]
      BY <1>1
    <2>6. owned \in [Address -> Int]
      BY <1>1
    <2>7. {curArea, endArea} \subseteq Area \cup {None} /\ undefined \in BOOLEAN
      BY <1>1
    <2>8. rec \in [Area -> [start : Word, end : Word, limits : Limits]]
      BY <1>3, Widens
    <2> QED BY <1>1, <1>4, <2>2, <2>3, <2>4, <2>5, <2>6, <2>7, <2>8 DEF TypeOK
  <1>6. Bounded /\ Explained
    BY <1>1, <1>3 DEF Bounded, Explained, Running
  <1>7. Ordered(areas, rec)
    BY <1>2, <1>3, <1>4 DEF Ordered, Proper, Page
  <1>8. Ledger(owned, Valid, rec)
    <2>1. Valid = {first, stack}
      BY <1>1, <1>2, <1>4 DEF Valid, Live, ToSet, NoSplit
    <2>2. ASSUME NEW v \in Address
          PROVE  v \in BootRanges <=> Covered({first, stack}, rec, v)
      BY <1>2, <1>3 DEF BootRanges, Covered, Within, Address, Page
    <2>3. /\ owned \in [Address -> {0, 1}]
          /\ \A v \in Address : owned[v] = 1 <=> v \in BootRanges
      BY <1>1
    <2> QED BY <2>1, <2>2, <2>3 DEF Ledger
  <1> QED BY <1>1, <1>5, <1>6, <1>7, <1>8 DEF AInv, Sound, CutSound

LEMMA StepInv ==
  ASSUME NoneWraps, AInv, [Next]_vars
  PROVE  AInv' /\ RangeStep
  <1>1. ASSUME NEW start \in Address, NEW size \in Sizes, NewStale(start, size)
        PROVE  AInv' /\ RangeStep
    BY <1>1, FollowStep DEF NewStale
  <1>2. ASSUME NEW start \in Address, DeleteStale(start)
        PROVE  AInv' /\ RangeStep
    BY <1>2, FollowStep DEF DeleteStale
  <1>3. CASE NewNext
    BY <1>1, <1>3, NewGrowsStep, NewAreaStep DEF NewNext
  <1>4. CASE DeleteNext
    BY <1>2, <1>4, DeleteWholeStep, DeleteSideStep, DeleteCutsStep, DeleteLinksStep
      DEF DeleteNext
  <1>5. CASE \E t \in Faulter : FaultNext(t)
    BY <1>5, FaultStep
  <1>6. CASE UNCHANGED vars
    <2>1. TypeOK' /\ Bounded'
      BY <1>6 DEF AInv, TypeOK, Bounded, vars
    <2>2. Explained' /\ Sound'
      BY <1>6 DEF AInv, Explained, Owned, Sound, CutSound, Valid, Live, vars
    <2>3. RangeStep
      BY <1>6 DEF RangeStep, vars
    <2> QED BY <2>1, <2>2, <2>3 DEF AInv
  <1> QED BY <1>3, <1>4, <1>5, <1>6 DEF Next

LEMMA Always ==
  ASSUME NoneWraps
  PROVE  Spec => []AInv
  <1>1. AInv /\ [Next]_vars => AInv'
    BY StepInv
  <1> QED BY InitInv, <1>1, PTL DEF Spec

\* The space has its type while no sum of kvm_new and kvm_delete wraps.
THEOREM SpaceTyped == NoneWraps => (Spec => []TypeOK)
  <1> SUFFICES ASSUME NoneWraps PROVE Spec => []TypeOK
    OBVIOUS
  <1>1. AInv => TypeOK
    BY DEF AInv
  <1> QED BY <1>1, Always, PTL

\* While no sum wraps, the areas of the list stay in order, apart, not empty
\* and before USER_VIRADR_END (the cases of kvm_new at kvmprocess.c:150 and of
\* kvm_delete at kvmprocess.c:271).  The code does not refuse sizes that wrap,
\* and with one of them areas overlap (kvmprocess.c:221).
THEOREM AreasStayApart == NoneWraps => (Spec => []AreasApart)
  <1> SUFFICES ASSUME NoneWraps PROVE Spec => []AreasApart
    OBVIOUS
  <1>1. AInv => AreasApart
    BY DEF AInv, Sound, Ordered, Proper, AreasApart
  <1> QED BY <1>1, Always, PTL

\* While no sum wraps, an address that is with somebody and in no area the
\* fault handler looks at is in the right part that kvm_delete has yet to link
\* (kvmprocess.c:302), and nowhere else.
THEOREM MissesAreExplained == NoneWraps => (Spec => []MissesExplained)
  <1> SUFFICES ASSUME NoneWraps PROVE Spec => []MissesExplained
    OBVIOUS
  <1>1. AInv => MissesExplained
    <2> SUFFICES ASSUME AInv, NEW t \in Faulter, fault[t].adr \in Owned,
                        Holders(fault[t].adr) = {}
                 PROVE  fault[t].adr \in Unlinked
      BY DEF MissesExplained
    <2>1. PICK v : v = fault[t].adr
      OBVIOUS
    <2>2. v \in Address /\ v \in Int /\ owned[v] = 1
      BY <2>1 DEF Owned, AInv, Sound, Ledger, Address
    <2>3. PICK a \in Valid : Within(rec[a], v)
      BY <2>2 DEF AInv, Sound, Ledger, Covered
    <2>4. v \in RangeOf(a)
      <3>1. rec[a].start \in Nat /\ rec[a].end \in Nat
        BY <2>3, ValidAreas, Known
      <3> QED BY <2>2, <2>3, <3>1 DEF RangeOf, Within
    <2>5. a \notin Live
      BY <2>1, <2>4 DEF Holders
    <2>6. split # NoSplit /\ a = split.new
      BY <2>3, <2>5, Known
    <2> QED BY <2>1, <2>4, <2>6 DEF Unlinked
  <1> QED BY <1>1, Always, PTL

\* While no sum wraps, and whatever kvm_delete does between the steps of the
\* fault handler: a page is brought in only for an address that somebody has,
\* or one that was given back since its area was found, or for what is left of
\* a deleted area (vma_map_fairvadrs_core, kvmprocess.c:518).
THEOREM FillsAreExplained == NoneWraps => (Spec => FillsExplained)
  <1> SUFFICES ASSUME NoneWraps PROVE Spec => FillsExplained
    OBVIOUS
  <1> DEFINE Fills == \A t \in Faulter :
                        fault[t].pc = "found" /\ fault'[t].pc = "run" =>
                          fault[t].adr \in Owned \/ t \in gone
  <1>1. AInv => Fills
    BY DEF AInv, Explained
  <1>2. AInv /\ [Next]_vars => [Fills]_vars
    BY <1>1
  <1> QED BY <1>2, Always, PTL DEF Spec, FillsExplained

\* While no sum wraps, the space implements AddressRanges: kvm_new never gives
\* out an address that somebody has, and kvm_delete succeeds on none that
\* nobody has.
THEOREM SpaceKeepsRanges == NoneWraps => (Spec => RangesKept)
  <1> SUFFICES ASSUME NoneWraps PROVE Spec => RangesKept
    OBVIOUS
  <1>1. Init => Ranges!Init
    BY DEF Init, Ranges!Init
  <1>2. AInv /\ [Next]_vars => [Ranges!Next]_owned
    BY StepInv DEF RangeStep
  <1> QED BY <1>1, <1>2, Always, PTL DEF Spec, RangesKept, Ranges!Spec
-----------------------------------------------------------------------------
(***************************************************************************)
(* For every number of indexes, addresses and pages: the lists of tables   *)
(* are the tree that the processor follows, and one call changes one       *)
(* mapping, wherever mem_divide fails and whatever the way back looks at.  *)
(*                                                                         *)
(* The argument: a new table is hung where there was none, and an empty    *)
(* one is taken off, so no address sees a difference.  The way back goes   *)
(* by wrong indexes, but only an empty table on the list of its level is   *)
(* given back, so it cannot take another's mapping.                        *)
(***************************************************************************)
Value == Frame \cup PAdr \cup {Krnl, NULL}

TablesIn(l) == {Root} \cup l[2] \cup l[3] \cup l[4]

\* Table t is one of those that point to tables of level k.
Above(l, k, t) ==
  \/ k = 2 /\ t = Root
  \/ k = 3 /\ t \in l[2]
  \/ k = 4 /\ t \in l[3]

\* Entries point one level down, every table hangs in one entry.
Tree(e, l) ==
  /\ e \in [Table -> [Idx -> Value]]
  /\ l \in [Level -> SUBSET Frame]
  /\ l[2] \cap l[3] = {} /\ l[2] \cap l[4] = {} /\ l[3] \cap l[4] = {}
  /\ \A i \in Idx : e[Root][i] \in l[2] \cup {NULL, Krnl}
  /\ \A i \in Idx \ KrnlIdx : e[Root][i] # Krnl
  /\ \A t \in l[2], i \in Idx : e[t][i] \in l[3] \cup {NULL}
  /\ \A t \in l[3], i \in Idx : e[t][i] \in l[4] \cup {NULL}
  /\ \A t \in l[4], i \in Idx : e[t][i] \in PAdr \cup {NULL}
  /\ \A f \in l[2] \cup l[3] \cup l[4] : \E t \in TablesIn(l), i \in Idx : e[t][i] = f
  /\ \A t, u \in TablesIn(l), i, j \in Idx :
       e[t][i] = e[u][j] /\ e[t][i] \in Frame => t = u /\ i = j

\* What the processor finds for v, level by level.
At2(e, v) == e[Root][v[1]]
At3(e, v) == Below(e, At2(e, v), v[2])
At4(e, v) == Below(e, At3(e, v), v[3])
Look(e, v) == Below(e, At4(e, v), v[4])

Alike(e, d) == \A v \in VAdr : Look(d, v) = Look(e, v)

\* v has become x, all else is as it was.
Mapped(e, d, v, x) ==
  \A w \in VAdr : Look(d, w) = IF w = v THEN x ELSE Look(e, w)

\* Only tables t and f have changed; only f is new on the lists.
Elsewhere(e, d, t, f) == \A r \in Table : r # t /\ r # f => d[r] = e[r]
Wider(l, m, f) == \A j \in Level : l[j] \subseteq m[j] /\ m[j] \subseteq l[j] \cup {f}

LEMMA Apart ==
  /\ Root \in Table /\ Frame \subseteq Table
  /\ NULL \notin Frame /\ NULL # Root /\ NULL # Krnl /\ NULL \notin PAdr
  /\ Root \notin Frame /\ Krnl \notin Frame /\ PAdr \cap Frame = {}
  /\ Krnl \notin PAdr /\ Root \notin PAdr /\ 2 \in Level /\ 3 \in Level /\ 4 \in Level
  BY TablesAssumption DEF Table, Level

LEMMA Indexes ==
  ASSUME NEW v \in VAdr
  PROVE  /\ v[1] \in Idx \ KrnlIdx /\ v[2] \in Idx /\ v[3] \in Idx /\ v[4] \in Idx
         /\ \A w \in VAdr : w # v => w[1] # v[1] \/ w[2] # v[2] \/ w[3] # v[3] \/ w[4] # v[4]
  <1>1. v \in [1 .. 4 -> Idx] /\ v[1] \notin KrnlIdx
    BY TablesAssumption
  <1>2. ASSUME NEW w \in VAdr, w[1] = v[1], w[2] = v[2], w[3] = v[3], w[4] = v[4]
        PROVE  w = v
    <2>1. w \in [1 .. 4 -> Idx]
      BY TablesAssumption
    <2>2. \A i \in 1 .. 4 : w[i] = v[i]
      BY <1>2
    <2> QED BY <1>1, <2>1, <2>2
  <1> QED BY <1>1, <1>2

\* No table hangs in two entries.
LEMMA OneParent ==
  ASSUME NEW e, NEW l, Tree(e, l), NEW t \in TablesIn(l), NEW u \in TablesIn(l),
         NEW i \in Idx, NEW j \in Idx, e[t][i] = e[u][j], e[t][i] \in Frame
  PROVE  t = u /\ i = j
  BY DEF Tree

\* On the way down from v there is a table of each level, or none.
LEMMA OnTheWay ==
  ASSUME NEW e, NEW l, Tree(e, l), NEW v \in VAdr
  PROVE  /\ At2(e, v) \in l[2] \cup {NULL}
         /\ At3(e, v) \in l[3] \cup {NULL}
         /\ At4(e, v) \in l[4] \cup {NULL}
         /\ Look(e, v) \in PAdr \cup {NULL}
  <1> USE Apart, Indexes
  <1>1. At2(e, v) \in l[2] \cup {NULL}
    BY DEF Tree, At2
  <1>2. At3(e, v) \in l[3] \cup {NULL}
    BY <1>1 DEF Tree, At3, Below
  <1>3. At4(e, v) \in l[4] \cup {NULL}
    BY <1>2 DEF Tree, At4, Below
  <1>4. Look(e, v) \in PAdr \cup {NULL}
    BY <1>3 DEF Tree, Look, Below
  <1> QED BY <1>1, <1>2, <1>3, <1>4
-----------------------------------------------------------------------------
\* transform_pt1 to transform_pt3 make a table.
LEMMA Grows ==
  ASSUME NEW e, NEW l, Tree(e, l), NEW k \in Level, NEW t, Above(l, k, t),
         NEW i \in Idx, e[t][i] = NULL,
         NEW f \in Frame, f \notin l[2] \cup l[3] \cup l[4],
         k = 2 => i \notin KrnlIdx,
         NEW d \in [Table -> [Idx -> Value]], NEW m \in [Level -> SUBSET Frame],
         \A j \in Idx : d[f][j] = NULL,
         d[t][i] = f, \A j \in Idx \ {i} : d[t][j] = e[t][j],
         \A r \in Table \ {t, f} : d[r] = e[r],
         m[k] = l[k] \cup {f}, \A j \in Level \ {k} : m[j] = l[j]
  PROVE  Tree(d, m) /\ Alike(e, d)
  <1> USE Apart
  <1>1. t \in TablesIn(l) /\ t \in Table /\ t # f
    BY DEF Above, TablesIn, Tree
  <1>2. TablesIn(m) = TablesIn(l) \cup {f}
    BY DEF TablesIn, Level
  <1>3. \A r \in TablesIn(l), j \in Idx : d[r][j] = IF r = t /\ j = i THEN f ELSE e[r][j]
    BY <1>1 DEF TablesIn, Tree
  <1>4. /\ m[2] = IF k = 2 THEN l[2] \cup {f} ELSE l[2]
        /\ m[3] = IF k = 3 THEN l[3] \cup {f} ELSE l[3]
        /\ m[4] = IF k = 4 THEN l[4] \cup {f} ELSE l[4]
    OBVIOUS
  <1>5. k = 2 \/ k = 3 \/ k = 4
    BY DEF Level
  <1>6. Tree(d, m)
    <2>1. m[2] \cap m[3] = {} /\ m[2] \cap m[4] = {} /\ m[3] \cap m[4] = {}
      BY <1>4, <1>5 DEF Tree
    <2>2. \A j \in Idx : d[Root][j] \in m[2] \cup {NULL, Krnl}
      BY <1>3, <1>4, <1>5 DEF Tree, TablesIn, Above
    <2>3. \A j \in Idx \ KrnlIdx : d[Root][j] # Krnl
      BY <1>3 DEF Tree, TablesIn
    <2>4. ASSUME NEW r \in m[2], NEW j \in Idx PROVE d[r][j] \in m[3] \cup {NULL}
      <3>1. CASE r = f
        BY <3>1
      <3>2. CASE r \in l[2] /\ r # f
        <4>1. d[r][j] = IF r = t /\ j = i THEN f ELSE e[r][j]
          BY <1>3, <3>2 DEF TablesIn
        <4>2. r = t => k = 3
          BY <3>2, <1>5 DEF Above, Tree
        <4>3. e[r][j] \in l[3] \cup {NULL}
          BY <3>2 DEF Tree
        <4> QED BY <1>4, <4>1, <4>2, <4>3
      <3> QED BY <1>4, <3>1, <3>2
    <2>5. \A r \in m[3], j \in Idx : d[r][j] \in m[4] \cup {NULL}
      BY <1>3, <1>4, <1>5 DEF Tree, TablesIn, Above
    <2>6. \A r \in m[4], j \in Idx : d[r][j] \in PAdr \cup {NULL}
      BY <1>3, <1>4, <1>5 DEF Tree, TablesIn, Above
    <2>7. ASSUME NEW g \in m[2] \cup m[3] \cup m[4]
          PROVE  \E r \in TablesIn(m), j \in Idx : d[r][j] = g
      <3>1. CASE g = f
        BY <1>1, <1>2, <3>1
      <3>2. CASE g # f
        <4>1. g \in l[2] \cup l[3] \cup l[4] /\ g \in Frame
          BY <1>4, <3>2
        <4>2. PICK r \in TablesIn(l), j \in Idx : e[r][j] = g
          BY <4>1 DEF Tree
        <4>3. d[r][j] = g
          BY <1>3, <4>1, <4>2
        <4> QED BY <1>2, <4>2, <4>3
      <3> QED BY <3>1, <3>2
    <2>8. ASSUME NEW r \in TablesIn(m), NEW u \in TablesIn(m), NEW j \in Idx, NEW h \in Idx,
                 d[r][j] = d[u][h], d[r][j] \in Frame
          PROVE  r = u /\ j = h
      <3>1. r \in TablesIn(l) /\ u \in TablesIn(l)
        BY <1>2, <2>8
      <3>2. \A q \in TablesIn(l), n \in Idx : e[q][n] # f
        BY DEF Tree, TablesIn
      <3> QED BY <1>3, <2>8, <3>1, <3>2 DEF Tree
    <2> QED BY <2>1, <2>2, <2>3, <2>4, <2>5, <2>6, <2>7, <2>8 DEF Tree
  <1>7. ASSUME NEW v \in VAdr PROVE Look(d, v) = Look(e, v)
    <2>1. /\ At2(e, v) \in l[2] \cup {NULL} /\ At3(e, v) \in l[3] \cup {NULL}
          /\ At4(e, v) \in l[4] \cup {NULL}
      BY OnTheWay
    <2> USE Indexes
    <2>2. At2(d, v) = At2(e, v) \/ (At2(e, v) = NULL /\ At2(d, v) = f)
      BY <1>3 DEF At2, TablesIn
    <2>3. At2(d, v) = f => At3(d, v) = NULL /\ At3(e, v) = NULL
      BY <2>1, <2>2 DEF At3, Below, Tree
    <2>4. At2(d, v) # f => At3(d, v) = At3(e, v) \/ (At3(e, v) = NULL /\ At3(d, v) = f)
      BY <1>3, <2>1, <2>2 DEF At3, Below, TablesIn
    <2>5. At3(d, v) = f => At4(d, v) = NULL /\ At4(e, v) = NULL
      BY <2>1, <2>2, <2>3, <2>4 DEF At4, Below, Tree
    <2>6. At3(d, v) # f => At4(d, v) = At4(e, v) \/ (At4(e, v) = NULL /\ At4(d, v) = f)
      BY <1>3, <2>1, <2>3, <2>4 DEF At4, Below, TablesIn
    <2>7. At4(d, v) = f => Look(d, v) = NULL /\ Look(e, v) = NULL
      BY <2>1, <2>5, <2>6 DEF Look, Below, Tree
    <2>8. At4(d, v) # f => Look(d, v) = Look(e, v)
      <3>1. At4(d, v) # f => At4(d, v) = At4(e, v)
        BY <2>5, <2>6
      <3>2. At4(e, v) \in l[4] => At4(e, v) # t
        BY DEF Above, Tree
      <3> QED BY <1>3, <2>1, <3>1, <3>2 DEF Look, Below, TablesIn
    <2> QED BY <2>7, <2>8
  <1> QED BY <1>6, <1>7 DEF Alike

\* untransform_pt1 and untransform_pt2 give a table back.
LEMMA Shrinks ==
  ASSUME NEW e, NEW l, Tree(e, l), NEW k \in Level, NEW t, Above(l, k, t),
         NEW i \in Idx, NEW f \in l[k], e[t][i] = f, \A j \in Idx : e[f][j] = NULL,
         NEW d \in [Table -> [Idx -> Value]], NEW m \in [Level -> SUBSET Frame],
         d[t][i] = NULL, \A j \in Idx \ {i} : d[t][j] = e[t][j],
         \A r \in Table \ {t} : d[r] = e[r],
         m[k] = l[k] \ {f}, \A j \in Level \ {k} : m[j] = l[j]
  PROVE  Tree(d, m) /\ Alike(e, d)
  <1> USE Apart
  <1>1. t \in TablesIn(l) /\ t \in Table /\ f \in Frame /\ t # f
    BY DEF Above, TablesIn, Tree
  <1>2. \A r \in TablesIn(l), j \in Idx : d[r][j] = IF r = t /\ j = i THEN NULL ELSE e[r][j]
    BY <1>1 DEF TablesIn, Tree
  <1>3. /\ m[2] = IF k = 2 THEN l[2] \ {f} ELSE l[2]
        /\ m[3] = IF k = 3 THEN l[3] \ {f} ELSE l[3]
        /\ m[4] = IF k = 4 THEN l[4] \ {f} ELSE l[4]
    OBVIOUS
  <1>4. k = 2 \/ k = 3 \/ k = 4
    BY DEF Level
  <1>5. /\ m[2] = l[2] \ {f} /\ m[3] = l[3] \ {f} /\ m[4] = l[4] \ {f}
        /\ TablesIn(m) = TablesIn(l) \ {f}
    BY <1>1, <1>3, <1>4 DEF Tree, TablesIn
  <1>6. ASSUME NEW r \in TablesIn(l), NEW j \in Idx, e[r][j] = f
        PROVE  r = t /\ j = i
    BY <1>1, <1>6 DEF Tree
  <1>7. Tree(d, m)
    <2>1. m[2] \cap m[3] = {} /\ m[2] \cap m[4] = {} /\ m[3] \cap m[4] = {}
      BY <1>5 DEF Tree
    <2>2. \A j \in Idx : d[Root][j] \in m[2] \cup {NULL, Krnl}
      BY <1>2, <1>5, <1>6 DEF Tree, TablesIn
    <2>3. \A j \in Idx \ KrnlIdx : d[Root][j] # Krnl
      BY <1>2 DEF Tree, TablesIn
    <2>4. \A r \in m[2], j \in Idx : d[r][j] \in m[3] \cup {NULL}
      BY <1>2, <1>5, <1>6 DEF Tree, TablesIn
    <2>5. \A r \in m[3], j \in Idx : d[r][j] \in m[4] \cup {NULL}
      BY <1>2, <1>5, <1>6 DEF Tree, TablesIn
    <2>6. \A r \in m[4], j \in Idx : d[r][j] \in PAdr \cup {NULL}
      BY <1>2, <1>5 DEF Tree, TablesIn
    <2>7. ASSUME NEW g \in m[2] \cup m[3] \cup m[4]
          PROVE  \E r \in TablesIn(m), j \in Idx : d[r][j] = g
      <3>1. g \in l[2] \cup l[3] \cup l[4] /\ g \in Frame /\ g # f
        BY <1>5
      <3>2. PICK r \in TablesIn(l), j \in Idx : e[r][j] = g
        BY <3>1 DEF Tree
      <3>3. r # f
        BY <3>1, <3>2
      <3>4. d[r][j] = g
        BY <1>2, <3>1, <3>2
      <3> QED BY <1>5, <3>2, <3>3, <3>4
    <2>8. ASSUME NEW r \in TablesIn(m), NEW u \in TablesIn(m), NEW j \in Idx, NEW h \in Idx,
                 d[r][j] = d[u][h], d[r][j] \in Frame
          PROVE  r = u /\ j = h
      BY <1>2, <1>5, <2>8 DEF Tree
    <2> QED BY <2>1, <2>2, <2>3, <2>4, <2>5, <2>6, <2>7, <2>8 DEF Tree
  <1>8. ASSUME NEW v \in VAdr PROVE Look(d, v) = Look(e, v)
    <2>1. /\ At2(e, v) \in l[2] \cup {NULL} /\ At3(e, v) \in l[3] \cup {NULL}
          /\ At4(e, v) \in l[4] \cup {NULL}
      BY OnTheWay
    <2> USE Indexes
    <2>2. At2(d, v) = At2(e, v) \/ (At2(e, v) = f /\ At2(d, v) = NULL)
      BY <1>2 DEF At2, TablesIn
    <2>3. At2(e, v) = f => At3(d, v) = NULL /\ At3(e, v) = NULL
      BY <1>1, <2>1, <2>2 DEF At3, Below, Tree
    <2>4. At2(e, v) # f => At3(d, v) = At3(e, v) \/ (At3(e, v) = f /\ At3(d, v) = NULL)
      BY <1>2, <2>1, <2>2 DEF At3, Below, TablesIn
    <2>5. At3(e, v) = f => At4(d, v) = NULL /\ At4(e, v) = NULL
      BY <1>1, <2>1, <2>2, <2>3, <2>4 DEF At4, Below, Tree
    <2>6. At3(e, v) # f => At4(d, v) = At4(e, v) \/ (At4(e, v) = f /\ At4(d, v) = NULL)
      BY <1>2, <2>1, <2>3, <2>4 DEF At4, Below, TablesIn
    <2>7. At4(e, v) = f => Look(d, v) = NULL /\ Look(e, v) = NULL
      <3>1. At4(e, v) = f => At4(d, v) \in {f, NULL}
        BY <2>5, <2>6
      <3> QED BY <1>1, <3>1 DEF Look, Below
    <2>8. At4(e, v) # f => Look(d, v) = Look(e, v)
      <3>1. At4(e, v) # f => At4(d, v) = At4(e, v)
        BY <2>5, <2>6
      <3>2. At4(e, v) \in l[4] => At4(e, v) # t
        BY DEF Above, Tree
      <3> QED BY <1>2, <2>1, <3>1, <3>2 DEF Look, Below, TablesIn
    <2> QED BY <2>7, <2>8
  <1> QED BY <1>7, <1>8 DEF Alike

\* An entry of the last level is written or cleared: v is mapped to x, and no
\* other address is mapped to anything else.
LEMMA Puts ==
  ASSUME NEW e, NEW l, Tree(e, l), NEW v \in VAdr, At4(e, v) # NULL,
         NEW x \in PAdr \cup {NULL}, NEW d \in [Table -> [Idx -> Value]],
         d[At4(e, v)][v[4]] = x,
         \A j \in Idx \ {v[4]} : d[At4(e, v)][j] = e[At4(e, v)][j],
         \A r \in Table \ {At4(e, v)} : d[r] = e[r]
  PROVE  /\ Tree(d, l)
         /\ \A w \in VAdr : At2(d, w) = At2(e, w) /\ At3(d, w) = At3(e, w)
         /\ Mapped(e, d, v, x)
  <1> DEFINE t == At4(e, v)
  <1> USE Apart
  <1>1. t \in l[4] /\ t \in Table /\ t # Root /\ t \notin l[2] \cup l[3] /\ v[4] \in Idx
    <2>1. t \in l[4]
      BY OnTheWay
    <2> HIDE DEF t
    <2> QED BY <2>1, Indexes DEF Tree
  <1>2. \A r \in TablesIn(l), j \in Idx : d[r][j] = IF r = t /\ j = v[4] THEN x ELSE e[r][j]
    BY <1>1 DEF TablesIn, Tree
  <1>3. \A r \in Table \ {t} : d[r] = e[r]
    OBVIOUS
  <1>4. \A w \in VAdr : /\ At2(e, w) \in l[2] \cup {NULL} /\ At3(e, w) \in l[3] \cup {NULL}
                        /\ At4(e, w) \in l[4] \cup {NULL}
    BY OnTheWay
  <1>5. ASSUME NEW w \in VAdr
        PROVE  At2(d, w) = At2(e, w) /\ At3(d, w) = At3(e, w) /\ At4(d, w) = At4(e, w)
    <2> HIDE DEF t
    <2>1. At2(d, w) = At2(e, w)
      BY <1>1, <1>3 DEF At2
    <2>2. At3(d, w) = At3(e, w)
      BY <1>1, <1>3, <1>4, <2>1 DEF At3, Below, Tree
    <2>3. At4(d, w) = At4(e, w)
      <3>1. At3(e, w) # NULL => At3(e, w) \in Table \ {t}
        BY <1>1, <1>4 DEF Tree
      <3> QED BY <1>3, <2>2, <3>1 DEF At4, Below
    <2> QED BY <2>1, <2>2, <2>3
  <1>6. ASSUME NEW w \in VAdr, w # v, At4(e, w) = t PROVE w[4] # v[4]
    <2>1. At4(e, w) \in Frame /\ At4(e, v) \in Frame /\ At4(e, w) = At4(e, v)
      BY <1>1, <1>6 DEF Tree
    <2>2. At3(e, w) = At3(e, v) /\ w[3] = v[3]
      <3>1. At3(e, w) \in l[3] /\ At3(e, v) \in l[3]
        BY <1>4, <2>1 DEF At4, Below
      <3>2. At4(e, w) = e[At3(e, w)][w[3]] /\ At4(e, v) = e[At3(e, v)][v[3]]
        BY <2>1 DEF At4, Below
      <3>3. At3(e, w) \in TablesIn(l) /\ At3(e, v) \in TablesIn(l)
        BY <3>1 DEF TablesIn
      <3>4. w[3] \in Idx /\ v[3] \in Idx
        BY Indexes
      <3>5. e[At3(e, w)][w[3]] = e[At3(e, v)][v[3]] /\ e[At3(e, w)][w[3]] \in Frame
        BY <2>1, <3>2
      <3> QED BY <3>3, <3>4, <3>5, OneParent
    <2>3. At2(e, w) = At2(e, v) /\ w[2] = v[2]
      <3>1. At3(e, w) \in l[3] /\ At3(e, w) # NULL
        BY <1>4, <2>1 DEF At4, Below
      <3>2. At2(e, w) \in l[2] /\ At2(e, v) \in l[2]
        BY <1>4, <2>2, <3>1 DEF At3, Below
      <3>3. At3(e, w) = e[At2(e, w)][w[2]] /\ At3(e, v) = e[At2(e, v)][v[2]]
        BY <2>2, <3>1 DEF At3, Below
      <3>4. At3(e, w) \in Frame
        BY <3>1 DEF Tree
      <3>5. At2(e, w) \in TablesIn(l) /\ At2(e, v) \in TablesIn(l)
        BY <3>2 DEF TablesIn
      <3>6. w[2] \in Idx /\ v[2] \in Idx
        BY Indexes
      <3>7. e[At2(e, w)][w[2]] = e[At2(e, v)][v[2]] /\ e[At2(e, w)][w[2]] \in Frame
        BY <2>2, <3>3, <3>4
      <3> QED BY <3>5, <3>6, <3>7, OneParent
    <2>4. w[1] = v[1]
      <3>1. At2(e, w) \in l[2]
        BY <1>4, <2>1, <2>2 DEF At4, At3, Below
      <3>2. At2(e, w) \in Frame
        BY <3>1 DEF Tree
      <3> QED BY <2>3, <3>2, Indexes DEF Tree, TablesIn, At2
    <2> QED BY <1>6, <2>2, <2>3, <2>4, Indexes
  <1>7. ASSUME NEW w \in VAdr PROVE Look(d, w) = IF w = v THEN x ELSE Look(e, w)
    <2>1. CASE w = v
      BY <1>1, <1>5, <2>1 DEF Look, Below
    <2>2. CASE w # v
      <3>1. At4(e, w) # NULL => At4(e, w) \in l[4] /\ w[4] \in Idx
        BY <1>4, Indexes
      <3> HIDE DEF t
      <3> QED BY <1>2, <1>5, <1>6, <2>2, <3>1 DEF Look, Below, TablesIn
    <2> QED BY <2>1, <2>2
  <1>8. Tree(d, l)
    <2> HIDE DEF t
    <2>1. \A r \in {Root} \cup l[2] \cup l[3], j \in Idx : d[r][j] = e[r][j]
      BY <1>1, <1>2 DEF TablesIn, Tree
    <2>2. \A r \in l[4], j \in Idx : d[r][j] \in PAdr \cup {NULL}
      BY <1>2 DEF TablesIn, Tree
    <2>3. ASSUME NEW g \in l[2] \cup l[3] \cup l[4]
          PROVE  \E r \in TablesIn(l), j \in Idx : d[r][j] = g
      <3>1. g \in Frame
        BY DEF Tree
      <3>2. PICK r \in TablesIn(l), j \in Idx : e[r][j] = g
        BY DEF Tree
      <3>3. r \in {Root} \cup l[2] \cup l[3]
        BY <3>1, <3>2 DEF Tree, TablesIn
      <3> QED BY <2>1, <3>2, <3>3
    <2>4. ASSUME NEW r \in TablesIn(l), NEW u \in TablesIn(l), NEW j \in Idx, NEW h \in Idx,
                 d[r][j] = d[u][h], d[r][j] \in Frame
          PROVE  r = u /\ j = h
      <3>1. r \in {Root} \cup l[2] \cup l[3] /\ u \in {Root} \cup l[2] \cup l[3]
        BY <2>2, <2>4 DEF TablesIn
      <3> QED BY <2>1, <2>4, <3>1 DEF Tree
    <2>5. /\ \A j \in Idx : d[Root][j] = e[Root][j]
          /\ \A r \in l[2], j \in Idx : d[r][j] = e[r][j]
          /\ \A r \in l[3], j \in Idx : d[r][j] = e[r][j]
      BY <2>1
    <2> QED BY <2>2, <2>3, <2>4, <2>5 DEF Tree
  <1> QED BY <1>5, <1>7, <1>8 DEF Mapped
-----------------------------------------------------------------------------
\* The operators of PageTables on a state s.

State(s) == s = [e |-> s.e, l |-> s.l] /\ Tree(s.e, s.l)

LEMMA HangKeeps ==
  ASSUME NEW s, State(s), NEW k \in Level, NEW t, Above(s.l, k, t),
         NEW i \in Idx, k = 2 => i \notin KrnlIdx,
         NEW f, f = NULL \/ (f \in Frame /\ f \notin s.l[2] \cup s.l[3] \cup s.l[4])
  PROVE  LET u == Hang(s, t, i, k, f) IN
         /\ State(u) /\ Alike(s.e, u.e)
         /\ Elsewhere(s.e, u.e, t, f)
         /\ Wider(s.l, u.l, f)
  <1>0. SUFFICES ASSUME NEW u, u = Hang(s, t, i, k, f)
                 PROVE  /\ State(u) /\ Alike(s.e, u.e)
                        /\ Elsewhere(s.e, u.e, t, f)
                        /\ Wider(s.l, u.l, f)
    OBVIOUS
  <1> USE Apart
  <1>1. CASE s.e[t][i] # NULL \/ f = NULL
    <2>1. u = s
      BY <1>0, <1>1 DEF Hang
    <2> QED BY <2>1 DEF Alike, Elsewhere, Wider
  <1>2. CASE s.e[t][i] = NULL /\ f # NULL
    <2> DEFINE d == Write([s.e EXCEPT ![f] = Empty], t, i, f)
               m == [s.l EXCEPT ![k] = s.l[k] \cup {f}]
    <2>1. u = [e |-> d, l |-> m]
      BY <1>0, <1>2 DEF Hang
    <2>2. f \in Frame /\ f \notin s.l[2] \cup s.l[3] \cup s.l[4]
      BY <1>2
    <2>3. t \in Table /\ t # f /\ f \in Table
      BY <2>2 DEF Above, State, Tree
    <2>4. s.e \in [Table -> [Idx -> Value]] /\ s.l \in [Level -> SUBSET Frame]
      BY DEF State, Tree
    <2>5. /\ d[t] = [j \in Idx |-> IF j = i THEN f ELSE s.e[t][j]]
          /\ d[f] = Empty
          /\ \A r \in Table \ {t, f} : d[r] = s.e[r]
      BY <2>3, <2>4 DEF Write
    <2>6. d \in [Table -> [Idx -> Value]]
      <3>1. d[t] \in [Idx -> Value]
        <4>1. s.e[t] \in [Idx -> Value] /\ f \in Value
          BY <2>2, <2>3, <2>4 DEF Value
        <4>2. [j \in Idx |-> IF j = i THEN f ELSE s.e[t][j]] \in [Idx -> Value]
          BY <4>1
        <4> QED BY <2>5, <4>2
      <3>2. d[f] \in [Idx -> Value]
        BY <2>5 DEF Empty, Value
      <3>3. d = [r \in Table |-> d[r]]
        BY <2>4 DEF Write
      <3> HIDE DEF d
      <3>4. \A r \in Table : d[r] \in [Idx -> Value]
        BY <2>4, <2>5, <3>1, <3>2
      <3> QED BY <3>3, <3>4
    <2>7. /\ m \in [Level -> SUBSET Frame] /\ m[k] = s.l[k] \cup {f}
          /\ \A j \in Level \ {k} : m[j] = s.l[j]
      BY <2>2, <2>4
    <2>8. (\A j \in Idx : d[f][j] = NULL) /\ d[t][i] = f /\ (\A j \in Idx \ {i} : d[t][j] = s.e[t][j])
      BY <2>5 DEF Empty
    <2> HIDE DEF d, m
    <2>9. Tree(s.e, s.l) /\ s.e[t][i] = NULL
      BY <1>2 DEF State
    <2>10. Tree(d, m) /\ Alike(s.e, d)
      <3>1. PICK g \in Frame : g = f
        BY <2>2
      <3>2. /\ g \notin s.l[2] \cup s.l[3] \cup s.l[4] /\ m[k] = s.l[k] \cup {g}
            /\ (\A j \in Idx : d[g][j] = NULL) /\ d[t][i] = g
            /\ \A r \in Table \ {t, g} : d[r] = s.e[r]
        BY <2>2, <2>5, <2>7, <2>8, <3>1
      <3> QED BY <2>6, <2>7, <2>8, <2>9, <3>2, Grows, SMTT(30)
    <2>11. u.e = d /\ u.l = m
      BY <2>1
    <2>12. Wider(s.l, m, f)
      BY <2>7 DEF Wider
    <2> QED BY <2>1, <2>5, <2>10, <2>11, <2>12 DEF State, Elsewhere
  <1> QED BY <1>1, <1>2

LEMMA UnhangKeeps ==
  ASSUME NEW s, State(s), NEW k \in Level, NEW t, Above(s.l, k, t), NEW i \in Idx,
         NEW u, u = Unhang(s, t, i, k)
  PROVE  State(u) /\ Alike(s.e, u.e)
  <1> USE Apart
  <1> DEFINE f == s.e[t][i]
  <1>1. CASE f = NULL \/ ~ IsEmpty(s.e, f) \/ f \notin s.l[k]
    <2>1. u = s
      BY <1>1 DEF Unhang
    <2> QED BY <2>1 DEF Alike
  <1>2. CASE ~ (f = NULL \/ ~ IsEmpty(s.e, f) \/ f \notin s.l[k])
    <2> DEFINE d == Write(s.e, t, i, NULL)
               m == [s.l EXCEPT ![k] = s.l[k] \ {f}]
    <2>1. u = [e |-> d, l |-> m]
      BY <1>2 DEF Unhang
    <2>2. t \in Table
      BY DEF Above, State, Tree
    <2>3. s.e \in [Table -> [Idx -> Value]] /\ s.l \in [Level -> SUBSET Frame]
      BY DEF State, Tree
    <2>4. /\ d[t] = [j \in Idx |-> IF j = i THEN NULL ELSE s.e[t][j]]
          /\ \A r \in Table \ {t} : d[r] = s.e[r]
      BY <2>2, <2>3 DEF Write
    <2>5. d \in [Table -> [Idx -> Value]]
      <3>1. d[t] \in [Idx -> Value]
        <4>1. s.e[t] \in [Idx -> Value] /\ NULL \in Value
          BY <2>2, <2>3 DEF Value
        <4>2. [j \in Idx |-> IF j = i THEN NULL ELSE s.e[t][j]] \in [Idx -> Value]
          BY <4>1
        <4> QED BY <2>4, <4>2
      <3>2. d = [r \in Table |-> d[r]]
        BY <2>3 DEF Write
      <3> HIDE DEF d
      <3>3. \A r \in Table : d[r] \in [Idx -> Value]
        BY <2>3, <2>4, <3>1
      <3> QED BY <3>2, <3>3
    <2>6. /\ m \in [Level -> SUBSET Frame] /\ m[k] = s.l[k] \ {f}
          /\ \A j \in Level \ {k} : m[j] = s.l[j]
      BY <2>3
    <2>7. d[t][i] = NULL /\ (\A j \in Idx \ {i} : d[t][j] = s.e[t][j])
      BY <2>4
    <2>8. Tree(s.e, s.l) /\ f \in s.l[k] /\ \A j \in Idx : s.e[f][j] = NULL
      BY <1>2 DEF State, IsEmpty
    <2> HIDE DEF d, m
    <2>9. PICK g \in s.l[k] : g = f
      BY <2>8
    <2>10. Tree(d, m) /\ Alike(s.e, d)
      <3>1. s.e[t][i] = g /\ (\A j \in Idx : s.e[g][j] = NULL) /\ m[k] = s.l[k] \ {g}
        BY <2>6, <2>8, <2>9
      <3> QED BY <2>4, <2>5, <2>6, <2>7, <2>8, <3>1, Shrinks
    <2>11. u.e = d /\ u.l = m
      BY <2>1
    <2> QED BY <2>1, <2>10, <2>11 DEF State
  <1> QED BY <1>1, <1>2

\* The ways back, by whatever index they go.
LEMMA RetreatKeeps ==
  ASSUME NEW s, State(s), NEW v \in VAdr
  PROVE  /\ State(Retreat2(s, v)) /\ Alike(s.e, Retreat2(s, v).e)
         /\ \A t2 \in s.l[2] :
              State(Retreat3(s, t2, v)) /\ Alike(s.e, Retreat3(s, t2, v).e)
  <1> USE Apart
  <1>1. ASSUME NEW u, State(u)
        PROVE  State(Retreat2(u, v)) /\ Alike(u.e, Retreat2(u, v).e)
    <2>1. Above(u.l, 2, Root) /\ v[2] \in Idx
      BY Indexes DEF Above
    <2> QED BY <1>1, <2>1, UnhangKeeps DEF Retreat2
  <1>2. ASSUME NEW t2 \in s.l[2]
        PROVE  State(Retreat3(s, t2, v)) /\ Alike(s.e, Retreat3(s, t2, v).e)
    <2> DEFINE u == Unhang(s, t2, v[2], 3)
    <2>1. Above(s.l, 3, t2) /\ v[2] \in Idx
      BY Indexes DEF Above
    <2>2. State(u) /\ Alike(s.e, u.e)
      BY <2>1, UnhangKeeps
    <2>3. Retreat3(s, t2, v) = Retreat2(u, v)
      BY DEF Retreat3
    <2> HIDE DEF u
    <2> QED BY <1>1, <2>2, <2>3 DEF Alike
  <1> QED BY <1>1, <1>2

\* An entry of the last level, written on the way v went.
LEMMA PutKeeps ==
  ASSUME NEW s, State(s), NEW v \in VAdr, At4(s.e, v) # NULL, NEW x \in PAdr \cup {NULL},
         NEW u, u = [s EXCEPT !.e = Write(s.e, At4(s.e, v), v[4], x)]
  PROVE  /\ State(u) /\ u.l = s.l
         /\ \A w \in VAdr : At2(u.e, w) = At2(s.e, w)
         /\ Mapped(s.e, u.e, v, x)
  <1> USE Apart
  <1> DEFINE t == At4(s.e, v)
             d == Write(s.e, t, v[4], x)
  <1>1. u.e = d /\ u.l = s.l /\ u = [e |-> u.e, l |-> u.l]
    BY DEF State
  <1>2. Tree(s.e, s.l) /\ s.e \in [Table -> [Idx -> Value]]
    BY DEF State, Tree
  <1>3. t \in Table
    <2>1. t \in s.l[4]
      BY <1>2, OnTheWay
    <2> HIDE DEF t
    <2> QED BY <1>2, <2>1 DEF Tree
  <1> HIDE DEF t
  <1>4. /\ d[t] = [j \in Idx |-> IF j = v[4] THEN x ELSE s.e[t][j]]
        /\ \A r \in Table \ {t} : d[r] = s.e[r]
    BY <1>2, <1>3 DEF Write
  <1>5. d \in [Table -> [Idx -> Value]]
    <2>1. d[t] \in [Idx -> Value]
      <3>1. s.e[t] \in [Idx -> Value] /\ x \in Value
        BY <1>2, <1>3 DEF Value
      <3>2. [j \in Idx |-> IF j = v[4] THEN x ELSE s.e[t][j]] \in [Idx -> Value]
        BY <3>1
      <3> QED BY <1>4, <3>2
    <2>2. d = [r \in Table |-> d[r]]
      BY <1>2 DEF Write
    <2> HIDE DEF d
    <2>3. \A r \in Table : d[r] \in [Idx -> Value]
      BY <1>2, <1>4, <2>1
    <2> QED BY <2>2, <2>3
  <1>6. d[t][v[4]] = x /\ (\A j \in Idx \ {v[4]} : d[t][j] = s.e[t][j])
    BY <1>4, Indexes
  <1> HIDE DEF d
  <1>7. /\ Tree(d, s.l)
        /\ \A w \in VAdr : At2(d, w) = At2(s.e, w) /\ At3(d, w) = At3(s.e, w)
        /\ Mapped(s.e, d, v, x)
    BY <1>2, <1>4, <1>5, <1>6, Puts DEF t
  <1> QED BY <1>1, <1>7 DEF State
-----------------------------------------------------------------------------
\* mmu_transform: v is mapped to p, or nothing is mapped to anything else.
LEMMA TransformMaps ==
  ASSUME State(Now), NEW v \in VAdr, NEW p \in PAdr, NEW f \in Offers, Transform(v, p, f)
  PROVE  /\ Tree(entries', pts')
         /\ \/ Alike(entries, entries')
            \/ Mapped(entries, entries', v, p)
  <1> USE Apart
  <1> DEFINE s2 == Hang(Now, Root, v[1], 2, f[2])
             t2 == s2.e[Root][v[1]]
             s3 == Hang(s2, t2, v[2], 3, f[3])
             t3 == s3.e[t2][v[2]]
             s4 == Hang(s3, t3, v[3], 4, f[4])
             t4 == s4.e[t3][v[3]]
             new == [s4 EXCEPT !.e = Write(s4.e, t4, v[4], p)]
  <1>1. /\ \A k \in Level : f[k] = NULL \/ (f[k] \in Frame /\ f[k] \notin pts[2] \cup pts[3] \cup pts[4])
        /\ \A j, k \in Level : j # k /\ f[j] # NULL => f[j] # f[k]
    BY DEF Offers, Used, Level
  <1>2. /\ v[1] \in Idx \ KrnlIdx /\ v[2] \in Idx /\ v[3] \in Idx /\ v[4] \in Idx
        /\ Now.e = entries /\ Now.l = pts
    BY Indexes DEF Now
  <1>3. \/ t2 = NULL /\ Become(Retreat2(s2, v))
        \/ t2 # NULL /\ t3 = NULL /\ Become(Retreat3(s3, t2, v))
        \/ t2 # NULL /\ t3 # NULL /\ t4 = NULL /\ Become(Retreat3(s4, t2, v))
        \/ t2 # NULL /\ t3 # NULL /\ t4 # NULL /\ Become(new)
    BY DEF Transform
  <1>4. PICK u2 : u2 = s2
    OBVIOUS
  <1>5. /\ State(u2) /\ Alike(entries, u2.e)
        /\ \A j \in Level : u2.l[j] \subseteq pts[j] \cup {f[2]}
    <2>1. Above(Now.l, 2, Root) /\ (2 = 2 => v[1] \notin KrnlIdx)
      BY <1>2 DEF Above
    <2>2. f[2] = NULL \/ (f[2] \in Frame /\ f[2] \notin Now.l[2] \cup Now.l[3] \cup Now.l[4])
      BY <1>1, <1>2
    <2> HIDE DEF s2
    <2>3. u2 = Hang(Now, Root, v[1], 2, f[2])
      BY <1>4 DEF s2
    <2>4. PICK g : g = f[2]
      OBVIOUS
    <2>5. /\ u2 = Hang(Now, Root, v[1], 2, g)
          /\ g = NULL \/ (g \in Frame /\ g \notin Now.l[2] \cup Now.l[3] \cup Now.l[4])
      BY <2>2, <2>3, <2>4
    <2>6. 2 \in Level /\ v[1] \in Idx
      BY <1>2
    <2>7. /\ State(u2) /\ Alike(Now.e, u2.e)
          /\ Wider(Now.l, u2.l, g)
      BY <2>1, <2>5, <2>6, HangKeeps
    <2> QED BY <1>2, <2>4, <2>7 DEF Wider
  <1>6. PICK a2 : a2 = t2
    OBVIOUS
  <1>7. a2 = At2(u2.e, v) /\ a2 \in u2.l[2] \cup {NULL}
    BY <1>4, <1>5, <1>6, OnTheWay DEF At2, State
  <1>8. CASE a2 = NULL
    <2>1. Become(Retreat2(u2, v))
      BY <1>3, <1>4, <1>6, <1>8
    <2> QED BY <1>5, <2>1, RetreatKeeps DEF Become, State, Alike
  <1>9. CASE a2 # NULL
    <2>1. PICK u3 : u3 = Hang(u2, a2, v[2], 3, f[3])
      OBVIOUS
    <2>2. u3 = s3
      BY <1>4, <1>6, <2>1
    <2>3. a2 \in u2.l[2] /\ a2 \in Frame
      BY <1>5, <1>7, <1>9 DEF State, Tree
    <2>4. f[3] = NULL \/ (f[3] \in Frame /\ f[3] \notin u2.l[2] \cup u2.l[3] \cup u2.l[4])
      BY <1>1, <1>5
    <2>5. /\ State(u3) /\ Alike(u2.e, u3.e)
          /\ Elsewhere(u2.e, u3.e, a2, f[3])
          /\ Wider(u2.l, u3.l, f[3])
      <3>0. PICK k \in Level : k = 3 /\ k # 2
        OBVIOUS
      <3>1. Above(u2.l, k, a2) /\ v[2] \in Idx /\ State(u2)
        BY <1>2, <1>5, <2>3, <3>0 DEF Above
      <3>2. PICK g : g = f[3]
        OBVIOUS
      <3>3. /\ u3 = Hang(u2, a2, v[2], k, g)
            /\ g = NULL \/ (g \in Frame /\ g \notin u2.l[2] \cup u2.l[3] \cup u2.l[4])
        BY <2>1, <2>4, <3>0, <3>2
      <3>4. /\ State(u3) /\ Alike(u2.e, u3.e)
            /\ Elsewhere(u2.e, u3.e, a2, g)
            /\ Wider(u2.l, u3.l, g)
        BY <3>0, <3>1, <3>3, HangKeeps
      <3> QED BY <3>2, <3>4
    <2>6. At2(u3.e, v) = a2
      <3>1. Root # a2 /\ Root # f[3]
        BY <1>1, <2>3
      <3> QED BY <1>7, <2>5, <3>1 DEF At2, Elsewhere
    <2>7. PICK a3 : a3 = u3.e[a2][v[2]]
      OBVIOUS
    <2>8. a3 = t3 /\ a3 = At3(u3.e, v)
      BY <1>6, <1>9, <2>2, <2>6, <2>7 DEF At3, Below
    <2>9. Alike(entries, u3.e)
      BY <1>5, <2>5 DEF Alike
    <2>10. a3 \in u3.l[3] \cup {NULL}
      <3>1. Tree(u3.e, u3.l)
        BY <2>5 DEF State
      <3> QED BY <2>8, <3>1, OnTheWay
    <2>11. CASE a3 = NULL
      <3>1. Become(Retreat3(u3, a2, v))
        BY <1>3, <1>6, <1>9, <2>2, <2>8, <2>11
      <3>2. a2 \in u3.l[2]
        BY <2>3, <2>5 DEF Wider
      <3> QED BY <2>5, <2>9, <3>1, <3>2, RetreatKeeps DEF Become, State, Alike
    <2>12. CASE a3 # NULL
      <3>1. PICK u4 : u4 = Hang(u3, a3, v[3], 4, f[4])
        OBVIOUS
      <3>2. u4 = s4
        BY <2>2, <2>8, <3>1
      <3>3. a3 \in u3.l[3] /\ a3 \in Frame /\ a3 # a2
        BY <2>3, <2>5, <2>10, <2>12 DEF State, Tree, Wider
      <3>4. f[4] = NULL \/ (f[4] \in Frame /\ f[4] \notin u3.l[2] \cup u3.l[3] \cup u3.l[4])
        BY <1>1, <1>5, <2>5 DEF Wider
      <3>5. /\ State(u4) /\ Alike(u3.e, u4.e)
            /\ Elsewhere(u3.e, u4.e, a3, f[4])
            /\ Wider(u3.l, u4.l, f[4])
        <4>0. PICK k \in Level : k = 4 /\ k # 2
          OBVIOUS
        <4>1. Above(u3.l, k, a3) /\ v[3] \in Idx /\ State(u3)
          BY <1>2, <2>5, <3>3, <4>0 DEF Above
        <4>2. PICK g : g = f[4]
          OBVIOUS
        <4>3. /\ u4 = Hang(u3, a3, v[3], k, g)
              /\ g = NULL \/ (g \in Frame /\ g \notin u3.l[2] \cup u3.l[3] \cup u3.l[4])
          BY <3>1, <3>4, <4>0, <4>2
        <4>4. /\ State(u4) /\ Alike(u3.e, u4.e)
              /\ Elsewhere(u3.e, u4.e, a3, g)
              /\ Wider(u3.l, u4.l, g)
          BY <4>0, <4>1, <4>3, HangKeeps
        <4> QED BY <4>2, <4>4
      <3>6. At2(u4.e, v) = a2 /\ At3(u4.e, v) = a3
        <4>1. Root # a3 /\ Root # f[4] /\ a2 # f[4] /\ a2 \in Table
          <5>1. a2 \in u3.l[2]
            BY <2>3, <2>5 DEF Wider
          <5> QED BY <1>1, <2>3, <3>3, <3>4, <5>1
        <4> QED BY <1>9, <2>6, <2>7, <3>3, <3>5, <4>1 DEF At2, At3, Below, Elsewhere
      <3>7. PICK a4 : a4 = u4.e[a3][v[3]]
        OBVIOUS
      <3>8. a4 = t4 /\ a4 = At4(u4.e, v)
        BY <2>8, <2>12, <3>2, <3>6, <3>7 DEF At4, Below
      <3>9. Alike(entries, u4.e)
        BY <2>9, <3>5 DEF Alike
      <3>10. CASE a4 = NULL
        <4>1. Become(Retreat3(u4, a2, v))
          BY <1>3, <1>6, <1>9, <2>8, <2>12, <3>2, <3>8, <3>10
        <4>2. a2 \in u4.l[2]
          BY <2>3, <2>5, <3>5 DEF Wider
        <4> QED BY <3>5, <3>9, <4>1, <4>2, RetreatKeeps DEF Become, State, Alike
      <3>11. CASE a4 # NULL
        <4>1. PICK u : u = [u4 EXCEPT !.e = Write(u4.e, At4(u4.e, v), v[4], p)]
          OBVIOUS
        <4>2. Become(u)
          BY <1>3, <1>6, <1>9, <2>8, <2>12, <3>2, <3>8, <3>11, <4>1
        <4>3. State(u) /\ Mapped(u4.e, u.e, v, p)
          <5>1. State(u4) /\ At4(u4.e, v) # NULL /\ p \in PAdr \cup {NULL}
            BY <3>5, <3>8, <3>11
          <5> QED BY <4>1, <5>1, PutKeeps
        <4> QED BY <3>9, <4>2, <4>3 DEF Become, State, Alike, Mapped
      <3> QED BY <3>10, <3>11
    <2> QED BY <2>11, <2>12
  <1> QED BY <1>8, <1>9

\* mmu_untransform: v is not mapped any more, or nothing has changed.
LEMMA UntransformMaps ==
  ASSUME State(Now), NEW v \in VAdr, Untransform(v)
  PROVE  /\ Tree(entries', pts')
         /\ \/ Alike(entries, entries')
            \/ Mapped(entries, entries', v, NULL)
  <1> USE Apart
  <1>1. Now.e = entries /\ Now.l = pts /\ Tree(entries, pts)
    BY DEF Now, State
  <1>2. PICK u : u = [Now EXCEPT !.e = Write(Now.e, At4(Now.e, v), v[4], NULL)]
    OBVIOUS
  <1>3. /\ At2(entries, v) # NULL
        /\ \/ Become(Retreat2(Now, v))
           \/ Become(Retreat3(Now, At2(entries, v), v))
           \/ At4(entries, v) # NULL /\ Become(Retreat3(u, At2(entries, v), v))
    BY <1>1, <1>2 DEF Untransform, At2, At3, At4
  <1>4. At2(entries, v) \in pts[2]
    BY <1>1, <1>3, OnTheWay
  <1>5. CASE Become(Retreat2(Now, v))
    BY <1>1, <1>5, RetreatKeeps DEF Become, State
  <1>6. CASE Become(Retreat3(Now, At2(entries, v), v))
    BY <1>1, <1>4, <1>6, RetreatKeeps DEF Become, State
  <1>7. CASE At4(entries, v) # NULL /\ Become(Retreat3(u, At2(entries, v), v))
    <2>1. /\ State(u) /\ u.l = Now.l
          /\ Mapped(Now.e, u.e, v, NULL)
      <3>1. At4(Now.e, v) # NULL /\ NULL \in PAdr \cup {NULL}
        BY <1>1, <1>7
      <3>2. PICK x \in PAdr \cup {NULL} : x = NULL
        OBVIOUS
      <3>3. u = [Now EXCEPT !.e = Write(Now.e, At4(Now.e, v), v[4], x)]
        BY <1>2, <3>2
      <3>4. /\ State(u) /\ u.l = Now.l
            /\ Mapped(Now.e, u.e, v, x)
        BY <3>1, <3>3, PutKeeps
      <3> QED BY <3>2, <3>4
    <2>2. PICK q : q = Retreat3(u, At2(entries, v), v)
      OBVIOUS
    <2>3. State(q) /\ Alike(u.e, q.e)
      BY <1>1, <1>4, <2>1, <2>2, RetreatKeeps
    <2>4. entries' = q.e /\ pts' = q.l
      BY <1>7, <2>2 DEF Become
    <2> QED BY <1>1, <2>1, <2>3, <2>4 DEF State, Alike, Mapped
  <1> QED BY <1>3, <1>5, <1>6, <1>7
-----------------------------------------------------------------------------
LEMMA InitTree == TablesInit => Tree(entries, pts)
  <1> USE Apart
  <1> SUFFICES ASSUME TablesInit PROVE Tree(entries, pts)
    OBVIOUS
  <1>1. \A t \in Table, i \in Idx :
          entries[t][i] = IF t = Root /\ i \in KrnlIdx THEN Krnl ELSE NULL
    BY DEF TablesInit
  <1>2. pts[2] = {} /\ pts[3] = {} /\ pts[4] = {} /\ pts \in [Level -> SUBSET Frame]
    BY DEF TablesInit
  <1>3. entries \in [Table -> [Idx -> Value]]
    BY DEF TablesInit, Value
  <1>4. TablesIn(pts) = {Root}
    BY <1>2 DEF TablesIn
  <1> QED BY <1>1, <1>2, <1>3, <1>4 DEF Tree

\* The states of the operations are those of the specification.
LEMMA StateNow == Tree(entries, pts) <=> State(Now)
  BY DEF State, Now

LEMMA NextKeepsTree ==
  ASSUME Tree(entries, pts), TablesNext
  PROVE  /\ Tree(entries', pts')
         /\ \/ Alike(entries, entries')
            \/ \E v \in VAdr : Mapped(entries, entries', v, NULL)
            \/ \E v \in VAdr, p \in PAdr : Mapped(entries, entries', v, p)
  <1>0. State(Now)
    BY StateNow
  <1>1. CASE \E v \in VAdr : Untransform(v)
    BY <1>0, <1>1, UntransformMaps
  <1>2. CASE \E v \in VAdr, p \in PAdr, f \in Offers : Transform(v, p, f)
    BY <1>0, <1>2, TransformMaps
  <1>3. CASE Clean
    BY <1>3 DEF Clean, Alike
  <1> QED BY <1>1, <1>2, <1>3 DEF TablesNext

\* The pages of a list hang in one entry of the level above.
LEMMA TreeMatches == Tree(entries, pts) => ListsMatchTree
  <1> USE Apart
  <1> SUFFICES ASSUME Tree(entries, pts) PROVE ListsMatchTree
    OBVIOUS
  <1>1. TablesOf(1) = {Root} /\ TablesOf(2) = pts[2] /\ TablesOf(3) = pts[3]
    BY DEF TablesOf
  <1>2. ASSUME NEW j \in Level, NEW k \in Level, j # k
        PROVE  pts[j] \cap pts[k] = {}
    BY <1>2 DEF Tree, Level
  <1>3. ASSUME NEW k \in Level, NEW f \in pts[k]
        PROVE  Cardinality({x \in TablesOf(k - 1) \X Idx : entries[x[1]][x[2]] = f}) = 1
    <2>1. k = 2 \/ k = 3 \/ k = 4
      BY DEF Level
    <2>2. PICK T : T = TablesOf(k - 1)
      OBVIOUS
    <2>3. (k = 2 => T = {Root}) /\ (k = 3 => T = pts[2]) /\ (k = 4 => T = pts[3])
      BY <1>1, <2>2
    <2>4. T \subseteq TablesIn(pts)
      BY <2>1, <2>3 DEF TablesIn
    <2>5. f \in Frame /\ f \in pts[2] \cup pts[3] \cup pts[4]
      BY <1>3, <2>1 DEF Tree
    <2>6. PICK t \in TablesIn(pts), i \in Idx : entries[t][i] = f
      BY <2>5 DEF Tree
    <2>7. t \in T
      <3>1. CASE t = Root
        <4>1. f \in pts[2]
          BY <2>5, <2>6, <3>1 DEF Tree
        <4> QED BY <1>2, <1>3, <2>1, <2>3, <3>1, <4>1
      <3>2. CASE t \in pts[2]
        <4>1. f \in pts[3]
          BY <2>5, <2>6, <3>2 DEF Tree
        <4> QED BY <1>2, <1>3, <2>1, <2>3, <3>2, <4>1
      <3>3. CASE t \in pts[3]
        <4>1. f \in pts[4]
          BY <2>5, <2>6, <3>3 DEF Tree
        <4> QED BY <1>2, <1>3, <2>1, <2>3, <3>3, <4>1
      <3>4. CASE t \in pts[4]
        BY <2>5, <2>6, <3>4 DEF Tree
      <3> QED BY <3>1, <3>2, <3>3, <3>4 DEF TablesIn
    <2>8. {x \in T \X Idx : entries[x[1]][x[2]] = f} = {<<t, i>>}
      <3>1. ASSUME NEW x \in T \X Idx, entries[x[1]][x[2]] = f
            PROVE  x = <<t, i>>
        <4>1. x[1] \in TablesIn(pts) /\ x[2] \in Idx /\ x = <<x[1], x[2]>>
          BY <2>4
        <4>2. x[1] = t /\ x[2] = i
          BY <2>5, <2>6, <3>1, <4>1 DEF Tree
        <4> QED BY <4>1, <4>2
      <3>2. <<t, i>> \in T \X Idx /\ entries[<<t, i>>[1]][<<t, i>>[2]] = f
        BY <2>6, <2>7
      <3> QED BY <3>1, <3>2
    <2>9. Cardinality({<<t, i>>}) = 1
      BY FS_Singleton
    <2> QED BY <2>2, <2>8, <2>9
  <1>4. ASSUME NEW k \in Level, NEW t \in TablesOf(k - 1), NEW i \in Idx
        PROVE  entries[t][i] \in pts[k] \cup {NULL} \cup (IF k = 2 THEN {Krnl} ELSE {})
    <2>1. CASE k = 2
      BY <1>1, <2>1 DEF Tree
    <2>2. CASE k = 3
      BY <1>1, <2>2 DEF Tree
    <2>3. CASE k = 4
      BY <1>1, <2>3 DEF Tree
    <2> QED BY <2>1, <2>2, <2>3 DEF Level
  <1> QED BY <1>2, <1>3, <1>4 DEF ListsMatchTree

\* The lists of pages pt2s, pt3s and pt4s of mmu.c have exactly the tables the
\* processor reaches, each in one entry, whatever fails on the way down
\* (mmu.c:264, 297, 320) and whatever index the way back goes by (mmu.c:401,
\* 426).
THEOREM TablesAreTree == TablesSpec => []ListsMatchTree
  <1>1. TablesInit => Tree(entries, pts)
    BY InitTree
  <1>2. Tree(entries, pts) /\ [TablesNext]_tableVars => Tree(entries, pts)'
    BY NextKeepsTree DEF tableVars
  <1>3. Tree(entries, pts) => ListsMatchTree
    BY TreeMatches
  <1> QED BY <1>1, <1>2, <1>3, PTL DEF TablesSpec

LEMMA LeafIsLook == \A v \in VAdr : Mapping[v] = Look(entries, v)
  BY DEF Mapping, Leaf, Look, At4, At3, At2

LEMMA LeafIsLookNext == \A v \in VAdr : Mapping'[v] = Look(entries', v)
  BY DEF Mapping, Leaf, Look, At4, At3, At2

\* mmu_transform (mmu.c:532) and mmu_untransform implement the map of
\* AddressMap: a call changes the mapping of the page it was given, or none.
THEOREM PageTablesImplementMap == TablesSpec => MapKept
  <1>1. TablesInit => Tree(entries, pts)
    BY InitTree
  <1>2. Tree(entries, pts) /\ [TablesNext]_tableVars => Tree(entries, pts)'
    BY NextKeepsTree DEF tableVars
  <1>3. TablesInit => Maps!Init
    <2> SUFFICES ASSUME TablesInit, NEW v \in VAdr PROVE Leaf(v) = NULL
      BY DEF Maps!Init, Mapping
    <2>1. entries[Root][v[1]] = NULL
      BY Indexes, Apart DEF TablesInit
    <2> QED BY <2>1 DEF Leaf, Below
  <1>4. ASSUME Tree(entries, pts), [TablesNext]_tableVars
        PROVE  [Maps!Next]_Mapping
    <2>1. Mapping = [v \in VAdr |-> Mapping[v]] /\ Mapping' = [v \in VAdr |-> Mapping'[v]]
      BY DEF Mapping
    <2>2. ASSUME Alike(entries, entries') PROVE Mapping' = Mapping
      BY <2>1, <2>2, LeafIsLook, LeafIsLookNext DEF Alike
    <2>3. ASSUME NEW v \in VAdr, NEW x, Mapped(entries, entries', v, x)
          PROVE  Mapping' = [Mapping EXCEPT ![v] = x]
      BY <2>1, <2>3, LeafIsLook, LeafIsLookNext DEF Mapped
    <2>4. CASE TablesNext
      <3>1. CASE \E v \in VAdr : Mapped(entries, entries', v, NULL)
        BY <2>3, <3>1 DEF Maps!Next, Maps!Untransform
      <3>2. CASE \E v \in VAdr, p \in PAdr : Mapped(entries, entries', v, p)
        BY <2>3, <3>2 DEF Maps!Next, Maps!Transform
      <3> QED BY <1>4, <2>2, <2>4, <3>1, <3>2, NextKeepsTree
    <2>5. CASE UNCHANGED tableVars
      BY <2>5 DEF tableVars, Mapping, Leaf
    <2> QED BY <1>4, <2>4, <2>5
  <1>5. Tree(entries, pts) /\ [TablesNext]_tableVars => [Maps!Next]_Mapping
    BY <1>4
  <1> QED BY <1>1, <1>2, <1>3, <1>5, PTL DEF TablesSpec, MapKept, Maps!Spec
=============================================================================
