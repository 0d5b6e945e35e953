--------------------------- MODULE ObjectPoolProofs ---------------------------
(***************************************************************************)
(* For any mount points, runs of pages and sizes of containers: objects    *)
(* are kept apart, no container goes under an object that is outside, and  *)
(* none stays when it has no object outside.                               *)
(*                                                                         *)
(* The argument: a mount point has no container or one, since another one  *)
(* is made only when there is none; so the object that is deleted is of    *)
(* the container that is found for it, if one is found at all.             *)
(***************************************************************************)
EXTENDS ObjectPool, SequenceTheorems, FiniteSetTheorems, WellFoundedInduction, TLAPS

\* What container c, with extensions e, free objects f and n objects in all,
\* and the objects l and s that are outside, have to do with each other.
Fits(c, e, f, n, l, s) ==
  /\ IsInjective(e) /\ c \notin ToSet(e)
  /\ IsInjective(f)
  /\ \A o \in ToSet(f) \cup l \cup s : o[1] \in {c} \cup ToSet(e)
  /\ ToSet(f) \cap (l \cup s) = {} /\ l \cap s = {}
  /\ IsFiniteSet(l \cup s) /\ n = Len(f) + Cardinality(l \cup s)

Idle(m) == containers[m] = <<>> /\ cache[m] = None /\ live[m] = {} /\ stuck[m] = {}

Busy(m, c) ==
  /\ containers[m] = <<c>> /\ cache[m] \in {c, None}
  /\ live[m] \cup stuck[m] # {}
  /\ Fits(c, extends[c], frees[c], total[c], live[m], stuck[m])

OneEach == \A m \in Mount : Idle(m) \/ \E c \in PageRun : Busy(m, c)

Apart ==
  \A m, n \in Mount : \A c, d \in PageRun :
    m # n /\ containers[m] = <<c>> /\ containers[n] = <<d>> => RunsOf(c) \cap RunsOf(d) = {}

\* A run that is no container has no extensions.
Spare == \A r \in PageRun : (\A m \in Mount : containers[m] # <<r>>) => extends[r] = <<>>

PInv == TypeOK /\ OneEach /\ Apart /\ Spare
-----------------------------------------------------------------------------
(***************************************************************************)
(* Lists of free objects.                                                  *)
(***************************************************************************)

LEMMA OneElement ==
  ASSUME NEW c
  PROVE  /\ ToSet(<<c>>) = {c} /\ ToSet(<<>>) = {}
         /\ IsInjective(<<c>>) /\ IsInjective(<<>>)
         /\ <<c>> # <<>> /\ Head(<<c>>) = c
         /\ \A d : <<c>> = <<d>> => c = d
  BY DEF ToSet, IsInjective

\* Taking the head of a list without repetitions.
LEMMA TailProps ==
  ASSUME NEW S, NEW s \in Seq(S), s # <<>>, IsInjective(s)
  PROVE  /\ Tail(s) \in Seq(S)
         /\ Len(Tail(s)) = Len(s) - 1
         /\ Head(s) \in S
         /\ IsInjective(Tail(s))
         /\ Head(s) \in ToSet(s)
         /\ ToSet(Tail(s)) = ToSet(s) \ {Head(s)}
<1> DEFINE r == Tail(s)
<1>1. /\ Len(s) \in Nat /\ Len(s) >= 1 /\ DOMAIN s = 1 .. Len(s)
      /\ Head(s) = s[1]
      /\ \A i \in 1 .. Len(s) : s[i] \in S
  BY LenProperties, ElementOfSeq, EmptySeq
<1>2. /\ r \in Seq(S) /\ Len(r) = Len(s) - 1 /\ DOMAIN r = 1 .. Len(s) - 1
      /\ \A i \in 1 .. Len(s) - 1 : r[i] = s[i + 1]
  BY HeadTailProperties, LenProperties
<1> HIDE DEF r
<1>3. IsInjective(r)
  <2> SUFFICES ASSUME NEW i \in 1 .. Len(s) - 1, NEW j \in 1 .. Len(s) - 1, r[i] = r[j]
               PROVE  i = j
    BY <1>2 DEF IsInjective
  <2>1. i + 1 \in 1 .. Len(s) /\ j + 1 \in 1 .. Len(s) /\ s[i + 1] = s[j + 1]
    BY <1>1, <1>2
  <2>2. i + 1 = j + 1
    BY <1>1, <2>1 DEF IsInjective
  <2> QED BY <2>2
<1>4. ASSUME NEW x \in ToSet(r)
      PROVE  x \in ToSet(s) \ {s[1]}
  <2>1. PICK j \in 1 .. Len(s) - 1 : x = s[j + 1]
    BY <1>2, <1>4 DEF ToSet
  <2> QED BY <1>1, <2>1 DEF ToSet, IsInjective
<1>5. ASSUME NEW x \in ToSet(s) \ {s[1]}
      PROVE  x \in ToSet(r)
  <2>1. PICK j \in 1 .. Len(s) : x = s[j] /\ j # 1
    BY <1>1 DEF ToSet
  <2>2. j - 1 \in 1 .. Len(s) - 1 /\ (j - 1) + 1 = j
    BY <1>1, <2>1
  <2>3. r[j - 1] = x
    BY <1>2, <2>1, <2>2
  <2> QED BY <1>2, <2>2, <2>3 DEF ToSet
<1> QED BY <1>1, <1>2, <1>3, <1>4, <1>5 DEF r, ToSet

\* list_add: an element in front of a list.
Prepended(S, s, x, r) ==
  /\ r \in Seq(S) /\ Len(r) = Len(s) + 1 /\ ToSet(r) = ToSet(s) \cup {x}
  /\ x \notin ToSet(s) /\ IsInjective(s) => IsInjective(r)

LEMMA PrependProps ==
  ASSUME NEW S, NEW s \in Seq(S), NEW x \in S, NEW r, r = <<x>> \o s
  PROVE  Prepended(S, s, x, r)
<1> DEFINE h == <<x>>
<1>1. h \in Seq(S) /\ Len(h) = 1 /\ h[1] = x
  OBVIOUS
<1>2. Len(s) \in Nat /\ DOMAIN s = 1 .. Len(s)
  BY LenProperties
<1>3. r = h \o s
  OBVIOUS
<1> HIDE DEF h
<1>4. /\ r \in Seq(S) /\ Len(r) = Len(s) + 1
      /\ r[1] = x /\ \A i \in 1 .. Len(s) : r[i + 1] = s[i]
  <2>1. /\ h \o s \in Seq(S) /\ Len(h \o s) = Len(h) + Len(s)
        /\ \A i \in 1 .. Len(h) + Len(s) :
             (h \o s)[i] = IF i <= Len(h) THEN h[i] ELSE s[i - Len(h)]
    BY <1>1, ConcatProperties
  <2>2. r[1] = x
    BY <1>1, <1>2, <1>3, <2>1
  <2>3. ASSUME NEW i \in 1 .. Len(s) PROVE r[i + 1] = s[i]
    <3>1. i + 1 \in 1 .. Len(h) + Len(s) /\ ~ (i + 1 <= Len(h)) /\ (i + 1) - Len(h) = i
      BY <1>1, <1>2
    <3> QED BY <1>3, <2>1, <3>1
  <2> QED BY <1>1, <1>2, <1>3, <2>1, <2>2, <2>3
<1>5. PICK z : z = Len(s)
  OBVIOUS
<1>6. /\ z \in Nat /\ DOMAIN s = 1 .. z /\ DOMAIN r = 1 .. z + 1
      /\ r[1] = x /\ \A i \in 1 .. z : r[i + 1] = s[i]
  BY <1>2, <1>4, <1>5, LenProperties
<1>7. \A i \in 1 .. z + 1 : i # 1 => i - 1 \in 1 .. z /\ r[i] = s[i - 1]
  <2> SUFFICES ASSUME NEW i \in 1 .. z + 1, i # 1
               PROVE  i - 1 \in 1 .. z /\ r[i] = s[i - 1]
    OBVIOUS
  <2>1. PICK j : j = i - 1
    OBVIOUS
  <2>2. j \in 1 .. z /\ i = j + 1
    BY <1>6, <2>1
  <2> QED BY <1>6, <2>1, <2>2
<1>8. ToSet(r) = ToSet(s) \cup {x}
  <2>1. ASSUME NEW y \in ToSet(r) PROVE y \in ToSet(s) \cup {x}
    <3>1. PICK i \in 1 .. z + 1 : y = r[i]
      BY <1>6 DEF ToSet
    <3> QED BY <1>6, <1>7, <3>1 DEF ToSet
  <2>2. ASSUME NEW y \in ToSet(s) PROVE y \in ToSet(r)
    <3>1. PICK i \in 1 .. z : y = s[i]
      BY <1>6 DEF ToSet
    <3>2. i + 1 \in DOMAIN r /\ r[i + 1] = y
      BY <1>6, <3>1
    <3> QED BY <3>2 DEF ToSet
  <2>3. x \in ToSet(r)
    <3>1. 1 \in DOMAIN r
      BY <1>6
    <3> QED BY <1>6, <3>1 DEF ToSet
  <2> QED BY <2>1, <2>2, <2>3
<1>9. ASSUME x \notin ToSet(s), IsInjective(s) PROVE IsInjective(r)
  <2> SUFFICES ASSUME NEW i \in 1 .. z + 1, NEW j \in 1 .. z + 1, r[i] = r[j] PROVE i = j
    BY <1>6 DEF IsInjective
  <2>1. \A k \in 1 .. z : s[k] # x
    BY <1>6, <1>9 DEF ToSet
  <2>2. CASE i = 1 \/ j = 1
    BY <1>6, <1>7, <2>1, <2>2
  <2>3. CASE i # 1 /\ j # 1
    <3>1. i - 1 \in 1 .. z /\ j - 1 \in 1 .. z /\ s[i - 1] = s[j - 1]
      BY <1>7, <2>3
    <3>2. i - 1 = j - 1
      BY <1>6, <1>9, <3>1 DEF IsInjective
    <3> QED BY <3>2
  <2> QED BY <2>2, <2>3
<1> QED BY <1>4, <1>8, <1>9 DEF Prepended

LEMMA FreshProps ==
  ASSUME NEW r \in PageRun, NEW n \in Nat \ {0}, NEW f, f = Fresh(r, n)
  PROVE  /\ f \in Seq(Object) /\ f # <<>> /\ Len(f) = n /\ IsInjective(f)
         /\ \A o \in ToSet(f) : o[1] = r
<1>1. \A i \in 1 .. n : n + 1 - i \in Nat \ {0}
  OBVIOUS
<1>2. f = [i \in 1 .. n |-> <<r, n + 1 - i>>]
  BY DEF Fresh
<1>3. f \in [1 .. n -> Object]
  BY <1>1, <1>2 DEF Object
<1>4. f \in Seq(Object) /\ Len(f) = n /\ DOMAIN f = 1 .. n
  BY <1>3, IsASeq, LenProperties
<1>5. f # <<>>
  BY <1>4
<1>6. IsInjective(f)
  <2> SUFFICES ASSUME NEW i \in 1 .. n, NEW j \in 1 .. n, f[i] = f[j] PROVE i = j
    BY <1>4 DEF IsInjective
  <2>1. <<r, n + 1 - i>> = <<r, n + 1 - j>>
    BY <1>2
  <2>2. n + 1 - i = n + 1 - j
    BY <2>1
  <2> QED BY <2>2
<1>7. \A o \in ToSet(f) : o[1] = r
  BY <1>2, <1>4 DEF ToSet
<1> QED BY <1>4, <1>5, <1>6, <1>7

\* _allocate_object from a list that fits.
LEMMA TakeFits ==
  ASSUME NEW c, NEW e, NEW f \in Seq(Object), NEW n, NEW l, NEW s,
         Fits(c, e, f, n, l, s), f # <<>>
  PROVE  /\ Fits(c, e, Tail(f), n, l \cup {Head(f)}, s)
         /\ Tail(f) \in Seq(Object) /\ Head(f) \in Object
<1>1. /\ Tail(f) \in Seq(Object) /\ Len(Tail(f)) = Len(f) - 1 /\ Head(f) \in Object
      /\ IsInjective(Tail(f)) /\ Head(f) \in ToSet(f)
      /\ ToSet(Tail(f)) = ToSet(f) \ {Head(f)}
  BY TailProps DEF Fits
<1>2. PICK h : h = Head(f)
  OBVIOUS
<1>3. PICK t : t = Tail(f)
  OBVIOUS
<1>4. PICK out : out = l \cup s
  OBVIOUS
<1>5. IsFiniteSet(out) /\ h \notin out
  BY <1>1, <1>2, <1>4 DEF Fits
<1>6. IsFiniteSet(out \cup {h}) /\ Cardinality(out \cup {h}) = Cardinality(out) + 1
  BY <1>5, FS_AddElement
<1>7. Cardinality(out) \in Nat /\ Len(f) \in Nat
  BY <1>5, FS_CardinalityType, LenProperties
<1>8. n = Len(t) + Cardinality(out \cup {h})
  BY <1>1, <1>3, <1>4, <1>6, <1>7 DEF Fits
<1>9. (l \cup {h}) \cup s = out \cup {h}
  BY <1>4
<1>10. /\ \A o \in ToSet(t) \cup (l \cup {h}) \cup s : o[1] \in {c} \cup ToSet(e)
       /\ ToSet(t) \cap ((l \cup {h}) \cup s) = {} /\ (l \cup {h}) \cap s = {}
  BY <1>1, <1>2, <1>3 DEF Fits
<1>11. Fits(c, e, t, n, l \cup {h}, s)
  BY <1>1, <1>3, <1>6, <1>8, <1>9, <1>10 DEF Fits
<1> QED BY <1>1, <1>2, <1>3, <1>11

\* _recycle_mObject to a list that fits.
LEMMA GiveFits ==
  ASSUME NEW c, NEW e, NEW f \in Seq(Object), NEW n, NEW l, NEW s,
         Fits(c, e, f, n, l, s), NEW o \in Object, o \in l, NEW g, g = <<o>> \o f
  PROVE  Fits(c, e, g, n, l \ {o}, s) /\ g \in Seq(Object)
<1>1. o \notin ToSet(f) /\ IsInjective(f)
  BY DEF Fits
<1>2. /\ g \in Seq(Object) /\ Len(g) = Len(f) + 1 /\ ToSet(g) = ToSet(f) \cup {o}
      /\ IsInjective(g)
  <2>1. Prepended(Object, f, o, g)
    BY PrependProps, Zenon
  <2> QED BY <1>1, <2>1 DEF Prepended
<1>3. PICK out : out = l \cup s
  OBVIOUS
<1>4. IsFiniteSet(out) /\ o \in out
  BY <1>3 DEF Fits
<1>5. IsFiniteSet(out \ {o}) /\ Cardinality(out \ {o}) = Cardinality(out) - 1
  BY <1>4, FS_RemoveElement
<1>6. Cardinality(out) \in Nat /\ Len(f) \in Nat
  BY <1>4, FS_CardinalityType, LenProperties
<1>7. n = Len(g) + Cardinality(out \ {o})
  BY <1>2, <1>3, <1>5, <1>6 DEF Fits
<1>8. (l \ {o}) \cup s = out \ {o}
  BY <1>3 DEF Fits
<1>9. /\ \A x \in ToSet(g) \cup (l \ {o}) \cup s : x[1] \in {c} \cup ToSet(e)
      /\ ToSet(g) \cap ((l \ {o}) \cup s) = {} /\ (l \ {o}) \cap s = {}
  BY <1>2 DEF Fits
<1> QED BY <1>2, <1>5, <1>7, <1>8, <1>9 DEF Fits
-----------------------------------------------------------------------------
(***************************************************************************)
(* A step is on one mount point and its container.                         *)
(***************************************************************************)

\* Nothing of the other mount points and containers changes.
Frame(m, c) ==
  /\ \A k \in Mount \ {m} :
       /\ containers'[k] = containers[k] /\ cache'[k] = cache[k]
       /\ live'[k] = live[k] /\ stuck'[k] = stuck[k]
  /\ \A d \in PageRun \ {c} :
       extends'[d] = extends[d] /\ frees'[d] = frees[d] /\ total'[d] = total[d]

\* Container c is the one of m, or a free run m can have for a container.
Begins(m, c) ==
  \/ containers[m] = <<c>>
  \/ containers[m] = <<>> /\ c \notin Used

\* A container only grows by free runs.
Grows(c) == \A r \in ToSet(extends'[c]) : r \in ToSet(extends[c]) \/ r \notin Used

Ends(m, c) ==
  \/ Idle(m)' /\ extends'[c] = <<>>
  \/ Busy(m, c)'

LEMMA UsedIs ==
  ASSUME NEW m \in Mount, NEW c \in PageRun, containers[m] = <<c>>
  PROVE  RunsOf(c) \subseteq Used /\ c \in RunsOf(c)
<1>1. c \in ToSet(containers[m])
  BY OneElement
<1> QED BY <1>1 DEF Used, RunsOf

LEMMA Elsewhere ==
  ASSUME PInv, TypeOK', NEW m \in Mount, NEW c \in PageRun,
         Frame(m, c), Begins(m, c), Grows(c), Ends(m, c)
  PROVE  PInv'
<1>1. ASSUME NEW k \in Mount \ {m} PROVE containers[k] # <<c>>
  <2> SUFFICES ASSUME containers[k] = <<c>> PROVE FALSE
    OBVIOUS
  <2>1. c \in Used /\ c \in RunsOf(c)
    BY UsedIs
  <2> QED BY <2>1 DEF Begins, PInv, Apart
<1>2. OneEach'
  <2> SUFFICES ASSUME NEW k \in Mount PROVE Idle(k)' \/ \E d \in PageRun : Busy(k, d)'
    BY DEF OneEach
  <2>1. CASE k = m
    BY <2>1 DEF Ends
  <2>2. CASE k # m /\ Idle(k)
    BY <2>2 DEF Frame, Idle
  <2>3. ASSUME k # m, NEW d \in PageRun, Busy(k, d) PROVE Busy(k, d)'
    <3>1. d # c
      BY <1>1, <2>3 DEF Busy
    <3> QED BY <2>3, <3>1 DEF Busy, Frame, Fits
  <2> QED BY <2>1, <2>2, <2>3 DEF PInv, OneEach
<1>3. ASSUME NEW k \in Mount \ {m}, NEW d \in PageRun, containers'[k] = <<d>>
      PROVE  containers[k] = <<d>> /\ d # c /\ RunsOf(d)' = RunsOf(d)
  BY <1>1, <1>3 DEF Frame, RunsOf
<1>4. ASSUME NEW d \in PageRun, containers'[m] = <<d>> PROVE d = c
  BY <1>4, OneElement DEF Ends, Idle, Busy
<1>5. ASSUME NEW k \in Mount \ {m}, NEW d \in PageRun, containers'[k] = <<d>>
      PROVE  RunsOf(c)' \cap RunsOf(d) = {}
  <2>1. containers[k] = <<d>> /\ d # c /\ RunsOf(d) \subseteq Used
    BY <1>3, <1>5, UsedIs
  <2>2. RunsOf(c) \cap RunsOf(d) = {}
    <3>1. CASE containers[m] = <<c>>
      BY <2>1, <3>1 DEF PInv, Apart
    <3>2. CASE containers[m] = <<>> /\ c \notin Used
      <4>1. extends[c] = <<>>
        BY <1>1, <3>2, OneElement DEF PInv, Spare
      <4> QED BY <2>1, <3>2, <4>1, OneElement DEF RunsOf
    <3> QED BY <3>1, <3>2 DEF Begins
  <2> QED BY <2>1, <2>2 DEF Grows, RunsOf
<1>6. Apart'
  <2> SUFFICES ASSUME NEW k \in Mount, NEW l \in Mount, NEW d \in PageRun, NEW e \in PageRun,
                      k # l, containers'[k] = <<d>>, containers'[l] = <<e>>
               PROVE  RunsOf(d)' \cap RunsOf(e)' = {}
    BY DEF Apart
  <2>1. CASE k = m
    <3>1. d = c /\ RunsOf(e)' = RunsOf(e) /\ RunsOf(c)' \cap RunsOf(e) = {}
      BY <1>3, <1>4, <1>5, <2>1
    <3> QED BY <3>1
  <2>2. CASE l = m
    <3>1. e = c /\ RunsOf(d)' = RunsOf(d) /\ RunsOf(c)' \cap RunsOf(d) = {}
      BY <1>3, <1>4, <1>5, <2>2
    <3> QED BY <3>1
  <2>3. CASE k # m /\ l # m
    BY <1>3, <2>3 DEF PInv, Apart
  <2> QED BY <2>1, <2>2, <2>3
<1>7. Spare'
  <2> SUFFICES ASSUME NEW r \in PageRun, \A k \in Mount : containers'[k] # <<r>>
               PROVE  extends'[r] = <<>>
    BY DEF Spare
  <2>1. CASE r = c
    BY <2>1 DEF Ends, Busy
  <2>2. CASE r # c
    <3>1. containers[m] # <<r>>
      BY <2>2, OneElement DEF Begins
    <3>2. \A k \in Mount : containers[k] # <<r>>
      BY <3>1 DEF Frame
    <3> QED BY <2>2, <3>2 DEF PInv, Spare, Frame
  <2> QED BY <2>1, <2>2
<1> QED BY <1>2, <1>6, <1>7 DEF PInv

\* What the container that is found is.
LEMMA FoundIs ==
  ASSUME PInv, NEW m \in Mount
  PROVE  IF Found(m) = None THEN Idle(m) ELSE \E c \in PageRun : Busy(m, c) /\ Found(m) = c
<1>1. CASE Idle(m)
  BY <1>1 DEF Idle, Found
<1>2. ASSUME NEW c \in PageRun, Busy(m, c) PROVE Found(m) = c /\ c # None
  BY <1>2, OneElement, PoolAssumption DEF Busy, Found
<1> QED BY <1>1, <1>2 DEF PInv, OneEach

LEMMA FoundForIs ==
  ASSUME PInv, NEW m \in Mount, NEW o, FoundFor(m, o) # None
  PROVE  \E c \in PageRun : Busy(m, c) /\ FoundFor(m, o) = c
<1> DEFINE hits == {i \in DOMAIN containers[m] : Covers(containers[m][i], o)}
<1>1. FoundFor(m, o) = IF cache[m] # None /\ Covers(cache[m], o) THEN cache[m]
                       ELSE IF hits # {} THEN containers[m][Min(hits)] ELSE None
  BY DEF FoundFor
<1>2. CASE Idle(m)
  <2>1. cache[m] = None /\ hits = {}
    BY <1>2 DEF Idle
  <2> QED BY <1>1, <2>1
<1>3. ASSUME NEW c \in PageRun, Busy(m, c) PROVE FoundFor(m, o) = c
  <2>1. containers[m] = <<c>> /\ cache[m] \in {c, None}
    BY <1>3 DEF Busy
  <2>2. hits # {} => hits = {1}
    BY <2>1
  <2>3. Min({1}) = 1
    BY DEF Min
  <2>4. hits # {} => containers[m][Min(hits)] = c
    BY <2>1, <2>2, <2>3
  <2> QED BY <1>1, <2>1, <2>4
<1> QED BY <1>2, <1>3 DEF PInv, OneEach

LEMMA NewSafe ==
  ASSUME PInv, NEW m \in Mount, New(m)
  PROVE  PInv'
<1>1. PICK c \in PageRun : Busy(m, c) /\ Found(m) = c
  BY FoundIs DEF New
<1>2. PICK f : f = frees[c]
  OBVIOUS
<1>3. /\ frees' = [frees EXCEPT ![c] = Tail(f)]
      /\ live' = [live EXCEPT ![m] = @ \cup {Head(f)}]
      /\ cache' = [cache EXCEPT ![m] = c]
      /\ UNCHANGED <<containers, extends, total, stuck>>
      /\ f # <<>>
  BY <1>1, <1>2 DEF New, Take
<1>4. TypeOK /\ f \in Seq(Object)
  BY <1>2 DEF PInv, TypeOK
<1>5. Fits(c, extends[c], f, total[c], live[m], stuck[m])
  BY <1>1, <1>2 DEF Busy
<1>6. /\ Fits(c, extends[c], Tail(f), total[c], live[m] \cup {Head(f)}, stuck[m])
      /\ Tail(f) \in Seq(Object) /\ Head(f) \in Object
  BY <1>3, <1>4, <1>5, TakeFits
<1>7. TypeOK'
  BY <1>3, <1>4, <1>6 DEF TypeOK
<1>8. Busy(m, c)'
  BY <1>1, <1>3, <1>4, <1>6 DEF Busy, TypeOK
<1>9. Frame(m, c) /\ Begins(m, c) /\ Grows(c)
  <2>1. Frame(m, c)
    BY <1>3, <1>4 DEF Frame, TypeOK
  <2>2. Begins(m, c)
    BY <1>1 DEF Begins, Busy
  <2>3. Grows(c)
    BY <1>3, <1>4 DEF Grows, TypeOK
  <2> QED BY <2>1, <2>2, <2>3
<1> QED BY <1>7, <1>8, <1>9, Elsewhere DEF Ends

LEMMA NewFailsSafe ==
  ASSUME PInv, NEW m \in Mount, NewFails(m)
  PROVE  PInv'
<1>1. PICK c \in PageRun : Busy(m, c) /\ Found(m) = c
  BY FoundIs DEF NewFails
<1>2. /\ cache' = [cache EXCEPT ![m] = c]
      /\ UNCHANGED <<containers, extends, frees, total, live, stuck>>
      /\ TypeOK
  BY <1>1 DEF NewFails, PInv
<1>3. TypeOK'
  BY <1>2 DEF TypeOK
<1>4. Busy(m, c)'
  BY <1>1, <1>2 DEF Busy, TypeOK
<1>5. Frame(m, c) /\ Begins(m, c) /\ Grows(c)
  <2>1. Frame(m, c)
    BY <1>2 DEF Frame, TypeOK
  <2>2. Begins(m, c)
    BY <1>1 DEF Begins, Busy
  <2>3. Grows(c)
    BY <1>2 DEF Grows, TypeOK
  <2> QED BY <2>1, <2>2, <2>3
<1> QED BY <1>3, <1>4, <1>5, Elsewhere DEF Ends

\* The container grows by a run nobody has, whose objects are all free.
Extended(c, e, n, l, s, r, d, f) ==
  /\ Fits(c, d, f, n + PerExtend, l, s)
  /\ d \in Seq(PageRun) /\ ToSet(d) = ToSet(e) \cup {r}
  /\ f \in Seq(Object) /\ f # <<>>

LEMMA ExtendFits ==
  ASSUME NEW c \in PageRun, NEW e \in Seq(PageRun), NEW n \in Nat, NEW l, NEW s,
         Fits(c, e, <<>>, n, l, s), NEW r \in PageRun, r # c, r \notin ToSet(e),
         NEW d, d = <<r>> \o e, NEW f, f = Fresh(r, PerExtend)
  PROVE  Extended(c, e, n, l, s, r, d, f)
<1>1. PerExtend \in Nat \ {0}
  BY PoolAssumption
<1>2. /\ f \in Seq(Object) /\ f # <<>> /\ Len(f) = PerExtend /\ IsInjective(f)
      /\ \A o \in ToSet(f) : o[1] = r
  BY <1>1, FreshProps
<1>3. Prepended(PageRun, e, r, d)
  BY PrependProps, Zenon
<1>4. /\ d \in Seq(PageRun) /\ ToSet(d) = ToSet(e) \cup {r} /\ IsInjective(d)
  BY <1>3 DEF Prepended, Fits
<1>5. \A o \in l \cup s : o[1] \in {c} \cup ToSet(e) /\ o[1] # r
  BY DEF Fits
<1>6. /\ \A o \in ToSet(f) \cup l \cup s : o[1] \in {c} \cup ToSet(d)
      /\ ToSet(f) \cap (l \cup s) = {}
  BY <1>2, <1>4, <1>5
<1>7. PICK k : k = Cardinality(l \cup s)
  OBVIOUS
<1>8. k \in Nat /\ n = k
  <2>1. IsFiniteSet(l \cup s) /\ n = Len(<<>>) + k
    BY <1>7 DEF Fits
  <2> QED BY <1>7, <2>1, FS_CardinalityType
<1>9. n + PerExtend = Len(f) + Cardinality(l \cup s)
  BY <1>1, <1>2, <1>7, <1>8
<1>10. Fits(c, d, f, n + PerExtend, l, s)
  BY <1>2, <1>4, <1>6, <1>9 DEF Fits
<1> QED BY <1>2, <1>4, <1>10 DEF Extended

LEMMA NewExtendsSafe ==
  ASSUME PInv, NEW m \in Mount, NEW r \in PageRun, NewExtends(m, r)
  PROVE  PInv'
<1>1. PICK c \in PageRun : Busy(m, c) /\ Found(m) = c
  BY FoundIs DEF NewExtends
<1>2. PICK f : f = Fresh(r, PerExtend)
  OBVIOUS
<1>3. PICK d : d = <<r>> \o extends[c]
  OBVIOUS
<1>4. /\ extends' = [extends EXCEPT ![c] = d]
      /\ total' = [total EXCEPT ![c] = total[c] + PerExtend]
      /\ frees' = [frees EXCEPT ![c] = Tail(f)]
      /\ live' = [live EXCEPT ![m] = @ \cup {Head(f)}]
      /\ cache' = [cache EXCEPT ![m] = c]
      /\ UNCHANGED <<containers, stuck>>
      /\ frees[c] = <<>> /\ r \notin Used
      /\ TypeOK
  BY <1>1, <1>2, <1>3 DEF NewExtends, Take, PInv
<1>5. extends[c] \in Seq(PageRun) /\ total[c] \in Nat
  BY <1>4 DEF TypeOK
<1>6. r # c /\ r \notin ToSet(extends[c])
  BY <1>1, <1>4, UsedIs DEF Busy, RunsOf
<1>7. Fits(c, extends[c], <<>>, total[c], live[m], stuck[m])
  BY <1>1, <1>4 DEF Busy
<1>8. /\ Fits(c, d, f, total[c] + PerExtend, live[m], stuck[m])
      /\ d \in Seq(PageRun) /\ ToSet(d) = ToSet(extends[c]) \cup {r}
      /\ f \in Seq(Object) /\ f # <<>>
  <2>1. Extended(c, extends[c], total[c], live[m], stuck[m], r, d, f)
    BY <1>2, <1>3, <1>5, <1>6, <1>7, ExtendFits, Zenon
  <2> QED BY <2>1 DEF Extended
<1>9. /\ Fits(c, d, Tail(f), total[c] + PerExtend, live[m] \cup {Head(f)}, stuck[m])
      /\ Tail(f) \in Seq(Object) /\ Head(f) \in Object
  BY <1>8, TakeFits
<1>10. TypeOK'
  <2>1. total[c] + PerExtend \in Nat
    BY <1>5, PoolAssumption
  <2> QED BY <1>4, <1>8, <1>9, <2>1 DEF TypeOK
<1>11. Busy(m, c)'
  BY <1>1, <1>4, <1>9 DEF Busy, TypeOK
<1>12. Frame(m, c) /\ Begins(m, c) /\ Grows(c)
  <2>1. Frame(m, c)
    BY <1>4 DEF Frame, TypeOK
  <2>2. Begins(m, c)
    BY <1>1 DEF Begins, Busy
  <2>3. Grows(c)
    BY <1>4, <1>8 DEF Grows, TypeOK
  <2> QED BY <2>1, <2>2, <2>3
<1> QED BY <1>10, <1>11, <1>12, Elsewhere DEF Ends

LEMMA NewCreatesSafe ==
  ASSUME PInv, NEW m \in Mount, NEW r \in PageRun, NewCreates(m, r)
  PROVE  PInv'
<1>1. Idle(m)
  BY FoundIs DEF NewCreates
<1>2. PICK f : f = Fresh(r, PerBase)
  OBVIOUS
<1>3. <<r>> \o <<>> = <<r>> /\ <<r>> \in Seq(PageRun)
  OBVIOUS
<1>4. /\ containers' = [containers EXCEPT ![m] = <<r>>]
      /\ total' = [total EXCEPT ![r] = PerBase]
      /\ frees' = [frees EXCEPT ![r] = Tail(f)]
      /\ live' = [live EXCEPT ![m] = @ \cup {Head(f)}]
      /\ cache' = [cache EXCEPT ![m] = r]
      /\ UNCHANGED <<extends, stuck>>
      /\ r \notin Used
      /\ TypeOK
  BY <1>1, <1>2, <1>3 DEF NewCreates, Take, PInv, Idle
<1>5. extends[r] = <<>>
  <2>1. \A k \in Mount : containers[k] # <<r>>
    BY <1>4, UsedIs
  <2> QED BY <2>1 DEF PInv, Spare
<1>6. PerBase \in Nat \ {0}
  BY PoolAssumption
<1>7. /\ f \in Seq(Object) /\ f # <<>> /\ Len(f) = PerBase /\ IsInjective(f)
      /\ \A o \in ToSet(f) : o[1] = r
  BY <1>2, <1>6, FreshProps
<1>8. live[m] = {} /\ stuck[m] = {}
  BY <1>1 DEF Idle
<1>9. Fits(r, <<>>, f, PerBase, {}, {})
  <2>1. IsFiniteSet({}) /\ Cardinality({}) = 0 /\ {} \cup {} = {}
    BY FS_EmptySet
  <2>2. PerBase = Len(f) + Cardinality({} \cup {})
    BY <1>6, <1>7, <2>1
  <2> QED BY <1>7, <2>1, <2>2, OneElement DEF Fits
<1>10. /\ Fits(r, <<>>, Tail(f), PerBase, {} \cup {Head(f)}, {})
       /\ Tail(f) \in Seq(Object) /\ Head(f) \in Object
  BY <1>7, <1>9, TakeFits
<1>11. TypeOK'
  BY <1>3, <1>4, <1>6, <1>10 DEF TypeOK
<1>12. Busy(m, r)'
  BY <1>4, <1>5, <1>8, <1>10 DEF Busy, TypeOK
<1>13. Frame(m, r) /\ Begins(m, r) /\ Grows(r)
  BY <1>1, <1>4 DEF Frame, Begins, Grows, Idle, TypeOK
<1> QED BY <1>11, <1>12, <1>13, Elsewhere DEF Ends


LEMMA RemoveOnly ==
  ASSUME NEW c \in PageRun
  PROVE  RemoveFirst(<<c>>, c) = <<>>
<1> DEFINE s == <<c>>
           hits == {i \in 1 .. Len(s) : s[i] = c}
<1>1. Len(s) = 1 /\ s[1] = c /\ s \in Seq(PageRun)
  OBVIOUS
<1>2. hits = {1} /\ \E i \in 1 .. Len(s) : s[i] = c
  BY <1>1
<1>3. Min({1}) = 1
  BY DEF Min
<1> HIDE DEF s
<1>4. SelectInSeq(s, LAMBDA v : v = c) = 1
  <2>1. SelectInSeq(s, LAMBDA v : v = c) = IF hits # {} THEN Min(hits) ELSE 0
    BY DEF SelectInSeq
  <2> QED BY <1>2, <1>3, <2>1
<1>5. RemoveFirst(s, c) = RemoveAt(s, 1)
  BY <1>2, <1>4 DEF RemoveFirst
<1>6. RemoveAt(s, 1) = SubSeq(s, 1, 0) \o SubSeq(s, 2, 1)
  BY <1>1 DEF RemoveAt
<1>7. SubSeq(s, 1, 0) = <<>> /\ SubSeq(s, 2, 1) = <<>>
  BY SubSeqEmpty
<1>8. RemoveFirst(s, c) = <<>>
  BY <1>5, <1>6, <1>7
<1> QED BY <1>8 DEF s

\* The last object comes back to a full list, and only the last one.
Counted(f, n, l, s, o) == Len(f) + 1 = n <=> (l \ {o} = {} /\ s = {})

LEMMA LastOne ==
  ASSUME NEW c, NEW e, NEW f \in Seq(Object), NEW n, NEW l, NEW s,
         Fits(c, e, f, n, l, s), NEW o \in l
  PROVE  Counted(f, n, l, s, o)
<1>1. PICK out : out = l \cup s
  OBVIOUS
<1>2. PICK k : k = Cardinality(out)
  OBVIOUS
<1>3. PICK z : z = Len(f)
  OBVIOUS
<1>4. IsFiniteSet(out) /\ k \in Nat /\ z \in Nat /\ n = z + k
  BY <1>1, <1>2, <1>3, FS_CardinalityType, LenProperties DEF Fits
<1>5. z + 1 = n <=> k = 1
  BY <1>4
<1>6. k = 1 <=> \E x : out = {x}
  BY <1>2, <1>4, FS_Singleton
<1>7. o \in out /\ o \notin s
  BY <1>1 DEF Fits
<1>8. (\E x : out = {x}) <=> out = {o}
  BY <1>7
<1>9. out = {o} <=> (l \ {o} = {} /\ s = {})
  BY <1>1, <1>7
<1> QED BY <1>3, <1>5, <1>6, <1>8, <1>9 DEF Counted

LEMMA DeleteSafe ==
  ASSUME PInv, NEW m \in Mount, NEW o \in live[m], Delete(m, o)
  PROVE  PInv'
<1>1. PICK c \in PageRun : Busy(m, c) /\ FoundFor(m, o) = c
  BY FoundForIs DEF Delete, Recycles
<1>2. /\ live' = [live EXCEPT ![m] = @ \ {o}]
      /\ IF Len(frees[c]) + 1 = total[c] THEN Destroy(m, c)
         ELSE /\ frees' = [frees EXCEPT ![c] = <<o>> \o frees[c]]
              /\ UNCHANGED <<containers, cache, extends, total>>
      /\ UNCHANGED stuck
      /\ TypeOK
  BY <1>1 DEF Delete, PInv
<1>3. frees[c] \in Seq(Object) /\ o \in Object
  BY <1>2 DEF TypeOK
<1>4. Fits(c, extends[c], frees[c], total[c], live[m], stuck[m])
  BY <1>1 DEF Busy
<1>5. Len(frees[c]) + 1 = total[c] <=> (live[m] \ {o} = {} /\ stuck[m] = {})
  <2>1. Counted(frees[c], total[c], live[m], stuck[m], o)
    BY <1>3, <1>4, LastOne, Zenon
  <2> QED BY <2>1 DEF Counted
<1>6. Begins(m, c)
  BY <1>1 DEF Begins, Busy
<1>7. CASE Len(frees[c]) + 1 = total[c]
  <2>1. containers[m] = <<c>> /\ cache[m] \in {c, None}
    BY <1>1 DEF Busy
  <2>2. RemoveFirst(containers[m], c) = <<>>
    BY <2>1, RemoveOnly
  <2>3. /\ containers' = [containers EXCEPT ![m] = <<>>]
        /\ cache' = [cache EXCEPT ![m] = None]
        /\ extends' = [extends EXCEPT ![c] = <<>>]
        /\ frees' = [frees EXCEPT ![c] = <<>>]
        /\ total' = [total EXCEPT ![c] = 0]
    BY <1>2, <1>7, <2>1, <2>2 DEF Destroy
  <2>4. TypeOK'
    <3>1. <<>> \in Seq(PageRun) /\ <<>> \in Seq(Object)
      OBVIOUS
    <3> QED BY <1>2, <2>3, <3>1 DEF TypeOK
  <2>5. Idle(m)' /\ extends'[c] = <<>>
    BY <1>2, <1>5, <1>7, <2>3 DEF Idle, TypeOK
  <2>6. Frame(m, c)
    BY <1>2, <2>3 DEF Frame, TypeOK
  <2>7. Grows(c)
    BY <2>5, OneElement DEF Grows
  <2> QED BY <1>6, <2>4, <2>5, <2>6, <2>7, Elsewhere DEF Ends
<1>8. CASE Len(frees[c]) + 1 # total[c]
  <2>1. PICK g : g = <<o>> \o frees[c]
    OBVIOUS
  <2>2. frees' = [frees EXCEPT ![c] = g] /\ UNCHANGED <<containers, cache, extends, total>>
    BY <1>2, <1>8, <2>1
  <2>3. Fits(c, extends[c], g, total[c], live[m] \ {o}, stuck[m]) /\ g \in Seq(Object)
    BY <1>3, <1>4, <2>1, GiveFits
  <2>4. TypeOK'
    BY <1>2, <2>2, <2>3 DEF TypeOK
  <2>5. Busy(m, c)'
    BY <1>1, <1>2, <1>5, <1>8, <2>2, <2>3 DEF Busy, TypeOK
  <2>6. Frame(m, c)
    BY <1>2, <2>2 DEF Frame, TypeOK
  <2>7. Grows(c)
    BY <2>2 DEF Grows
  <2> QED BY <1>6, <2>4, <2>5, <2>6, <2>7, Elsewhere DEF Ends
<1> QED BY <1>7, <1>8

LEMMA DeleteFailsSafe ==
  ASSUME PInv, NEW m \in Mount, NEW o \in live[m], DeleteFails(m, o)
  PROVE  PInv'
<1>1. /\ live' = [live EXCEPT ![m] = @ \ {o}]
      /\ stuck' = [stuck EXCEPT ![m] = @ \cup {o}]
      /\ UNCHANGED <<containers, cache, extends, frees, total>>
      /\ TypeOK
  BY DEF DeleteFails, PInv
<1>2. PICK c \in PageRun : Busy(m, c)
  BY DEF PInv, OneEach, Idle
<1>3. (live[m] \ {o}) \cup (stuck[m] \cup {o}) = live[m] \cup stuck[m]
  OBVIOUS
<1>4. Fits(c, extends[c], frees[c], total[c], live[m] \ {o}, stuck[m] \cup {o})
  BY <1>2, <1>3 DEF Busy, Fits
<1>5. TypeOK'
  BY <1>1 DEF TypeOK
<1>6. Busy(m, c)'
  BY <1>1, <1>2, <1>4 DEF Busy, TypeOK
<1>7. Frame(m, c)
  BY <1>1 DEF Frame, TypeOK
<1>8. Begins(m, c) /\ Grows(c)
  BY <1>1, <1>2 DEF Begins, Grows, Busy
<1> QED BY <1>5, <1>6, <1>7, <1>8, Elsewhere DEF Ends
-----------------------------------------------------------------------------
(***************************************************************************)
(* The invariant, and what follows from it.                                *)
(***************************************************************************)

LEMMA PInvInductive == Spec => []PInv
<1>1. Init => PInv
  <2> SUFFICES ASSUME Init PROVE PInv
    OBVIOUS
  <2>1. <<>> \in Seq(PageRun) /\ <<>> \in Seq(Object)
    OBVIOUS
  <2>2. TypeOK
    BY <2>1 DEF Init, TypeOK
  <2>3. OneEach
    BY DEF Init, OneEach, Idle
  <2>4. Apart
    BY OneElement DEF Init, Apart
  <2>5. Spare
    BY DEF Init, Spare
  <2> QED BY <2>2, <2>3, <2>4, <2>5 DEF PInv
<1>2. PInv /\ [Next]_vars => PInv'
  <2> SUFFICES ASSUME PInv, [Next]_vars PROVE PInv'
    OBVIOUS
  <2>1. CASE UNCHANGED vars
    <3>1. TypeOK'
      BY <2>1 DEF vars, PInv, TypeOK
    <3>2. OneEach'
      BY <2>1 DEF vars, PInv, OneEach, Idle, Busy, Fits
    <3>3. Apart'
      BY <2>1 DEF vars, PInv, Apart, RunsOf
    <3>4. Spare'
      BY <2>1 DEF vars, PInv, Spare
    <3> QED BY <3>1, <3>2, <3>3, <3>4 DEF PInv
  <2>2. ASSUME NEW m \in Mount, New(m) PROVE PInv'
    BY <2>2, NewSafe
  <2>3. ASSUME NEW m \in Mount, NewFails(m) PROVE PInv'
    BY <2>3, NewFailsSafe
  <2>4. ASSUME NEW m \in Mount, NEW r \in PageRun, NewExtends(m, r) PROVE PInv'
    BY <2>4, NewExtendsSafe
  <2>5. ASSUME NEW m \in Mount, NEW r \in PageRun, NewCreates(m, r) PROVE PInv'
    BY <2>5, NewCreatesSafe
  <2>6. ASSUME NEW m \in Mount, NEW o \in live[m], Delete(m, o) PROVE PInv'
    BY <2>6, DeleteSafe
  <2>7. ASSUME NEW m \in Mount, NEW o \in live[m], DeleteFails(m, o) PROVE PInv'
    BY <2>7, DeleteFailsSafe
  <2> QED BY <2>1, <2>2, <2>3, <2>4, <2>5, <2>6, <2>7 DEF Next
<1> QED BY <1>1, <1>2, PTL DEF Spec

\* The counters, lists and sets of the allocator keep their types.
THEOREM PoolTyped == Spec => []TypeOK
<1>1. PInv => TypeOK
  BY DEF PInv
<1> QED BY <1>1, PInvInductive, PTL

\* A container of one mount point is its only one.
LEMMA OnlyContainer ==
  ASSUME PInv, NEW m \in Mount, NEW c \in ToSet(containers[m])
  PROVE  c \in PageRun /\ Busy(m, c)
<1>1. ~ Idle(m)
  BY OneElement DEF Idle
<1>2. PICK d \in PageRun : Busy(m, d)
  BY <1>1 DEF PInv, OneEach
<1> QED BY <1>2, OneElement DEF Busy

\* create_container and extend_container never hand a run of pages to two
\* containers, nor twice to one.
THEOREM ContainersKeepApart == Spec => []RunsApart
<1>1. PInv => RunsApart
  <2> SUFFICES ASSUME PInv PROVE RunsApart
    OBVIOUS
  <2>1. ASSUME NEW m \in Mount PROVE IsInjective(containers[m])
    <3>1. containers[m] = <<>> \/ \E c \in PageRun : containers[m] = <<c>>
      BY DEF PInv, OneEach, Idle, Busy
    <3> QED BY <3>1, OneElement
  <2>2. ASSUME NEW m \in Mount, NEW n \in Mount, m # n,
               NEW c \in ToSet(containers[m]), NEW d \in ToSet(containers[n])
        PROVE  RunsOf(c) \cap RunsOf(d) = {} /\ c # d
    <3>1. /\ c \in PageRun /\ containers[m] = <<c>>
          /\ d \in PageRun /\ containers[n] = <<d>>
      BY OnlyContainer DEF Busy
    <3>2. RunsOf(c) \cap RunsOf(d) = {}
      BY <2>2, <3>1 DEF PInv, Apart
    <3> QED BY <3>2 DEF RunsOf
  <2>3. \A m, n \in Mount : m # n => ToSet(containers[m]) \cap ToSet(containers[n]) = {}
    BY <2>2
  <2>4. ASSUME NEW c \in AllContainers
        PROVE  /\ IsInjective(extends[c]) /\ c \notin ToSet(extends[c])
               /\ \A d \in AllContainers \ {c} : RunsOf(c) \cap RunsOf(d) = {}
    <3>1. PICK m \in Mount : c \in ToSet(containers[m])
      BY DEF AllContainers
    <3>2. IsInjective(extends[c]) /\ c \notin ToSet(extends[c])
      BY <3>1, OnlyContainer DEF Busy, Fits
    <3>3. ASSUME NEW d \in AllContainers \ {c} PROVE RunsOf(c) \cap RunsOf(d) = {}
      <4>1. PICK n \in Mount : d \in ToSet(containers[n])
        BY DEF AllContainers
      <4>2. m # n
        BY <3>1, <4>1, OnlyContainer, OneElement DEF Busy
      <4> QED BY <2>2, <3>1, <4>1, <4>2
    <3> QED BY <3>2, <3>3
  <2> QED BY <2>1, <2>3, <2>4 DEF RunsApart
<1> QED BY <1>1, PInvInductive, PTL

\* What a mount point with objects outside has.
LEMMA OutsideIsBusy ==
  ASSUME PInv, NEW m \in Mount, NEW o \in live[m] \cup stuck[m]
  PROVE  \E c \in PageRun : Busy(m, c)
  BY DEF PInv, OneEach, Idle

\* No container is given back under an object a caller has, and no object is
\* at once outside and in the list of free objects (memobject.c:515).
THEOREM LiveIsKept == Spec => []LiveKept
<1>1. PInv => LiveKept
  <2> SUFFICES ASSUME PInv, NEW m \in Mount, NEW o \in live[m] \cup stuck[m]
               PROVE  \E c \in ToSet(containers[m]) :
                        /\ o[1] \in RunsOf(c)
                        /\ IsInjective(frees[c]) /\ o \notin ToSet(frees[c])
    BY DEF LiveKept
  <2>1. PICK c \in PageRun : Busy(m, c)
    BY OutsideIsBusy
  <2>2. c \in ToSet(containers[m])
    BY <2>1, OneElement DEF Busy
  <2>3. o[1] \in RunsOf(c) /\ IsInjective(frees[c]) /\ o \notin ToSet(frees[c])
    BY <2>1 DEF Busy, Fits, RunsOf
  <2> QED BY <2>2, <2>3
<1> QED BY <1>1, PInvInductive, PTL

\* mount->cache never points to a container that was destroyed.
THEOREM CacheIsFresh == Spec => []CacheFresh
<1>1. PInv => CacheFresh
  <2> SUFFICES ASSUME PInv, NEW m \in Mount
               PROVE  cache[m] \in ToSet(containers[m]) \cup {None}
    BY DEF CacheFresh
  <2> QED BY OneElement DEF PInv, OneEach, Idle, Busy
<1> QED BY <1>1, PInvInductive, PTL

\* The counters are exact, and the pages of a container go back with its last
\* object (memobject.c:600).
THEOREM NoneIsIdle == Spec => []NothingIdle
<1>1. PInv => NothingIdle
  <2> DEFINE Out(m, c) == {o \in live[m] \cup stuck[m] : o[1] \in RunsOf(c)}
  <2> SUFFICES ASSUME PInv, NEW m \in Mount, NEW c \in ToSet(containers[m])
               PROVE  /\ total[c] = Len(frees[c]) + Cardinality(Out(m, c))
                      /\ Out(m, c) # {}
    BY DEF NothingIdle
  <2>1. Busy(m, c)
    BY OnlyContainer
  <2>2. Out(m, c) = live[m] \cup stuck[m]
    BY <2>1 DEF Busy, Fits, RunsOf
  <2> QED BY <2>1, <2>2 DEF Busy, Fits
<1> QED BY <1>1, PInvInductive, PTL
=============================================================================
