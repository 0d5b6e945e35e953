------------------------------ MODULE BootProofs ------------------------------
(***************************************************************************)
(* Proofs about the boot, for any memory map, files and constants: what    *)
(* the image holds and what is copied out of it stays apart, and the lists *)
(* of the areas have every usable page that nothing occupies, once.        *)
(***************************************************************************)
EXTENDS Boot, SequenceTheorems, FiniteSetTheorems, WellFoundedInduction, TLAPS

-----------------------------------------------------------------------------
(***************************************************************************)
(* Numbers.                                                                *)
(***************************************************************************)

LEMMA Least ==
  ASSUME NEW S \in SUBSET Nat, S # {}
  PROVE  \E x \in S : \A y \in S : x <= y
<1>1. PICK x \in S : \A y \in S : ~ (<<y, x>> \in OpToRel(<, Nat))
  BY WFMin, NatLessThanWellFounded, Zenon
<1>2. ASSUME NEW y \in S PROVE x <= y
  <2>1. ~ (y < x)
    BY <1>1, <1>2 DEF OpToRel
  <2> QED BY <2>1
<1> QED BY <1>2

\* What holds of a and is handed on up to b holds from a to b.
LEMMA Upwards ==
  ASSUME NEW a \in Nat, NEW b \in Nat, NEW T,
         a <= b => a \in T, \A c \in a .. b - 1 : c \in T => c + 1 \in T
  PROVE  a .. b \subseteq T
<1> DEFINE I == {c \in a .. b : c \notin T}
<1> SUFFICES ASSUME I # {} PROVE FALSE
  OBVIOUS
<1>1. PICK x \in I : \A y \in I : x <= y
  <2>1. I \in SUBSET Nat
    OBVIOUS
  <2> HIDE DEF I
  <2> QED BY <2>1, Least, Zenon
<1>2. x \in a .. b /\ x # a
  BY <1>1
<1>3. x - 1 \in a .. b - 1 /\ ~ (x <= x - 1) /\ (x - 1) + 1 = x
  BY <1>2
<1>4. x - 1 \in T
  BY <1>1, <1>3
<1> QED BY <1>1, <1>3, <1>4

\* Each step of a recursion over numbers may depend on the number.
Iterates(g, S, x, F) ==
  g \in [Nat -> S] /\ g[0] = x /\ \A n \in Nat : g[n + 1] = F[n][g[n]]

LEMMA Iteration ==
  ASSUME NEW S, NEW x \in S, NEW F \in [Nat -> [S -> S]]
  PROVE  \E g : Iterates(g, S, x, F)
<1> DEFINE Part(n) == {g \in [0 .. n -> S] :
                         g[0] = x /\ \A i \in 0 .. n - 1 : g[i + 1] = F[i][g[i]]}
           T == {n \in Nat : Part(n) # {}}
<1>1. 0 \in T
  <2>1. [i \in 0 .. 0 |-> x] \in Part(0)
    OBVIOUS
  <2> QED BY <2>1
<1>2. ASSUME NEW n \in Nat, n \in T PROVE n + 1 \in T
  <2>1. PICK g \in Part(n) : TRUE
    BY <1>2
  <2> DEFINE h == [i \in 0 .. n + 1 |-> IF i = n + 1 THEN F[n][g[n]] ELSE g[i]]
  <2>2. h \in [0 .. n + 1 -> S]
    BY <2>1
  <2>3. ASSUME NEW i \in 0 .. (n + 1) - 1 PROVE h[i + 1] = F[i][h[i]]
    <3>1. CASE i = n
      BY <2>1, <3>1
    <3>2. CASE i # n
      <4>1. i \in 0 .. n - 1 /\ i + 1 \in 0 .. n
        BY <3>2
      <4> QED BY <2>1, <4>1
    <3> QED BY <3>1, <3>2
  <2>4. h[0] = x
    <3>1. 0 \in 0 .. n + 1 /\ 0 # n + 1 /\ g[0] = x
      BY <2>1
    <3> HIDE DEF Part, T
    <3> QED BY <3>1
  <2>5. h \in Part(n + 1)
    <3> HIDE DEF h, T
    <3>1. h[0] = x /\ \A i \in 0 .. (n + 1) - 1 : h[i + 1] = F[i][h[i]]
      BY <2>3, <2>4
    <3> QED BY <2>2, <3>1
  <2> HIDE DEF Part
  <2> QED BY <2>5
<1>3. ASSUME NEW n \in Nat PROVE Part(n) # {}
  <2> HIDE DEF T
  <2>1. 0 .. n \subseteq T
    BY <1>1, <1>2, Upwards
  <2>2. n \in T
    BY <2>1
  <2> QED BY <2>2 DEF T
<1>4. ASSUME NEW n \in Nat, NEW g \in Part(n), NEW h \in Part(n + 1)
      PROVE  g[n] = h[n]
  <2> DEFINE A == {i \in 0 .. n : g[i] = h[i]}
  <2>1. 0 \in A
    BY <1>4
  <2>2. ASSUME NEW i \in 0 .. n - 1, i \in A PROVE i + 1 \in A
    <3>1. i \in 0 .. (n + 1) - 1 /\ i + 1 \in 0 .. n
      OBVIOUS
    <3> QED BY <2>2, <3>1
  <2> HIDE DEF A
  <2>3. 0 .. n \subseteq A
    BY <2>1, <2>2, Upwards
  <2>4. n \in A
    BY <2>3
  <2> QED BY <2>4 DEF A
<1> DEFINE p == [n \in Nat |-> CHOOSE g \in Part(n) : TRUE]
           G == [n \in Nat |-> p[n][n]]
<1>5. \A n \in Nat : p[n] \in Part(n)
  BY <1>3
<1>6. ASSUME NEW n \in Nat PROVE G[n] \in S /\ G[n + 1] = F[n][G[n]]
  <2> HIDE DEF p
  <2>1. p[n] \in Part(n) /\ p[n + 1] \in Part(n + 1)
    <3> HIDE DEF Part
    <3> QED BY <1>5
  <2>2. p[n][n] = p[n + 1][n]
    <3> HIDE DEF Part
    <3> QED BY <1>4, <2>1
  <2>3. n \in 0 .. (n + 1) - 1
    OBVIOUS
  <2>4. p[n + 1][n + 1] = F[n][p[n + 1][n]]
    BY <2>1, <2>3
  <2> QED BY <2>1, <2>2, <2>4
<1>7. G[0] = x
  <2> HIDE DEF p
  <2>1. p[0] \in Part(0)
    BY <1>5
  <2> QED BY <2>1
<1>8. G \in [Nat -> S]
  <2> HIDE DEF p
  <2> QED BY <1>6
<1> HIDE DEF G
<1> QED BY <1>6, <1>7, <1>8 DEF Iterates

\* 1UL << order: the size doubles with the order.
LEMMA SizeFacts ==
  /\ Size[0] = 1
  /\ \A k \in Nat : Size[k] \in Nat \ {0} /\ Size[k + 1] = 2 * Size[k]
<1> DEFINE F == [n \in Nat |-> [v \in Nat |-> 2 * v]]
<1>1. F \in [Nat -> [Nat -> Nat]] /\ 1 \in Nat
  OBVIOUS
<1>2. \E h : Iterates(h, Nat, 1, F)
  <2> HIDE DEF F
  <2> QED BY <1>1, Iteration, Zenon
<1>3. PICK g \in [Nat -> Nat] : g[0] = 1 /\ \A n \in Nat : g[n + 1] = 2 * g[n]
  <2>1. PICK h \in [Nat -> Nat] : h[0] = 1 /\ \A n \in Nat : h[n + 1] = F[n][h[n]]
    BY <1>2 DEF Iterates
  <2>2. \A n \in Nat : F[n][h[n]] = 2 * h[n]
    OBVIOUS
  <2> QED BY <2>1, <2>2
<1> DEFINE D(f) == f = [k \in Nat |-> IF k = 0 THEN 1 ELSE 2 * f[k - 1]]
<1>4. ASSUME NEW k \in Nat PROVE g[k] = IF k = 0 THEN 1 ELSE 2 * g[k - 1]
  <2>1. CASE k # 0
    <3>1. k - 1 \in Nat /\ (k - 1) + 1 = k
      BY <2>1
    <3> QED BY <1>3, <2>1, <3>1
  <2> QED BY <1>3, <2>1
<1>5. D(g)
  BY <1>4
<1>6. Size = CHOOSE f : D(f)
  BY DEF Size
<1>7. D(Size)
  <2> HIDE DEF D
  <2> QED BY <1>5, <1>6, Zenon
<1>8. \A k \in Nat : Size[k] = IF k = 0 THEN 1 ELSE 2 * Size[k - 1]
  <2>1. PICK z : z = Size
    OBVIOUS
  <2>2. z = [k \in Nat |-> IF k = 0 THEN 1 ELSE 2 * z[k - 1]]
    BY <1>7, <2>1
  <2>3. \A k \in Nat : z[k] = IF k = 0 THEN 1 ELSE 2 * z[k - 1]
    BY <2>2
  <2> QED BY <2>1, <2>3, Zenon
<1> HIDE DEF F
<1>9. \A k \in Nat : Size[k + 1] = 2 * Size[k]
  <2> SUFFICES ASSUME NEW k \in Nat PROVE Size[k + 1] = 2 * Size[k]
    OBVIOUS
  <2>1. k + 1 \in Nat /\ k + 1 # 0 /\ (k + 1) - 1 = k
    OBVIOUS
  <2> QED BY <1>8, <2>1
<1> DEFINE T == {k \in Nat : Size[k] \in Nat \ {0}}
<1>10. 0 \in T
  BY <1>8
<1>11. ASSUME NEW k \in Nat, k \in T PROVE k + 1 \in T
  BY <1>9, <1>11
<1>12. ASSUME NEW k \in Nat PROVE Size[k] \in Nat \ {0}
  <2> HIDE DEF T
  <2>1. 0 .. k \subseteq T
    BY <1>10, <1>11, Upwards
  <2>2. k \in T
    BY <2>1
  <2> QED BY <2>2 DEF T
<1> QED BY <1>8, <1>9, <1>12

LEMMA SizesGrow ==
  ASSUME NEW j \in Nat, NEW k \in Nat, j <= k
  PROVE  Size[j] <= Size[k]
<1> DEFINE T == {c \in Nat : Size[j] <= Size[c]}
<1>1. j \in T
  BY SizeFacts
<1>2. ASSUME NEW c \in Nat, c \in T PROVE c + 1 \in T
  BY <1>2, SizeFacts
<1> HIDE DEF T
<1>3. j .. k \subseteq T
  BY <1>1, <1>2, Upwards
<1>4. k \in T
  BY <1>3
<1> QED BY <1>4 DEF T

-----------------------------------------------------------------------------
(***************************************************************************)
(* Pages.                                                                  *)
(***************************************************************************)

LEMMA TimesType == \A p \in Nat : p * PageSize \in Nat
BY BootAssumption

LEMMA TimesNext == \A p \in Nat : (p + 1) * PageSize = p * PageSize + PageSize
BY BootAssumption

LEMMA TimesGrow ==
  ASSUME NEW p \in Nat, NEW q \in Nat
  PROVE  /\ p <= q => p * PageSize <= q * PageSize
         /\ p < q => p * PageSize + PageSize <= q * PageSize
<1>1. PageSize \in Nat \ {0}
  BY BootAssumption
<1>2. CASE p <= q
  <2>1. PICK d \in Nat : q = p + d
    BY <1>2
  <2>2. q * PageSize = p * PageSize + d * PageSize /\ d * PageSize \in Nat /\ p * PageSize \in Nat
    BY <1>1, <2>1
  <2>3. d >= 1 => d * PageSize >= PageSize
    BY <1>1
  <2> QED BY <1>1, <2>1, <2>2, <2>3
<1> QED BY <1>2

\* The page an address is in.
LEMMA PageFacts ==
  ASSUME NEW a \in Nat
  PROVE  /\ PageOf(a) \in Nat
         /\ PageOf(a) * PageSize <= a /\ a < PageOf(a) * PageSize + PageSize
<1>1. PageSize \in Nat \ {0}
  BY BootAssumption
<1> QED BY <1>1 DEF PageOf

LEMMA PageUnique ==
  ASSUME NEW a \in Nat, NEW p \in Nat, p * PageSize <= a, a < p * PageSize + PageSize
  PROVE  PageOf(a) = p
<1>1. PageOf(a) \in Nat /\ PageOf(a) * PageSize <= a /\ a < PageOf(a) * PageSize + PageSize
  BY PageFacts
<1> DEFINE q == PageOf(a)
<1>2. q * PageSize \in Nat /\ p * PageSize \in Nat /\ PageSize \in Nat /\ q \in Nat
  BY <1>1, TimesType, BootAssumption
<1>3. (q < p => q * PageSize + PageSize <= p * PageSize) /\ (p < q => p * PageSize + PageSize <= q * PageSize)
  BY <1>1, TimesGrow
<1> HIDE DEF q
<1>4. ~ (q < p) /\ ~ (p < q)
  BY <1>1, <1>2, <1>3 DEF q
<1> QED BY <1>1, <1>2, <1>4 DEF q

\* An address with no rest is the start of its page.
LEMMA PageWhole ==
  ASSUME NEW a \in Nat, a % PageSize = 0
  PROVE  a = PageOf(a) * PageSize
<1>1. PageSize \in Nat \ {0}
  BY BootAssumption
<1>2. a = PageSize * (a \div PageSize) + (a % PageSize) /\ a \div PageSize \in Nat
  BY <1>1
<1> QED BY <1>1, <1>2 DEF PageOf

LEMMA AlignFacts ==
  ASSUME NEW a \in Nat
  PROVE  /\ Align(a) \in Nat /\ a <= Align(a) /\ Align(a) < a + PageSize
         /\ \E q \in Nat : Align(a) = q * PageSize
<1>1. PageSize \in Nat \ {0}
  BY BootAssumption
<1>2. PICK b \in Nat : b = a + PageSize - 1
  BY <1>1
<1>3. Align(a) = PageOf(b) * PageSize
  BY <1>2 DEF Align, PageOf
<1>4. PageOf(b) \in Nat /\ PageOf(b) * PageSize <= b /\ b < PageOf(b) * PageSize + PageSize
  BY PageFacts
<1>5. PageOf(b) * PageSize \in Nat
  BY <1>4, TimesType
<1> QED BY <1>1, <1>2, <1>3, <1>4, <1>5

\* A recursion over the first N numbers has a solution.
Solves(g, S, x, N, F) ==
  g \in [0 .. N -> S] /\ g[0] = x /\ \A i \in 1 .. N : g[i] = F[i - 1][g[i - 1]]

LEMMA Recursion ==
  ASSUME NEW S, NEW base \in S, NEW N \in Nat, NEW F \in [Nat -> [S -> S]]
  PROVE  \E g : Solves(g, S, base, N, F)
<1>1. PICK h : h \in [Nat -> S] /\ h[0] = base /\ \A n \in Nat : h[n + 1] = F[n][h[n]]
  <2>1. PICK h : Iterates(h, S, base, F)
    BY Iteration, Zenon
  <2> QED BY <2>1 DEF Iterates
<1> DEFINE g == [i \in 0 .. N |-> h[i]]
<1>2. g \in [0 .. N -> S] /\ g[0] = base
  BY <1>1
<1>3. ASSUME NEW i \in 1 .. N PROVE g[i] = F[i - 1][g[i - 1]]
  <2>1. i - 1 \in Nat /\ (i - 1) + 1 = i /\ i - 1 \in 0 .. N /\ i \in 0 .. N
    OBVIOUS
  <2>2. h[(i - 1) + 1] = F[i - 1][h[i - 1]]
    BY <1>1, <2>1
  <2> QED BY <2>1, <2>2
<1> HIDE DEF g
<1> QED BY <1>2, <1>3 DEF Solves

-----------------------------------------------------------------------------
(***************************************************************************)
(* The sort of the memory map.                                             *)
(***************************************************************************)

\* Usable ranges begin with a page and have none in common.
Regular(m) ==
  /\ \A i \in DOMAIN m : m[i].usable => m[i].addr % PageSize = 0
  /\ \A i, j \in DOMAIN m : i # j /\ m[i].usable /\ m[j].usable =>
       m[i].addr + m[i].size <= m[j].addr \/ m[j].addr + m[j].size <= m[i].addr

\* The first i entries are where the sort wants them.
SortedTo(s, i) ==
  \A x \in 1 .. i : \A y \in 1 .. Len(s) : x <= y => s[x].addr <= s[y].addr

\* s has the entries of m, in another order.
Reorders(s, m) ==
  /\ s \in Seq(View) /\ Len(s) = Len(m)
  /\ \A x \in 1 .. Len(m) : \E y \in 1 .. Len(m) : s[x] = m[y]
  /\ \A x \in 1 .. Len(m) : \E y \in 1 .. Len(m) : m[x] = s[y]
  /\ Regular(m) => Regular(s)

LEMMA LeastFromFacts ==
  ASSUME NEW s \in Seq(View), NEW i \in 1 .. Len(s)
  PROVE  /\ LeastFrom(s, i) \in i .. Len(s)
         /\ \A j \in i .. Len(s) : s[LeastFrom(s, i)].addr <= s[j].addr
<1>1. PICK n \in Nat : n = Len(s)
  BY LenProperties
<1>2. \A j \in 1 .. n : s[j].addr \in Nat
  <2>1. s \in [1 .. n -> View]
    BY <1>1, LenProperties
  <2> QED BY <2>1 DEF View
<1> DEFINE A == {s[j].addr : j \in i .. n}
<1>3. A \in SUBSET Nat /\ A # {}
  BY <1>1, <1>2
<1>4. PICK a \in A : \A b \in A : a <= b
  <2> HIDE DEF A
  <2> QED BY <1>3, Least, Zenon
<1> DEFINE B == {j \in i .. n : s[j].addr = a}
<1>5. B \in SUBSET Nat /\ B # {}
  BY <1>1, <1>4
<1>6. PICK k \in B : \A j \in B : k <= j
  <2> HIDE DEF A, B
  <2> QED BY <1>5, Least, Zenon
<1> DEFINE P(x) == /\ \A j \in i .. Len(s) : s[x].addr <= s[j].addr
                   /\ \A j \in i .. x - 1 : s[x].addr < s[j].addr
<1>7. k \in i .. Len(s) /\ P(k)
  <2>1. k \in i .. n /\ s[k].addr = a
    BY <1>6
  <2>2. \A j \in i .. n : a <= s[j].addr
    BY <1>4
  <2>3. ASSUME NEW j \in i .. k - 1 PROVE a < s[j].addr
    <3>1. j \in i .. n /\ j \in 1 .. n /\ ~ (k <= j)
      BY <1>1, <2>1
    <3>2. s[j].addr # a
      BY <1>6, <3>1
    <3>3. a \in Nat
      BY <1>3
    <3> QED BY <1>2, <2>2, <3>1, <3>2, <3>3
  <2> QED BY <1>1, <2>1, <2>2, <2>3
<1>8. LeastFrom(s, i) = CHOOSE x \in i .. Len(s) : P(x)
  BY DEF LeastFrom
<1>9. LeastFrom(s, i) \in i .. Len(s) /\ P(LeastFrom(s, i))
  <2> HIDE DEF P
  <2> QED BY <1>7, <1>8, Zenon
<1> QED BY <1>9

LEMMA SwapFacts ==
  ASSUME NEW s \in Seq(View), NEW i \in 1 .. Len(s), NEW k \in 1 .. Len(s)
  PROVE  /\ Swap(s, i, k) \in Seq(View) /\ Len(Swap(s, i, k)) = Len(s)
         /\ Swap(s, i, k)[i] = s[k] /\ Swap(s, i, k)[k] = s[i]
         /\ \A x \in 1 .. Len(s) : x # i /\ x # k => Swap(s, i, k)[x] = s[x]
<1> DEFINE t == [s EXCEPT ![i] = s[k]]
<1>1. Swap(s, i, k) = [t EXCEPT ![k] = s[i]]
  BY DEF Swap
<1>2. s[i] \in View /\ s[k] \in View
  BY ElementOfSeq
<1>3. /\ t \in Seq(View) /\ Len(t) = Len(s)
      /\ \A j \in 1 .. Len(s) : t[j] = IF j = i THEN s[k] ELSE s[j]
  BY <1>2, ExceptSeq
<1> HIDE DEF t
<1>4. /\ Swap(s, i, k) \in Seq(View) /\ Len(Swap(s, i, k)) = Len(s)
      /\ \A j \in 1 .. Len(s) : Swap(s, i, k)[j] = IF j = k THEN s[i] ELSE t[j]
  BY <1>1, <1>2, <1>3, ExceptSeq
<1> QED BY <1>3, <1>4

LEMMA SwapReorders ==
  ASSUME NEW m \in Seq(View), NEW s, Reorders(s, m),
         NEW i \in 1 .. Len(s), NEW k \in 1 .. Len(s)
  PROVE  Reorders(Swap(s, i, k), m)
<1> DEFINE t == Swap(s, i, k)
<1>0. s \in Seq(View) /\ Len(s) = Len(m)
  BY DEF Reorders
<1>1. /\ s \in Seq(View) /\ Len(s) = Len(m)
      /\ t \in Seq(View) /\ Len(t) = Len(m)
      /\ t[i] = s[k] /\ t[k] = s[i]
      /\ \A x \in 1 .. Len(m) : x # i /\ x # k => t[x] = s[x]
  <2>1. /\ t \in Seq(View) /\ Len(t) = Len(s)
        /\ t[i] = s[k] /\ t[k] = s[i]
        /\ \A x \in 1 .. Len(s) : x # i /\ x # k => t[x] = s[x]
    BY <1>0, SwapFacts, Zenon
  <2> HIDE DEF t
  <2> QED BY <1>0, <2>1, Zenon
<1> HIDE DEF t
<1> DEFINE f(x) == IF x = i THEN k ELSE IF x = k THEN i ELSE x
<1>2. \A x \in 1 .. Len(m) : f(x) \in 1 .. Len(m) /\ t[x] = s[f(x)] /\ s[x] = t[f(x)]
  BY <1>1
<1>3. \A x, y \in 1 .. Len(m) : x # y => f(x) # f(y)
  OBVIOUS
<1>4. DOMAIN s = 1 .. Len(m) /\ DOMAIN t = 1 .. Len(m)
  BY <1>1, LenProperties
<1> HIDE DEF f
<1>5. /\ \A x \in 1 .. Len(m) : \E y \in 1 .. Len(m) : t[x] = m[y]
      /\ \A x \in 1 .. Len(m) : \E y \in 1 .. Len(m) : m[x] = t[y]
  <2>1. \A x \in 1 .. Len(m) : \E y \in 1 .. Len(m) : s[x] = m[y]
    BY DEF Reorders
  <2>2. \A x \in 1 .. Len(m) : \E y \in 1 .. Len(m) : m[x] = s[y]
    BY DEF Reorders
  <2>3. ASSUME NEW x \in 1 .. Len(m) PROVE \E y \in 1 .. Len(m) : t[x] = m[y]
    <3>1. f(x) \in 1 .. Len(m) /\ t[x] = s[f(x)]
      BY <1>2
    <3> QED BY <2>1, <3>1
  <2>4. ASSUME NEW x \in 1 .. Len(m) PROVE \E y \in 1 .. Len(m) : m[x] = t[y]
    <3>1. PICK z \in 1 .. Len(m) : m[x] = s[z]
      BY <2>2
    <3>2. f(z) \in 1 .. Len(m) /\ s[z] = t[f(z)]
      BY <1>2
    <3> QED BY <3>1, <3>2
  <2> QED BY <2>3, <2>4
<1>6. ASSUME Regular(s) PROVE Regular(t)
  <2>1. \A x \in 1 .. Len(m) : t[x].usable => t[x].addr % PageSize = 0
    <3>1. \A x \in 1 .. Len(m) : s[x].usable => s[x].addr % PageSize = 0
      BY <1>4, <1>6 DEF Regular
    <3> QED BY <1>2, <3>1
  <2>2. ASSUME NEW x \in 1 .. Len(m), NEW y \in 1 .. Len(m), x # y, t[x].usable, t[y].usable
        PROVE  t[x].addr + t[x].size <= t[y].addr \/ t[y].addr + t[y].size <= t[x].addr
    <3>1. f(x) \in 1 .. Len(m) /\ f(y) \in 1 .. Len(m) /\ f(x) # f(y) /\ t[x] = s[f(x)] /\ t[y] = s[f(y)]
      BY <1>2, <1>3, <2>2
    <3>2. \A a, b \in 1 .. Len(m) : a # b /\ s[a].usable /\ s[b].usable =>
            s[a].addr + s[a].size <= s[b].addr \/ s[b].addr + s[b].size <= s[a].addr
      BY <1>4, <1>6 DEF Regular
    <3> QED BY <2>2, <3>1, <3>2
  <2> QED BY <1>4, <2>1, <2>2 DEF Regular
<1> QED BY <1>1, <1>5, <1>6 DEF Reorders, t

LEMMA SwapSorts ==
  ASSUME NEW s \in Seq(View), NEW i \in 1 .. Len(s), SortedTo(s, i - 1)
  PROVE  SortedTo(Swap(s, i, LeastFrom(s, i)), i)
<1>1. PICK k \in i .. Len(s) : k = LeastFrom(s, i) /\ \A j \in i .. Len(s) : s[k].addr <= s[j].addr
  BY LeastFromFacts
<1>2. PICK n \in Nat : n = Len(s)
  BY LenProperties
<1>3. k \in 1 .. n /\ i \in 1 .. n /\ i <= k
  BY <1>1, <1>2
<1>4. PICK t : t = Swap(s, i, k)
  OBVIOUS
<1>5. /\ Len(t) = n /\ t[i] = s[k] /\ t[k] = s[i]
      /\ \A x \in 1 .. n : x # i /\ x # k => t[x] = s[x]
  BY <1>2, <1>3, <1>4, SwapFacts
<1>6. ASSUME NEW x \in 1 .. i, NEW y \in 1 .. n, x <= y PROVE t[x].addr <= t[y].addr
  <2>1. PICK z \in 1 .. n : t[y] = s[z] /\ (x < i => x <= z) /\ (x = i => i <= z)
    <3>1. CASE y = i
      BY <1>3, <1>5, <1>6, <3>1
    <3>2. CASE y = k
      BY <1>3, <1>5, <1>6, <3>2
    <3>3. CASE y # i /\ y # k
      BY <1>5, <1>6, <3>3
    <3> QED BY <3>1, <3>2, <3>3
  <2>2. CASE x = i
    BY <1>1, <1>2, <1>5, <2>1, <2>2
  <2>3. CASE x < i
    <3>1. x \in 1 .. i - 1 /\ x # i /\ x # k /\ x \in 1 .. n
      BY <1>3, <2>3
    <3>2. s[x].addr <= s[z].addr
      BY <1>2, <2>1, <2>3, <3>1 DEF SortedTo
    <3> QED BY <1>5, <2>1, <3>1, <3>2
  <2> QED BY <2>2, <2>3
<1> QED BY <1>1, <1>4, <1>5, <1>6 DEF SortedTo

\* memviews_sort (memview.c:74) loses no entry and leaves them in order.
LEMMA SortedFacts ==
  ASSUME NEW m \in Seq(View)
  PROVE  Reorders(Sorted(m), m) /\ SortedTo(Sorted(m), Len(m))
<1>1. PICK N \in Nat : N = Len(m)
  BY LenProperties
<1> DEFINE S == {s \in Seq(View) : Len(s) = N}
           Next1(i, s) == Swap(s, i, LeastFrom(s, i))
           F == [n \in Nat |-> [s \in S |-> IF n + 1 <= N THEN Next1(n + 1, s) ELSE s]]
           D(f) == f = [i \in 0 .. N |-> IF i = 0 THEN m ELSE Next1(i, f[i - 1])]
<1>2. ASSUME NEW i \in 1 .. N, NEW s \in S PROVE Next1(i, s) \in S
  <2>1. s \in Seq(View) /\ Len(s) = N /\ i \in 1 .. Len(s)
    OBVIOUS
  <2>2. LeastFrom(s, i) \in 1 .. Len(s)
    BY <1>1, <2>1, LeastFromFacts
  <2> QED BY <2>1, <2>2, SwapFacts
<1>3. F \in [Nat -> [S -> S]]
  <2>1. ASSUME NEW n \in Nat, NEW s \in S
        PROVE  (IF n + 1 <= N THEN Next1(n + 1, s) ELSE s) \in S
    <3>1. n + 1 <= N => n + 1 \in 1 .. N
      OBVIOUS
    <3> HIDE DEF Next1, S
    <3> QED BY <1>2, <3>1
  <2> HIDE DEF S, Next1
  <2> QED BY <2>1
<1>4. m \in S
  BY <1>1
<1>5. PICK g : g \in [0 .. N -> S] /\ g[0] = m /\ \A i \in 1 .. N : g[i] = F[i - 1][g[i - 1]]
  <2> HIDE DEF F, S
  <2>1. PICK g : Solves(g, S, m, N, F)
    BY <1>1, <1>3, <1>4, Recursion, Zenon
  <2> QED BY <2>1 DEF Solves
<1>6. D(g)
  <2>1. ASSUME NEW i \in 0 .. N PROVE g[i] = IF i = 0 THEN m ELSE Next1(i, g[i - 1])
    <3>1. CASE i # 0
      <4>1. i \in 1 .. N /\ i - 1 \in Nat /\ i - 1 \in 0 .. N /\ (i - 1) + 1 = i
        BY <3>1
      <4>2. g[i - 1] \in S
        BY <1>5, <4>1
      <4> HIDE DEF Next1, S
      <4>3. F[i - 1][g[i - 1]] = IF (i - 1) + 1 <= N THEN Next1((i - 1) + 1, g[i - 1]) ELSE g[i - 1]
        BY <4>1, <4>2
      <4> QED BY <1>5, <3>1, <4>1, <4>3
    <3> QED BY <1>5, <3>1
  <2> HIDE DEF Next1, S, F
  <2> QED BY <1>5, <2>1
<1>7. PICK W : W = CHOOSE f : D(f)
  OBVIOUS
<1>8. D(W)
  <2> HIDE DEF D
  <2> QED BY <1>6, <1>7, Zenon
<1>9. Sorted(m) = W[N]
  BY <1>1, <1>7 DEF Sorted
<1>10. W[0] = m /\ \A i \in 1 .. N : W[i] = Next1(i, W[i - 1])
  <2> HIDE DEF Next1
  <2> QED BY <1>8
<1> HIDE DEF S, F, D
<1> DEFINE T == {i \in 0 .. N : Reorders(W[i], m) /\ SortedTo(W[i], i)}
<1>11. 0 \in T
  <2>1. Reorders(m, m)
    BY DEF Reorders
  <2>2. SortedTo(m, 0)
    BY DEF SortedTo
  <2> QED BY <1>10, <2>1, <2>2
<1>12. ASSUME NEW i \in 0 .. N - 1, i \in T PROVE i + 1 \in T
  <2>1. i + 1 \in 1 .. N /\ (i + 1) - 1 = i /\ i + 1 \in 0 .. N
    OBVIOUS
  <2>2. Reorders(W[i], m) /\ SortedTo(W[i], i)
    BY <1>12
  <2>3. W[i] \in Seq(View) /\ i + 1 \in 1 .. Len(W[i])
    BY <1>1, <2>1, <2>2 DEF Reorders
  <2>4. LeastFrom(W[i], i + 1) \in 1 .. Len(W[i])
    <3>1. LeastFrom(W[i], i + 1) \in i + 1 .. Len(W[i])
      BY <2>3, LeastFromFacts
    <3>2. Len(W[i]) = N
      BY <1>1, <2>2 DEF Reorders
    <3> QED BY <2>1, <3>1, <3>2
  <2>5. W[i + 1] = Swap(W[i], i + 1, LeastFrom(W[i], i + 1))
    BY <1>10, <2>1
  <2>6. Reorders(W[i + 1], m)
    BY <2>2, <2>3, <2>4, <2>5, SwapReorders
  <2>7. SortedTo(W[i + 1], i + 1)
    BY <2>1, <2>2, <2>3, <2>5, SwapSorts
  <2> QED BY <2>1, <2>6, <2>7
<1>13. N \in T
  <2> HIDE DEF T
  <2>1. 0 .. N \subseteq T
    BY <1>11, <1>12, Upwards
  <2> QED BY <2>1
<1> QED BY <1>1, <1>9, <1>13

-----------------------------------------------------------------------------
(***************************************************************************)
(* The descriptors.                                                        *)
(***************************************************************************)

Desc == [value : Nat, area : Area \cup {"init"}, count : Nat]

\* Page p is one of those mempage_init makes a descriptor of for a range.
InView(v, p) ==
  v.usable /\ PageOf(v.addr) <= p /\ p < PageOf(v.addr) + (v.size \div PageSize)

LEMMA ViewPages ==
  ASSUME NEW v \in View
  PROVE  v.size \div PageSize \in Nat /\ (v.size \div PageSize) * PageSize <= v.size
         /\ v.size < (v.size \div PageSize) * PageSize + PageSize
<1>1. v.size \in Nat
  BY DEF View
<1> QED BY <1>1, PageFacts DEF PageOf

LEMMA PagesOfFacts ==
  ASSUME NEW v \in View, v.addr % PageSize = 0
  PROVE  /\ PagesOf(v) \in Seq(Desc) /\ Len(PagesOf(v)) = v.size \div PageSize
         /\ \A i \in 1 .. v.size \div PageSize :
              PagesOf(v)[i] = [value |-> PageOf(v.addr) + (i - 1), area |-> "init", count |-> 0]
<1>1. PICK n \in Nat : n = v.size \div PageSize
  BY ViewPages
<1>2. v.addr \in Nat /\ PageSize \in Nat \ {0}
  BY BootAssumption DEF View
<1>3. PICK a \in Nat : a = PageOf(v.addr) /\ v.addr = a * PageSize
  BY <1>2, PageFacts, PageWhole
<1>4. ASSUME NEW i \in 1 .. n PROVE PageOf(v.addr + (i - 1) * PageSize) = a + (i - 1)
  <2>1. PICK d \in Nat : d = i - 1
    OBVIOUS
  <2>2. (a + d) * PageSize = a * PageSize + d * PageSize /\ (a + d) * PageSize \in Nat /\ a + d \in Nat
    BY <1>2
  <2>3. v.addr + d * PageSize = (a + d) * PageSize
    BY <1>3, <2>2
  <2>4. PageOf((a + d) * PageSize) = a + d
    BY <1>2, <2>2, PageUnique
  <2> QED BY <2>1, <2>3, <2>4
<1>5. PagesOf(v) = [i \in 1 .. n |-> [value |-> a + (i - 1), area |-> "init", count |-> 0]]
  BY <1>1, <1>4 DEF PagesOf
<1>6. \A i \in 1 .. n : [value |-> a + (i - 1), area |-> "init", count |-> 0] \in Desc
  BY DEF Desc
<1>7. PagesOf(v) \in [1 .. n -> Desc]
  BY <1>5, <1>6
<1>8. PagesOf(v) \in Seq(Desc)
  BY <1>7, SeqDef
<1>9. Len(PagesOf(v)) = n
  BY <1>7, <1>8, LenProperties
<1> QED BY <1>1, <1>3, <1>5, <1>8, <1>9

\* In the order of the sort the pages of one range come before those of the next.
LEMMA ViewsInOrder ==
  ASSUME NEW m \in Seq(View), Regular(m), SortedTo(m, Len(m)),
         NEW i \in 1 .. Len(m), NEW j \in 1 .. Len(m), i < j,
         NEW p \in Nat, NEW q \in Nat, InView(m[i], p), InView(m[j], q)
  PROVE  p < q
<1>1. m[i] \in View /\ m[j] \in View
  BY ElementOfSeq
<1>2. PICK a \in Nat, b \in Nat, c \in Nat, d \in Nat :
        a = m[i].addr /\ b = m[i].size /\ c = m[j].addr /\ d = m[j].size
  BY <1>1 DEF View
<1>3. m[i].usable /\ m[j].usable
  BY DEF InView
<1>4. a <= c
  BY <1>2, LenProperties DEF SortedTo
<1>5. a + b <= c \/ c + d <= a
  BY <1>2, <1>3, LenProperties DEF Regular
<1>6. PICK x \in Nat, y \in Nat : /\ x = PageOf(a) /\ a = x * PageSize
                                 /\ y = PageOf(c) /\ c = y * PageSize
  <2>1. a % PageSize = 0 /\ c % PageSize = 0
    BY <1>2, <1>3, LenProperties DEF Regular
  <2> QED BY <2>1, PageFacts, PageWhole
<1>7. PICK k \in Nat, l \in Nat : /\ k = b \div PageSize /\ k * PageSize <= b
                                 /\ l = d \div PageSize /\ l * PageSize <= d
  BY <1>1, <1>2, ViewPages
<1>8. x <= p /\ p < x + k /\ y <= q /\ q < y + l
  BY <1>2, <1>6, <1>7 DEF InView
<1>9. (x + k) * PageSize = x * PageSize + k * PageSize /\ (y + l) * PageSize = y * PageSize + l * PageSize
  BY BootAssumption
<1>10. /\ x * PageSize \in Nat /\ y * PageSize \in Nat /\ k * PageSize \in Nat /\ l * PageSize \in Nat
       /\ PageSize \in Nat \ {0}
  BY TimesType, BootAssumption
<1>11. PICK X \in Nat, Y \in Nat, K \in Nat, L \in Nat :
          X = x * PageSize /\ Y = y * PageSize /\ K = k * PageSize /\ L = l * PageSize
  BY <1>10
<1>14. a = X /\ c = Y /\ K <= b /\ L <= d
  BY <1>6, <1>7, <1>11, Zenon
<1>12. CASE a + b <= c
  <2>1. X + K <= Y
    BY <1>12, <1>14
  <2>2. y < x + k => Y + PageSize <= X + K
    <3>1. x + k \in Nat /\ y \in Nat
      OBVIOUS
    <3>2. y < x + k => y * PageSize + PageSize <= (x + k) * PageSize
      BY <3>1, TimesGrow
    <3>3. (x + k) * PageSize = X + K
      BY <1>9, <1>11, Zenon
    <3> QED BY <1>11, <3>2, <3>3, Zenon
  <2>3. ~ (y < x + k)
    BY <2>1, <2>2, <1>10
  <2> QED BY <1>8, <2>3
<1>13. CASE c + d <= a
  <2>1. L <= 0
    BY <1>4, <1>13, <1>14
  <2>2. 0 < l => 0 * PageSize + PageSize <= l * PageSize
    BY TimesGrow
  <2>3. ~ (0 < l)
    BY <2>1, <2>2, <1>10, <1>11, BootAssumption
  <2> QED BY <1>8, <2>3
<1> QED BY <1>5, <1>12, <1>13

\* The descriptors of the first i ranges.
Describes(s, m, i) ==
  /\ s \in Seq(Desc)
  /\ \A x \in 1 .. Len(s) : /\ s[x].area = "init" /\ s[x].count = 0
                            /\ \E j \in 1 .. i : InView(m[j], s[x].value)
  /\ \A x, y \in 1 .. Len(s) : x < y => s[x].value < s[y].value
  /\ \A j \in 1 .. i : \A p \in Nat :
       InView(m[j], p) => \E x \in 1 .. Len(s) : s[x].value = p

LEMMA DescribesMore ==
  ASSUME NEW m \in Seq(View), Regular(m), SortedTo(m, Len(m)),
         NEW i \in 1 .. Len(m), NEW s, Describes(s, m, i - 1)
  PROVE  Describes(s \o (IF m[i].usable THEN PagesOf(m[i]) ELSE <<>>), m, i)
<1>1. s \in Seq(Desc) /\ Len(s) \in Nat
  BY LenProperties DEF Describes
<1>2. m[i] \in View /\ Len(m) \in Nat /\ i \in Nat /\ DOMAIN m = 1 .. Len(m)
  BY ElementOfSeq, LenProperties
<1>3. CASE ~ m[i].usable
  <2>1. s \o (IF m[i].usable THEN PagesOf(m[i]) ELSE <<>>) = s
    BY <1>1, <1>3, ConcatEmptySeq
  <2>2. \A p : ~ InView(m[i], p)
    BY <1>3 DEF InView
  <2>3. \A j \in 1 .. i : j = i \/ j \in 1 .. i - 1
    BY <1>2
  <2>4. \A j \in 1 .. i - 1 : j \in 1 .. i
    BY <1>2
  <2>5. Describes(s, m, i)
    BY <2>2, <2>3, <2>4 DEF Describes
  <2> QED BY <2>1, <2>5
<1>4. CASE m[i].usable
  <2>1. m[i].addr % PageSize = 0
    BY <1>2, <1>4 DEF Regular
  <2>2. PICK n \in Nat, a \in Nat : n = m[i].size \div PageSize /\ a = PageOf(m[i].addr)
    BY <1>2, ViewPages, PageFacts DEF View
  <2>3. PICK t : t = PagesOf(m[i])
    OBVIOUS
  <2>4. /\ t \in Seq(Desc) /\ Len(t) = n
        /\ \A x \in 1 .. n : t[x] = [value |-> a + (x - 1), area |-> "init", count |-> 0]
    BY <1>2, <2>1, <2>2, <2>3, PagesOfFacts
  <2>5. PICK l \in Nat : l = Len(s)
    BY <1>1
  <2>6. PICK u : u = s \o t
    OBVIOUS
  <2>7. /\ u \in Seq(Desc) /\ Len(u) = l + n
        /\ \A x \in 1 .. l + n : u[x] = IF x <= l THEN s[x] ELSE t[x - l]
    BY <1>1, <2>4, <2>5, <2>6, ConcatProperties
  <2>8. \A x \in 1 .. l : u[x] = s[x]
    BY <2>5, <2>7
  <2>9. ASSUME NEW x \in l + 1 .. l + n
        PROVE  u[x].value = a + ((x - l) - 1) /\ u[x].area = "init" /\ u[x].count = 0
    <3>1. x \in 1 .. l + n /\ ~ (x <= l) /\ x - l \in 1 .. n
      BY <2>5
    <3>2. u[x] = t[x - l]
      BY <2>7, <3>1
    <3>3. t[x - l] = [value |-> a + ((x - l) - 1), area |-> "init", count |-> 0]
      BY <2>4, <3>1
    <3> QED BY <3>2, <3>3
  <2>10. \A p \in Nat : InView(m[i], p) <=> p \in a .. a + n - 1
    BY <1>4, <2>2 DEF InView
  <2>11. ASSUME NEW x \in l + 1 .. l + n
         PROVE  u[x].value \in Nat /\ InView(m[i], u[x].value)
    <3>1. u[x].value = a + ((x - l) - 1)
      BY <2>9
    <3>2. a + ((x - l) - 1) \in a .. a + n - 1 /\ a + ((x - l) - 1) \in Nat
      BY <2>5, <2>2
    <3> QED BY <2>10, <3>1, <3>2
  <2>12. ASSUME NEW x \in 1 .. l
         PROVE  /\ u[x].value \in Nat
                /\ \E j \in 1 .. i - 1 : InView(m[j], u[x].value)
    <3>1. s[x] \in Desc
      BY <1>1, <2>5, ElementOfSeq
    <3> QED BY <2>5, <2>8, <3>1 DEF Describes, Desc
  <2>13. \A x \in 1 .. l + n : x \in 1 .. l \/ x \in l + 1 .. l + n
    BY <2>5
  <2>14. ASSUME NEW x \in 1 .. l + n
         PROVE  /\ u[x].area = "init" /\ u[x].count = 0
                /\ \E j \in 1 .. i : InView(m[j], u[x].value)
    <3>1. CASE x \in 1 .. l
      <4>1. u[x].area = "init" /\ u[x].count = 0
        BY <2>5, <2>8, <3>1 DEF Describes
      <4>2. \A j \in 1 .. i - 1 : j \in 1 .. i
        BY <1>2
      <4> QED BY <2>12, <3>1, <4>1, <4>2
    <3>2. CASE x \in l + 1 .. l + n
      <4>1. u[x].area = "init" /\ u[x].count = 0
        BY <2>9, <3>2
      <4>2. i \in 1 .. i
        BY <1>2
      <4> QED BY <2>11, <3>2, <4>1, <4>2
    <3> QED BY <2>13, <3>1, <3>2
  <2>15. ASSUME NEW x \in 1 .. l + n, NEW y \in 1 .. l + n, x < y
         PROVE  u[x].value < u[y].value
    <3>1. CASE y \in 1 .. l
      <4>1. x \in 1 .. l
        BY <2>15, <3>1
      <4> QED BY <2>5, <2>8, <2>15, <3>1, <4>1 DEF Describes
    <3>2. CASE x \in l + 1 .. l + n
      <4>1. y \in l + 1 .. l + n
        BY <2>15, <3>2
      <4>2. u[x].value = a + ((x - l) - 1) /\ u[y].value = a + ((y - l) - 1)
        BY <2>9, <3>2, <4>1
      <4> QED BY <2>2, <2>5, <2>15, <4>2
    <3>3. CASE x \in 1 .. l /\ y \in l + 1 .. l + n
      <4>1. PICK j \in 1 .. i - 1 : InView(m[j], u[x].value)
        BY <2>12, <3>3
      <4>2. j \in 1 .. Len(m) /\ j < i
        BY <1>2
      <4>3. u[x].value \in Nat /\ u[y].value \in Nat /\ InView(m[i], u[y].value)
        BY <2>11, <2>12, <3>3
      <4> QED BY <4>1, <4>2, <4>3, ViewsInOrder
    <3> QED BY <2>13, <3>1, <3>2, <3>3
  <2>16. ASSUME NEW j \in 1 .. i, NEW p \in Nat, InView(m[j], p)
         PROVE  \E x \in 1 .. l + n : u[x].value = p
    <3>1. CASE j = i
      <4>1. p \in a .. a + n - 1
        BY <2>10, <2>16, <3>1
      <4>2. (p - a) + l + 1 \in l + 1 .. l + n /\ (p - a) + l + 1 \in 1 .. l + n
        BY <4>1, <2>5
      <4>3. PICK x \in l + 1 .. l + n : x = (p - a) + l + 1
        BY <4>2
      <4>4. u[x].value = a + ((x - l) - 1)
        BY <2>9
      <4>5. a + ((x - l) - 1) = p
        BY <4>1, <4>3
      <4> QED BY <4>2, <4>3, <4>4, <4>5
    <3>2. CASE j # i
      <4>1. j \in 1 .. i - 1
        BY <1>2, <3>2
      <4>2. PICK x \in 1 .. l : s[x].value = p
        BY <2>5, <2>16, <4>1 DEF Describes
      <4>3. x \in 1 .. l + n
        OBVIOUS
      <4> QED BY <2>8, <4>2, <4>3
    <3> QED BY <3>1, <3>2
  <2>17. Describes(u, m, i)
    BY <2>7, <2>14, <2>15, <2>16 DEF Describes
  <2> QED BY <1>4, <2>3, <2>6, <2>17
<1> QED BY <1>3, <1>4

\* The descriptors of range i.
RangePages(m, i) == IF m[i].usable THEN PagesOf(m[i]) ELSE <<>>

LEMMA RangePagesType ==
  ASSUME NEW m \in Seq(View), NEW i \in 1 .. Len(m)
  PROVE  RangePages(m, i) \in Seq(Desc)
<1>1. m[i] \in View
  BY ElementOfSeq
<1>2. PICK n \in Nat, a \in Nat : n = m[i].size \div PageSize /\ a = m[i].addr
  BY <1>1, ViewPages DEF View
<1>3. ASSUME NEW j \in 1 .. n
      PROVE  [value |-> PageOf(a + (j - 1) * PageSize), area |-> "init", count |-> 0] \in Desc
  <2>1. PICK d \in Nat : d = j - 1
    OBVIOUS
  <2>2. a + d * PageSize \in Nat
    <3>1. d * PageSize \in Nat
      BY TimesType
    <3> QED BY <3>1
  <2>3. PageOf(a + d * PageSize) \in Nat
    BY <2>2, PageFacts
  <2> QED BY <2>1, <2>3 DEF Desc
<1>4. PagesOf(m[i]) =
        [j \in 1 .. n |-> [value |-> PageOf(a + (j - 1) * PageSize), area |-> "init", count |-> 0]]
  BY <1>2 DEF PagesOf
<1>5. PagesOf(m[i]) \in [1 .. n -> Desc]
  BY <1>3, <1>4
<1>6. PagesOf(m[i]) \in Seq(Desc)
  BY <1>5, SeqDef
<1> QED BY <1>6, EmptySeq DEF RangePages

\* mempage_init goes through the ranges.
Makes(W, m) ==
  /\ W[0] = <<>>
  /\ \A i \in 1 .. Len(m) : W[i] = W[i - 1] \o RangePages(m, i)
  /\ AllPages(m) = W[Len(m)]

LEMMA AllPagesSteps ==
  ASSUME NEW m \in Seq(View)
  PROVE  \E W : Makes(W, m)
<1>1. PICK N \in Nat : N = Len(m)
  BY LenProperties
<1> DEFINE More(i, s) == s \o RangePages(m, i)
           S == Seq(Desc)
           F == [n \in Nat |-> [s \in S |-> IF n + 1 <= N THEN More(n + 1, s) ELSE s]]
           D(f) == f = [i \in 0 .. N |-> IF i = 0 THEN <<>> ELSE More(i, f[i - 1])]
<1>3. F \in [Nat -> [S -> S]]
  <2>1. ASSUME NEW n \in Nat, NEW s \in S
        PROVE  (IF n + 1 <= N THEN More(n + 1, s) ELSE s) \in S
    <3>1. n + 1 <= N => n + 1 \in 1 .. Len(m)
      BY <1>1
    <3>2. n + 1 <= N => s \o RangePages(m, n + 1) \in S
      BY <3>1, RangePagesType, ConcatProperties
    <3> HIDE DEF S
    <3> QED BY <3>2
  <2> HIDE DEF S, More
  <2> QED BY <2>1
<1>4. <<>> \in S
  BY EmptySeq
<1>5. PICK g : g \in [0 .. N -> S] /\ g[0] = <<>> /\ \A i \in 1 .. N : g[i] = F[i - 1][g[i - 1]]
  <2> HIDE DEF F, S
  <2>1. PICK g : Solves(g, S, <<>>, N, F)
    BY <1>1, <1>3, <1>4, Recursion, Zenon
  <2> QED BY <2>1 DEF Solves
<1>6. D(g)
  <2>1. ASSUME NEW i \in 0 .. N PROVE g[i] = IF i = 0 THEN <<>> ELSE More(i, g[i - 1])
    <3>1. CASE i # 0
      <4>1. i \in 1 .. N /\ i - 1 \in Nat /\ i - 1 \in 0 .. N /\ (i - 1) + 1 = i
        BY <3>1
      <4>2. g[i - 1] \in S
        BY <1>5, <4>1
      <4> HIDE DEF S, More
      <4>3. F[i - 1][g[i - 1]] = IF (i - 1) + 1 <= N THEN More((i - 1) + 1, g[i - 1]) ELSE g[i - 1]
        BY <4>1, <4>2
      <4> QED BY <1>5, <3>1, <4>1, <4>3
    <3> QED BY <1>5, <3>1
  <2> HIDE DEF S, F, More
  <2> QED BY <1>5, <2>1
<1>7. PICK W : W = CHOOSE f : D(f)
  OBVIOUS
<1>8. D(W)
  <2> HIDE DEF D
  <2> QED BY <1>6, <1>7, Zenon
<1>9. AllPages(m) = W[N]
  BY <1>1, <1>7 DEF AllPages, RangePages
<1>10. W[0] = <<>> /\ \A i \in 1 .. N : W[i] = More(i, W[i - 1])
  <2> HIDE DEF More
  <2> QED BY <1>8
<1> HIDE DEF S, F, D
<1> QED BY <1>1, <1>9, <1>10 DEF Makes

LEMMA AllPagesType ==
  ASSUME NEW m \in Seq(View)
  PROVE  AllPages(m) \in Seq(Desc)
<1>1. PICK N \in Nat : N = Len(m)
  BY LenProperties
<1>2. PICK W : Makes(W, m)
  BY AllPagesSteps
<1> DEFINE T == {i \in 0 .. N : W[i] \in Seq(Desc)}
<1>3. 0 \in T
  <2>1. W[0] \in Seq(Desc)
    BY <1>2, EmptySeq DEF Makes
  <2>2. 0 \in 0 .. N
    BY <1>1
  <2> QED BY <2>1, <2>2, Zenon
<1>4. ASSUME NEW i \in 0 .. N - 1, i \in T PROVE i + 1 \in T
  <2>1. i + 1 \in 1 .. Len(m) /\ (i + 1) - 1 = i /\ i + 1 \in 0 .. N
    BY <1>1
  <2>2. W[i] \in Seq(Desc) /\ RangePages(m, i + 1) \in Seq(Desc)
    BY <1>4, <2>1, RangePagesType
  <2>3. W[i + 1] = W[i] \o RangePages(m, i + 1)
    BY <1>2, <2>1 DEF Makes
  <2>4. W[i] \o RangePages(m, i + 1) \in Seq(Desc)
    BY <2>2, ConcatProperties
  <2> QED BY <2>1, <2>3, <2>4
<1>5. N \in T
  <2> HIDE DEF T
  <2>1. 0 .. N \subseteq T
    BY <1>3, <1>4, Upwards
  <2> QED BY <2>1
<1> QED BY <1>1, <1>2, <1>5 DEF Makes

\* mempage_init (mempage.c:78): a descriptor for each page of a usable range.
LEMMA AllPagesFacts ==
  ASSUME NEW m \in Seq(View), Regular(m), SortedTo(m, Len(m))
  PROVE  Describes(AllPages(m), m, Len(m))
<1>1. PICK N \in Nat : N = Len(m)
  BY LenProperties
<1>2. PICK W : Makes(W, m)
  BY AllPagesSteps
<1> DEFINE T == {i \in 0 .. N : Describes(W[i], m, i)}
<1>3. 0 \in T
  <2>1. <<>> \in Seq(Desc) /\ Len(<<>>) = 0
    BY EmptySeq
  <2>2. Describes(<<>>, m, 0)
    BY <2>1 DEF Describes
  <2> QED BY <1>2, <2>2 DEF Makes
<1>4. ASSUME NEW i \in 0 .. N - 1, i \in T PROVE i + 1 \in T
  <2>1. i + 1 \in 1 .. Len(m) /\ (i + 1) - 1 = i /\ i + 1 \in 0 .. N
    BY <1>1
  <2>2. Describes(W[i], m, i)
    BY <1>4
  <2>3. W[i + 1] = W[i] \o RangePages(m, i + 1)
    BY <1>2, <2>1 DEF Makes
  <2>4. Describes(W[i] \o RangePages(m, i + 1), m, i + 1)
    BY <2>1, <2>2, DescribesMore DEF RangePages
  <2> QED BY <2>1, <2>3, <2>4
<1>5. N \in T
  <2> HIDE DEF T
  <2>1. 0 .. N \subseteq T
    BY <1>3, <1>4, Upwards
  <2> QED BY <2>1
<1> QED BY <1>1, <1>2, <1>5 DEF Makes

\* A page that begins below the aligned end of something begins within it.
LEMMA BelowAlign ==
  ASSUME NEW a \in Nat, NEW p \in Nat, p * PageSize < Align(a)
  PROVE  p * PageSize < a
<1>1. PICK q \in Nat : Align(a) = q * PageSize
  BY AlignFacts
<1>2. Align(a) < a + PageSize /\ Align(a) \in Nat /\ p * PageSize \in Nat /\ PageSize \in Nat
  BY AlignFacts, TimesType, BootAssumption
<1>3. q * PageSize \in Nat
  BY <1>1, <1>2
<1>4. q <= p => q * PageSize <= p * PageSize
  BY TimesGrow
<1>5. p < q
  BY <1>1, <1>2, <1>3, <1>4
<1>6. p * PageSize + PageSize <= q * PageSize
  BY <1>5, TimesGrow
<1> QED BY <1>1, <1>2, <1>3, <1>6

-----------------------------------------------------------------------------
(***************************************************************************)
(* What is placed in memory.                                               *)
(***************************************************************************)

Thing == {"kernel", "font", "logo", "mmu", "views", "pages", "areas"}

Ext == [what : Thing, adr : Nat, size : Nat]

\* What is placed stands in order between the kernel and next_addr, a page is left
\* out only at the end of what comes before.
PlacedInv ==
  /\ \E q \in Nat : next = q * PageSize
  /\ KernelAdr <= next
  /\ placed \in Seq(Ext)
  /\ \A i \in 1 .. Len(placed) :
       KernelAdr <= placed[i].adr /\ placed[i].adr + placed[i].size <= next
  /\ \A i, j \in 1 .. Len(placed) : i < j => placed[i].adr + placed[i].size <= placed[j].adr
  /\ \A p \in Nat : KernelAdr <= p * PageSize /\ p * PageSize < next =>
       \E i \in 1 .. Len(placed) :
         placed[i].adr <= p * PageSize /\ p * PageSize < placed[i].adr + placed[i].size

LEMMA NextType == PlacedInv => next \in Nat /\ KernelAdr \in Nat
BY TimesType, BootAssumption DEF PlacedInv

LEMMA PlacedKept == PlacedInv /\ UNCHANGED <<next, placed>> => PlacedInv'
BY DEF PlacedInv

LEMMA PlaceKeeps ==
  ASSUME PlacedInv, NEW what \in Thing, NEW n \in Nat, Place(what, n)
  PROVE  PlacedInv'
<1>1. next \in Nat /\ KernelAdr \in Nat /\ placed \in Seq(Ext) /\ next + n \in Nat
  BY NextType DEF PlacedInv
<1>2. PICK e \in Ext : e = Extent(what, next, n) /\ e.adr = next /\ e.size = n
  <2>1. Extent(what, next, n) \in Ext
    BY <1>1 DEF Extent, Ext
  <2> QED BY <2>1 DEF Extent
<1>3. PICK l \in Nat : l = Len(placed)
  BY <1>1, LenProperties
<1>4. placed' = Append(placed, e) /\ next' = Align(next + n)
  BY <1>2 DEF Place
<1>5. /\ placed' \in Seq(Ext) /\ Len(placed') = l + 1 /\ placed'[l + 1] = e
      /\ \A i \in 1 .. l : placed'[i] = placed[i]
  BY <1>1, <1>3, <1>4, AppendProperties
<1>6. next' \in Nat /\ next + n <= next' /\ \E q \in Nat : next' = q * PageSize
  BY <1>1, <1>4, AlignFacts
<1>7. \A i \in 1 .. l + 1 : i \in 1 .. l \/ i = l + 1
  BY <1>3
<1>8. ASSUME NEW i \in 1 .. l
      PROVE  /\ placed[i].adr \in Nat /\ placed[i].size \in Nat
             /\ KernelAdr <= placed[i].adr /\ placed[i].adr + placed[i].size <= next
  <2>1. placed[i] \in Ext
    BY <1>1, <1>3, ElementOfSeq
  <2> QED BY <1>3, <2>1 DEF PlacedInv, Ext
<1>9. ASSUME NEW i \in 1 .. l + 1
      PROVE  KernelAdr <= placed'[i].adr /\ placed'[i].adr + placed'[i].size <= next'
  <2>1. CASE i = l + 1
    <3>1. KernelAdr <= next
      BY DEF PlacedInv
    <3>2. placed'[i].adr = next /\ placed'[i].size = n
      BY <1>2, <1>5, <2>1
    <3> QED BY <1>1, <1>6, <3>1, <3>2
  <2>2. CASE i \in 1 .. l
    <3>1. placed'[i] = placed[i]
      BY <1>5, <2>2
    <3>2. /\ placed[i].adr \in Nat /\ placed[i].size \in Nat
          /\ KernelAdr <= placed[i].adr /\ placed[i].adr + placed[i].size <= next
      BY <1>8, <2>2
    <3>3. next <= next' /\ next' \in Nat
      BY <1>1, <1>6
    <3> QED BY <1>1, <3>1, <3>2, <3>3
  <2> QED BY <1>7, <2>1, <2>2
<1>10. ASSUME NEW i \in 1 .. l + 1, NEW j \in 1 .. l + 1, i < j
       PROVE  placed'[i].adr + placed'[i].size <= placed'[j].adr
  <2>1. i \in 1 .. l
    BY <1>3, <1>10
  <2>2. CASE j = l + 1
    BY <1>2, <1>5, <1>8, <2>1, <2>2
  <2>3. CASE j \in 1 .. l
    BY <1>3, <1>5, <1>10, <2>1, <2>3 DEF PlacedInv
  <2> QED BY <1>7, <2>2, <2>3
<1>11. ASSUME NEW p \in Nat, KernelAdr <= p * PageSize, p * PageSize < next'
       PROVE  \E i \in 1 .. l + 1 : /\ placed'[i].adr <= p * PageSize
                                    /\ p * PageSize < placed'[i].adr + placed'[i].size
  <2>1. CASE p * PageSize < next
    <3>1. PICK i \in 1 .. l :
            placed[i].adr <= p * PageSize /\ p * PageSize < placed[i].adr + placed[i].size
      BY <1>3, <1>11, <2>1 DEF PlacedInv
    <3>2. i \in 1 .. l + 1 /\ placed'[i] = placed[i]
      BY <1>5
    <3> QED BY <3>1, <3>2
  <2>2. CASE next <= p * PageSize
    <3>1. p * PageSize < next + n
      BY <1>1, <1>4, <1>11, BelowAlign
    <3>2. l + 1 \in 1 .. l + 1
      BY <1>3
    <3> QED BY <1>2, <1>5, <2>2, <3>1, <3>2
  <2>3. p * PageSize \in Nat
    BY TimesType
  <2> QED BY <1>1, <2>1, <2>2, <2>3
<1>12. KernelAdr <= next'
  BY <1>1, <1>6 DEF PlacedInv
<1> QED BY <1>5, <1>6, <1>9, <1>10, <1>11, <1>12 DEF PlacedInv

LEMMA PlacedApart ==
  ASSUME PlacedInv
  PROVE  /\ \A i, j \in DOMAIN placed : i # j => Apart(placed[i], placed[j])
         /\ \A i \in DOMAIN placed : placed[i].adr + placed[i].size <= next
<1>1. DOMAIN placed = 1 .. Len(placed) /\ Len(placed) \in Nat
  BY LenProperties DEF PlacedInv
<1>2. \A i, j \in 1 .. Len(placed) : i # j => i < j \/ j < i
  BY <1>1
<1> QED BY <1>1, <1>2 DEF PlacedInv, Apart

\* The parts of the image.
LEMMA PackedApart ==
  ASSUME size \in FileSizes
  PROVE  \A e, f \in Packed : e # f => Apart(e, f)
<1>1. /\ size["grub"] \in Nat /\ size["kernel"] \in Nat /\ size["font"] \in Nat
      /\ size["logo"] \in Nat /\ size["grub"] <= GrubSize
  BY BootAssumption DEF File
<1>2. GrubSize \in Nat /\ FileOffset \in Nat /\ HeaderSize \in Nat /\ GrubSize + HeaderSize <= FileOffset
  BY BootAssumption
<1>3. /\ PackedAt["grub"] = 0 /\ PackedAt["kernel"] = FileOffset
      /\ PackedAt["font"] = FileOffset + size["kernel"]
      /\ PackedAt["logo"] = FileOffset + size["kernel"] + size["font"]
  BY DEF PackedAt, File
<1>4. \A e \in Packed :
        \/ e = Extent("grub", 0, size["grub"])
        \/ e = Extent("kernel", FileOffset, size["kernel"])
        \/ e = Extent("font", FileOffset + size["kernel"], size["font"])
        \/ e = Extent("logo", FileOffset + size["kernel"] + size["font"], size["logo"])
        \/ e = Extent("header", GrubSize, HeaderSize)
  <2>1. \A f \in File : f = "grub" \/ f = "kernel" \/ f = "font" \/ f = "logo"
    BY DEF File
  <2> QED BY <1>3, <2>1 DEF Packed
<1>5. \A w, a, n : Extent(w, a, n).adr = a /\ Extent(w, a, n).size = n
  BY DEF Extent
<1>6. \A e \in Packed :
        \/ e.adr = 0 /\ e.size = size["grub"] /\ e = Extent("grub", 0, size["grub"])
        \/ /\ e.adr = FileOffset /\ e.size = size["kernel"]
           /\ e = Extent("kernel", FileOffset, size["kernel"])
        \/ /\ e.adr = FileOffset + size["kernel"] /\ e.size = size["font"]
           /\ e = Extent("font", FileOffset + size["kernel"], size["font"])
        \/ /\ e.adr = FileOffset + size["kernel"] + size["font"] /\ e.size = size["logo"]
           /\ e = Extent("logo", FileOffset + size["kernel"] + size["font"], size["logo"])
        \/ e.adr = GrubSize /\ e.size = HeaderSize /\ e = Extent("header", GrubSize, HeaderSize)
  BY <1>4, <1>5
<1> QED BY <1>1, <1>2, <1>6 DEF Apart

\* The kernel and the font end below the image they are copied from.
FilesFit == \A s \in FileSizes : Align(KernelAdr + s["kernel"]) + s["font"] <= ImageAdr

\* So far the files are below the image.
BelowImage ==
  /\ pc = "kernel" => next = KernelAdr /\ placed = <<>>
  /\ pc = "font" => next <= Align(KernelAdr + size["kernel"])
  /\ pc \in {"kernel", "font", "logo"} =>
       \A i \in 1 .. Len(placed) : placed[i].adr + placed[i].size <= ImageAdr

ImageInv == size \in FileSizes /\ views \in Seq(View) /\ PlacedInv

LEMMA SizesType ==
  ASSUME size \in FileSizes
  PROVE  \A f \in File : size[f] \in Nat /\ ImageFile(f).size = size[f]
BY BootAssumption DEF ImageFile, Extent

LEMMA ImageInit == Init => ImageInv
<1> SUFFICES ASSUME Init PROVE ImageInv
  OBVIOUS
<1>1. size \in FileSizes /\ views \in Seq(View) /\ next = KernelAdr /\ placed = <<>>
  BY BootAssumption DEF Init
<1>2. KernelAdr \in Nat /\ KernelAdr % PageSize = 0
  BY BootAssumption
<1>3. PageOf(KernelAdr) \in Nat /\ KernelAdr = PageOf(KernelAdr) * PageSize
  BY <1>2, PageFacts, PageWhole
<1>4. placed \in Seq(Ext) /\ Len(placed) = 0
  BY <1>1, EmptySeq
<1>5. \A p \in Nat : ~ (KernelAdr <= p * PageSize /\ p * PageSize < KernelAdr)
  BY <1>2, TimesType
<1>6. PlacedInv
  BY <1>1, <1>2, <1>3, <1>4, <1>5 DEF PlacedInv
<1> QED BY <1>1, <1>6 DEF ImageInv

\* What each step places.
LEMMA LoadPlaces ==
  ASSUME ImageInv, NEW f \in File \ {"grub"}, NEW to, LoadFile(f, to)
  PROVE  ImageInv'
<1>1. f \in Thing /\ f \in File
  BY DEF File, Thing
<1>2. size' = size /\ views' = views
  BY DEF LoadFile
<1>3. PlacedInv'
  <2>1. CASE ImageFile(f).size = 0
    BY <2>1, PlacedKept DEF LoadFile, ImageInv
  <2>2. CASE ImageFile(f).size # 0
    <3>1. Place(f, ImageFile(f).size)
      BY <2>2 DEF LoadFile
    <3>2. ImageFile(f).size \in Nat
      BY <1>1, SizesType DEF ImageInv
    <3> QED BY <1>1, <3>1, <3>2, PlaceKeeps DEF ImageInv
  <2> QED BY <2>1, <2>2
<1> QED BY <1>2, <1>3 DEF ImageInv

LEMMA TablesPlace ==
  ASSUME ImageInv, RemmuInit \/ MemviewInit \/ MempageInit \/ MemareaInit
  PROVE  ImageInv'
<1>1. MmuSize \in Nat /\ ViewSize \in Nat /\ DescSize \in Nat /\ AreasSize \in Nat
  BY BootAssumption
<1>2. views \in Seq(View) /\ Len(views) \in Nat /\ PlacedInv
  BY LenProperties DEF ImageInv
<1>3. "mmu" \in Thing /\ "views" \in Thing /\ "pages" \in Thing /\ "areas" \in Thing
  BY DEF Thing
<1>4. CASE RemmuInit
  <2>1. Place("mmu", MmuSize) /\ size' = size /\ views' = views
    BY <1>4 DEF RemmuInit
  <2>2. PlacedInv'
    BY <1>1, <1>2, <1>3, <2>1, PlaceKeeps
  <2> QED BY <2>1, <2>2 DEF ImageInv
<1>5. CASE MemviewInit
  <2>1. Place("views", Len(views) * ViewSize) /\ size' = size /\ views' = Sorted(views)
    BY <1>5 DEF MemviewInit
  <2>2. Len(views) * ViewSize \in Nat
    BY <1>1, <1>2
  <2>3. PlacedInv'
    BY <1>2, <1>3, <2>1, <2>2, PlaceKeeps
  <2>4. views' \in Seq(View)
    BY <1>2, <2>1, SortedFacts DEF Reorders
  <2> QED BY <2>1, <2>3, <2>4 DEF ImageInv
<1>6. CASE MempageInit
  <2>1. /\ Place("pages", Len(pages') * DescSize) /\ size' = size /\ views' = views
        /\ pages' = AllPages(views)
    BY <1>6 DEF MempageInit
  <2>2. Len(pages') \in Nat
    BY <1>2, <2>1, AllPagesType, LenProperties
  <2>3. Len(pages') * DescSize \in Nat
    BY <1>1, <2>2
  <2>4. PlacedInv'
    BY <1>2, <1>3, <2>1, <2>3, PlaceKeeps
  <2> QED BY <2>1, <2>4 DEF ImageInv
<1>7. CASE MemareaInit
  <2>1. Place("areas", AreasSize) /\ size' = size /\ views' = views
    BY <1>7 DEF MemareaInit
  <2>2. PlacedInv'
    BY <1>1, <1>2, <1>3, <2>1, PlaceKeeps
  <2> QED BY <2>1, <2>2 DEF ImageInv
<1> QED BY <1>4, <1>5, <1>6, <1>7

\* The other steps, by what they leave alone.
MarkOrMount ==
  \/ Occupy("bios", "stack") \/ Occupy("stack", "image")
  \/ Occupy("image", "kernels") \/ Occupy("kernels", "mark")
  \/ \E w \in {"bios", "stack", "image", "kernels"} : OccupyOverruns(w)
  \/ MarkAreas \/ MountRuns("hwad", "krnl") \/ MountRuns("krnl", "apps")
  \/ MountSingles \/ SetMemmgr

LEMMA MarkOrMountSame ==
  ASSUME MarkOrMount
  PROVE  /\ UNCHANGED <<size, next, placed, views>>
         /\ pc' \notin {"kernel", "font", "logo", "remmu", "views", "pages", "areas"}
BY DEF MarkOrMount, Occupy, OccupyOverruns, MarkAreas, MountRuns, MountSingles, SetMemmgr, Step

LEMMA NextSteps ==
  ASSUME Next
  PROVE  \/ LoadFile("kernel", "font") \/ LoadFile("font", "logo") \/ LoadFile("logo", "remmu")
         \/ RemmuInit \/ MemviewInit \/ MempageInit \/ MemareaInit \/ MarkOrMount
BY DEF Next, MarkOrMount

LEMMA ImageStep == ImageInv /\ [Next]_vars => ImageInv'
<1> SUFFICES ASSUME ImageInv, [Next]_vars PROVE ImageInv'
  OBVIOUS
<1>1. {"kernel", "font", "logo"} \subseteq File \ {"grub"}
  BY DEF File
<1>2. CASE UNCHANGED vars
  BY <1>2, PlacedKept DEF vars, ImageInv
<1>3. CASE LoadFile("kernel", "font") \/ LoadFile("font", "logo") \/ LoadFile("logo", "remmu")
  BY <1>1, <1>3, LoadPlaces
<1>4. CASE RemmuInit \/ MemviewInit \/ MempageInit \/ MemareaInit
  BY <1>4, TablesPlace
<1>5. CASE MarkOrMount
  BY <1>5, MarkOrMountSame, PlacedKept DEF ImageInv
<1> QED BY <1>2, <1>3, <1>4, <1>5, NextSteps

LEMMA BelowInit == Init => BelowImage
<1> SUFFICES ASSUME Init PROVE BelowImage
  OBVIOUS
<1>1. pc = "kernel" /\ next = KernelAdr /\ placed = <<>> /\ Len(placed) = 0
  BY EmptySeq DEF Init
<1> QED BY <1>1 DEF BelowImage

LEMMA BelowStep ==
  ASSUME FilesFit, ImageInv, BelowImage, [Next]_vars
  PROVE  BelowImage'
<1>1. CASE UNCHANGED vars
  BY <1>1 DEF vars, BelowImage
<1>2. PICK K \in Nat, k \in Nat, f \in Nat, I \in Nat :
        K = KernelAdr /\ k = size["kernel"] /\ f = size["font"] /\ I = ImageAdr
  BY SizesType, BootAssumption DEF ImageInv, File
<1>3. Align(K + k) + f <= I /\ Align(K + k) \in Nat /\ K + k <= Align(K + k)
  <2>1. Align(KernelAdr + size["kernel"]) + size["font"] <= ImageAdr
    BY DEF FilesFit, ImageInv
  <2>2. PICK x \in Nat : x = K + k
    BY <1>2
  <2>3. Align(x) \in Nat /\ x <= Align(x)
    BY AlignFacts
  <2>4. KernelAdr + size["kernel"] = x
    BY <1>2, <2>2
  <2>5. Align(x) + f <= I
    BY <1>2, <2>1, <2>4
  <2> QED BY <2>2, <2>3, <2>5
<1>4. placed \in Seq(Ext) /\ Len(placed) \in Nat /\ next \in Nat
  BY NextType, LenProperties DEF PlacedInv, ImageInv
<1>5. ASSUME NEW what \in Thing, NEW n \in Nat, Place(what, n),
             \A i \in 1 .. Len(placed) : placed[i].adr + placed[i].size <= ImageAdr,
             next + n <= ImageAdr
      PROVE  \A i \in 1 .. Len(placed') : placed'[i].adr + placed'[i].size <= ImageAdr
  <2>1. PICK e \in Ext : e = Extent(what, next, n) /\ e.adr = next /\ e.size = n
    <3>1. Extent(what, next, n) \in Ext
      BY <1>4 DEF Extent, Ext
    <3> QED BY <3>1 DEF Extent
  <2>2. /\ placed' \in Seq(Ext) /\ Len(placed') = Len(placed) + 1 /\ placed'[Len(placed) + 1] = e
        /\ \A i \in 1 .. Len(placed) : placed'[i] = placed[i]
    BY <1>4, <1>5, <2>1, AppendProperties DEF Place
  <2>3. \A i \in 1 .. Len(placed') : i \in 1 .. Len(placed) \/ i = Len(placed) + 1
    BY <1>4, <2>2
  <2> QED BY <1>5, <2>1, <2>2, <2>3
<1>6. CASE LoadFile("kernel", "font")
  <2>1. pc = "kernel" /\ pc' = "font" /\ size' = size /\ next = KernelAdr
    BY <1>6 DEF LoadFile, Step, BelowImage
  <2>2. \A i \in 1 .. Len(placed) : placed[i].adr + placed[i].size <= ImageAdr
    BY <2>1 DEF BelowImage
  <2>3. CASE ImageFile("kernel").size = 0
    <3>1. next' = next /\ placed' = placed
      BY <1>6, <2>3 DEF LoadFile
    <3> QED BY <1>2, <1>3, <2>1, <2>2, <3>1 DEF BelowImage
  <2>4. CASE ImageFile("kernel").size # 0
    <3>1. Place("kernel", k)
      BY <1>2, <1>6, <2>4, SizesType DEF LoadFile, ImageInv, File
    <3>2. next + k <= ImageAdr /\ next' = Align(K + k)
      BY <1>2, <1>3, <2>1, <3>1 DEF Place
    <3>3. \A i \in 1 .. Len(placed') : placed'[i].adr + placed'[i].size <= ImageAdr
      BY <1>5, <2>2, <3>1, <3>2 DEF Thing
    <3> QED BY <1>2, <1>3, <2>1, <3>2, <3>3 DEF BelowImage
  <2> QED BY <2>3, <2>4
<1>7. CASE LoadFile("font", "logo")
  <2>1. pc = "font" /\ pc' = "logo" /\ size' = size /\ next <= Align(K + k)
    BY <1>2, <1>7 DEF LoadFile, Step, BelowImage
  <2>2. \A i \in 1 .. Len(placed) : placed[i].adr + placed[i].size <= ImageAdr
    BY <2>1 DEF BelowImage
  <2>3. CASE ImageFile("font").size = 0
    <3>1. next' = next /\ placed' = placed
      BY <1>7, <2>3 DEF LoadFile
    <3> QED BY <2>1, <2>2, <3>1 DEF BelowImage
  <2>4. CASE ImageFile("font").size # 0
    <3>1. Place("font", f)
      BY <1>2, <1>7, <2>4, SizesType DEF LoadFile, ImageInv, File
    <3>2. next + f <= ImageAdr
      BY <1>2, <1>3, <1>4, <2>1
    <3>3. \A i \in 1 .. Len(placed') : placed'[i].adr + placed'[i].size <= ImageAdr
      BY <1>5, <2>2, <3>1, <3>2 DEF Thing
    <3> QED BY <2>1, <3>3 DEF BelowImage
  <2> QED BY <2>3, <2>4
<1>8. CASE \/ LoadFile("logo", "remmu")
           \/ RemmuInit \/ MemviewInit \/ MempageInit \/ MemareaInit \/ MarkOrMount
  <2>1. pc' \notin {"kernel", "font", "logo"}
    BY <1>8, MarkOrMountSame
       DEF LoadFile, RemmuInit, MemviewInit, MempageInit, MemareaInit, Step
  <2> QED BY <2>1 DEF BelowImage
<1> QED BY <1>1, <1>6, <1>7, <1>8, NextSteps

\* Whatever the files: their places in the image do not overlap, what is put into
\* memory does not either, and where the font ends below the image every file is
\* still whole when it is copied (pack.c:121, machine.c:200).
THEOREM ImageIsWhole ==
  ASSUME FilesFit
  PROVE  Spec => []CopiesWhole
<1>1. Init => ImageInv /\ BelowImage
  BY ImageInit, BelowInit
<1>2. ImageInv /\ BelowImage /\ [Next]_vars => ImageInv' /\ BelowImage'
  BY ImageStep, BelowStep
<1>3. ImageInv /\ BelowImage => CopiesWhole
  <2> SUFFICES ASSUME ImageInv, BelowImage PROVE CopiesWhole
    OBVIOUS
  <2>1. \A e, f \in Packed : e # f => Apart(e, f)
    BY PackedApart DEF ImageInv
  <2>2. DOMAIN placed = 1 .. Len(placed)
    BY LenProperties DEF ImageInv, PlacedInv
  <2>3. pc \in {"font", "logo"} => \A i \in DOMAIN placed :
          Apart(placed[i], Extent("image", ImageAdr, ImageSize))
    BY <2>2 DEF BelowImage, Apart, Extent
  <2> QED BY <2>1, <2>3, PlacedApart DEF CopiesWhole, ImageInv
<1> QED BY <1>1, <1>2, <1>3, PTL DEF Spec

-----------------------------------------------------------------------------
(***************************************************************************)
(* The memory map the boot counts on.                                      *)
(***************************************************************************)

\* There is memory where the machine boots, and the pages are fewer than the
\* orders have room for.
Good(m) ==
  /\ Regular(m)
  /\ \A q \in {0, PageOf(StackAdr), PageOf(KernelAdr), PageOf(ImageAdr)} :
       \E i \in DOMAIN m : InView(m[i], q)
  /\ \A i \in DOMAIN m : m[i].usable => m[i].addr + m[i].size < Size[MaxOrder + 1] * PageSize

GoodMaps == \A m \in Maps : Good(m)

LEMMA GoodSorted ==
  ASSUME NEW m \in Seq(View), Good(m)
  PROVE  /\ Sorted(m) \in Seq(View) /\ Good(Sorted(m))
         /\ SortedTo(Sorted(m), Len(Sorted(m)))
<1>1. PICK s : s = Sorted(m)
  OBVIOUS
<1>2. Reorders(s, m) /\ SortedTo(s, Len(m))
  BY <1>1, SortedFacts
<1>3. /\ s \in Seq(View) /\ Len(s) = Len(m) /\ Regular(s)
      /\ DOMAIN s = 1 .. Len(m) /\ DOMAIN m = 1 .. Len(m)
  BY <1>2, LenProperties DEF Reorders, Good
<1>4. ASSUME NEW q \in {0, PageOf(StackAdr), PageOf(KernelAdr), PageOf(ImageAdr)}
      PROVE  \E y \in DOMAIN s : InView(s[y], q)
  <2>1. PICK x \in 1 .. Len(m) : InView(m[x], q)
    BY <1>3 DEF Good
  <2>2. PICK y \in 1 .. Len(m) : m[x] = s[y]
    BY <1>2 DEF Reorders
  <2> QED BY <1>3, <2>1, <2>2
<1>5. ASSUME NEW y \in DOMAIN s, s[y].usable
      PROVE  s[y].addr + s[y].size < Size[MaxOrder + 1] * PageSize
  <2>1. PICK x \in 1 .. Len(m) : s[y] = m[x]
    BY <1>2, <1>3 DEF Reorders
  <2>2. m[x].usable
    BY <1>5, <2>1
  <2>3. m[x].addr + m[x].size < Size[MaxOrder + 1] * PageSize
    BY <1>3, <2>2 DEF Good
  <2> QED BY <2>1, <2>3
<1>6. Good(s)
  BY <1>3, <1>4, <1>5 DEF Good
<1> QED BY <1>1, <1>2, <1>3, <1>6

LEMMA WholeIs ==
  ASSUME NEW v \in View, v.usable, v.addr % PageSize = 0, NEW p \in Nat
  PROVE  InView(v, p) <=>
           v.addr <= p * PageSize /\ (p + 1) * PageSize <= v.addr + v.size
<1>1. PICK a \in Nat, z \in Nat : a = v.addr /\ z = v.size
  BY DEF View
<1>2. PICK q \in Nat : q = PageOf(a) /\ a = q * PageSize
  BY <1>1, PageFacts, PageWhole
<1>3. PICK n \in Nat : n = z \div PageSize /\ n * PageSize <= z /\ z < n * PageSize + PageSize
  BY <1>1, ViewPages
<1>4. PICK Q \in Nat, N \in Nat, P \in Nat, S \in Nat, E \in Nat :
        /\ Q = q * PageSize /\ N = n * PageSize /\ P = p * PageSize /\ S = PageSize
        /\ E = (q + n) * PageSize
  <2>1. q + n \in Nat
    OBVIOUS
  <2> QED BY <2>1, TimesType, BootAssumption
<1>5. E = Q + N
  <2>1. (q + n) * PageSize = q * PageSize + n * PageSize
    BY BootAssumption
  <2> QED BY <1>4, <2>1, Zenon
<1>6. (p + 1) * PageSize = P + S
  BY <1>4, TimesNext
<1>7. (q <= p => Q <= P) /\ (p < q => P + S <= Q) /\ S > 0
  BY <1>4, TimesGrow, BootAssumption
<1>8. (p < q + n => P + S <= E) /\ (q + n <= p => E <= P)
  <2>1. q + n \in Nat
    OBVIOUS
  <2>2. (p < q + n => p * PageSize + PageSize <= (q + n) * PageSize)
        /\ (q + n <= p => (q + n) * PageSize <= p * PageSize)
    BY <2>1, TimesGrow
  <2> QED BY <1>4, <2>2, Zenon
<1>9. a = Q /\ N <= z /\ z < N + S
  BY <1>2, <1>3, <1>4, Zenon
<1>10. InView(v, p) <=> q <= p /\ p < q + n
  BY <1>1, <1>2, <1>3 DEF InView
<1>11. (q <= p /\ p < q + n) <=> (a <= P /\ P + S <= a + z)
  BY <1>5, <1>7, <1>8, <1>9
<1> QED BY <1>1, <1>4, <1>6, <1>10, <1>11, Zenon

LEMMA UsableIs ==
  ASSUME views \in Seq(View), Regular(views), NEW p \in Nat
  PROVE  Usable(p) <=> \E i \in 1 .. Len(views) : InView(views[i], p)
<1>1. DOMAIN views = 1 .. Len(views)
  BY LenProperties
<1>2. ASSUME NEW i \in 1 .. Len(views), views[i].usable
      PROVE  InView(views[i], p) <=>
               /\ views[i].addr <= p * PageSize
               /\ (p + 1) * PageSize <= views[i].addr + views[i].size
  <2>1. views[i] \in View
    BY ElementOfSeq
  <2>2. views[i].addr % PageSize = 0
    BY <1>1, <1>2 DEF Regular
  <2> QED BY <1>2, <2>1, <2>2, WholeIs
<1>3. \A i \in 1 .. Len(views) : InView(views[i], p) => views[i].usable
  BY DEF InView
<1> QED BY <1>1, <1>2, <1>3 DEF Usable

-----------------------------------------------------------------------------
(***************************************************************************)
(* The marks.                                                              *)
(***************************************************************************)

Ascending == \A x, y \in 1 .. Len(pages) : x < y => pages[x].value < pages[y].value

LEMMA PageAt ==
  ASSUME pages \in Seq(Desc), NEW x \in 1 .. Len(pages)
  PROVE  /\ pages[x] \in Desc /\ pages[x].value \in Nat /\ pages[x].count \in Nat
         /\ pages[x].value * PageSize \in Nat
<1>1. pages[x] \in Desc
  BY ElementOfSeq
<1> QED BY <1>1, TimesType DEF Desc

\* The pages mark_occupy counts are those that begin in the region.
LEMMA OccupiedIs ==
  ASSUME pages \in Seq(Desc), Ascending, NEW q \in Nat, NEW n \in Nat,
         NEW f \in 1 .. Len(pages), pages[f].value = q, NEW i \in 1 .. Len(pages)
  PROVE  i \in Occupied(q * PageSize, n) <=>
           q * PageSize <= pages[i].value * PageSize
           /\ pages[i].value * PageSize < q * PageSize + n
<1>1. DOMAIN pages = 1 .. Len(pages) /\ Len(pages) \in Nat
  BY LenProperties
<1>2. PICK Q \in Nat : Q = q * PageSize
  BY TimesType
<1>3. PageOf(Q) = q
  <2>1. PageSize \in Nat \ {0}
    BY BootAssumption
  <2>2. Q < q * PageSize + PageSize /\ q * PageSize <= Q
    BY <1>2, <2>1
  <2> QED BY <2>2, PageUnique
<1>4. \A g \in FirstOf(Q) : g = f
  <2>1. ASSUME NEW g \in 1 .. Len(pages), pages[g].value = q PROVE g = f
    <3>1. ~ (g < f) /\ ~ (f < g)
      BY <2>1 DEF Ascending
    <3> QED BY <1>1, <3>1
  <2> QED BY <1>1, <1>3, <2>1 DEF FirstOf
<1>5. f \in FirstOf(Q)
  BY <1>1, <1>3 DEF FirstOf
<1>6. i \in Occupied(Q, n) <=>
        f <= i /\ \A j \in f .. i : pages[j].value * PageSize <= Q + n - 1
  BY <1>1, <1>4, <1>5 DEF Occupied
<1>7. pages[i].value \in Nat
  BY PageAt
<1>8. ASSUME f <= i PROVE Q <= pages[i].value * PageSize
  <2>1. q <= pages[i].value
    BY <1>1, <1>7, <1>8 DEF Ascending
  <2> QED BY <1>2, <1>7, <2>1, TimesGrow
<1>9. ASSUME ~ (f <= i) PROVE ~ (Q <= pages[i].value * PageSize)
  <2>1. pages[i].value < q
    BY <1>1, <1>9 DEF Ascending
  <2>2. pages[i].value * PageSize + PageSize <= q * PageSize
    BY <1>7, <2>1, TimesGrow
  <2>3. PageSize \in Nat \ {0} /\ pages[i].value * PageSize \in Nat
    BY <1>7, TimesType, BootAssumption
  <2> QED BY <1>2, <2>2, <2>3
<1>10. ASSUME f <= i, pages[i].value * PageSize < Q + n, NEW j \in f .. i
       PROVE  pages[j].value * PageSize <= Q + n - 1
  <2>1. j \in 1 .. Len(pages) /\ (j = i \/ j < i)
    BY <1>1
  <2>2. pages[j].value \in Nat /\ pages[j].value <= pages[i].value
    BY <1>7, <2>1, PageAt DEF Ascending
  <2>3. pages[j].value * PageSize <= pages[i].value * PageSize
    BY <1>7, <2>2, TimesGrow
  <2>4. pages[j].value * PageSize \in Nat /\ pages[i].value * PageSize \in Nat
    BY <1>7, <2>2, TimesType
  <2> QED BY <1>10, <2>3, <2>4
<1>11. f <= i => i \in f .. i
  BY <1>1
<1>12. pages[i].value * PageSize \in Nat
  BY <1>7, TimesType
<1>13. pages[i].value * PageSize <= Q + n - 1 => pages[i].value * PageSize < Q + n
  BY <1>12
<1>14. i \in Occupied(Q, n) <=> Q <= pages[i].value * PageSize /\ pages[i].value * PageSize < Q + n
  BY <1>6, <1>8, <1>9, <1>10, <1>11, <1>13
<1> QED BY <1>2, <1>14, Zenon

Regions == {"bios", "stack", "image", "kernels"}

\* The page begins in the region.
Covers(w, p) ==
  Region(w).adr <= p * PageSize /\ p * PageSize < Region(w).adr + Region(w).size

\* Every region begins with a page that the map has.
LEMMA RegionFacts ==
  ASSUME ImageInv, Good(views), NEW w \in Regions
  PROVE  \E q \in Nat, n \in Nat :
           /\ Region(w).adr = q * PageSize /\ Region(w).size = n
           /\ \E i \in 1 .. Len(views) : InView(views[i], q)
<1>1. DOMAIN views = 1 .. Len(views)
  BY LenProperties DEF ImageInv
<1>2. \A q \in {0, PageOf(StackAdr), PageOf(KernelAdr), PageOf(ImageAdr)} :
        \E i \in 1 .. Len(views) : InView(views[i], q)
  BY <1>1 DEF Good
<1>3. CASE w = "bios"
  <2>1. Region(w).adr = 0 * PageSize /\ Region(w).size = PageSize /\ PageSize \in Nat
    BY <1>3, BootAssumption DEF Region, Extent
  <2> QED BY <1>2, <2>1
<1>4. CASE w = "stack"
  <2>1. /\ Region(w).adr = PageOf(StackAdr) * PageSize /\ Region(w).size = StackSize
        /\ StackSize \in Nat /\ StackAdr \in Nat
    BY <1>4, BootAssumption DEF Region, Extent
  <2>2. PageOf(StackAdr) \in Nat
    BY <2>1, PageFacts
  <2> QED BY <1>2, <2>1, <2>2
<1>5. CASE w = "image"
  <2>1. Region(w).adr = ImageAdr /\ Region(w).size = ImageSize
    BY <1>5 DEF Region, Extent
  <2>2. ImageSize \in Nat
    <3>1. size["kernel"] \in Nat /\ size["font"] \in Nat /\ size["logo"] \in Nat
      BY SizesType DEF ImageInv, File
    <3>2. FileOffset \in Nat
      BY BootAssumption
    <3> QED BY <3>1, <3>2 DEF ImageSize
  <2>3. ImageAdr \in Nat /\ (ImageAdr % PageSize) = 0
    BY BootAssumption
  <2>4. PageOf(ImageAdr) \in Nat /\ ImageAdr = PageOf(ImageAdr) * PageSize
    BY <2>3, PageFacts, PageWhole
  <2> QED BY <1>2, <2>1, <2>2, <2>4
<1>6. CASE w = "kernels"
  <2>1. Region(w).adr = KernelAdr /\ Region(w).size = next - KernelAdr
    BY <1>6 DEF Region, Extent
  <2>2. next - KernelAdr \in Nat
    BY NextType DEF PlacedInv, ImageInv
  <2>3. KernelAdr \in Nat /\ (KernelAdr % PageSize) = 0
    BY BootAssumption
  <2>4. PageOf(KernelAdr) \in Nat /\ KernelAdr = PageOf(KernelAdr) * PageSize
    BY <2>3, PageFacts, PageWhole
  <2> QED BY <1>2, <2>1, <2>2, <2>4
<1> QED BY <1>3, <1>4, <1>5, <1>6 DEF Regions

\* A page touches a region that begins with a page where it begins in it.
LEMMA TouchesIs ==
  ASSUME NEW q \in Nat, NEW n \in Nat, NEW p \in Nat,
         NEW e, e.adr = q * PageSize, e.size = n
  PROVE  Touches(p, e) <=> e.adr <= p * PageSize /\ p * PageSize < e.adr + e.size
<1>1. PICK Q \in Nat, P \in Nat, S \in Nat : Q = q * PageSize /\ P = p * PageSize /\ S = PageSize
  BY TimesType, BootAssumption
<1>2. (q <= p => Q <= P) /\ (p < q => P + S <= Q) /\ S > 0
  BY <1>1, TimesGrow, BootAssumption
<1>3. Touches(p, e) <=> ~ (Q + n <= P \/ P + S <= Q)
  BY <1>1 DEF Touches, Apart, Extent
<1>4. ~ (Q + n <= P \/ P + S <= Q) <=> Q <= P /\ P < Q + n
  BY <1>2
<1> QED BY <1>1, <1>3, <1>4

\* What no region covers is what nothing in use touches.
LEMMA UntouchedIs ==
  ASSUME ImageInv, Good(views), NEW p \in Nat
  PROVE  (\A e \in InUse : e.size > 0 => ~ Touches(p, e)) <=> (\A w \in Regions : ~ Covers(w, p))
<1>1. DOMAIN placed = 1 .. Len(placed) /\ placed \in Seq(Ext)
  BY LenProperties DEF ImageInv, PlacedInv
<1>2. \A w \in Regions : Touches(p, Region(w)) <=> Covers(w, p)
  BY RegionFacts, TouchesIs DEF Covers
<1>3. \A w \in Regions : Covers(w, p) => Region(w).size > 0
  <2> SUFFICES ASSUME NEW w \in Regions, Covers(w, p) PROVE Region(w).size > 0
    OBVIOUS
  <2>1. PICK a \in Nat, n \in Nat, P \in Nat :
          a = Region(w).adr /\ n = Region(w).size /\ P = p * PageSize
    BY RegionFacts, TimesType
  <2>2. a <= P /\ P < a + n
    BY <2>1 DEF Covers
  <2> QED BY <2>1, <2>2
<1>4. PICK P \in Nat, S \in Nat, K \in Nat, N \in Nat :
        P = p * PageSize /\ S = PageSize /\ K = KernelAdr /\ N = next
  BY TimesType, BootAssumption, NextType DEF ImageInv
<1>5. Covers("kernels", p) <=> K <= P /\ P < N
  <2>1. Region("kernels").adr = KernelAdr /\ Region("kernels").size = next - KernelAdr
    BY DEF Region, Extent
  <2> QED BY <1>4, <2>1 DEF Covers
<1>6. ASSUME NEW i \in 1 .. Len(placed), Touches(p, placed[i])
      PROVE  Covers("kernels", p)
  <2>1. placed[i] \in Ext
    BY <1>1, ElementOfSeq
  <2>2. PICK a \in Nat, n \in Nat : a = placed[i].adr /\ n = placed[i].size
    BY <2>1 DEF Ext
  <2>3. ~ (a + n <= P) /\ ~ (P + S <= a)
    BY <1>4, <1>6, <2>2 DEF Touches, Apart, Extent
  <2>4. K <= a /\ a + n <= N
    BY <1>4, <2>2 DEF ImageInv, PlacedInv
  <2>5. PICK k \in Nat : KernelAdr = k * PageSize
    BY PageFacts, PageWhole, BootAssumption
  <2>6. p < k => P + S <= K
    BY <1>4, <2>5, TimesGrow
  <2>7. k <= p => K <= P
    BY <1>4, <2>5, TimesGrow
  <2> QED BY <1>5, <2>3, <2>4, <2>6, <2>7
<1>7. ASSUME Covers("kernels", p)
      PROVE  \E i \in 1 .. Len(placed) : placed[i].size > 0 /\ Touches(p, placed[i])
  <2>1. PICK i \in 1 .. Len(placed) :
          placed[i].adr <= p * PageSize /\ p * PageSize < placed[i].adr + placed[i].size
    BY <1>4, <1>5, <1>7 DEF ImageInv, PlacedInv
  <2>2. placed[i] \in Ext
    BY <1>1, ElementOfSeq
  <2>3. PICK a \in Nat, n \in Nat : a = placed[i].adr /\ n = placed[i].size
    BY <2>2 DEF Ext
  <2>4. a <= P /\ P < a + n
    BY <1>4, <2>1, <2>3
  <2>5. S > 0
    BY <1>4, BootAssumption
  <2>6. Touches(p, placed[i])
    BY <1>4, <2>3, <2>4, <2>5 DEF Touches, Apart, Extent
  <2> QED BY <2>3, <2>4, <2>6
<1>8. InUse = {Region("bios"), Region("stack"), Region("image")} \cup {placed[i] : i \in 1 .. Len(placed)}
  BY <1>1 DEF InUse
<1>9. ASSUME \A w \in Regions : ~ Covers(w, p), NEW e \in InUse PROVE ~ Touches(p, e)
  <2>1. CASE e \in {Region("bios"), Region("stack"), Region("image")}
    BY <1>2, <1>9, <2>1 DEF Regions
  <2>2. CASE e \in {placed[i] : i \in 1 .. Len(placed)}
    BY <1>6, <1>9, <2>2 DEF Regions
  <2> QED BY <1>8, <2>1, <2>2
<1>10. ASSUME \A e \in InUse : e.size > 0 => ~ Touches(p, e), NEW w \in Regions, Covers(w, p)
       PROVE  FALSE
  <2>1. CASE w \in {"bios", "stack", "image"}
    <3>1. Region(w) \in InUse
      BY <1>8, <2>1
    <3> QED BY <1>2, <1>3, <1>10, <3>1
  <2>2. CASE w = "kernels"
    <3>1. PICK i \in 1 .. Len(placed) : placed[i].size > 0 /\ Touches(p, placed[i])
      BY <1>7, <1>10, <2>2
    <3>2. placed[i] \in InUse
      BY <1>8
    <3> QED BY <1>10, <3>1, <3>2
  <2> QED BY <2>1, <2>2 DEF Regions
<1> QED BY <1>9, <1>10

\* The areas begin with a page, so each page is in one of them.
LEMMA AreaIs ==
  ASSUME NEW p \in Nat
  PROVE  AreaOf(p) \in Area
<1>1. PICK P \in Nat, S \in Nat \ {0}, K \in Nat, A \in Nat :
        P = p * PageSize /\ S = PageSize /\ K = KernelAdr /\ A = AppsAdr
  BY TimesType, BootAssumption
<1>2. PICK k \in Nat, a \in Nat : K = k * PageSize /\ A = a * PageSize
  <2>1. (K % PageSize) = 0 /\ (A % PageSize) = 0
    BY <1>1, BootAssumption
  <2> QED BY <2>1, PageFacts, PageWhole
<1>3. (k <= p => K <= P) /\ (p < k => P + S <= K) /\ (a <= p => A <= P) /\ (p < a => P + S <= A)
  BY <1>1, <1>2, TimesGrow
<1>4. P + S - 1 < K \/ (P >= K /\ P + S - 1 < A) \/ P >= A
  BY <1>3
<1>5. AreaOf(p) = CASE P + S - 1 < K -> "hwad"
                    [] P >= K /\ P + S - 1 < A -> "krnl"
                    [] P >= A -> "apps"
                    [] OTHER -> "init"
  BY <1>1 DEF AreaOf
<1> QED BY <1>4, <1>5 DEF Area

Marking == {"bios", "stack", "image", "kernels", "mark"}
Mounting == {"hwad", "krnl", "apps", "memmgr", "done"}
Described == {"areas"} \cup Marking \cup Mounting

\* The regions mark_occupy has been through.
MarkedAt(c) ==
  IF c \in {"areas", "bios"} THEN {}
  ELSE IF c = "stack" THEN {"bios"}
  ELSE IF c = "image" THEN {"bios", "stack"}
  ELSE IF c = "kernels" THEN {"bios", "stack", "image"}
  ELSE Regions

DescInv ==
  /\ pages \in Seq(Desc) /\ Ascending
  /\ \A p \in Nat : Usable(p) <=> \E x \in 1 .. Len(pages) : pages[x].value = p

CountInv ==
  \A x \in 1 .. Len(pages) :
    pages[x].count > 0 <=> \E w \in MarkedAt(pc) : Covers(w, pages[x].value)

AreaInv == \A x \in 1 .. Len(pages) : pages[x].area = AreaOf(pages[x].value)

\* The descriptors are the whole usable pages in order, the regions marked so
\* far are counted, and once they are marked each page has its area.
MapInv ==
  /\ ImageInv /\ Good(views)
  /\ pc \in {"pages"} \cup Described => SortedTo(views, Len(views))
  /\ pc \in Described => DescInv /\ CountInv
  /\ pc \in Mounting => AreaInv

LEMMA MapKept ==
  ASSUME UNCHANGED <<size, next, placed, views>>
  PROVE  /\ \A p : Usable(p)' <=> Usable(p)
         /\ \A w, p : Covers(w, p)' <=> Covers(w, p)
<1>1. \A p : Usable(p)' <=> Usable(p)
  BY DEF Usable
<1>2. \A w, p : Covers(w, p)' <=> Covers(w, p)
  BY DEF Covers, Region, Extent, ImageSize
<1> QED BY <1>1, <1>2

LEMMA DescKept ==
  ASSUME DescInv, UNCHANGED <<views, pages>>
  PROVE  DescInv'
BY DEF DescInv, Ascending, Usable

LEMMA SeqTyped ==
  ASSUME NEW S, NEW n \in Nat, NEW F \in [1 .. n -> S]
  PROVE  F \in Seq(S) /\ Len(F) = n
<1>1. F \in Seq(S)
  BY SeqDef
<1> QED BY <1>1, LenProperties

LEMMA CoversKept ==
  ASSUME UNCHANGED <<size, next>>, NEW x, pages'[x].value = pages[x].value
  PROVE  \A v : Covers(v, pages[x].value)' <=> Covers(v, pages[x].value)
<1>1. \A v : Region(v)' = Region(v)
  BY DEF Region, Extent, ImageSize
<1> QED BY <1>1 DEF Covers

LEMMA MapInit == GoodMaps /\ Init => MapInv
BY ImageInit DEF Init, GoodMaps, MapInv, Described, Marking, Mounting

LEMMA ScanKeeps ==
  ASSUME MapInv, ImageInv', \/ LoadFile("kernel", "font") \/ LoadFile("font", "logo")
                            \/ LoadFile("logo", "remmu") \/ RemmuInit \/ MemviewInit
  PROVE  MapInv'
<1>1. CASE \/ LoadFile("kernel", "font") \/ LoadFile("font", "logo")
           \/ LoadFile("logo", "remmu") \/ RemmuInit
  <2>1. views' = views /\ pc' \in {"font", "logo", "remmu", "views"}
    BY <1>1 DEF LoadFile, RemmuInit, Step
  <2> QED BY <2>1 DEF MapInv, Described, Marking, Mounting
<1>2. CASE MemviewInit
  <2>1. views' = Sorted(views) /\ pc' = "pages"
    BY <1>2 DEF MemviewInit, Step
  <2>2. views \in Seq(View) /\ Good(views)
    BY DEF MapInv, ImageInv
  <2>3. Good(views') /\ SortedTo(views', Len(views'))
    BY <2>1, <2>2, GoodSorted
  <2> QED BY <2>1, <2>3 DEF MapInv, Described, Marking, Mounting
<1> QED BY <1>1, <1>2

LEMMA PagesMade ==
  ASSUME MapInv, ImageInv', MempageInit
  PROVE  MapInv'
<1>1. views' = views /\ pc = "pages" /\ pc' = "areas" /\ pages' = AllPages(views)
  BY DEF MempageInit, Step
<1>2. views \in Seq(View) /\ Regular(views) /\ Good(views) /\ SortedTo(views, Len(views))
  BY <1>1 DEF MapInv, ImageInv, Good
<1>3. Describes(pages', views, Len(views))
  BY <1>1, <1>2, AllPagesFacts
<1>4. pages' \in Seq(Desc) /\ Ascending'
  BY <1>3 DEF Describes, Ascending
<1>5. ASSUME NEW p \in Nat
      PROVE  Usable(p) <=> \E x \in 1 .. Len(pages') : pages'[x].value = p
  BY <1>2, <1>3, UsableIs DEF Describes
<1>6. \A p \in Nat : Usable(p)' <=> Usable(p)
  BY <1>1 DEF Usable
<1>7. DescInv'
  BY <1>4, <1>5, <1>6 DEF DescInv
<1>8. \A x \in 1 .. Len(pages') : pages'[x].count = 0
  BY <1>3 DEF Describes
<1>9. MarkedAt(pc') = {}
  BY <1>1 DEF MarkedAt
<1>10. CountInv'
  BY <1>8, <1>9 DEF CountInv
<1>11. pc' \notin Mounting
  BY <1>1 DEF Mounting
<1> QED BY <1>1, <1>2, <1>7, <1>10, <1>11 DEF MapInv

LEMMA AreasPlaced ==
  ASSUME MapInv, ImageInv', MemareaInit
  PROVE  MapInv'
<1>1. views' = views /\ pages' = pages /\ pc = "areas" /\ pc' = "bios"
  BY DEF MemareaInit, Step
<1>2. pc \in Described /\ pc' \notin Mounting /\ MarkedAt(pc) = {} /\ MarkedAt(pc') = {}
  BY <1>1 DEF Described, Mounting, MarkedAt
<1>3. DescInv /\ CountInv /\ Good(views) /\ SortedTo(views, Len(views))
  BY <1>2 DEF MapInv
<1>4. DescInv'
  BY <1>1, <1>3, DescKept
<1>5. \A x \in 1 .. Len(pages') : ~ (pages'[x].count > 0)
  BY <1>1, <1>2, <1>3 DEF CountInv
<1>6. CountInv'
  BY <1>2, <1>5 DEF CountInv
<1> QED BY <1>1, <1>2, <1>3, <1>4, <1>6 DEF MapInv

LEMMA RegionMarked ==
  ASSUME MapInv, ImageInv', NEW w \in Regions, NEW to \in Marking \ {"bios"}, Occupy(w, to),
         MarkedAt(to) = MarkedAt(w) \cup {w}
  PROVE  MapInv'
<1>1. pc = w /\ pc' = to /\ UNCHANGED <<size, next, placed, views>>
  BY DEF Occupy, Step
<1>2. pc \in Described /\ pc' \in Described /\ pc' \notin Mounting
  BY <1>1 DEF Described, Marking, Mounting, Regions
<1>3. /\ ImageInv /\ Good(views) /\ SortedTo(views, Len(views))
      /\ pages \in Seq(Desc) /\ Ascending /\ CountInv
      /\ \A p \in Nat : Usable(p) <=> \E x \in 1 .. Len(pages) : pages[x].value = p
  BY <1>2 DEF MapInv, DescInv
<1>4. PICK q \in Nat, n \in Nat :
        /\ Region(w).adr = q * PageSize /\ Region(w).size = n
        /\ \E i \in 1 .. Len(views) : InView(views[i], q)
  BY <1>3, RegionFacts
<1>5. PICK f \in 1 .. Len(pages) : pages[f].value = q
  <2>1. views \in Seq(View) /\ Regular(views)
    BY <1>3 DEF ImageInv, Good
  <2>2. Usable(q)
    BY <1>4, <2>1, UsableIs
  <2> QED BY <1>3, <2>2
<1>6. PICK l \in Nat : l = Len(pages) /\ DOMAIN pages = 1 .. l
  BY <1>3, LenProperties
<1>7. PICK O : O = Occupied(Region(w).adr, Region(w).size)
  OBVIOUS
<1>8. \A x \in 1 .. l : x \in O <=> Covers(w, pages[x].value)
  BY <1>3, <1>4, <1>5, <1>6, <1>7, OccupiedIs DEF Covers
<1>9. pages' = [i \in 1 .. l |-> IF i \in O THEN [pages[i] EXCEPT !.count = @ + 1] ELSE pages[i]]
  BY <1>6, <1>7 DEF Occupy
<1>10. ASSUME NEW x \in 1 .. l
       PROVE  /\ pages'[x] \in Desc /\ pages'[x].value = pages[x].value
              /\ pages'[x].count = IF x \in O THEN pages[x].count + 1 ELSE pages[x].count
              /\ pages[x].count \in Nat
  <2>1. pages[x] \in Desc
    BY <1>3, <1>6, PageAt
  <2>2. pages'[x] = IF x \in O THEN [pages[x] EXCEPT !.count = @ + 1] ELSE pages[x]
    BY <1>9
  <2> QED BY <2>1, <2>2 DEF Desc
<1>11. pages' \in Seq(Desc) /\ Len(pages') = l
  <2>1. pages' \in [1 .. l -> Desc]
    BY <1>9, <1>10
  <2> QED BY <2>1, SeqTyped
<1>12. Ascending'
  BY <1>3, <1>6, <1>10, <1>11 DEF Ascending
<1>13. \A p \in Nat : Usable(p)' <=> \E x \in 1 .. Len(pages') : pages'[x].value = p
  BY <1>1, <1>3, <1>6, <1>10, <1>11, MapKept
<1>14. ASSUME NEW x \in 1 .. l
       PROVE  pages'[x].count > 0 <=> \E v \in MarkedAt(pc') : Covers(v, pages[x].value)'
  <2>1. pages'[x].count > 0 <=> pages[x].count > 0 \/ x \in O
    BY <1>10
  <2>2. pages[x].count > 0 <=> \E v \in MarkedAt(w) : Covers(v, pages[x].value)
    BY <1>1, <1>3, <1>6 DEF CountInv
  <2>3. x \in O <=> Covers(w, pages[x].value)
    BY <1>8
  <2>4. pages'[x].count > 0 <=> \E v \in MarkedAt(to) : Covers(v, pages[x].value)
    BY <2>1, <2>2, <2>3
  <2>5. \A v : Covers(v, pages[x].value)' <=> Covers(v, pages[x].value)
    BY <1>1, <1>10, CoversKept
  <2> QED BY <1>1, <1>10, <2>4, <2>5
<1>15. DescInv' /\ CountInv'
  BY <1>11, <1>12, <1>13, <1>14 DEF DescInv, CountInv
<1> QED BY <1>1, <1>2, <1>3, <1>15 DEF MapInv

LEMMA AreasMarked ==
  ASSUME MapInv, ImageInv', MarkAreas
  PROVE  MapInv'
<1>1. pc = "mark" /\ pc' = "hwad" /\ UNCHANGED <<size, next, placed, views>>
  BY DEF MarkAreas, Step
<1>2. pc \in Described /\ pc' \in Described /\ MarkedAt(pc) = Regions /\ MarkedAt(pc') = Regions
  BY <1>1 DEF Described, Marking, Mounting, MarkedAt
<1>3. /\ Good(views) /\ SortedTo(views, Len(views)) /\ pages \in Seq(Desc) /\ Ascending /\ CountInv
      /\ \A p \in Nat : Usable(p) <=> \E x \in 1 .. Len(pages) : pages[x].value = p
  BY <1>2 DEF MapInv, DescInv
<1>4. PICK l \in Nat : l = Len(pages) /\ DOMAIN pages = 1 .. l
  BY <1>3, LenProperties
<1>5. pages' = [i \in 1 .. l |-> [pages[i] EXCEPT !.area = AreaOf(pages[i].value)]]
  BY <1>4 DEF MarkAreas
<1>6. ASSUME NEW x \in 1 .. l
      PROVE  /\ pages'[x] \in Desc /\ pages'[x].value = pages[x].value
             /\ pages'[x].count = pages[x].count /\ pages'[x].area = AreaOf(pages[x].value)
  <2>1. pages[x] \in Desc /\ pages[x].value \in Nat
    BY <1>3, <1>4, PageAt
  <2>2. pages'[x] = [pages[x] EXCEPT !.area = AreaOf(pages[x].value)]
    BY <1>5
  <2>3. AreaOf(pages[x].value) \in Area
    BY <2>1, AreaIs
  <2> QED BY <2>1, <2>2, <2>3 DEF Desc
<1>7. pages' \in Seq(Desc) /\ Len(pages') = l
  <2>1. pages' \in [1 .. l -> Desc]
    BY <1>5, <1>6
  <2> QED BY <2>1, SeqTyped
<1>8. Ascending'
  BY <1>3, <1>4, <1>6, <1>7 DEF Ascending
<1>9. \A p \in Nat : Usable(p)' <=> \E x \in 1 .. Len(pages') : pages'[x].value = p
  BY <1>1, <1>3, <1>4, <1>6, <1>7, MapKept
<1>10. ASSUME NEW x \in 1 .. l
       PROVE  pages'[x].count > 0 <=> \E v \in MarkedAt(pc') : Covers(v, pages[x].value)'
  <2>1. pages[x].count > 0 <=> \E v \in Regions : Covers(v, pages[x].value)
    BY <1>2, <1>3, <1>4 DEF CountInv
  <2>2. \A v : Covers(v, pages[x].value)' <=> Covers(v, pages[x].value)
    BY <1>1, <1>6, CoversKept
  <2> QED BY <1>2, <1>6, <2>1, <2>2
<1>11. DescInv' /\ CountInv'
  BY <1>7, <1>8, <1>9, <1>10 DEF DescInv, CountInv
<1>12. \A x \in 1 .. l : pages'[x].area = AreaOf(pages'[x].value)
  BY <1>6
<1>13. AreaInv'
  BY <1>7, <1>12 DEF AreaInv, AreaOf
<1> QED BY <1>1, <1>2, <1>3, <1>11, <1>13 DEF MapInv

LEMMA MountingKeeps ==
  ASSUME MapInv, ImageInv', UNCHANGED <<size, next, placed, views, pages>>,
         pc \in Mounting /\ pc' \in Mounting
  PROVE  MapInv'
<1>1. pc \in Described /\ MarkedAt(pc) = Regions /\ MarkedAt(pc') = Regions
  BY DEF Described, Mounting, MarkedAt
<1>2. DescInv /\ CountInv /\ AreaInv /\ Good(views) /\ SortedTo(views, Len(views))
  BY <1>1 DEF MapInv
<1>3. DescInv'
  BY <1>2, DescKept
<1>4. ASSUME NEW x \in 1 .. Len(pages')
      PROVE  pages'[x].count > 0 <=> \E v \in MarkedAt(pc') : Covers(v, pages[x].value)'
  <2>1. pages[x].count > 0 <=> \E v \in Regions : Covers(v, pages[x].value)
    BY <1>1, <1>2 DEF CountInv
  <2>2. \A v : Covers(v, pages[x].value)' <=> Covers(v, pages[x].value)
    BY CoversKept
  <2> QED BY <1>1, <2>1, <2>2
<1>5. CountInv'
  BY <1>4 DEF CountInv
<1>6. AreaInv'
  BY <1>2 DEF AreaInv, AreaOf
<1> QED BY <1>2, <1>3, <1>5, <1>6 DEF MapInv

LEMMA MarkOrMountKeeps ==
  ASSUME MapInv, ImageInv', MarkOrMount
  PROVE  MapInv'
<1>1. CASE Occupy("bios", "stack") \/ Occupy("stack", "image")
           \/ Occupy("image", "kernels") \/ Occupy("kernels", "mark")
  <2>1. /\ MarkedAt("stack") = MarkedAt("bios") \cup {"bios"}
        /\ MarkedAt("image") = MarkedAt("stack") \cup {"stack"}
        /\ MarkedAt("kernels") = MarkedAt("image") \cup {"image"}
        /\ MarkedAt("mark") = MarkedAt("kernels") \cup {"kernels"}
    BY DEF MarkedAt, Regions
  <2>2. Regions = {"bios", "stack", "image", "kernels"}
        /\ {"stack", "image", "kernels", "mark"} \subseteq Marking \ {"bios"}
    BY DEF Regions, Marking
  <2> QED BY <1>1, <2>1, <2>2, RegionMarked
<1>2. CASE \E w \in Regions : OccupyOverruns(w)
  <2>1. views' = views /\ pc' = "undefined"
    BY <1>2 DEF OccupyOverruns, Step
  <2> QED BY <2>1 DEF MapInv, Described, Marking, Mounting
<1>3. CASE MountRuns("hwad", "krnl") \/ MountRuns("krnl", "apps") \/ MountSingles \/ SetMemmgr
  <2>1. UNCHANGED <<size, next, placed, views, pages>> /\ pc \in Mounting /\ pc' \in Mounting
    BY <1>3 DEF MountRuns, MountSingles, SetMemmgr, Step, Mounting
  <2> QED BY <2>1, MountingKeeps
<1> QED BY <1>1, <1>2, <1>3, AreasMarked DEF MarkOrMount, Regions

LEMMA MapStutters == MapInv /\ UNCHANGED vars => MapInv'
<1> SUFFICES ASSUME MapInv, UNCHANGED vars PROVE MapInv'
  OBVIOUS
<1>1. /\ size' = size /\ next' = next /\ placed' = placed /\ views' = views
      /\ pages' = pages /\ pc' = pc
  BY DEF vars
<1>2. ImageInv'
  BY <1>1, PlacedKept DEF MapInv, ImageInv
<1>3. DescInv => DescInv'
  BY <1>1, DescKept
<1>4. ASSUME CountInv PROVE CountInv'
  <2>1. \A x, v : Covers(v, pages[x].value)' <=> Covers(v, pages[x].value)
    BY <1>1, CoversKept
  <2> QED BY <1>1, <1>4, <2>1 DEF CountInv
<1>5. AreaInv => AreaInv'
  BY <1>1 DEF AreaInv, AreaOf
<1> QED BY <1>1, <1>2, <1>3, <1>4, <1>5 DEF MapInv

LEMMA MapStep == MapInv /\ [Next]_vars => MapInv'
<1> SUFFICES ASSUME MapInv, [Next]_vars PROVE MapInv'
  OBVIOUS
<1>1. ImageInv'
  BY ImageStep DEF MapInv
<1>2. CASE UNCHANGED vars
  BY <1>2, MapStutters
<1>3. CASE Next
  BY <1>1, <1>3, NextSteps, ScanKeeps, PagesMade, AreasPlaced, MarkOrMountKeeps
<1> QED BY <1>2, <1>3

-----------------------------------------------------------------------------
(***************************************************************************)
(* The runs of mountable pages.                                            *)
(***************************************************************************)

LEMMA RunIs ==
  ASSUME pages \in Seq(Desc), NEW a, NEW r \in Runs(a)
  PROVE  /\ r = <<r[1], r[2]>> /\ r[1] \in 1 .. Len(pages) /\ r[2] \in 1 .. Len(pages)
         /\ r[1] <= r[2] /\ Len(pages) \in Nat
         /\ \A i \in r[1] .. r[2] : Mountable(a, i)
         /\ \A i \in r[1] .. r[2] - 1 : Joined(i)
         /\ r[1] > 1 => ~ (Mountable(a, r[1] - 1) /\ Joined(r[1] - 1))
         /\ r[2] < Len(pages) => ~ (Mountable(a, r[2] + 1) /\ Joined(r[2]))
<1>1. DOMAIN pages = 1 .. Len(pages) /\ Len(pages) \in Nat
  BY LenProperties
<1> QED BY <1>1 DEF Runs

\* The pages of a run follow one another.
LEMMA RunValues ==
  ASSUME pages \in Seq(Desc), NEW a, NEW r \in Runs(a), NEW x \in r[1] .. r[2]
  PROVE  /\ x \in 1 .. Len(pages) /\ x \in Nat
         /\ pages[x].value = pages[r[1]].value + (x - r[1])
<1>1. PICK b \in 1 .. Len(pages), e \in 1 .. Len(pages) :
        b = r[1] /\ e = r[2] /\ b <= e /\ Len(pages) \in Nat
  BY RunIs
<1>2. \A i \in b .. e - 1 : pages[i + 1].value = pages[i].value + 1
  BY <1>1, RunIs DEF Joined
<1>3. PICK v \in Nat : v = pages[b].value
  BY PageAt
<1> DEFINE T == {c \in Nat : pages[c].value = v + (c - b)}
<1>4. b <= x => b \in T
  BY <1>1, <1>3
<1>5. ASSUME NEW c \in b .. x - 1, c \in T PROVE c + 1 \in T
  <2>1. c \in b .. e - 1 /\ c + 1 \in Nat
    BY <1>1
  <2>2. pages[c + 1].value = v + (c - b) + 1
    BY <1>2, <1>5, <2>1
  <2> QED BY <1>1, <1>3, <2>1, <2>2
<1>6. b \in Nat /\ x \in Nat /\ x \in b .. x /\ x \in 1 .. Len(pages)
  BY <1>1
<1>7. b .. x \subseteq T
  <2> HIDE DEF T
  <2> QED BY <1>4, <1>5, <1>6, Upwards
<1> QED BY <1>1, <1>3, <1>6, <1>7

\* Two runs have no descriptor in common.
LEMMA RunBegins ==
  ASSUME pages \in Seq(Desc), NEW a, NEW r \in Runs(a), NEW s \in Runs(a),
         NEW x \in r[1] .. r[2], x \in s[1] .. s[2]
  PROVE  s[1] <= r[1] /\ r[2] <= s[2]
<1>1. PICK b \in 1 .. Len(pages), e \in 1 .. Len(pages), c \in 1 .. Len(pages), f \in 1 .. Len(pages) :
        b = r[1] /\ e = r[2] /\ c = s[1] /\ f = s[2] /\ b <= e /\ c <= f /\ Len(pages) \in Nat
  BY RunIs
<1>2. /\ \A i \in b .. e : Mountable(a, i)
      /\ \A i \in b .. e - 1 : Joined(i)
      /\ c > 1 => ~ (Mountable(a, c - 1) /\ Joined(c - 1))
      /\ f < Len(pages) => ~ (Mountable(a, f + 1) /\ Joined(f))
  BY <1>1, RunIs
<1>3. ASSUME b < c PROVE FALSE
  <2>1. c > 1 /\ c - 1 \in b .. e /\ c - 1 \in b .. e - 1
    BY <1>1, <1>3
  <2> QED BY <1>2, <2>1
<1>4. ASSUME f < e PROVE FALSE
  <2>1. f < Len(pages) /\ f + 1 \in b .. e /\ f \in b .. e - 1
    BY <1>1, <1>4
  <2> QED BY <1>2, <2>1
<1> QED BY <1>1, <1>3, <1>4

LEMMA RunsMeet ==
  ASSUME pages \in Seq(Desc), NEW a, NEW r \in Runs(a), NEW s \in Runs(a),
         NEW x \in r[1] .. r[2], x \in s[1] .. s[2]
  PROVE  r = s
<1>1. s[1] <= r[1] /\ r[2] <= s[2]
  BY RunBegins
<1>2. x \in s[1] .. s[2] /\ x \in r[1] .. r[2]
  OBVIOUS
<1>3. r[1] <= s[1] /\ s[2] <= r[2]
  BY <1>2, RunBegins
<1>4. r[1] \in Nat /\ r[2] \in Nat /\ s[1] \in Nat /\ s[2] \in Nat
  BY RunIs
<1>5. r[1] = s[1] /\ r[2] = s[2]
  BY <1>1, <1>3, <1>4
<1>6. r = <<r[1], r[2]>> /\ s = <<s[1], s[2]>>
  BY RunIs
<1> QED BY <1>5, <1>6

\* Next (memtable.c:186) leaves no mountable page out.
LEMMA RunHas ==
  ASSUME pages \in Seq(Desc), NEW a, NEW x \in 1 .. Len(pages), Mountable(a, x)
  PROVE  \E r \in Runs(a) : x \in r[1] .. r[2]
<1>1. PICK l \in Nat : l = Len(pages) /\ DOMAIN pages = 1 .. l
  BY LenProperties
<1> DEFINE From(b) == (\A i \in b .. x : Mountable(a, i)) /\ (\A i \in b .. x - 1 : Joined(i))
           To(e) == (\A i \in x .. e : Mountable(a, i)) /\ (\A i \in x .. e - 1 : Joined(i))
           L == {b \in 1 .. x : From(b)}
           G == {d \in 0 .. l - x : To(l - d)}
<1>2. PICK b \in L : \A c \in L : b <= c
  <2>1. x \in L
    <3>1. x \in 1 .. x /\ x .. x = {x} /\ x .. x - 1 = {}
      BY <1>1
    <3> QED BY <3>1
  <2>2. L \in SUBSET Nat
    BY <1>1
  <2> HIDE DEF L
  <2> QED BY <2>1, <2>2, Least, Zenon
<1>3. b > 1 => ~ (Mountable(a, b - 1) /\ Joined(b - 1))
  <2> SUFFICES ASSUME b > 1, Mountable(a, b - 1), Joined(b - 1) PROVE FALSE
    OBVIOUS
  <2>1. b \in 1 .. x /\ From(b)
    BY <1>2
  <2>2. \A i \in b - 1 .. x : i = b - 1 \/ i \in b .. x
    BY <1>1, <2>1
  <2>3. \A i \in b - 1 .. x - 1 : i = b - 1 \/ i \in b .. x - 1
    BY <1>1, <2>1
  <2>4. From(b - 1)
    BY <2>1, <2>2, <2>3
  <2>5. b - 1 \in 1 .. x /\ ~ (b <= b - 1)
    BY <1>1, <2>1
  <2> HIDE DEF From
  <2> QED BY <1>2, <2>4, <2>5
<1>4. PICK d \in G : \A c \in G : d <= c
  <2>1. l - x \in G
    <3>1. l - x \in 0 .. l - x /\ l - (l - x) = x
      BY <1>1
    <3>2. To(x)
      <4>1. x .. x = {x} /\ x .. x - 1 = {}
        BY <1>1
      <4> QED BY <4>1
    <3> HIDE DEF To
    <3> QED BY <3>1, <3>2
  <2>2. G \in SUBSET Nat
    BY <1>1
  <2> HIDE DEF G
  <2> QED BY <2>1, <2>2, Least, Zenon
<1>5. PICK e \in x .. l : e = l - d /\ To(e)
  <2>1. l - d \in x .. l
    BY <1>1, <1>4
  <2> QED BY <1>4, <2>1
<1>6. e < l => ~ (Mountable(a, e + 1) /\ Joined(e))
  <2> SUFFICES ASSUME e < l, Mountable(a, e + 1), Joined(e) PROVE FALSE
    OBVIOUS
  <2>1. \A i \in x .. e + 1 : i = e + 1 \/ i \in x .. e
    BY <1>1
  <2>2. \A i \in x .. (e + 1) - 1 : i = e \/ i \in x .. e - 1
    BY <1>1
  <2>3. To(e + 1)
    BY <1>5, <2>1, <2>2
  <2>4. d - 1 \in 0 .. l - x /\ l - (d - 1) = e + 1 /\ ~ (d <= d - 1)
    BY <1>1, <1>4, <1>5
  <2> HIDE DEF To
  <2>5. d - 1 \in G
    BY <2>3, <2>4
  <2> HIDE DEF G
  <2> QED BY <1>4, <2>4, <2>5
<1>7. /\ b \in 1 .. l /\ e \in 1 .. l /\ b <= e /\ x \in b .. e
      /\ \A i \in b .. e : i \in b .. x \/ i \in x .. e
      /\ \A i \in b .. e - 1 : i \in b .. x - 1 \/ i \in x .. e - 1
  BY <1>1, <1>2
<1>8. (\A i \in b .. e : Mountable(a, i)) /\ (\A i \in b .. e - 1 : Joined(i))
  BY <1>2, <1>5, <1>7
<1> HIDE DEF From, To, L, G
<1>9. <<b, e>>[1] = b /\ <<b, e>>[2] = e
  BY <1>7
<1>10. <<b, e>> \in (DOMAIN pages) \X (DOMAIN pages)
  BY <1>1, <1>7
<1>11. <<b, e>> \in Runs(a)
  BY <1>1, <1>3, <1>6, <1>7, <1>8, <1>9, <1>10 DEF Runs
<1> QED BY <1>7, <1>9, <1>11

-----------------------------------------------------------------------------
(***************************************************************************)
(* mount_table.                                                            *)
(***************************************************************************)

\* What each run gives to a list: numbers of its pages, the higher ones first.
Gives(parts, a) ==
  /\ parts \in [Runs(a) -> Seq(Nat)]
  /\ \A r \in Runs(a) : \A y \in 1 .. Len(parts[r]) :
       pages[r[1]].value <= parts[r][y] /\ parts[r][y] <= pages[r[2]].value
  /\ \A r \in Runs(a) : \A y, z \in 1 .. Len(parts[r]) : y < z => parts[r][z] < parts[r][y]

\* The list after the runs that end with descriptor i: the higher ones first.
Mounts(s, parts, a, i) ==
  /\ s \in Seq(Nat)
  /\ \A j \in 1 .. Len(s) :
       \E r \in Runs(a) : r[2] <= i /\ \E y \in 1 .. Len(parts[r]) : s[j] = parts[r][y]
  /\ \A r \in Runs(a) : r[2] <= i =>
       \A y \in 1 .. Len(parts[r]) : \E j \in 1 .. Len(s) : s[j] = parts[r][y]
  /\ \A j, k \in 1 .. Len(s) : j < k => s[k] < s[j]
  /\ (\A r \in Runs(a) : Len(parts[r]) <= 1) => Len(s) <= i

Ends(parts, i) == {r \in DOMAIN parts : r[2] = i}

More(parts, i, s) ==
  IF Ends(parts, i) = {} THEN s ELSE parts[CHOOSE r \in Ends(parts, i) : TRUE] \o s

LEMMA MoreIs ==
  ASSUME NEW parts, NEW i, NEW s
  PROVE  \/ More(parts, i, s) = s /\ \A r \in DOMAIN parts : r[2] # i
         \/ \E r \in DOMAIN parts : r[2] = i /\ More(parts, i, s) = parts[r] \o s
<1>1. CASE Ends(parts, i) = {}
  BY <1>1 DEF More, Ends
<1>2. CASE Ends(parts, i) # {}
  <2>1. PICK r : r = CHOOSE x \in Ends(parts, i) : TRUE
    OBVIOUS
  <2>2. r \in Ends(parts, i)
    BY <1>2, <2>1, Zenon
  <2>3. r \in DOMAIN parts /\ r[2] = i
    BY <2>2 DEF Ends
  <2>4. More(parts, i, s) = parts[r] \o s
    BY <1>2, <2>1, Zenon DEF More
  <2> QED BY <2>3, <2>4, Zenon
<1> QED BY <1>1, <1>2

LEMMA MoreType ==
  ASSUME NEW S, NEW parts \in [S -> Seq(Nat)], NEW i, NEW s \in Seq(Nat)
  PROVE  More(parts, i, s) \in Seq(Nat)
<1>1. DOMAIN parts = S
  OBVIOUS
<1>2. CASE More(parts, i, s) = s
  BY <1>2
<1>3. ASSUME NEW r \in S, More(parts, i, s) = parts[r] \o s PROVE More(parts, i, s) \in Seq(Nat)
  <2>1. parts[r] \o s \in Seq(Nat)
    BY ConcatProperties
  <2> QED BY <1>3, <2>1
<1>4. More(parts, i, s) = s \/ \E r \in S : More(parts, i, s) = parts[r] \o s
  <2>1. \/ More(parts, i, s) = s /\ \A r \in DOMAIN parts : r[2] # i
        \/ \E r \in DOMAIN parts : r[2] = i /\ More(parts, i, s) = parts[r] \o s
    BY MoreIs, Zenon
  <2> QED BY <1>1, <2>1, Zenon
<1> QED BY <1>2, <1>3, <1>4

\* A run that ends before another one has the lower pages.
LEMMA RunsInOrder ==
  ASSUME pages \in Seq(Desc), Ascending, NEW a, NEW r \in Runs(a), NEW s \in Runs(a), r[2] < s[2]
  PROVE  r[2] < s[1] /\ pages[r[2]].value < pages[s[1]].value
<1>1. PICK b \in 1 .. Len(pages), e \in 1 .. Len(pages), c \in 1 .. Len(pages), f \in 1 .. Len(pages) :
        b = r[1] /\ e = r[2] /\ c = s[1] /\ f = s[2] /\ b <= e /\ c <= f /\ Len(pages) \in Nat
  BY RunIs
<1>2. c <= e => r = s
  <2>1. c <= e => e \in r[1] .. r[2] /\ e \in s[1] .. s[2]
    BY <1>1
  <2> QED BY <2>1, RunsMeet
<1>3. e < c
  BY <1>1, <1>2
<1> QED BY <1>1, <1>3 DEF Ascending

LEMMA MountsMore ==
  ASSUME pages \in Seq(Desc), Ascending, NEW a, NEW parts, Gives(parts, a),
         NEW i \in 1 .. Len(pages), NEW s, Mounts(s, parts, a, i - 1)
  PROVE  Mounts(More(parts, i, s), parts, a, i)
<1>1. parts \in [Runs(a) -> Seq(Nat)] /\ s \in Seq(Nat) /\ i \in Nat
  BY DEF Gives, Mounts
<1>2. \A r \in Runs(a) : r[2] \in Nat
  BY RunIs
<1>3. \A r \in Runs(a) : r[2] <= i <=> r[2] <= i - 1 \/ r[2] = i
  BY <1>1, <1>2
<1>4. CASE More(parts, i, s) = s /\ \A r \in Runs(a) : r[2] # i
  <2>1. \A r \in Runs(a) : r[2] <= i <=> r[2] <= i - 1
    BY <1>3, <1>4
  <2>2. Len(s) \in Nat /\ (Len(s) <= i - 1 => Len(s) <= i)
    BY <1>1, LenProperties
  <2>3. Mounts(s, parts, a, i)
    BY <2>1, <2>2 DEF Mounts
  <2> QED BY <1>4, <2>3
<1>5. ASSUME NEW q \in Runs(a), q[2] = i, More(parts, i, s) = parts[q] \o s
      PROVE  Mounts(More(parts, i, s), parts, a, i)
  <2>1. PICK t \in Seq(Nat), u \in Seq(Nat) : t = parts[q] /\ u = t \o s /\ u = More(parts, i, s)
    <3>1. parts[q] \in Seq(Nat)
      BY <1>1
    <3>2. parts[q] \o s \in Seq(Nat)
      BY <1>1, <3>1, ConcatProperties
    <3> QED BY <1>5, <3>1, <3>2
  <2>2. PICK l \in Nat, n \in Nat : l = Len(t) /\ n = Len(s)
    BY <1>1, LenProperties
  <2>3. /\ u \in Seq(Nat) /\ Len(u) = l + n
        /\ \A x \in 1 .. l + n : u[x] = IF x <= l THEN t[x] ELSE s[x - l]
    <3>1. /\ t \o s \in Seq(Nat) /\ Len(t \o s) = Len(t) + Len(s)
          /\ \A x \in 1 .. Len(t) + Len(s) :
               (t \o s)[x] = IF x <= Len(t) THEN t[x] ELSE s[x - Len(t)]
      BY <1>1, ConcatProperties
    <3> QED BY <2>1, <2>2, <3>1, Zenon
  <2>4. \A x \in 1 .. l : u[x] = t[x] /\ x \in 1 .. l + n
    <3>1. \A x \in 1 .. l : x \in 1 .. l + n /\ x <= l
      OBVIOUS
    <3> QED BY <2>3, <3>1
  <2>5. \A x \in l + 1 .. l + n : u[x] = s[x - l] /\ x - l \in 1 .. n
    BY <2>2, <2>3
  <2>6. \A x \in 1 .. n : u[l + x] = s[x] /\ l + x \in 1 .. l + n
    <3>1. ASSUME NEW x \in 1 .. n PROVE u[l + x] = s[x] /\ l + x \in 1 .. l + n
      <4>1. l + x \in l + 1 .. l + n /\ (l + x) - l = x /\ l + x \in 1 .. l + n
        OBVIOUS
      <4> QED BY <2>5, <4>1
    <3> QED BY <3>1
  <2>7. \A x \in 1 .. l + n : x \in 1 .. l \/ x \in l + 1 .. l + n
    OBVIOUS
  <2>8. \A r \in Runs(a) : r[2] = i => r = q
    <3>1. ASSUME NEW r \in Runs(a), r[2] = i PROVE r = q
      <4>1. i \in r[1] .. r[2] /\ i \in q[1] .. q[2]
        BY <1>1, <1>5, <3>1, RunIs
      <4> QED BY <4>1, RunsMeet
    <3> QED BY <3>1
  <2>9. \A y \in 1 .. n :
          \E r \in Runs(a) : r[2] <= i - 1 /\ \E z \in 1 .. Len(parts[r]) : s[y] = parts[r][z]
    BY <2>2 DEF Mounts
  <2>10. ASSUME NEW j \in 1 .. l + n
         PROVE  \E r \in Runs(a) : r[2] <= i /\ \E y \in 1 .. Len(parts[r]) : u[j] = parts[r][y]
    <3>1. CASE j \in 1 .. l
      <4>1. j \in 1 .. Len(parts[q]) /\ u[j] = parts[q][j]
        BY <2>1, <2>2, <2>4, <3>1
      <4>2. q[2] <= i
        BY <1>1, <1>5
      <4> QED BY <4>1, <4>2
    <3>2. CASE j \in l + 1 .. l + n
      <4>1. PICK r \in Runs(a) : r[2] <= i - 1 /\ \E z \in 1 .. Len(parts[r]) : s[j - l] = parts[r][z]
        BY <2>5, <2>9, <3>2
      <4>2. u[j] = s[j - l]
        BY <2>5, <3>2
      <4>3. r[2] <= i
        BY <1>3, <4>1
      <4> QED BY <4>1, <4>2, <4>3
    <3> QED BY <2>7, <3>1, <3>2
  <2>11. ASSUME NEW r \in Runs(a), r[2] <= i, NEW y \in 1 .. Len(parts[r])
         PROVE  \E j \in 1 .. l + n : u[j] = parts[r][y]
    <3>1. CASE r[2] = i
      <4>1. r = q /\ y \in 1 .. l
        BY <2>1, <2>2, <2>8, <3>1
      <4> QED BY <2>1, <2>4, <4>1
    <3>2. CASE r[2] <= i - 1
      <4>1. PICK x \in 1 .. n : s[x] = parts[r][y]
        BY <2>2, <3>2 DEF Mounts
      <4> QED BY <2>6, <4>1
    <3> QED BY <1>3, <2>11, <3>1, <3>2
  <2>12. ASSUME NEW x \in 1 .. l, NEW y \in 1 .. n PROVE s[y] < t[x] /\ s[y] \in Nat /\ t[x] \in Nat
    <3>1. PICK r \in Runs(a), z \in Int : r[2] <= i - 1 /\ z \in 1 .. Len(parts[r]) /\ s[y] = parts[r][z]
      BY <2>9
    <3>2. r[2] < q[2]
      <4>1. PICK e \in Nat, f \in Nat : e = r[2] /\ f = q[2]
        BY <1>2
      <4>2. e <= i - 1 /\ f = i
        BY <1>5, <3>1, <4>1, Zenon
      <4>3. e < f
        BY <1>1, <4>2
      <4> QED BY <4>1, <4>3, Zenon
    <3>3. pages[r[2]].value < pages[q[1]].value
      BY <3>2, RunsInOrder
    <3>4. parts[r][z] <= pages[r[2]].value
      BY <3>1 DEF Gives
    <3>5. pages[q[1]].value <= parts[q][x]
      BY <2>1, <2>2 DEF Gives
    <3>6. pages[r[2]].value \in Nat /\ pages[q[1]].value \in Nat
      <4>1. r[2] \in 1 .. Len(pages) /\ q[1] \in 1 .. Len(pages)
        BY RunIs
      <4> QED BY <4>1, PageAt
    <3>7. s[y] \in Nat /\ t[x] \in Nat
      BY <1>1, <2>1, <2>2, ElementOfSeq
    <3>8. PICK A \in Nat, B \in Nat, C \in Nat, D \in Nat :
            A = s[y] /\ B = pages[r[2]].value /\ C = pages[q[1]].value /\ D = t[x]
      BY <3>6, <3>7
    <3>9. A <= B /\ B < C /\ C <= D
      BY <2>1, <3>1, <3>3, <3>4, <3>5, <3>8, Zenon
    <3>10. A < D
      BY <3>9
    <3> QED BY <3>7, <3>8, <3>10, Zenon
  <2>13. ASSUME NEW j \in 1 .. l + n, NEW k \in 1 .. l + n, j < k
         PROVE  u[k] < u[j]
    <3>1. CASE k \in 1 .. l
      <4>1. j \in 1 .. l
        BY <2>13, <3>1
      <4>2. t[k] < t[j]
        BY <2>1, <2>2, <2>13, <3>1, <4>1 DEF Gives
      <4> QED BY <2>4, <3>1, <4>1, <4>2
    <3>2. CASE j \in l + 1 .. l + n
      <4>1. k \in l + 1 .. l + n /\ j - l < k - l
        BY <2>13, <3>2
      <4>2. j - l \in 1 .. n /\ k - l \in 1 .. n
        BY <3>2, <4>1
      <4>3. s[k - l] < s[j - l]
        BY <2>2, <4>1, <4>2 DEF Mounts
      <4> QED BY <2>5, <3>2, <4>1, <4>3
    <3>3. CASE j \in 1 .. l /\ k \in l + 1 .. l + n
      <4>1. k - l \in 1 .. n /\ u[k] = s[k - l] /\ u[j] = t[j]
        BY <2>4, <2>5, <3>3
      <4> QED BY <2>12, <3>3, <4>1
    <3> QED BY <2>7, <3>1, <3>2, <3>3
  <2>14. ASSUME \A r \in Runs(a) : Len(parts[r]) <= 1 PROVE l + n <= i
    <3>1. l <= 1 /\ n <= i - 1
      BY <2>1, <2>2, <2>14 DEF Mounts
    <3> QED BY <1>1, <3>1
  <2>15. Mounts(u, parts, a, i)
    BY <2>3, <2>10, <2>11, <2>13, <2>14 DEF Mounts
  <2> QED BY <2>1, <2>15
<1>6. \/ More(parts, i, s) = s /\ \A r \in Runs(a) : r[2] # i
      \/ \E r \in Runs(a) : r[2] = i /\ More(parts, i, s) = parts[r] \o s
  <2>1. DOMAIN parts = Runs(a)
    BY <1>1
  <2>2. \/ More(parts, i, s) = s /\ \A r \in DOMAIN parts : r[2] # i
        \/ \E r \in DOMAIN parts : r[2] = i /\ More(parts, i, s) = parts[r] \o s
    BY MoreIs, Zenon
  <2> QED BY <2>1, <2>2, Zenon
<1> QED BY <1>4, <1>5, <1>6

\* mount_table goes through the runs.
Mounted(W, parts) ==
  /\ W[0] = <<>>
  /\ \A i \in 1 .. Len(pages) : W[i] = More(parts, i, W[i - 1])
  /\ MountTable(parts) = W[Len(pages)]

LEMMA MountSteps ==
  ASSUME pages \in Seq(Desc), NEW a, NEW parts \in [Runs(a) -> Seq(Nat)]
  PROVE  \E W : Mounted(W, parts)
<1>1. PICK N \in Nat : N = Len(pages)
  BY LenProperties
<1> DEFINE S == Seq(Nat)
           M(i, s) == More(parts, i, s)
           F == [n \in Nat |-> [s \in S |-> IF n + 1 <= N THEN M(n + 1, s) ELSE s]]
           D(f) == f = [i \in 0 .. N |-> IF i = 0 THEN <<>> ELSE M(i, f[i - 1])]
<1>2. F \in [Nat -> [S -> S]]
  <2>1. ASSUME NEW n \in Nat, NEW s \in S
        PROVE  (IF n + 1 <= N THEN M(n + 1, s) ELSE s) \in S
    <3>1. M(n + 1, s) \in S
      BY MoreType
    <3> HIDE DEF S, M
    <3> QED BY <3>1
  <2> HIDE DEF S, M
  <2> QED BY <2>1
<1>3. <<>> \in S
  BY EmptySeq
<1>4. PICK g : g \in [0 .. N -> S] /\ g[0] = <<>> /\ \A i \in 1 .. N : g[i] = F[i - 1][g[i - 1]]
  <2> HIDE DEF F, S
  <2>1. PICK g : Solves(g, S, <<>>, N, F)
    BY <1>1, <1>2, <1>3, Recursion, Zenon
  <2> QED BY <2>1 DEF Solves
<1>5. D(g)
  <2>1. ASSUME NEW i \in 0 .. N PROVE g[i] = IF i = 0 THEN <<>> ELSE M(i, g[i - 1])
    <3>1. CASE i # 0
      <4>1. i \in 1 .. N /\ i - 1 \in Nat /\ i - 1 \in 0 .. N /\ (i - 1) + 1 = i
        BY <3>1
      <4>2. g[i - 1] \in S
        BY <1>4, <4>1
      <4> HIDE DEF S, M
      <4>3. F[i - 1][g[i - 1]] = IF (i - 1) + 1 <= N THEN M((i - 1) + 1, g[i - 1]) ELSE g[i - 1]
        BY <4>1, <4>2
      <4> QED BY <1>4, <3>1, <4>1, <4>3
    <3> QED BY <1>4, <3>1
  <2> HIDE DEF S, F, M
  <2> QED BY <1>4, <2>1
<1>6. PICK W : W = CHOOSE f : D(f)
  OBVIOUS
<1>7. D(W)
  <2> HIDE DEF D
  <2> QED BY <1>5, <1>6, Zenon
<1>8. MountTable(parts) = W[N]
  BY <1>1, <1>6, Zenon DEF MountTable, More, Ends
<1>9. W[0] = <<>> /\ \A i \in 1 .. N : W[i] = M(i, W[i - 1])
  <2> HIDE DEF M
  <2> QED BY <1>7
<1> HIDE DEF S, F, D
<1> QED BY <1>1, <1>8, <1>9 DEF Mounted

LEMMA MountFacts ==
  ASSUME pages \in Seq(Desc), Ascending, NEW a, NEW parts, Gives(parts, a)
  PROVE  Mounts(MountTable(parts), parts, a, Len(pages))
<1>1. PICK N \in Nat : N = Len(pages)
  BY LenProperties
<1>2. PICK W : Mounted(W, parts)
  BY MountSteps DEF Gives
<1> DEFINE T == {i \in 0 .. N : Mounts(W[i], parts, a, i)}
<1>3. 0 \in T
  <2>1. W[0] = <<>> /\ <<>> \in Seq(Nat) /\ Len(<<>>) = 0
    BY <1>2, EmptySeq DEF Mounted
  <2>2. \A r \in Runs(a) : ~ (r[2] <= 0)
    <3>1. \A r \in Runs(a) : r[2] \in 1 .. Len(pages)
      BY RunIs
    <3> QED BY <1>1, <3>1
  <2>3. Mounts(<<>>, parts, a, 0)
    BY <2>1, <2>2 DEF Mounts
  <2> QED BY <2>1, <2>3
<1>4. ASSUME NEW i \in 0 .. N - 1, i \in T PROVE i + 1 \in T
  <2>1. i + 1 \in 1 .. Len(pages) /\ (i + 1) - 1 = i /\ i + 1 \in 0 .. N
    BY <1>1
  <2>2. Mounts(W[i], parts, a, i)
    BY <1>4
  <2>3. W[i + 1] = More(parts, i + 1, W[i])
    BY <1>2, <2>1 DEF Mounted
  <2>4. Mounts(More(parts, i + 1, W[i]), parts, a, i + 1)
    BY <2>1, <2>2, MountsMore
  <2> QED BY <2>1, <2>3, <2>4
<1>5. N \in T
  <2> HIDE DEF T
  <2>1. 0 .. N \subseteq T
    BY <1>3, <1>4, Upwards
  <2> QED BY <2>1
<1> QED BY <1>1, <1>2, <1>5 DEF Mounted

-----------------------------------------------------------------------------
(***************************************************************************)
(* split_continuous.                                                       *)
(***************************************************************************)

\* The bits of n from bit k on.
Cut(n, k) == (n \div Size[k]) * Size[k]

LEMMA Quotient ==
  ASSUME NEW n \in Nat, NEW s \in Nat \ {0}
  PROVE  /\ n \div s \in Nat /\ (n \div s) * s \in Nat
         /\ (n \div s) * s <= n /\ n < (n \div s) * s + s
OBVIOUS

LEMMA QuotientUnique ==
  ASSUME NEW n \in Nat, NEW s \in Nat \ {0}, NEW q \in Nat, q * s <= n, n < q * s + s
  PROVE  n \div s = q
<1>1. PICK c \in Nat : c = n \div s /\ c * s <= n /\ n < c * s + s
  BY Quotient
<1>2. ASSUME NEW x \in Nat, NEW y \in Nat, x < y PROVE x * s + s <= y * s
  <2>1. PICK d \in Nat : y = x + d + 1
    <3>1. y - x - 1 \in Nat /\ y = x + (y - x - 1) + 1
      BY <1>2
    <3> QED BY <3>1
  <2>2. y * s = x * s + d * s + s /\ d * s \in Nat /\ x * s \in Nat
    BY <2>1
  <2> QED BY <2>2
<1>3. (c < q => c * s + s <= q * s) /\ (q < c => q * s + s <= c * s)
  BY <1>2
<1>4. PICK C \in Nat, Q \in Nat : C = c * s /\ Q = q * s
  OBVIOUS
<1>5. (c < q => C + s <= Q) /\ (q < c => Q + s <= C) /\ C <= n /\ n < C + s /\ Q <= n /\ n < Q + s
  BY <1>1, <1>3, <1>4, Zenon
<1>6. ~ (c < q) /\ ~ (q < c)
  BY <1>5
<1> QED BY <1>1, <1>6

\* Bit k decides whether the part below bit k + 1 begins with a run of order k.
LEMMA CutFacts ==
  ASSUME NEW n \in Nat, NEW k \in Nat
  PROVE  /\ Cut(n, k) \in Nat /\ Cut(n, k + 1) \in Nat /\ Cut(n, k) <= n
         /\ \/ (n \div Size[k]) % 2 = 0 /\ Cut(n, k) = Cut(n, k + 1)
            \/ (n \div Size[k]) % 2 # 0 /\ Cut(n, k) = Cut(n, k + 1) + Size[k]
<1>1. PICK s \in Nat \ {0}, t \in Nat \ {0} : s = Size[k] /\ t = Size[k + 1] /\ t = 2 * s
  <2>1. k + 1 \in Nat
    OBVIOUS
  <2>2. Size[k] \in Nat \ {0} /\ Size[k + 1] \in Nat \ {0} /\ Size[k + 1] = 2 * Size[k]
    BY <2>1, SizeFacts
  <2> QED BY <2>2
<1>2. PICK q \in Nat : q = n \div t /\ q * t <= n /\ n < q * t + t
  BY Quotient
<1>3. PICK X \in Nat : X = q * t /\ X = (2 * q) * s /\ X + s = (2 * q + 1) * s
  <2>1. q * t \in Nat /\ q * t = (2 * q) * s /\ q * t + s = (2 * q + 1) * s
    BY <1>1
  <2> QED BY <2>1
<1>4. X <= n /\ n < X + t
  BY <1>2, <1>3, Zenon
<1>5. Cut(n, k + 1) = X
  BY <1>1, <1>2, <1>3, Zenon DEF Cut
<1>6. CASE n < X + s
  <2>1. (2 * q) * s <= n /\ n < (2 * q) * s + s
    BY <1>3, <1>4, <1>6, Zenon
  <2>2. 2 * q \in Nat
    OBVIOUS
  <2>3. n \div s = 2 * q
    BY <2>1, <2>2, QuotientUnique
  <2>4. Cut(n, k) = X
    BY <1>1, <1>3, <2>3, Zenon DEF Cut
  <2>5. (2 * q) % 2 = 0
    OBVIOUS
  <2> QED BY <1>1, <1>4, <1>5, <2>3, <2>4, <2>5
<1>7. CASE X + s <= n
  <2>1. X + s <= n /\ n < X + s + s
    BY <1>1, <1>4, <1>7
  <2>2. 2 * q + 1 \in Nat
    OBVIOUS
  <2>3. (2 * q + 1) * s <= n /\ n < (2 * q + 1) * s + s
    BY <1>3, <2>1, Zenon
  <2>4. n \div s = 2 * q + 1
    BY <2>2, <2>3, QuotientUnique
  <2>5. Cut(n, k) = X + s
    BY <1>1, <1>3, <2>4, Zenon DEF Cut
  <2>6. (2 * q + 1) % 2 # 0
    OBVIOUS
  <2>7. X + s \in Nat
    OBVIOUS
  <2> QED BY <1>1, <1>5, <1>7, <2>4, <2>5, <2>6, <2>7
<1> QED BY <1>6, <1>7

LEMMA CutsFall ==
  ASSUME NEW n \in Nat, NEW j \in Nat, NEW k \in Nat, j <= k
  PROVE  Cut(n, k) <= Cut(n, j)
<1> DEFINE T == {c \in Nat : Cut(n, c) <= Cut(n, j)}
<1>1. j \in T
  BY CutFacts
<1>2. ASSUME NEW c \in Nat, c \in T PROVE c + 1 \in T
  <2>1. Cut(n, c) \in Nat /\ Cut(n, c + 1) \in Nat /\ Cut(n, j) \in Nat /\ Size[c] \in Nat
    BY CutFacts, SizeFacts
  <2>2. Cut(n, c) = Cut(n, c + 1) \/ Cut(n, c) = Cut(n, c + 1) + Size[c]
    BY CutFacts
  <2>3. Cut(n, c + 1) <= Cut(n, j)
    BY <1>2, <2>1, <2>2
  <2> QED BY <2>3
<1> HIDE DEF T
<1>3. j .. k \subseteq T
  BY <1>1, <1>2, Upwards
<1>4. k \in T
  BY <1>3
<1> QED BY <1>4 DEF T

LEMMA CutEnds ==
  ASSUME NEW n \in Nat, NEW k \in Nat
  PROVE  Cut(n, 0) = n /\ (n < Size[k] => Cut(n, k) = 0)
<1>1. Cut(n, 0) = n
  <2>1. Size[0] = 1 /\ n \div 1 = n /\ n * 1 = n
    BY SizeFacts
  <2> QED BY <2>1 DEF Cut
<1>2. ASSUME n < Size[k] PROVE Cut(n, k) = 0
  <2>1. PICK s \in Nat \ {0} : s = Size[k]
    BY SizeFacts
  <2>2. 0 * s = 0
    OBVIOUS
  <2>3. n \div s = 0
    BY <1>2, <2>1, <2>2, QuotientUnique
  <2> QED BY <2>1, <2>2, <2>3 DEF Cut
<1> QED BY <1>1, <1>2

\* A run is shorter than what the orders have room for.
LEMMA RunBound ==
  ASSUME DescInv, views \in Seq(View), Good(views), NEW a, NEW r \in Runs(a)
  PROVE  RunLen(r) < Size[MaxOrder + 1]
<1>1. PICK b \in 1 .. Len(pages), e \in 1 .. Len(pages) :
        b = r[1] /\ e = r[2] /\ b <= e /\ Len(pages) \in Nat
  BY RunIs DEF DescInv
<1>2. PICK v \in Nat, w \in Nat : v = pages[b].value /\ w = pages[e].value
  BY PageAt DEF DescInv
<1>3. w = v + (e - b)
  <2>1. e \in r[1] .. r[2]
    BY <1>1
  <2> QED BY <1>1, <1>2, <2>1, RunValues DEF DescInv
<1>4. PICK i \in DOMAIN views :
        views[i].usable /\ (w + 1) * PageSize <= views[i].addr + views[i].size
  <2>1. Usable(w)
    BY <1>2 DEF DescInv
  <2> QED BY <2>1 DEF Usable
<1>5. PICK s \in Nat : s = Size[MaxOrder + 1]
  <2>1. MaxOrder \in Nat /\ MaxOrder + 1 \in Nat
    BY BootAssumption
  <2> QED BY <2>1, SizeFacts
<1>6. PICK t \in Nat : t = views[i].addr + views[i].size
  <2>1. views[i] \in View
    BY ElementOfSeq, LenProperties
  <2> QED BY <2>1 DEF View
<1>7. t < s * PageSize
  BY <1>4, <1>5, <1>6 DEF Good
<1>8. s <= w + 1 => s * PageSize <= (w + 1) * PageSize
  <2>1. w + 1 \in Nat
    OBVIOUS
  <2> QED BY <2>1, TimesGrow
<1>9. PICK S \in Nat, W \in Nat : S = s * PageSize /\ W = (w + 1) * PageSize
  <2>1. w + 1 \in Nat
    OBVIOUS
  <2> QED BY <2>1, TimesType
<1>10. t < S /\ W <= t /\ (s <= w + 1 => S <= W)
  BY <1>4, <1>6, <1>7, <1>8, <1>9, Zenon
<1>11. w + 1 < s
  BY <1>10
<1>12. RunLen(r) = e - b + 1
  BY <1>1 DEF RunLen
<1> QED BY <1>1, <1>3, <1>5, <1>11, <1>12

LEMMA RunShape ==
  ASSUME pages \in Seq(Desc), NEW a, NEW r \in Runs(a)
  PROVE  /\ RunLen(r) \in Nat \ {0} /\ pages[r[1]].value \in Nat
         /\ pages[r[2]].value = pages[r[1]].value + (RunLen(r) - 1)
<1>1. r[1] \in 1 .. Len(pages) /\ r[2] \in 1 .. Len(pages) /\ r[1] <= r[2] /\ Len(pages) \in Nat
  BY RunIs
<1>2. r[2] \in r[1] .. r[2]
  BY <1>1
<1>3. pages[r[2]].value = pages[r[1]].value + (r[2] - r[1])
  BY <1>2, RunValues
<1>4. pages[r[1]].value \in Nat
  BY <1>1, PageAt
<1> QED BY <1>1, <1>3, <1>4 DEF RunLen

\* The run of order k that is made of r, if there is one.
LEMMA PartIs ==
  ASSUME pages \in Seq(Desc), NEW a, NEW r \in Runs(a), NEW k \in Nat
  PROVE  /\ PartOf(r, k) \in Seq(Nat) /\ Len(PartOf(r, k)) <= 1
         /\ \A y \in 1 .. Len(PartOf(r, k)) :
              /\ y = 1 /\ PartOf(r, k)[y] = pages[r[1]].value + Cut(RunLen(r), k + 1)
              /\ Cut(RunLen(r), k) = Cut(RunLen(r), k + 1) + Size[k]
         /\ Cut(RunLen(r), k + 1) < Cut(RunLen(r), k) => 1 \in 1 .. Len(PartOf(r, k))
<1>1. PICK n \in Nat, v \in Nat : n = RunLen(r) /\ v = pages[r[1]].value
  BY RunShape
<1>2. /\ Cut(n, k) \in Nat /\ Cut(n, k + 1) \in Nat /\ Cut(n, k) <= n
      /\ \/ (n \div Size[k]) % 2 = 0 /\ Cut(n, k) = Cut(n, k + 1)
         \/ (n \div Size[k]) % 2 # 0 /\ Cut(n, k) = Cut(n, k + 1) + Size[k]
  BY CutFacts
<1>3. PartOf(r, k) = IF (n \div Size[k]) % 2 = 0 THEN <<>> ELSE <<v + Cut(n, k + 1)>>
  BY <1>1, Zenon DEF PartOf, Cut
<1>4. CASE (n \div Size[k]) % 2 = 0
  <2>1. PartOf(r, k) = <<>> /\ Cut(n, k) = Cut(n, k + 1)
    BY <1>2, <1>3, <1>4
  <2>2. <<>> \in Seq(Nat) /\ Len(<<>>) = 0
    BY EmptySeq
  <2> QED BY <1>1, <1>2, <2>1, <2>2
<1>5. CASE (n \div Size[k]) % 2 # 0
  <2>1. PICK h \in Nat : h = v + Cut(n, k + 1)
    BY <1>2
  <2>2. PartOf(r, k) = <<h>> /\ Cut(n, k) = Cut(n, k + 1) + Size[k]
    BY <1>2, <1>3, <1>5, <2>1
  <2>3. <<h>> \in Seq(Nat) /\ Len(<<h>>) = 1 /\ <<h>>[1] = h
    OBVIOUS
  <2> QED BY <1>1, <2>1, <2>2, <2>3
<1> QED BY <1>4, <1>5

Parts(a, k) == [r \in Runs(a) |-> PartOf(r, k)]

LEMMA SplitGives ==
  ASSUME pages \in Seq(Desc), NEW a, NEW k \in Nat
  PROVE  Gives(Parts(a, k), a) /\ \A r \in Runs(a) : Len(Parts(a, k)[r]) <= 1
<1>1. \A r \in Runs(a) : Parts(a, k)[r] = PartOf(r, k)
  BY DEF Parts
<1>2. Parts(a, k) \in [Runs(a) -> Seq(Nat)]
  BY PartIs DEF Parts
<1>3. ASSUME NEW r \in Runs(a), NEW y \in 1 .. Len(PartOf(r, k))
      PROVE  /\ pages[r[1]].value <= PartOf(r, k)[y] /\ PartOf(r, k)[y] <= pages[r[2]].value
             /\ y = 1
  <2>1. PICK n \in Nat \ {0}, v \in Nat :
          n = RunLen(r) /\ v = pages[r[1]].value /\ pages[r[2]].value = v + (n - 1)
    BY RunShape
  <2>2. PartOf(r, k)[y] = v + Cut(n, k + 1) /\ Cut(n, k) = Cut(n, k + 1) + Size[k] /\ y = 1
    BY <2>1, PartIs
  <2>3. PICK c \in Nat, d \in Nat, s \in Nat \ {0} :
          c = Cut(n, k + 1) /\ d = Cut(n, k) /\ s = Size[k] /\ d <= n
    BY CutFacts, SizeFacts
  <2>4. PartOf(r, k)[y] = v + c /\ d = c + s /\ y = 1
    BY <2>2, <2>3, Zenon
  <2>5. v <= v + c /\ v + c <= v + (n - 1)
    BY <2>3, <2>4
  <2> QED BY <2>1, <2>4, <2>5, Zenon
<1>4. \A r \in Runs(a) : \A y, z \in 1 .. Len(PartOf(r, k)) : ~ (y < z)
  BY <1>3
<1>5. \A r \in Runs(a) : Len(PartOf(r, k)) <= 1
  BY PartIs
<1> QED BY <1>1, <1>2, <1>3, <1>4, <1>5 DEF Gives

LEMMA SplitMounts ==
  ASSUME pages \in Seq(Desc), Ascending, NEW a, NEW k \in Order
  PROVE  Mounts(SplitContinuous(a)[k], Parts(a, k), a, Len(pages))
<1>1. k \in Nat
  BY BootAssumption DEF Order
<1>2. SplitContinuous(a)[k] = MountTable(Parts(a, k))
  BY DEF SplitContinuous, Parts
<1> QED BY <1>1, <1>2, SplitGives, MountFacts

\* Page p is in the part of a run, between two cuts, that is entry i of list k.
Holds(a, k, i, p) ==
  \E r \in Runs(a), x \in Int :
    /\ x \in r[1] .. r[2] /\ pages[x].value = p
    /\ SplitContinuous(a)[k][i] = pages[r[1]].value + Cut(RunLen(r), k + 1)
    /\ Cut(RunLen(r), k + 1) <= x - r[1] /\ x - r[1] < Cut(RunLen(r), k)

LEMMA SplitHolds ==
  ASSUME pages \in Seq(Desc), Ascending, NEW a, NEW k \in Order,
         NEW i \in 1 .. Len(SplitContinuous(a)[k]),
         NEW p, p \in RunPages(SplitContinuous(a)[k][i], k)
  PROVE  Holds(a, k, i, p)
<1>1. k \in Nat
  BY BootAssumption DEF Order
<1>2. PICK h : h = SplitContinuous(a)[k][i]
  OBVIOUS
<1>3. PICK r \in Runs(a), y \in Int : y \in 1 .. Len(PartOf(r, k)) /\ h = PartOf(r, k)[y]
  <2>1. Mounts(SplitContinuous(a)[k], Parts(a, k), a, Len(pages))
    BY SplitMounts
  <2> QED BY <1>2, <2>1 DEF Mounts, Parts
<1>4. PICK n \in Nat \ {0}, v \in Nat :
        n = RunLen(r) /\ v = pages[r[1]].value /\ pages[r[2]].value = v + (n - 1)
  BY RunShape
<1>5. h = v + Cut(n, k + 1) /\ Cut(n, k) = Cut(n, k + 1) + Size[k]
  BY <1>1, <1>3, <1>4, PartIs
<1>6. PICK c \in Nat, d \in Nat, s \in Nat :
        c = Cut(n, k + 1) /\ d = Cut(n, k) /\ s = Size[k] /\ d <= n
  BY <1>1, CutFacts, SizeFacts
<1>7. p \in v + c .. v + c + s - 1 /\ d = c + s
  BY <1>2, <1>5, <1>6 DEF RunPages
<1>8. PICK b \in Nat, e \in Nat : b = r[1] /\ e = r[2] /\ n = e - b + 1
  <2>1. r[1] \in Nat /\ r[2] \in Nat
    BY RunIs
  <2> QED BY <1>4, <2>1 DEF RunLen
<1>9. PICK o \in Nat : p = v + o /\ c <= o /\ o < d
  <2>1. p - v \in Nat /\ p = v + (p - v) /\ c <= p - v /\ p - v < d
    BY <1>7
  <2> QED BY <2>1
<1>10. PICK x \in b .. e : x - b = o /\ v + (x - b) = p
  <2>1. b + o \in b .. e /\ (b + o) - b = o
    <3>1. n = e - b + 1
      BY <1>8
    <3>2. o < n
      BY <1>6, <1>9
    <3>3. o <= e - b
      BY <3>1, <3>2
    <3> QED BY <3>3
  <2> QED BY <1>9, <2>1
<1>11. pages[x].value = v + (x - b)
  BY <1>4, <1>8, <1>10, RunValues
<1>12. c <= x - b /\ x - b < d
  BY <1>9, <1>10
<1>13. /\ pages[x].value = p
       /\ SplitContinuous(a)[k][i] = pages[r[1]].value + Cut(RunLen(r), k + 1)
       /\ Cut(RunLen(r), k + 1) <= x - r[1] /\ x - r[1] < Cut(RunLen(r), k)
  BY <1>2, <1>4, <1>5, <1>6, <1>8, <1>10, <1>11, <1>12
<1>14. x \in Int /\ x \in r[1] .. r[2]
  BY <1>8, <1>10
<1> QED BY <1>3, <1>13, <1>14 DEF Holds

\* split_continuous (memtable.c:83) puts every mountable page on a list.
LEMMA SplitReaches ==
  ASSUME DescInv, views \in Seq(View), Good(views), NEW a,
         NEW x \in 1 .. Len(pages), Mountable(a, x)
  PROVE  \E k \in Order : \E i \in 1 .. Len(SplitContinuous(a)[k]) :
           i \in 1 .. Len(pages) /\ pages[x].value \in RunPages(SplitContinuous(a)[k][i], k)
<1>1. pages \in Seq(Desc) /\ Ascending /\ Len(pages) \in Nat
  BY LenProperties DEF DescInv
<1>2. PICK r \in Runs(a) : x \in r[1] .. r[2]
  BY <1>1, RunHas
<1>3. PICK n \in Nat \ {0}, v \in Nat : n = RunLen(r) /\ v = pages[r[1]].value
  BY <1>1, RunShape
<1>4. PICK b \in Nat, e \in Nat : b = r[1] /\ e = r[2] /\ n = e - b + 1 /\ e <= Len(pages)
  <2>1. r[1] \in 1 .. Len(pages) /\ r[2] \in 1 .. Len(pages)
    BY <1>1, RunIs
  <2> QED BY <1>1, <1>3, <2>1 DEF RunLen
<1>5. PICK d \in Nat : d = x - b /\ d < n
  BY <1>2, <1>4
<1>6. pages[x].value = v + d
  BY <1>1, <1>2, <1>3, <1>4, <1>5, RunValues
<1>7. MaxOrder \in Nat /\ MaxOrder + 1 \in Nat
  BY BootAssumption
<1> DEFINE S == {c \in Nat : Cut(n, c + 1) <= d}
<1>8. MaxOrder \in S
  <2>1. n < Size[MaxOrder + 1]
    BY <1>3, RunBound
  <2>2. Cut(n, MaxOrder + 1) = 0
    BY <1>7, <2>1, CutEnds
  <2> QED BY <1>7, <2>2
<1>9. PICK k \in S : \A c \in S : k <= c
  <2>1. S \in SUBSET Nat
    OBVIOUS
  <2> HIDE DEF S
  <2> QED BY <1>8, <2>1, Least, Zenon
<1>10. k \in Nat /\ k \in Order
  <2>1. k \in Nat /\ k <= MaxOrder
    BY <1>8, <1>9
  <2> QED BY <1>7, <2>1 DEF Order
<1>11. Cut(n, k + 1) <= d
  BY <1>9
<1>12. d < Cut(n, k)
  <2>1. CASE k = 0
    BY <1>5, <2>1, CutEnds
  <2>2. CASE k # 0
    <3>1. k - 1 \in Nat /\ (k - 1) + 1 = k /\ ~ (k <= k - 1)
      BY <1>10, <2>2
    <3>2. k - 1 \notin S
      BY <1>9, <3>1
    <3>3. ~ (Cut(n, k) <= d)
      BY <3>1, <3>2
    <3>4. Cut(n, k) \in Nat
      BY <1>10, CutFacts
    <3> QED BY <3>3, <3>4
  <2> QED BY <2>1, <2>2
<1> HIDE DEF S
<1>13. PICK c \in Nat, f \in Nat, s \in Nat : c = Cut(n, k + 1) /\ f = Cut(n, k) /\ s = Size[k]
  BY <1>10, CutFacts, SizeFacts
<1>14. c <= d /\ d < f
  BY <1>11, <1>12, <1>13
<1>15. 1 \in 1 .. Len(PartOf(r, k)) /\ PartOf(r, k)[1] = v + c /\ f = c + s
  <2>1. Cut(n, k + 1) < Cut(n, k)
    BY <1>13, <1>14
  <2>2. 1 \in 1 .. Len(PartOf(r, k))
    BY <1>1, <1>3, <1>10, <2>1, PartIs
  <2>3. /\ PartOf(r, k)[1] = pages[r[1]].value + Cut(RunLen(r), k + 1)
        /\ Cut(RunLen(r), k) = Cut(RunLen(r), k + 1) + Size[k]
    BY <1>1, <1>10, <2>2, PartIs
  <2> QED BY <1>3, <1>13, <2>2, <2>3
<1>16. Mounts(SplitContinuous(a)[k], Parts(a, k), a, Len(pages))
  BY <1>1, <1>10, SplitMounts
<1>17. \A q \in Runs(a) : Parts(a, k)[q] = PartOf(q, k)
  BY DEF Parts
<1>18. PICK i \in 1 .. Len(SplitContinuous(a)[k]) : SplitContinuous(a)[k][i] = v + c
  <2>1. r[2] <= Len(pages)
    BY <1>4
  <2> QED BY <1>15, <1>16, <1>17, <2>1 DEF Mounts
<1>19. i \in 1 .. Len(pages)
  <2>1. \A q \in Runs(a) : Len(Parts(a, k)[q]) <= 1
    BY <1>1, <1>10, SplitGives
  <2>2. Len(SplitContinuous(a)[k]) <= Len(pages) /\ SplitContinuous(a)[k] \in Seq(Nat)
    BY <1>16, <2>1 DEF Mounts
  <2>3. Len(SplitContinuous(a)[k]) \in Nat
    BY <2>2, LenProperties
  <2> QED BY <1>1, <2>2, <2>3
<1>20. v + d \in v + c .. v + c + s - 1
  BY <1>14, <1>15
<1>21. pages[x].value \in RunPages(SplitContinuous(a)[k][i], k)
  BY <1>6, <1>13, <1>18, <1>20 DEF RunPages
<1> QED BY <1>10, <1>19, <1>21

\* No page is on two lists, nor twice on one.
LEMMA SplitOnce ==
  ASSUME pages \in Seq(Desc), Ascending, NEW a, NEW k \in Order, NEW m \in Order,
         NEW i \in 1 .. Len(SplitContinuous(a)[k]), NEW j \in 1 .. Len(SplitContinuous(a)[m]),
         NEW p, p \in RunPages(SplitContinuous(a)[k][i], k), p \in RunPages(SplitContinuous(a)[m][j], m)
  PROVE  k = m /\ i = j
<1>1. k \in Nat /\ m \in Nat
  BY BootAssumption DEF Order
<1>2. PICK r \in Runs(a), x \in Int :
        /\ x \in r[1] .. r[2] /\ pages[x].value = p
        /\ SplitContinuous(a)[k][i] = pages[r[1]].value + Cut(RunLen(r), k + 1)
        /\ Cut(RunLen(r), k + 1) <= x - r[1] /\ x - r[1] < Cut(RunLen(r), k)
  <2>1. Holds(a, k, i, p)
    BY SplitHolds
  <2> QED BY <2>1, Zenon DEF Holds
<1>3. PICK s \in Runs(a), y \in Int :
        /\ y \in s[1] .. s[2] /\ pages[y].value = p
        /\ SplitContinuous(a)[m][j] = pages[s[1]].value + Cut(RunLen(s), m + 1)
        /\ Cut(RunLen(s), m + 1) <= y - s[1] /\ y - s[1] < Cut(RunLen(s), m)
  <2>1. Holds(a, m, j, p)
    BY SplitHolds
  <2> QED BY <2>1, Zenon DEF Holds
<1>4. x \in 1 .. Len(pages) /\ y \in 1 .. Len(pages) /\ Len(pages) \in Nat
  BY <1>2, <1>3, RunValues, LenProperties
<1>5. x = y
  <2>1. pages[x].value \in Nat
    BY <1>4, PageAt
  <2>2. (x < y => pages[x].value < pages[y].value) /\ (y < x => pages[y].value < pages[x].value)
    BY <1>4 DEF Ascending
  <2>3. pages[x].value = pages[y].value
    BY <1>2, <1>3, Zenon
  <2>4. ~ (x < y) /\ ~ (y < x)
    BY <2>1, <2>2, <2>3
  <2> QED BY <1>4, <2>4
<1>6. r = s
  BY <1>2, <1>3, <1>5, RunsMeet
<1>7. PICK n \in Nat : n = RunLen(r)
  BY RunShape
<1>8. PICK d \in Nat : d = x - r[1]
  <2>1. r[1] \in Nat /\ r[2] \in Nat
    BY RunIs
  <2> QED BY <1>2, <2>1
<1>9. Cut(n, k + 1) <= d /\ d < Cut(n, k) /\ Cut(n, m + 1) <= d /\ d < Cut(n, m)
  BY <1>2, <1>3, <1>5, <1>6, <1>7, <1>8
<1>10. /\ Cut(n, k) \in Nat /\ Cut(n, k + 1) \in Nat
       /\ Cut(n, m) \in Nat /\ Cut(n, m + 1) \in Nat
  BY <1>1, CutFacts
<1>11. ~ (k < m)
  <2>1. k < m => k + 1 \in Nat /\ k + 1 <= m
    BY <1>1
  <2>2. k < m => Cut(n, m) <= Cut(n, k + 1)
    BY <1>1, <2>1, CutsFall
  <2> QED BY <1>9, <1>10, <2>2
<1>12. ~ (m < k)
  <2>1. m < k => m + 1 \in Nat /\ m + 1 <= k
    BY <1>1
  <2>2. m < k => Cut(n, k) <= Cut(n, m + 1)
    BY <1>1, <2>1, CutsFall
  <2> QED BY <1>9, <1>10, <2>2
<1>13. k = m
  BY <1>1, <1>11, <1>12
<1>14. PICK l : l = SplitContinuous(a)[k]
  OBVIOUS
<1>15. l[i] = l[j] /\ i \in 1 .. Len(l) /\ j \in 1 .. Len(l)
  BY <1>2, <1>3, <1>6, <1>13, <1>14
<1>16. Mounts(l, Parts(a, k), a, Len(pages))
  BY <1>14, SplitMounts
<1>17. l \in Seq(Nat) /\ Len(l) \in Nat /\ \A u, w \in 1 .. Len(l) : u < w => l[w] < l[u]
  BY <1>16, LenProperties DEF Mounts
<1>18. l[i] \in Nat
  BY <1>15, <1>17, ElementOfSeq
<1>19. ~ (i < j) /\ ~ (j < i)
  BY <1>15, <1>17, <1>18
<1> QED BY <1>13, <1>15, <1>17, <1>19

-----------------------------------------------------------------------------
(***************************************************************************)
(* split_single.                                                           *)
(***************************************************************************)

Singles(a) == [r \in Runs(a) |-> SinglesOf(r)]

LEMMA SinglesIs ==
  ASSUME pages \in Seq(Desc), NEW a, NEW r \in Runs(a)
  PROVE  /\ SinglesOf(r) \in Seq(Nat) /\ Len(SinglesOf(r)) = RunLen(r)
         /\ \A i \in 1 .. RunLen(r) :
              SinglesOf(r)[i] = pages[r[1]].value + RunLen(r) - i
<1>1. PICK n \in Nat \ {0}, v \in Nat : n = RunLen(r) /\ v = pages[r[1]].value
  BY RunShape
<1>2. SinglesOf(r) = [i \in 1 .. n |-> v + n - i]
  BY <1>1 DEF SinglesOf
<1>3. SinglesOf(r) \in [1 .. n -> Nat]
  BY <1>2
<1>4. SinglesOf(r) \in Seq(Nat) /\ Len(SinglesOf(r)) = n
  BY <1>3, SeqTyped
<1> QED BY <1>1, <1>2, <1>4

LEMMA SingleGives ==
  ASSUME pages \in Seq(Desc), NEW a
  PROVE  Gives(Singles(a), a)
<1>1. \A r \in Runs(a) : Singles(a)[r] = SinglesOf(r)
  BY DEF Singles
<1>2. Singles(a) \in [Runs(a) -> Seq(Nat)]
  BY SinglesIs DEF Singles
<1>3. ASSUME NEW r \in Runs(a)
      PROVE  /\ \A y \in 1 .. Len(SinglesOf(r)) :
                  pages[r[1]].value <= SinglesOf(r)[y] /\ SinglesOf(r)[y] <= pages[r[2]].value
             /\ \A y, z \in 1 .. Len(SinglesOf(r)) : y < z => SinglesOf(r)[z] < SinglesOf(r)[y]
  <2>1. PICK n \in Nat \ {0}, v \in Nat :
          n = RunLen(r) /\ v = pages[r[1]].value /\ pages[r[2]].value = v + (n - 1)
    BY RunShape
  <2>2. Len(SinglesOf(r)) = n /\ \A i \in 1 .. n : SinglesOf(r)[i] = v + n - i
    BY <2>1, SinglesIs
  <2>3. ASSUME NEW y \in 1 .. n
        PROVE  v <= SinglesOf(r)[y] /\ SinglesOf(r)[y] <= v + (n - 1)
    <3>1. SinglesOf(r)[y] = v + n - y
      BY <2>2
    <3>2. y \in Nat /\ 1 <= y /\ y <= n
      OBVIOUS
    <3> QED BY <3>1, <3>2
  <2>4. ASSUME NEW y \in 1 .. n, NEW z \in 1 .. n, y < z
        PROVE  SinglesOf(r)[z] < SinglesOf(r)[y]
    <3>1. SinglesOf(r)[y] = v + n - y /\ SinglesOf(r)[z] = v + n - z
      BY <2>2
    <3> QED BY <2>4, <3>1
  <2> QED BY <2>1, <2>2, <2>3, <2>4
<1> QED BY <1>1, <1>2, <1>3 DEF Gives

LEMMA SingleMounts ==
  ASSUME pages \in Seq(Desc), Ascending, NEW a
  PROVE  Mounts(SplitSingle(a), Singles(a), a, Len(pages))
BY SingleGives, MountFacts DEF SplitSingle, Singles

LEMMA SingleHolds ==
  ASSUME pages \in Seq(Desc), Ascending, NEW a, NEW i \in 1 .. Len(SplitSingle(a))
  PROVE  \E x \in 1 .. Len(pages) : Mountable(a, x) /\ pages[x].value = SplitSingle(a)[i]
<1>1. PICK r \in Runs(a), y \in Int : y \in 1 .. Len(SinglesOf(r)) /\ SplitSingle(a)[i] = SinglesOf(r)[y]
  <2>1. \A r \in Runs(a) : Singles(a)[r] = SinglesOf(r)
    BY DEF Singles
  <2>2. Mounts(SplitSingle(a), Singles(a), a, Len(pages))
    BY SingleMounts
  <2>3. PICK r \in Runs(a) :
          \E y \in 1 .. Len(Singles(a)[r]) : SplitSingle(a)[i] = Singles(a)[r][y]
    BY <2>2 DEF Mounts
  <2> QED BY <2>1, <2>3
<1>2. PICK n \in Nat \ {0}, v \in Nat : n = RunLen(r) /\ v = pages[r[1]].value
  BY RunShape
<1>3. y \in 1 .. n /\ SplitSingle(a)[i] = v + n - y
  BY <1>1, <1>2, SinglesIs
<1>4. PICK b \in Nat, e \in Nat : b = r[1] /\ e = r[2] /\ n = e - b + 1
  <2>1. r[1] \in Nat /\ r[2] \in Nat
    BY RunIs
  <2> QED BY <1>2, <2>1 DEF RunLen
<1>5. PICK x \in b .. e : x - b = n - y
  <2>1. PICK u \in Nat : u = n - y /\ u < n
    BY <1>3
  <2>2. u <= e - b
    BY <1>4, <2>1
  <2>3. b + u \in b .. e /\ (b + u) - b = u
    BY <2>2
  <2> QED BY <2>1, <2>3
<1>6. x \in 1 .. Len(pages) /\ pages[x].value = v + (x - b)
  BY <1>2, <1>4, RunValues
<1>7. Mountable(a, x)
  BY <1>4, RunIs
<1>8. v + (x - b) = v + n - y
  BY <1>3, <1>4, <1>5
<1> QED BY <1>3, <1>6, <1>7, <1>8

\* split_single (memtable.c:124) puts every mountable page on the list.
LEMMA SingleReaches ==
  ASSUME pages \in Seq(Desc), Ascending, NEW a, NEW x \in 1 .. Len(pages), Mountable(a, x)
  PROVE  \E i \in 1 .. Len(SplitSingle(a)) : SplitSingle(a)[i] = pages[x].value
<1>1. PICK r \in Runs(a) : x \in r[1] .. r[2]
  BY RunHas
<1>2. PICK n \in Nat \ {0}, v \in Nat : n = RunLen(r) /\ v = pages[r[1]].value
  BY RunShape
<1>3. PICK b \in Nat, e \in Nat : b = r[1] /\ e = r[2] /\ n = e - b + 1 /\ e <= Len(pages)
  <2>1. r[1] \in Nat /\ r[2] \in 1 .. Len(pages) /\ Len(pages) \in Nat
    BY RunIs
  <2> QED BY <1>2, <2>1 DEF RunLen
<1>4. pages[x].value = v + (x - b)
  BY <1>1, <1>2, <1>3, RunValues
<1>5. PICK y \in 1 .. n : v + n - y = v + (x - b)
  <2>1. PICK u \in Nat : u = x - b /\ u <= e - b
    BY <1>1, <1>3
  <2>2. u < n
    BY <1>3, <2>1
  <2>3. n - u \in 1 .. n /\ v + n - (n - u) = v + u
    BY <2>2
  <2> QED BY <2>1, <2>3
<1>6. y \in 1 .. Len(SinglesOf(r)) /\ SinglesOf(r)[y] = pages[x].value
  BY <1>2, <1>4, <1>5, SinglesIs
<1>7. Singles(a)[r] = SinglesOf(r)
  BY DEF Singles
<1>8. r[2] <= Len(pages)
  BY <1>3
<1> QED BY <1>6, <1>7, <1>8, SingleMounts DEF Mounts

-----------------------------------------------------------------------------
(***************************************************************************)
(* The lists of the areas.                                                 *)
(***************************************************************************)

\* The area has been mounted.
After(a) ==
  IF a = "hwad" THEN {"krnl", "apps", "memmgr", "done"}
  ELSE IF a = "krnl" THEN {"apps", "memmgr", "done"} ELSE {"memmgr", "done"}

\* The lists are those of the descriptors, or empty if the area is not mounted.
ListInv ==
  /\ free = [a \in {"hwad", "krnl"} |->
               IF pc \in After(a) THEN SplitContinuous(a) ELSE [k \in Order |-> <<>>]]
  /\ single = IF pc \in After("apps") THEN SplitSingle("apps") ELSE <<>>
  /\ free_num = [a \in Area |-> IF pc \in After(a) THEN MountedNum(a) ELSE 0]

LEMMA ListsKept ==
  ASSUME pages' = pages
  PROVE  /\ \A a : SplitContinuous(a)' = SplitContinuous(a)
         /\ \A a : SplitSingle(a)' = SplitSingle(a)
         /\ \A a : MountedNum(a)' = MountedNum(a)
<1>1. \A a : Runs(a)' = Runs(a)
  BY DEF Runs, Mountable, Joined
<1>2. \A r, k : PartOf(r, k)' = PartOf(r, k)
  BY DEF PartOf, RunLen
<1>3. \A r : SinglesOf(r)' = SinglesOf(r)
  BY DEF SinglesOf, RunLen
<1>4. \A parts : MountTable(parts)' = MountTable(parts)
  BY DEF MountTable
<1>5. \A a : SplitContinuous(a)' = SplitContinuous(a)
  BY <1>1, <1>2, <1>4 DEF SplitContinuous
<1>6. \A a : SplitSingle(a)' = SplitSingle(a)
  BY <1>1, <1>3, <1>4 DEF SplitSingle
<1>7. \A a : MountedNum(a)' = MountedNum(a)
  BY DEF MountedNum, Mountable
<1> QED BY <1>5, <1>6, <1>7

LEMMA ListInit == Init => ListInv
BY DEF Init, ListInv, After

\* Until the lists are mounted they are empty.
LEMMA EmptyKept ==
  ASSUME ListInv, UNCHANGED <<free, single, free_num>>,
         \A a \in Area : pc \notin After(a) /\ pc' \notin After(a)
  PROVE  ListInv'
<1>1. "hwad" \in Area /\ "krnl" \in Area /\ "apps" \in Area
  BY DEF Area
<1>2. /\ free = [a \in {"hwad", "krnl"} |-> [k \in Order |-> <<>>]]
      /\ single = <<>> /\ free_num = [a \in Area |-> 0]
  BY <1>1 DEF ListInv
<1> QED BY <1>1, <1>2 DEF ListInv

LEMMA ListStep == ListInv /\ [Next]_vars => ListInv'
<1> SUFFICES ASSUME ListInv, [Next]_vars PROVE ListInv'
  OBVIOUS
<1>1. CASE \/ LoadFile("kernel", "font") \/ LoadFile("font", "logo") \/ LoadFile("logo", "remmu")
           \/ RemmuInit \/ MemviewInit \/ MempageInit \/ MemareaInit
           \/ Occupy("bios", "stack") \/ Occupy("stack", "image")
           \/ Occupy("image", "kernels") \/ Occupy("kernels", "mark")
           \/ MarkAreas
  <2>1. UNCHANGED <<free, single, free_num>>
    BY <1>1 DEF LoadFile, RemmuInit, MemviewInit, MempageInit, MemareaInit, Occupy, MarkAreas
  <2>2. \A a \in Area : pc \notin After(a) /\ pc' \notin After(a)
    BY <1>1 DEF LoadFile, RemmuInit, MemviewInit, MempageInit, MemareaInit, Occupy, MarkAreas,
                Step, After
  <2> QED BY <2>1, <2>2, EmptyKept
<1>2. CASE \E w \in Regions : OccupyOverruns(w)
  <2>1. UNCHANGED <<free, single, free_num>>
    BY <1>2 DEF OccupyOverruns
  <2>2. \A a \in Area : pc \notin After(a) /\ pc' \notin After(a)
    BY <1>2 DEF OccupyOverruns, Step, After, Regions
  <2> QED BY <2>1, <2>2, EmptyKept
<1>3. CASE MountRuns("hwad", "krnl")
  <2>1. /\ pc = "hwad" /\ pc' = "krnl" /\ pages' = pages /\ single' = single
        /\ free' = [free EXCEPT !["hwad"] = SplitContinuous("hwad")]
        /\ free_num' = [free_num EXCEPT !["hwad"] = MountedNum("hwad")]
    BY <1>3 DEF MountRuns, Step
  <2>2. /\ free' = [a \in {"hwad", "krnl"} |->
                      IF pc' \in After(a) THEN SplitContinuous(a) ELSE [k \in Order |-> <<>>]]
        /\ single' = <<>>
        /\ free_num' = [a \in Area |-> IF pc' \in After(a) THEN MountedNum(a) ELSE 0]
    BY <2>1 DEF ListInv, After, Area
  <2>3. pc' \notin After("apps")
    BY <2>1 DEF After
  <2> QED BY <2>1, <2>2, <2>3, ListsKept DEF ListInv
<1>4. CASE MountRuns("krnl", "apps")
  <2>1. /\ pc = "krnl" /\ pc' = "apps" /\ pages' = pages /\ single' = single
        /\ free' = [free EXCEPT !["krnl"] = SplitContinuous("krnl")]
        /\ free_num' = [free_num EXCEPT !["krnl"] = MountedNum("krnl")]
    BY <1>4 DEF MountRuns, Step
  <2>2. /\ free' = [a \in {"hwad", "krnl"} |->
                      IF pc' \in After(a) THEN SplitContinuous(a) ELSE [k \in Order |-> <<>>]]
        /\ single' = <<>>
        /\ free_num' = [a \in Area |-> IF pc' \in After(a) THEN MountedNum(a) ELSE 0]
    BY <2>1 DEF ListInv, After, Area
  <2>3. pc' \notin After("apps")
    BY <2>1 DEF After
  <2> QED BY <2>1, <2>2, <2>3, ListsKept DEF ListInv
<1>5. CASE MountSingles
  <2>1. /\ pc = "apps" /\ pc' = "memmgr" /\ pages' = pages /\ free' = free
        /\ single' = SplitSingle("apps")
        /\ free_num' = [free_num EXCEPT !["apps"] = MountedNum("apps")]
    BY <1>5 DEF MountSingles, Step
  <2>2. /\ free' = [a \in {"hwad", "krnl"} |->
                      IF pc' \in After(a) THEN SplitContinuous(a) ELSE [k \in Order |-> <<>>]]
        /\ free_num' = [a \in Area |-> IF pc' \in After(a) THEN MountedNum(a) ELSE 0]
    BY <2>1 DEF ListInv, After, Area
  <2>3. pc' \in After("apps")
    BY <2>1 DEF After
  <2> QED BY <2>1, <2>2, <2>3, ListsKept DEF ListInv
<1>6. CASE SetMemmgr \/ UNCHANGED vars
  <2>1. /\ free' = free /\ single' = single /\ free_num' = free_num /\ pages' = pages
        /\ \A a : pc' \in After(a) <=> pc \in After(a)
    BY <1>6 DEF SetMemmgr, vars, Step, After
  <2> QED BY <2>1, ListsKept DEF ListInv
<1> QED BY <1>1, <1>2, <1>3, <1>4, <1>5, <1>6, NextSteps DEF MarkOrMount, Regions

-----------------------------------------------------------------------------
(***************************************************************************)
(* What the areas hand out.                                                *)
(***************************************************************************)

LEMMA AfterIs ==
  /\ \A a : After(a) \subseteq Mounting
  /\ \A a \in Area : "done" \in After(a)
BY DEF After, Mounting

\* The first page of a run can be mounted, and so can each page of it.
LEMMA HoldsMountable ==
  ASSUME pages \in Seq(Desc), NEW a, NEW k, NEW i, NEW p, Holds(a, k, i, p)
  PROVE  \E x \in 1 .. Len(pages) : Mountable(a, x) /\ pages[x].value = p
<1>1. PICK r \in Runs(a), x \in Int : x \in r[1] .. r[2] /\ pages[x].value = p
  BY Zenon DEF Holds
<1>2. x \in 1 .. Len(pages)
  BY <1>1, RunValues
<1>3. Mountable(a, x)
  BY <1>1, RunIs
<1> QED BY <1>1, <1>2, <1>3

\* The lists of a mounted area have its mountable pages.
LEMMA ListedIs ==
  ASSUME MapInv, ListInv, NEW a \in Area, pc \in After(a)
  PROVE  Handed(a) = {pages[x].value : x \in {y \in 1 .. Len(pages) : Mountable(a, y)}}
<1>1. /\ pages \in Seq(Desc) /\ Ascending /\ DescInv
      /\ views \in Seq(View) /\ Good(views)
  BY AfterIs DEF MapInv, ImageInv, DescInv, Described
<1>2. CASE a = "apps"
  <2>1. single = SplitSingle("apps")
    BY <1>2 DEF ListInv
  <2>2. PICK s \in Seq(Nat) : s = SplitSingle("apps")
    BY <1>1, SingleMounts DEF Mounts
  <2>3. Handed(a) = {s[i] : i \in 1 .. Len(s)}
    BY <1>2, <2>1, <2>2, LenProperties DEF Handed, ToSet
  <2>4. \A i \in 1 .. Len(s) : \E x \in 1 .. Len(pages) : Mountable(a, x) /\ pages[x].value = s[i]
    BY <1>1, <1>2, <2>2, SingleHolds
  <2>5. \A x \in 1 .. Len(pages) : Mountable(a, x) => \E i \in 1 .. Len(s) : s[i] = pages[x].value
    BY <1>1, <1>2, <2>2, SingleReaches
  <2> DEFINE M == {y \in 1 .. Len(pages) : Mountable(a, y)}
  <2>6. ASSUME NEW p, p \in {s[i] : i \in 1 .. Len(s)}
        PROVE  p \in {pages[x].value : x \in M}
    <3>1. PICK i \in 1 .. Len(s) : p = s[i]
      BY <2>6
    <3>2. PICK x \in 1 .. Len(pages) : Mountable(a, x) /\ pages[x].value = s[i]
      BY <2>4
    <3> QED BY <3>1, <3>2
  <2>7. ASSUME NEW x \in M
        PROVE  pages[x].value \in {s[i] : i \in 1 .. Len(s)}
    <3>1. PICK i \in 1 .. Len(s) : s[i] = pages[x].value
      BY <2>5
    <3> QED BY <3>1
  <2> QED BY <2>3, <2>6, <2>7
<1>3. CASE a \in {"hwad", "krnl"}
  <2>1. free[a] = SplitContinuous(a) /\ a # "apps"
    BY <1>3 DEF ListInv
  <2>2. \A k \in Order : SplitContinuous(a)[k] \in Seq(Nat)
    BY <1>1, SplitMounts DEF Mounts
  <2>3. \A k \in Order : DOMAIN SplitContinuous(a)[k] = 1 .. Len(SplitContinuous(a)[k])
    BY <2>2, LenProperties
  <2>4. \A p : p \in Handed(a) <=>
          \E k \in Order : \E i \in 1 .. Len(SplitContinuous(a)[k]) :
            p \in RunPages(SplitContinuous(a)[k][i], k)
    BY <2>1, <2>3 DEF Handed, ToSet
  <2>5. ASSUME NEW p \in Handed(a)
        PROVE  \E x \in 1 .. Len(pages) : Mountable(a, x) /\ pages[x].value = p
    <3>1. PICK k \in Order, i \in Int : i \in 1 .. Len(SplitContinuous(a)[k]) /\
            p \in RunPages(SplitContinuous(a)[k][i], k)
      BY <2>4
    <3>2. Holds(a, k, i, p)
      BY <1>1, <3>1, SplitHolds
    <3> QED BY <1>1, <3>2, HoldsMountable
  <2>6. ASSUME NEW x \in 1 .. Len(pages), Mountable(a, x)
        PROVE  pages[x].value \in Handed(a)
    BY <1>1, <2>4, <2>6, SplitReaches
  <2> QED BY <2>5, <2>6
<1> QED BY <1>2, <1>3 DEF Area

LEMMA UnlistedIs ==
  ASSUME ListInv, NEW a \in Area, pc \notin After(a)
  PROVE  Handed(a) = {}
<1>1. CASE a = "apps"
  BY <1>1 DEF ListInv, Handed, ToSet
<1>2. CASE a \in {"hwad", "krnl"}
  <2>1. free[a] = [k \in Order |-> <<>>]
    BY <1>2 DEF ListInv
  <2>2. \A k \in Order : ToSet(free[a][k]) = {}
    BY <2>1 DEF ToSet
  <2> QED BY <1>2, <2>2 DEF Handed
<1> QED BY <1>1, <1>2 DEF Area

\* What can be mounted is a whole usable page that nothing touches.
LEMMA MountableIs ==
  ASSUME MapInv, pc \in Mounting, NEW a, NEW x \in 1 .. Len(pages)
  PROVE  /\ pages[x].value \in Nat /\ Usable(pages[x].value)
         /\ Mountable(a, x) <=>
              /\ AreaOf(pages[x].value) = a
              /\ \A e \in InUse : e.size > 0 => ~ Touches(pages[x].value, e)
<1>1. DescInv /\ CountInv /\ AreaInv /\ ImageInv /\ Good(views)
  BY DEF MapInv, Described
<1>2. PICK p \in Nat : p = pages[x].value
  BY <1>1, PageAt DEF DescInv
<1>3. Usable(p)
  BY <1>1, <1>2 DEF DescInv
<1>4. pages[x].area = AreaOf(p)
  BY <1>1, <1>2 DEF AreaInv
<1>5. MarkedAt(pc) = Regions
  BY DEF MarkedAt, Mounting
<1>6. pages[x].count > 0 <=> \E w \in Regions : Covers(w, p)
  BY <1>1, <1>2, <1>5 DEF CountInv
<1>7. pages[x].count \in Nat
  BY <1>1, PageAt DEF DescInv
<1>8. pages[x].count = 0 <=> \A w \in Regions : ~ Covers(w, p)
  BY <1>6, <1>7
<1>9. (\A e \in InUse : e.size > 0 => ~ Touches(p, e)) <=> (\A w \in Regions : ~ Covers(w, p))
  BY <1>1, UntouchedIs
<1> QED BY <1>2, <1>3, <1>4, <1>8, <1>9, Zenon DEF Mountable

LEMMA ListedAreFree == MapInv /\ ListInv => FreeIsFree
<1> SUFFICES ASSUME MapInv, ListInv, NEW a \in Area, NEW p \in Handed(a)
             PROVE  /\ Usable(p) /\ AreaOf(p) = a
                    /\ \A e \in InUse : e.size > 0 => ~ Touches(p, e)
  BY DEF FreeIsFree
<1>1. pc \in After(a)
  BY UnlistedIs
<1>2. PICK x \in 1 .. Len(pages) : Mountable(a, x) /\ pages[x].value = p
  BY <1>1, ListedIs
<1>3. pc \in Mounting
  BY <1>1, AfterIs
<1> QED BY <1>2, <1>3, MountableIs

\* No area hands out a page that is not usable, is of another area or holds
\* something of the image, the stack, the kernel or its tables: neither the
\* split of the runs (memtable.c:83) nor the marks (mempage.c:142) let one in.
THEOREM ListsAreFree ==
  ASSUME GoodMaps
  PROVE  Spec => []FreeIsFree
<1>1. Init => MapInv /\ ListInv
  BY MapInit, ListInit
<1>2. MapInv /\ ListInv /\ [Next]_vars => (MapInv /\ ListInv)'
  BY MapStep, ListStep
<1>3. MapInv /\ ListInv => FreeIsFree
  BY ListedAreFree
<1> QED BY <1>1, <1>2, <1>3, PTL DEF Spec

\* Descriptors with the same page are the same.
LEMMA OneDescriptor ==
  ASSUME pages \in Seq(Desc), Ascending, NEW x \in 1 .. Len(pages), NEW y \in 1 .. Len(pages),
         pages[x].value = pages[y].value
  PROVE  x = y
<1>1. pages[x].value \in Nat /\ Len(pages) \in Nat
  BY PageAt, LenProperties
<1>2. (x < y => pages[x].value < pages[y].value) /\ (y < x => pages[y].value < pages[x].value)
  BY DEF Ascending
<1>3. ~ (x < y) /\ ~ (y < x)
  BY <1>1, <1>2
<1> QED BY <1>1, <1>3

\* An area has counted what it hands out.
LEMMA CountedIs ==
  ASSUME MapInv, ListInv, NEW a \in Area, pc \in After(a)
  PROVE  free_num[a] = Cardinality(Handed(a))
<1>1. pages \in Seq(Desc) /\ Ascending
  BY AfterIs DEF MapInv, DescInv, Described
<1> DEFINE M == {y \in 1 .. Len(pages) : Mountable(a, y)}
           V == {pages[x].value : x \in M}
           f == [x \in M |-> pages[x].value]
<1>2. Handed(a) = V
  BY ListedIs
<1>3. DOMAIN pages = 1 .. Len(pages) /\ Len(pages) \in Nat
  BY <1>1, LenProperties
<1>4. free_num[a] = Cardinality(M)
  BY <1>3 DEF ListInv, MountedNum
<1>5. IsFiniteSet(M)
  <2>1. IsFiniteSet(1 .. Len(pages)) /\ M \in SUBSET (1 .. Len(pages))
    BY <1>3, FS_Interval
  <2> QED BY <2>1, FS_Subset
<1>6. f \in [M -> V]
  OBVIOUS
<1>7. \A x, y \in M : f[x] = f[y] => x = y
  BY <1>1, OneDescriptor
<1>8. \A v \in V : \E x \in M : f[x] = v
  OBVIOUS
<1> HIDE DEF f, V, M
<1>9. f \in Bijection(M, V)
  BY <1>6, <1>7, <1>8 DEF Bijection, Injection, Surjection, IsInjective
<1>10. ExistsBijection(M, V)
  BY <1>9 DEF ExistsBijection
<1>11. Cardinality(V) = Cardinality(M)
  BY <1>5, <1>10, FS_Bijection
<1> QED BY <1>2, <1>4, <1>11

\* A mountable page is on one list of its area, once.
LEMMA ListedOnce ==
  ASSUME MapInv, ListInv, NEW a \in Area, pc \in After(a),
         NEW x \in 1 .. Len(pages), Mountable(a, x)
  PROVE  TimesHanded(a, pages[x].value) = 1
<1>1. /\ pages \in Seq(Desc) /\ Ascending /\ DescInv
      /\ views \in Seq(View) /\ Good(views)
  BY AfterIs DEF MapInv, ImageInv, DescInv, Described
<1>2. DOMAIN pages = 1 .. Len(pages)
  BY <1>1, LenProperties
<1>3. PICK p \in Nat : p = pages[x].value
  BY <1>1, PageAt
<1>4. CASE a = "apps"
  <2>1. PICK s \in Seq(Nat) : s = SplitSingle("apps") /\ s = single
    BY <1>1, <1>4, SingleMounts DEF Mounts, ListInv
  <2>2. PICK i \in 1 .. Len(s) : s[i] = p
    BY <1>1, <1>3, <1>4, <2>1, SingleReaches
  <2>3. \A j, k \in 1 .. Len(s) : j < k => s[k] < s[j]
    BY <1>1, <2>1, SingleMounts DEF Mounts
  <2>4. DOMAIN single = 1 .. Len(s) /\ Len(s) \in Nat
    BY <2>1, LenProperties
  <2>5. ASSUME NEW j \in 1 .. Len(s), s[j] = p PROVE j = i
    <3>1. (i < j => s[j] < s[i]) /\ (j < i => s[i] < s[j])
      BY <2>3
    <3>2. ~ (i < j) /\ ~ (j < i)
      BY <2>2, <2>5, <3>1
    <3> QED BY <2>4, <3>2
  <2>6. {j \in DOMAIN single : single[j] = p} = {i}
    BY <2>1, <2>2, <2>4, <2>5
  <2>7. TimesHanded(a, p) = Cardinality({i})
    BY <1>4, <2>6 DEF TimesHanded
  <2> QED BY <1>3, <2>7, FS_Singleton
<1>5. CASE a \in {"hwad", "krnl"}
  <2>1. free[a] = SplitContinuous(a) /\ a # "apps"
    BY <1>5 DEF ListInv
  <2>2. \A k \in Order : DOMAIN SplitContinuous(a)[k] = 1 .. Len(SplitContinuous(a)[k])
    BY <1>1, SplitMounts, LenProperties DEF Mounts
  <2>3. PICK k \in Order, i \in Int : i \in 1 .. Len(SplitContinuous(a)[k]) /\
          i \in 1 .. Len(pages) /\ p \in RunPages(SplitContinuous(a)[k][i], k)
    BY <1>1, <1>3, SplitReaches
  <2> DEFINE T == {o \in Order \X DOMAIN pages :
                     /\ o[2] \in DOMAIN free[a][o[1]]
                     /\ p \in RunPages(free[a][o[1]][o[2]], o[1])}
  <2>4. <<k, i>> \in T
    BY <1>2, <2>1, <2>2, <2>3
  <2>5. ASSUME NEW o \in T PROVE o = <<k, i>>
    <3>1. /\ o[1] \in Order /\ o[2] \in Int /\ o[2] \in 1 .. Len(SplitContinuous(a)[o[1]])
          /\ p \in RunPages(SplitContinuous(a)[o[1]][o[2]], o[1]) /\ o = <<o[1], o[2]>>
      BY <2>1, <2>2
    <3>2. PICK m \in Order, j \in Int : j \in 1 .. Len(SplitContinuous(a)[m]) /\
            /\ p \in RunPages(SplitContinuous(a)[m][j], m)
            /\ o = <<m, j>>
      BY <3>1, Zenon
    <3>3. k = m /\ i = j
      <4>1. p \in RunPages(SplitContinuous(a)[k][i], k) /\ p \in RunPages(SplitContinuous(a)[m][j], m)
        BY <2>3, <3>2
      <4> HIDE DEF T
      <4> QED BY <1>1, <2>3, <3>2, <4>1, SplitOnce, Zenon
    <3> QED BY <3>2, <3>3
  <2>6. T = {<<k, i>>}
    BY <2>4, <2>5
  <2>7. TimesHanded(a, p) = Cardinality(T)
    BY <2>1 DEF TimesHanded
  <2> QED BY <1>3, <2>6, <2>7, FS_Singleton
<1> QED BY <1>4, <1>5 DEF Area

LEMMA ListedAreAll == MapInv /\ ListInv => EachOnce
<1> SUFFICES ASSUME MapInv, ListInv, pc = "done" PROVE EachOnce
  BY DEF EachOnce
<1>1. \A a \in Area : pc \in After(a)
  BY AfterIs
<1>2. pc \in Mounting
  BY DEF Mounting
<1>3. ASSUME NEW v \in ToSet(views), NEW p \in PageOf(v.addr) .. PageOf(v.addr + v.size),
             Usable(p), \A e \in InUse : e.size > 0 => ~ Touches(p, e)
      PROVE  TimesHanded(AreaOf(p), p) = 1
  <2>1. p \in Nat
    <3>1. views \in Seq(View)
      BY DEF MapInv, ImageInv
    <3>2. v \in View
      BY <3>1, LenProperties, ElementOfSeq DEF ToSet
    <3>3. PageOf(v.addr) \in Nat
      BY <3>2, PageFacts DEF View
    <3> QED BY <3>3
  <2>2. PICK x \in 1 .. Len(pages) : pages[x].value = p
    BY <1>2, <1>3, <2>1 DEF MapInv, DescInv, Described
  <2>3. AreaOf(p) \in Area
    BY <2>1, AreaIs
  <2>4. Mountable(AreaOf(p), x)
    BY <1>2, <1>3, <2>2, MountableIs
  <2> QED BY <1>1, <2>2, <2>3, <2>4, ListedOnce
<1>4. \A a \in Area : free_num[a] = Cardinality(Handed(a))
  BY <1>1, CountedIs
<1> QED BY <1>3, <1>4 DEF EachOnce

\* No page is lost by the boot and none is handed out twice: each whole usable
\* page that nothing touches ends on one list of its area, whatever the lengths
\* of the runs that are cut up (memtable.c:83, memtable.c:124), and the areas
\* have counted them (memtable.c:65).
THEOREM ListsAreComplete ==
  ASSUME GoodMaps
  PROVE  Spec => []EachOnce
<1>1. Init => MapInv /\ ListInv
  BY MapInit, ListInit
<1>2. MapInv /\ ListInv /\ [Next]_vars => (MapInv /\ ListInv)'
  BY MapStep, ListStep
<1>3. MapInv /\ ListInv => EachOnce
  BY ListedAreAll
<1> QED BY <1>1, <1>2, <1>3, PTL DEF Spec

=============================================================================
