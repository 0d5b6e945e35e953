------------------------- MODULE PageAllocatorProofs -------------------------
(***************************************************************************)
(* For any area, bound of the orders and sizes that are asked for: no page *)
(* has two owners, and as long as callers give back what they have none is *)
(* lost.                                                                   *)
(*                                                                         *)
(* The argument: the free runs and the runs with a holder are tiles of the *)
(* area, each with its order.  Division makes the tile of a free run one   *)
(* of a holder and halves it, merging joins the tile of a holder with free *)
(* ones beside it and makes it a free one.  Each of these steps keeps the  *)
(* tiles apart; and the area covered, unless a caller gives back less than *)
(* the tile.                                                               *)
(***************************************************************************)
EXTENDS PageAllocator, SequenceTheorems, FiniteSetTheorems, WellFoundedInduction, TLAPS

\* What a run stands for in the area; `of` is {} for a free one and {h} for that
\* of h.
Tile == [order : Order, head : KPage, last : KPage \cup {NotAPage}, of : SUBSET Held]

\* The last page of a run of order k that begins at f, and the pages of a tile.
EndOf(f, k) == (f + Size[k]) - 1
Span(t) == t.head .. EndOf(t.head, t.order)

FreeTile(c, r) == [order |-> c, head |-> r.head, last |-> r.last, of |-> {}]
HeldTile(h) == [order |-> OrderOf(h.size), head |-> h.head, last |-> NotAPage, of |-> {h}]

FreeTiles(L) == UNION {{FreeTile(c, r) : r \in ToSet(L[c])} : c \in Order}
HeldTiles(H) == {HeldTile(h) : h \in {g \in H : g.head \in KPage}}

Inside(t) ==
  /\ t \in Tile /\ Span(t) \subseteq KPage
  /\ t.last \in {NotAPage} \cup Span(t)

Apart(t, u) == t # u => Span(t) \cap Span(u) = {}

Good(T) == /\ \A t \in T : Inside(t)
           /\ \A t, u \in T : Apart(t, u)

Covered(T) == UNION {Span(t) : t \in T}

EndsRight(T) == \A t \in T : t.last \in {NotAPage, EndOf(t.head, t.order)}

Whole(T) == KPage \subseteq Covered(T) /\ EndsRight(T)

\* Lists of free runs, none of them twice.
Lists(L) == L \in [Order -> Seq(Run)] /\ \A c \in Order : IsInjective(L[c])

\* Lists and other tiles lie apart, and cover the area if e.
Laid(L, R, e) ==
  Lists(L) /\ Good(FreeTiles(L) \cup R) /\ (e => Whole(FreeTiles(L) \cup R))

\* flags.count while callers give back what they have.
Counted(N, H) ==
  \A p \in KPage :
    N[p] = IF \E h \in H : h.head \in KPage /\ p \in {h.head, EndOf(h.head, OrderOf(h.size))}
           THEN 1 ELSE 0

Fits(n) == n \in Nat \ {0} /\ n <= Size[MaxOrder]

AppsApart ==
  /\ IsInjective(apps)
  /\ \A h \in held : h.head \in AppPage => h.by = "box" /\ h.head \notin ToSet(apps)

SizesFit == \A h \in held : Fits(h.size) /\ (h.by = "box" => h.size = 1)

PInv ==
  /\ TypeOK /\ AppsApart /\ SizesFit
  /\ Laid(lists, HeldTiles(held), exact)
  /\ exact => Counted(count, held)
-----------------------------------------------------------------------------
(***************************************************************************)
(* Definitions by recursion, and the sizes of runs.                        *)
(***************************************************************************)

\* A set of numbers that is not empty has a least one.
LEMMA Least ==
  ASSUME NEW I \in SUBSET Nat, I # {}
  PROVE  \E x \in I : \A y \in I : x <= y
<1>1. PICK x \in I : \A y \in I : ~ (<<y, x>> \in OpToRel(<, Nat))
  BY WFMin, NatLessThanWellFounded, Zenon
<1>2. ASSUME NEW y \in I PROVE x <= y
  <2>1. ~ (y < x)
    BY <1>1, <1>2 DEF OpToRel
  <2> QED BY <2>1
<1> QED BY <1>2

\* What holds of a and is handed on up to b holds from a to b.
LEMMA Upwards ==
  ASSUME NEW a \in Nat, NEW b \in Nat, NEW T,
         a <= b => a \in T, \A c \in a .. b - 1 : c \in T => c + 1 \in T
  PROVE  a .. b \subseteq T
<1> DEFINE I == {c \in a .. b : c \notin T}
<1> SUFFICES ASSUME I # {} PROVE FALSE
  OBVIOUS
<1>1. PICK x \in I : \A y \in I : x <= y
  <2>1. I \in SUBSET Nat
    OBVIOUS
  <2> HIDE DEF I
  <2> QED BY <2>1, Least, Zenon
<1>2. x \in a .. b /\ x # a
  BY <1>1
<1>3. x - 1 \in a .. b - 1 /\ ~ (x <= x - 1) /\ (x - 1) + 1 = x
  BY <1>2
<1>4. x - 1 \in T
  BY <1>1, <1>3
<1> QED BY <1>1, <1>3, <1>4

\* What holds of b and is handed on down to a holds from a to b.
LEMMA Downwards ==
  ASSUME NEW a \in Nat, NEW b \in Nat, NEW T,
         a <= b => b \in T, \A c \in a .. b - 1 : c + 1 \in T => c \in T
  PROVE  a .. b \subseteq T
<1> DEFINE U == {d \in 0 .. b - a : b - d \in T}
<1> SUFFICES ASSUME a <= b PROVE a .. b \subseteq T
  OBVIOUS
<1>1. 0 \in Nat /\ b - a \in Nat /\ 0 \in U
  OBVIOUS
<1>2. ASSUME NEW d \in 0 .. (b - a) - 1, d \in U PROVE d + 1 \in U
  <2>1. PICK c : c = b - (d + 1)
    OBVIOUS
  <2>2. c \in a .. b - 1 /\ c + 1 = b - d /\ d + 1 \in 0 .. b - a
    BY <2>1
  <2>3. c \in T
    BY <1>2, <2>2
  <2> QED BY <2>1, <2>2, <2>3
<1>3. 0 .. b - a \subseteq U
  <2>1. PICK n : n = b - a
    OBVIOUS
  <2>2. n \in Nat /\ \A c \in 0 .. n - 1 : c \in U => c + 1 \in U
    BY <1>1, <1>2, <2>1
  <2> HIDE DEF U
  <2>3. 0 .. n \subseteq U
    BY <1>1, <2>2, Upwards
  <2> QED BY <2>1, <2>3
<1>4. ASSUME NEW c \in a .. b PROVE c \in T
  <2>1. b - c \in 0 .. b - a /\ b - (b - c) = c
    OBVIOUS
  <2> QED BY <1>3, <2>1
<1> QED BY <1>4

\* Each step of a recursion over numbers may depend on the number.
Iterates(g, S, x, F) ==
  g \in [Nat -> S] /\ g[0] = x /\ \A n \in Nat : g[n + 1] = F[n][g[n]]

LEMMA Iteration ==
  ASSUME NEW S, NEW x \in S, NEW F \in [Nat -> [S -> S]]
  PROVE  \E g : Iterates(g, S, x, F)
<1> DEFINE Part(n) == {g \in [0 .. n -> S] :
                         g[0] = x /\ \A i \in 0 .. n - 1 : g[i + 1] = F[i][g[i]]}
           T == {n \in Nat : Part(n) # {}}
<1>1. 0 \in T
  <2>1. [i \in 0 .. 0 |-> x] \in Part(0)
    OBVIOUS
  <2> QED BY <2>1
<1>2. ASSUME NEW n \in Nat, n \in T PROVE n + 1 \in T
  <2>1. PICK g \in Part(n) : TRUE
    BY <1>2
  <2> DEFINE h == [i \in 0 .. n + 1 |-> IF i = n + 1 THEN F[n][g[n]] ELSE g[i]]
  <2>2. h \in [0 .. n + 1 -> S]
    BY <2>1
  <2>3. ASSUME NEW i \in 0 .. (n + 1) - 1 PROVE h[i + 1] = F[i][h[i]]
    <3>1. CASE i = n
      BY <2>1, <3>1
    <3>2. CASE i # n
      <4>1. i \in 0 .. n - 1 /\ i + 1 \in 0 .. n
        BY <3>2
      <4> QED BY <2>1, <4>1
    <3> QED BY <3>1, <3>2
  <2>4. h[0] = x
    <3>1. 0 \in 0 .. n + 1 /\ 0 # n + 1 /\ g[0] = x
      BY <2>1
    <3> HIDE DEF Part, T
    <3> QED BY <3>1
  <2>5. h \in Part(n + 1)
    <3> HIDE DEF h, T
    <3>1. h[0] = x /\ \A i \in 0 .. (n + 1) - 1 : h[i + 1] = F[i][h[i]]
      BY <2>3, <2>4
    <3> QED BY <2>2, <3>1
  <2> HIDE DEF Part
  <2> QED BY <2>5
<1>3. ASSUME NEW n \in Nat PROVE Part(n) # {}
  <2> HIDE DEF T
  <2>1. 0 .. n \subseteq T
    BY <1>1, <1>2, Upwards
  <2>2. n \in T
    BY <2>1
  <2> QED BY <2>2 DEF T
<1>4. ASSUME NEW n \in Nat, NEW g \in Part(n), NEW h \in Part(n + 1)
      PROVE  g[n] = h[n]
  <2> DEFINE A == {i \in 0 .. n : g[i] = h[i]}
  <2>1. 0 \in A
    BY <1>4
  <2>2. ASSUME NEW i \in 0 .. n - 1, i \in A PROVE i + 1 \in A
    <3>1. i \in 0 .. (n + 1) - 1 /\ i + 1 \in 0 .. n
      OBVIOUS
    <3> QED BY <2>2, <3>1
  <2> HIDE DEF A
  <2>3. 0 .. n \subseteq A
    BY <2>1, <2>2, Upwards
  <2>4. n \in A
    BY <2>3
  <2> QED BY <2>4 DEF A
<1> DEFINE p == [n \in Nat |-> CHOOSE g \in Part(n) : TRUE]
           G == [n \in Nat |-> p[n][n]]
<1>5. \A n \in Nat : p[n] \in Part(n)
  BY <1>3
<1>6. ASSUME NEW n \in Nat PROVE G[n] \in S /\ G[n + 1] = F[n][G[n]]
  <2> HIDE DEF p
  <2>1. p[n] \in Part(n) /\ p[n + 1] \in Part(n + 1)
    BY <1>5
  <2>2. p[n][n] = p[n + 1][n]
    <3> HIDE DEF Part
    <3> QED BY <1>4, <2>1
  <2>3. n \in 0 .. (n + 1) - 1
    OBVIOUS
  <2>4. p[n + 1][n + 1] = F[n][p[n + 1][n]]
    BY <2>1, <2>3
  <2> QED BY <2>1, <2>2, <2>4
<1>7. G[0] = x
  <2> HIDE DEF p
  <2>1. p[0] \in Part(0)
    BY <1>5
  <2> QED BY <2>1
<1>8. G \in [Nat -> S]
  <2> HIDE DEF p
  <2> QED BY <1>6
<1> HIDE DEF G
<1> QED BY <1>6, <1>7, <1>8 DEF Iterates

\* 1UL << order: the size doubles with the order.
LEMMA SizeFacts ==
  /\ Size[0] = 1
  /\ \A k \in Nat : Size[k] \in Nat \ {0} /\ Size[k + 1] = 2 * Size[k]
<1> DEFINE F == [n \in Nat |-> [v \in Nat |-> 2 * v]]
<1>1. F \in [Nat -> [Nat -> Nat]] /\ 1 \in Nat
  OBVIOUS
<1>2. \E h : Iterates(h, Nat, 1, F)
  <2> HIDE DEF F
  <2> QED BY <1>1, Iteration, Zenon
<1>3. PICK g \in [Nat -> Nat] : g[0] = 1 /\ \A n \in Nat : g[n + 1] = 2 * g[n]
  <2>1. PICK h \in [Nat -> Nat] : h[0] = 1 /\ \A n \in Nat : h[n + 1] = F[n][h[n]]
    BY <1>2 DEF Iterates
  <2>2. \A n \in Nat : F[n][h[n]] = 2 * h[n]
    OBVIOUS
  <2> QED BY <2>1, <2>2
<1> DEFINE D(f) == f = [k \in Nat |-> IF k = 0 THEN 1 ELSE 2 * f[k - 1]]
<1>4. ASSUME NEW k \in Nat PROVE g[k] = IF k = 0 THEN 1 ELSE 2 * g[k - 1]
  <2>1. CASE k # 0
    <3>1. k - 1 \in Nat /\ (k - 1) + 1 = k
      BY <2>1
    <3> QED BY <1>3, <2>1, <3>1
  <2> QED BY <1>3, <2>1
<1>5. D(g)
  BY <1>4
<1>6. Size = CHOOSE f : D(f)
  BY DEF Size
<1>7. D(Size)
  <2> HIDE DEF D
  <2> QED BY <1>5, <1>6, Zenon
<1>8. \A k \in Nat : Size[k] = IF k = 0 THEN 1 ELSE 2 * Size[k - 1]
  <2>1. PICK z : z = Size
    OBVIOUS
  <2>2. z = [k \in Nat |-> IF k = 0 THEN 1 ELSE 2 * z[k - 1]]
    BY <1>7, <2>1
  <2>3. \A k \in Nat : z[k] = IF k = 0 THEN 1 ELSE 2 * z[k - 1]
    BY <2>2
  <2> QED BY <2>1, <2>3, Zenon
<1> HIDE DEF F
<1>9. \A k \in Nat : Size[k + 1] = 2 * Size[k]
  <2> SUFFICES ASSUME NEW k \in Nat PROVE Size[k + 1] = 2 * Size[k]
    OBVIOUS
  <2>1. k + 1 \in Nat /\ k + 1 # 0 /\ (k + 1) - 1 = k
    OBVIOUS
  <2> QED BY <1>8, <2>1
<1> DEFINE T == {k \in Nat : Size[k] \in Nat \ {0}}
<1>10. 0 \in T
  BY <1>8
<1>11. ASSUME NEW k \in Nat, k \in T PROVE k + 1 \in T
  BY <1>9, <1>11
<1>12. ASSUME NEW k \in Nat PROVE Size[k] \in Nat \ {0}
  <2> HIDE DEF T
  <2>1. 0 .. k \subseteq T
    BY <1>10, <1>11, Upwards
  <2>2. k \in T
    BY <2>1
  <2> QED BY <2>2 DEF T
<1> QED BY <1>8, <1>9, <1>12

LEMMA Orders ==
  /\ MaxOrder \in Nat /\ Order = 0 .. MaxOrder /\ Pages \in Nat \ {0} /\ Base \in Nat \ {0, 1}
  /\ KPage = Base .. (Base + Pages) - 1 /\ NotAPage = 0 /\ NotAPage \notin KPage
  /\ \A k \in Order : Size[k] \in Nat \ {0} /\ k \in Nat
BY PageAssumption, SizeFacts DEF Order, KPage, NotAPage

LEMMA SizesGrow ==
  ASSUME NEW j \in Nat, NEW k \in Nat, j <= k
  PROVE  Size[j] <= Size[k]
<1> DEFINE T == {c \in Nat : Size[j] <= Size[c]}
<1>1. j \in T
  BY SizeFacts
<1>2. ASSUME NEW c \in Nat, c \in T PROVE c + 1 \in T
  BY <1>2, SizeFacts
<1> HIDE DEF T
<1>3. j .. k \subseteq T
  BY <1>1, <1>2, Upwards
<1>4. k \in T
  BY <1>3
<1> QED BY <1>4 DEF T

\* get_order: the least order whose runs are large enough.
LEMMA OrderFits ==
  ASSUME NEW n, Fits(n)
  PROVE  OrderOf(n) \in Order /\ n <= Size[OrderOf(n)]
<1> DEFINE I == {k \in Order : Size[k] >= n}
           P(k) == k \in Order /\ Size[k] >= n /\ \A j \in 0 .. k - 1 : Size[j] < n
<1>1. I \in SUBSET Nat /\ MaxOrder \in I
  BY Orders DEF Fits
<1>2. PICK k \in I : \A y \in I : k <= y
  <2> HIDE DEF I
  <2> QED BY <1>1, Least
<1>3. P(k)
  <2>1. k \in Order /\ Size[k] >= n /\ k \in Nat
    BY <1>2, Orders
  <2>2. ASSUME NEW j \in 0 .. k - 1 PROVE Size[j] < n
    <3>1. j \in Order /\ ~ (k <= j) /\ Size[j] \in Nat
      BY <2>1, Orders
    <3>2. ~ (Size[j] >= n)
      BY <1>2, <3>1
    <3> QED BY <3>1, <3>2 DEF Fits
  <2> QED BY <2>1, <2>2
<1>4. OrderOf(n) = CHOOSE j : P(j)
  BY DEF OrderOf
<1>5. P(OrderOf(n))
  <2> HIDE DEF P
  <2> QED BY <1>3, <1>4, Zenon
<1> QED BY <1>5, Orders DEF Fits

LEMMA OneFits == Fits(1) /\ OrderOf(1) = 0
<1>1. Fits(1)
  <2>1. MaxOrder \in Nat
    BY Orders
  <2>2. Size[MaxOrder] \in Nat \ {0}
    BY <2>1, SizeFacts
  <2> QED BY <2>2 DEF Fits
<1>2. OrderOf(1) \in Order
  BY <1>1, OrderFits
<1>3. \A j \in 0 .. OrderOf(1) - 1 : Size[j] < 1
  <2> DEFINE P(k) == k \in Order /\ Size[k] >= 1 /\ \A j \in 0 .. k - 1 : Size[j] < 1
  <2>1. P(0)
    BY SizeFacts, Orders
  <2>2. OrderOf(1) = CHOOSE j : P(j)
    BY DEF OrderOf
  <2>3. P(OrderOf(1))
    <3> HIDE DEF P
    <3> QED BY <2>1, <2>2, Zenon
  <2> QED BY <2>3
<1>4. ASSUME OrderOf(1) # 0 PROVE FALSE
  <2>1. 0 \in 0 .. OrderOf(1) - 1
    BY <1>2, <1>4, Orders
  <2> QED BY <1>3, <2>1, SizeFacts
<1> QED BY <1>1, <1>4

\* The sizes that callers ask for have an order.
LEMMA AskedFit ==
  ASSUME NEW n \in PoolSizes \cup KernelSizes
  PROVE  Fits(n)
<1>1. CASE n \in PoolSizes
  BY <1>1, PageAssumption, Orders DEF Fits, Order
<1>2. CASE n \in KernelSizes
  <2>1. PICK k \in Order : n = Size[k]
    BY <1>2, PageAssumption
  <2>2. k \in Nat /\ MaxOrder \in Nat /\ k <= MaxOrder
    BY Orders
  <2> QED BY <2>1, <2>2, SizesGrow, Orders DEF Fits
<1> QED BY <1>1, <1>2

\* split_continuous: what is left when the loop comes to a bit has no higher one.
LEMMA LeftFacts ==
  /\ Left[MaxOrder] = Pages
  /\ \A k \in 0 .. MaxOrder - 1 :
       Left[k] = IF Left[k + 1] >= Size[k + 1] THEN Left[k + 1] - Size[k + 1] ELSE Left[k + 1]
  /\ \A k \in Order : Left[k] \in Nat /\ Left[k] < 2 * Size[k]
<1> DEFINE F == [n \in Nat |-> [v \in Nat |->
                   IF n < MaxOrder /\ v >= Size[MaxOrder - n] THEN v - Size[MaxOrder - n] ELSE v]]
<1>1. F \in [Nat -> [Nat -> Nat]] /\ Pages \in Nat
  <2> SUFFICES ASSUME NEW n \in Nat, NEW v \in Nat PROVE F[n][v] \in Nat
    BY Orders
  <2>1. CASE n < MaxOrder
    <3>1. MaxOrder - n \in Nat
      BY <2>1, Orders
    <3>2. Size[MaxOrder - n] \in Nat
      BY <3>1, SizeFacts
    <3> QED BY <3>2
  <2> QED BY <2>1
<1>2. \E g : Iterates(g, Nat, Pages, F)
  <2> HIDE DEF F
  <2> QED BY <1>1, Iteration, Zenon
<1>3. PICK g : Iterates(g, Nat, Pages, F)
  BY <1>2
<1> DEFINE h == [k \in Order |-> g[MaxOrder - k]]
           D(f) == f = [k \in Order |-> IF k = MaxOrder THEN Pages
                                        ELSE IF f[k + 1] >= Size[k + 1] THEN f[k + 1] - Size[k + 1]
                                        ELSE f[k + 1]]
<1>4. ASSUME NEW k \in Order
      PROVE  h[k] = IF k = MaxOrder THEN Pages
                    ELSE IF h[k + 1] >= Size[k + 1] THEN h[k + 1] - Size[k + 1]
                    ELSE h[k + 1]
  <2>1. CASE k = MaxOrder
    <3>1. MaxOrder - k = 0
      BY <2>1, Orders
    <3>2. h[k] = g[0] /\ g[0] = Pages
      BY <1>3, <3>1 DEF Iterates
    <3> QED BY <2>1, <3>2
  <2>2. CASE k # MaxOrder
    <3>1. PICK m : m = MaxOrder - (k + 1)
      OBVIOUS
    <3>2. /\ m \in Nat /\ m < MaxOrder /\ MaxOrder - m = k + 1 /\ MaxOrder - k = m + 1
          /\ k + 1 \in Order /\ MaxOrder - (k + 1) = m
      BY <2>2, <3>1, Orders
    <3>3. h[k] = g[m + 1] /\ h[k + 1] = g[m]
      BY <3>2
    <3>4. g[m + 1] = F[m][g[m]] /\ g[m] \in Nat
      BY <1>3, <3>2 DEF Iterates
    <3>5. F[m][g[m]] = IF g[m] >= Size[k + 1] THEN g[m] - Size[k + 1] ELSE g[m]
      BY <3>2, <3>4
    <3> QED BY <2>2, <3>3, <3>4, <3>5
  <2> QED BY <2>1, <2>2
<1>5. D(h)
  BY <1>4
<1>6. Left = CHOOSE f : D(f)
  BY DEF Left
<1>7. D(Left)
  <2> HIDE DEF D, h
  <2> QED BY <1>5, <1>6, Zenon
<1>8. ASSUME NEW k \in Order
      PROVE  Left[k] = IF k = MaxOrder THEN Pages
                       ELSE IF Left[k + 1] >= Size[k + 1] THEN Left[k + 1] - Size[k + 1]
                       ELSE Left[k + 1]
  <2>1. PICK z : z = Left
    OBVIOUS
  <2>2. z = [j \in Order |-> IF j = MaxOrder THEN Pages
                             ELSE IF z[j + 1] >= Size[j + 1] THEN z[j + 1] - Size[j + 1]
                             ELSE z[j + 1]]
    BY <1>7, <2>1
  <2>3. z[k] = IF k = MaxOrder THEN Pages
               ELSE IF z[k + 1] >= Size[k + 1] THEN z[k + 1] - Size[k + 1]
               ELSE z[k + 1]
    BY <2>2, Zenon
  <2> QED BY <2>1, <2>3, Zenon
<1>9. Left[MaxOrder] = Pages
  BY <1>8, Orders
<1>10. ASSUME NEW k \in 0 .. MaxOrder - 1
       PROVE  Left[k] = IF Left[k + 1] >= Size[k + 1] THEN Left[k + 1] - Size[k + 1] ELSE Left[k + 1]
  <2>1. k \in Order /\ k # MaxOrder
    BY Orders
  <2> QED BY <1>8, <2>1
<1> DEFINE T == {k \in Order : Left[k] \in Nat /\ Left[k] < 2 * Size[k]}
<1>11. MaxOrder \in T
  BY <1>9, Orders, PageAssumption
<1>12. ASSUME NEW k \in 0 .. MaxOrder - 1, k + 1 \in T PROVE k \in T
  <2>0. k \in Order /\ k \in Nat
    BY Orders
  <2>1. k \in Order /\ k \in Nat /\ Size[k + 1] = 2 * Size[k] /\ Size[k] \in Nat
    BY <2>0, SizeFacts
  <2>2. PICK x, y, s : x = Left[k] /\ y = Left[k + 1] /\ s = Size[k]
    OBVIOUS
  <2>3. s \in Nat /\ y \in Nat /\ y < 2 * (2 * s) /\ x = IF y >= 2 * s THEN y - 2 * s ELSE y
    BY <1>10, <1>12, <2>1, <2>2
  <2>4. x \in Nat /\ x < 2 * s
    BY <2>3
  <2> QED BY <2>1, <2>2, <2>4
<1>13. \A k \in Order : k \in T
  <2> HIDE DEF T
  <2>1. 0 \in Nat /\ MaxOrder \in Nat
    BY Orders
  <2>2. 0 .. MaxOrder \subseteq T
    BY <1>11, <1>12, <2>1, Downwards
  <2> QED BY <2>2, Orders
<1> QED BY <1>9, <1>10, <1>13
-----------------------------------------------------------------------------
(***************************************************************************)
(* Tiles.                                                                  *)
(***************************************************************************)

\* Some tiles give way to others that lie where they lay.
Retiled(T, X, Y) == (T \ X) \cup Y

LEMMA Retile ==
  ASSUME NEW T, NEW X \in SUBSET T, NEW Y,
         Good(T), Good(Y), Covered(Y) \subseteq Covered(X)
  PROVE  /\ Good(Retiled(T, X, Y))
         /\ Whole(T) /\ EndsRight(Y) /\ Covered(X) \subseteq Covered(Y) => Whole(Retiled(T, X, Y))
<1>1. \A t \in Retiled(T, X, Y) : Inside(t)
  BY DEF Good, Retiled
<1>2. ASSUME NEW t \in T \ X, NEW u \in Y
      PROVE  Span(t) \cap Span(u) = {}
  <2> SUFFICES ASSUME NEW p \in Span(t), p \in Span(u) PROVE FALSE
    OBVIOUS
  <2>1. PICK x \in X : p \in Span(x)
    BY DEF Covered
  <2> QED BY <2>1 DEF Good, Apart
<1>3. ASSUME NEW t \in Retiled(T, X, Y), NEW u \in Retiled(T, X, Y) PROVE Apart(t, u)
  <2>1. CASE t \in T \ X /\ u \in T \ X
    BY <2>1 DEF Good
  <2>2. CASE t \in Y /\ u \in Y
    BY <2>2 DEF Good
  <2>3. CASE t \in T \ X /\ u \in Y
    BY <1>2, <2>3 DEF Apart
  <2>4. CASE t \in Y /\ u \in T \ X
    BY <1>2, <2>4 DEF Apart
  <2> QED BY <2>1, <2>2, <2>3, <2>4 DEF Retiled
<1>4. ASSUME Whole(T), EndsRight(Y), Covered(X) \subseteq Covered(Y)
      PROVE  Whole(Retiled(T, X, Y))
  <2>1. EndsRight(Retiled(T, X, Y))
    BY <1>4 DEF Whole, EndsRight, Retiled
  <2>2. Covered(T) \subseteq Covered(Retiled(T, X, Y))
    BY <1>4 DEF Covered, Retiled
  <2> QED BY <1>4, <2>1, <2>2 DEF Whole
<1> QED BY <1>1, <1>3, <1>4 DEF Good

\* A tile given another name, or an end that it may have.
LEMMA Retag ==
  ASSUME NEW T, Good(T), NEW t \in T, NEW u \in Tile,
         u.order = t.order, u.head = t.head, u.last \in {NotAPage} \cup Span(t)
  PROVE  /\ Good(Retiled(T, {t}, {u}))
         /\ Whole(T) /\ u.last \in {NotAPage, EndOf(u.head, u.order)} => Whole(Retiled(T, {t}, {u}))
<1>1. Span(u) = Span(t)
  BY DEF Span
<1>2. Good({u})
  BY <1>1 DEF Good, Inside, Apart
<1>3. Covered({u}) = Covered({t})
  BY <1>1 DEF Covered
<1>4. u.last \in {NotAPage, EndOf(u.head, u.order)} => EndsRight({u})
  BY DEF EndsRight
<1> QED BY <1>2, <1>3, <1>4, Retile

\* A tile of order c + 1 is two of order c.
LEMMA HalfTiles ==
  ASSUME NEW c \in Order, c + 1 \in Order, NEW t, NEW a, NEW b,
         t.order = c + 1, a.order = c, b.order = c,
         t.head \in KPage, a.head = t.head, b.head = t.head + Size[c]
  PROVE  /\ Span(a) \cup Span(b) = Span(t) /\ Span(a) \cap Span(b) = {}
         /\ EndOf(b.head, c) = EndOf(t.head, c + 1)
         /\ a.head \in Span(a) /\ b.head \in Span(b)
<1>1. PICK s, f : s = Size[c] /\ f = t.head
  OBVIOUS
<1>2. s \in Nat \ {0} /\ f \in Nat
  BY <1>1, Orders
<1>3. Size[c + 1] = 2 * s
  BY <1>1, Orders, SizeFacts
<1>4. Span(t) = f .. (f + 2 * s) - 1 /\ Span(a) = f .. (f + s) - 1
  BY <1>1, <1>3 DEF Span, EndOf
<1>5. Span(b) = f + s .. ((f + s) + s) - 1
  BY <1>1 DEF Span, EndOf
<1>6. EndOf(b.head, c) = ((f + s) + s) - 1 /\ EndOf(t.head, c + 1) = (f + 2 * s) - 1
  BY <1>1, <1>3 DEF EndOf
<1>7. a.head = f /\ b.head = f + s
  BY <1>1
<1> QED BY <1>2, <1>4, <1>5, <1>6, <1>7

LEMMA Halving ==
  ASSUME NEW T, Good(T), NEW t \in T, NEW c \in Order, t.order = c + 1,
         NEW a \in Tile, NEW b \in Tile,
         a.order = c, b.order = c, a.head = t.head, b.head = t.head + Size[c],
         a.last = NotAPage, b.last = EndOf(b.head, c)
  PROVE  /\ Good(Retiled(T, {t}, {a, b}))
         /\ Whole(T) => Whole(Retiled(T, {t}, {a, b}))
<1>1. t \in Tile /\ c + 1 \in Order /\ t.head \in KPage
  BY DEF Good, Inside, Tile
<1>2. /\ Span(a) \cup Span(b) = Span(t) /\ Span(a) \cap Span(b) = {}
      /\ b.head \in Span(b) /\ EndOf(b.head, c) \in Span(b)
  <2>1. /\ Span(a) \cup Span(b) = Span(t) /\ Span(a) \cap Span(b) = {}
        /\ b.head \in Span(b)
    BY <1>1, HalfTiles
  <2>2. Span(b) = b.head .. EndOf(b.head, c)
    BY DEF Span
  <2>3. EndOf(b.head, c) \in Int /\ b.head \in Int
    BY Orders DEF EndOf, Tile
  <2> QED BY <2>1, <2>2, <2>3
<1>3. Good({a, b})
  BY <1>2 DEF Good, Inside, Apart
<1>4. Covered({a, b}) = Covered({t})
  BY <1>2 DEF Covered
<1>5. EndsRight({a, b})
  BY DEF EndsRight
<1> QED BY <1>3, <1>4, <1>5, Retile

\* get_continue_subpages: a run that begins behind the end of another one, as
\* far as the pointer says, begins behind its last page.
Touches(t, u) == t.last + 1 = u.head

LEMMA TouchIsNext ==
  ASSUME NEW t, NEW u, Inside(t), Inside(u), Apart(t, u), t # u, Touches(t, u)
  PROVE  u.head = t.head + Size[t.order] /\ t.last = EndOf(t.head, t.order)
<1>1. t \in Tile /\ u \in Tile
  BY DEF Inside
<1>2. PICK f, g, l, s, w : f = t.head /\ g = u.head /\ l = t.last /\ s = Size[t.order] /\ w = Size[u.order]
  OBVIOUS
<1>3. /\ f \in Nat /\ g \in Nat /\ g >= 2 /\ s \in Nat \ {0} /\ w \in Nat \ {0}
      /\ Span(t) = f .. (f + s) - 1 /\ Span(u) = g .. (g + w) - 1
  <2>1. t.order \in Order /\ u.order \in Order /\ t.head \in KPage /\ u.head \in KPage
    BY <1>1 DEF Tile
  <2>2. s \in Nat \ {0} /\ w \in Nat \ {0}
    BY <1>2, <2>1, Orders
  <2>3. f \in Nat /\ g \in Nat /\ g >= 2
    BY <1>2, <2>1, Orders
  <2> QED BY <1>2, <2>2, <2>3 DEF Span, EndOf
<1>4. l + 1 = g /\ l \in {0} \cup f .. (f + s) - 1
  BY <1>2, <1>3, Orders DEF Touches, Inside
<1>5. l \in f .. (f + s) - 1
  BY <1>3, <1>4
<1>6. l = (f + s) - 1
  <2> SUFFICES ASSUME l # (f + s) - 1 PROVE FALSE
    OBVIOUS
  <2>1. g \in f .. (f + s) - 1 /\ g \in g .. (g + w) - 1
    BY <1>3, <1>4, <1>5
  <2> QED BY <1>3, <2>1 DEF Apart
<1>7. g = f + s
  BY <1>3, <1>4, <1>6
<1> QED BY <1>2, <1>6, <1>7 DEF EndOf

\* Two tiles of order c, the one behind the other, are one of order c + 1.
LEMMA Joining ==
  ASSUME NEW T, Good(T), NEW a \in T, NEW b \in T, NEW c \in Order, c + 1 \in Order, a # b,
         a.order = c, b.order = c, Touches(a, b),
         NEW t \in Tile, t.order = c + 1, t.head = a.head, t.last = b.last
  PROVE  /\ Good(Retiled(T, {a, b}, {t}))
         /\ Whole(T) => Whole(Retiled(T, {a, b}, {t}))
<1>1. Inside(a) /\ Inside(b) /\ Apart(a, b) /\ a \in Tile /\ b \in Tile /\ t.head \in KPage
  BY DEF Good, Inside, Tile
<1>2. b.head = a.head + Size[c]
  BY <1>1, TouchIsNext
<1>3. /\ Span(a) \cup Span(b) = Span(t)
      /\ EndOf(b.head, c) = EndOf(t.head, c + 1)
  BY <1>1, <1>2, HalfTiles
<1>4. Good({t})
  BY <1>1, <1>3 DEF Good, Inside, Apart
<1>5. Covered({a, b}) = Covered({t})
  BY <1>3 DEF Covered
<1>6. Whole(T) => EndsRight({t})
  BY <1>3 DEF Whole, EndsRight
<1> QED BY <1>4, <1>5, <1>6, Retile

\* A tile that is dropped.
LEMMA Dropping ==
  ASSUME NEW T, Good(T), NEW X \in SUBSET T
  PROVE  Good(T \ X)
BY DEF Good
-----------------------------------------------------------------------------
(***************************************************************************)
(* Lists.                                                                  *)
(***************************************************************************)

\* Taking the head of a list without repetitions.
LEMMA TailProps ==
  ASSUME NEW S, NEW s \in Seq(S), s # <<>>, IsInjective(s)
  PROVE  /\ Tail(s) \in Seq(S)
         /\ Len(Tail(s)) = Len(s) - 1
         /\ Head(s) \in S
         /\ IsInjective(Tail(s))
         /\ Head(s) \in ToSet(s)
         /\ ToSet(Tail(s)) = ToSet(s) \ {Head(s)}
<1> DEFINE r == Tail(s)
<1>1. /\ Len(s) \in Nat /\ Len(s) >= 1 /\ DOMAIN s = 1 .. Len(s)
      /\ Head(s) = s[1]
      /\ \A i \in 1 .. Len(s) : s[i] \in S
  BY LenProperties, ElementOfSeq, EmptySeq
<1>2. /\ r \in Seq(S) /\ Len(r) = Len(s) - 1 /\ DOMAIN r = 1 .. Len(s) - 1
      /\ \A i \in 1 .. Len(s) - 1 : r[i] = s[i + 1]
  BY HeadTailProperties, LenProperties
<1> HIDE DEF r
<1>3. IsInjective(r)
  <2> SUFFICES ASSUME NEW i \in 1 .. Len(s) - 1, NEW j \in 1 .. Len(s) - 1, r[i] = r[j]
               PROVE  i = j
    BY <1>2 DEF IsInjective
  <2>1. i + 1 \in 1 .. Len(s) /\ j + 1 \in 1 .. Len(s) /\ s[i + 1] = s[j + 1]
    BY <1>1, <1>2
  <2>2. i + 1 = j + 1
    BY <1>1, <2>1 DEF IsInjective
  <2> QED BY <2>2
<1>4. ASSUME NEW x \in ToSet(r)
      PROVE  x \in ToSet(s) \ {s[1]}
  <2>1. PICK j \in 1 .. Len(s) - 1 : x = s[j + 1]
    BY <1>2, <1>4 DEF ToSet
  <2> QED BY <1>1, <2>1 DEF ToSet, IsInjective
<1>5. ASSUME NEW x \in ToSet(s) \ {s[1]}
      PROVE  x \in ToSet(r)
  <2>1. PICK j \in 1 .. Len(s) : x = s[j] /\ j # 1
    BY <1>1 DEF ToSet
  <2>2. j - 1 \in 1 .. Len(s) - 1 /\ (j - 1) + 1 = j
    BY <1>1, <2>1
  <2>3. r[j - 1] = x
    BY <1>2, <2>1, <2>2
  <2> QED BY <1>2, <2>2, <2>3 DEF ToSet
<1> QED BY <1>1, <1>2, <1>3, <1>4, <1>5 DEF r, ToSet

\* list_add: an element in front of a list.
Prepended(S, s, x, r) ==
  /\ r \in Seq(S) /\ Len(r) = Len(s) + 1 /\ ToSet(r) = ToSet(s) \cup {x}
  /\ x \notin ToSet(s) /\ IsInjective(s) => IsInjective(r)

LEMMA PrependProps ==
  ASSUME NEW S, NEW s \in Seq(S), NEW x \in S, NEW r, r = <<x>> \o s
  PROVE  Prepended(S, s, x, r)
<1> DEFINE h == <<x>>
<1>1. h \in Seq(S) /\ Len(h) = 1 /\ h[1] = x
  OBVIOUS
<1>2. Len(s) \in Nat /\ DOMAIN s = 1 .. Len(s)
  BY LenProperties
<1>3. r = h \o s
  OBVIOUS
<1> HIDE DEF h
<1>4. /\ r \in Seq(S) /\ Len(r) = Len(s) + 1
      /\ r[1] = x /\ \A i \in 1 .. Len(s) : r[i + 1] = s[i]
  <2>1. /\ h \o s \in Seq(S) /\ Len(h \o s) = Len(h) + Len(s)
        /\ \A i \in 1 .. Len(h) + Len(s) :
             (h \o s)[i] = IF i <= Len(h) THEN h[i] ELSE s[i - Len(h)]
    BY <1>1, ConcatProperties
  <2>2. r[1] = x
    BY <1>1, <1>2, <1>3, <2>1
  <2>3. ASSUME NEW i \in 1 .. Len(s) PROVE r[i + 1] = s[i]
    <3>1. i + 1 \in 1 .. Len(h) + Len(s) /\ ~ (i + 1 <= Len(h)) /\ (i + 1) - Len(h) = i
      BY <1>1, <1>2
    <3> QED BY <1>3, <2>1, <3>1
  <2> QED BY <1>1, <1>2, <1>3, <2>1, <2>2, <2>3
<1>5. PICK z : z = Len(s)
  OBVIOUS
<1>6. /\ z \in Nat /\ DOMAIN s = 1 .. z /\ DOMAIN r = 1 .. z + 1
      /\ r[1] = x /\ \A i \in 1 .. z : r[i + 1] = s[i]
  BY <1>2, <1>4, <1>5, LenProperties
<1>7. \A i \in 1 .. z + 1 : i # 1 => i - 1 \in 1 .. z /\ r[i] = s[i - 1]
  <2> SUFFICES ASSUME NEW i \in 1 .. z + 1, i # 1
               PROVE  i - 1 \in 1 .. z /\ r[i] = s[i - 1]
    OBVIOUS
  <2>1. PICK j : j = i - 1
    OBVIOUS
  <2>2. j \in 1 .. z /\ i = j + 1
    BY <1>6, <2>1
  <2> QED BY <1>6, <2>1, <2>2
<1>8. ToSet(r) = ToSet(s) \cup {x}
  <2>1. ASSUME NEW y \in ToSet(r) PROVE y \in ToSet(s) \cup {x}
    <3>1. PICK i \in 1 .. z + 1 : y = r[i]
      BY <1>6 DEF ToSet
    <3> QED BY <1>6, <1>7, <3>1 DEF ToSet
  <2>2. ASSUME NEW y \in ToSet(s) PROVE y \in ToSet(r)
    <3>1. PICK i \in 1 .. z : y = s[i]
      BY <1>6 DEF ToSet
    <3>2. i + 1 \in DOMAIN r /\ r[i + 1] = y
      BY <1>6, <3>1
    <3> QED BY <3>2 DEF ToSet
  <2>3. x \in ToSet(r)
    <3>1. 1 \in DOMAIN r
      BY <1>6
    <3> QED BY <1>6, <3>1 DEF ToSet
  <2> QED BY <2>1, <2>2, <2>3
<1>9. ASSUME x \notin ToSet(s), IsInjective(s) PROVE IsInjective(r)
  <2> SUFFICES ASSUME NEW i \in 1 .. z + 1, NEW j \in 1 .. z + 1, r[i] = r[j] PROVE i = j
    BY <1>6 DEF IsInjective
  <2>1. \A k \in 1 .. z : s[k] # x
    BY <1>6, <1>9 DEF ToSet
  <2>2. CASE i = 1 \/ j = 1
    BY <1>6, <1>7, <2>1, <2>2
  <2>3. CASE i # 1 /\ j # 1
    <3>1. i - 1 \in 1 .. z /\ j - 1 \in 1 .. z /\ s[i - 1] = s[j - 1]
      BY <1>7, <2>3
    <3>2. i - 1 = j - 1
      BY <1>6, <1>9, <3>1 DEF IsInjective
    <3> QED BY <3>2
  <2> QED BY <2>2, <2>3
<1> QED BY <1>4, <1>8, <1>9 DEF Prepended

LEMMA MinIn ==
  ASSUME NEW I \in SUBSET Nat, I # {}
  PROVE  Min(I) \in I /\ \A y \in I : Min(I) <= y
  <1>1. PICK x \in I : \A y \in I : ~ (<<y, x>> \in OpToRel(<, Nat))
    BY WFMin, NatLessThanWellFounded, Zenon
  <1>2. ASSUME NEW y \in I PROVE x <= y
    <2>1. ~ (y < x)
      BY <1>1, <1>2 DEF OpToRel
    <2> QED BY <2>1
  <1> QED BY <1>2 DEF Min

\* The list t is s without s[k].
Removed(S, t, s, k) ==
  /\ t \in Seq(S) /\ Len(t) = Len(s) - 1
  /\ \A i \in 1 .. Len(s) - 1 : t[i] = IF i < k THEN s[i] ELSE s[i + 1]

LEMMA RemoveAtProps ==
  ASSUME NEW S, NEW s \in Seq(S), NEW k \in DOMAIN s, NEW t, t = RemoveAt(s, k)
  PROVE  Removed(S, t, s, k)
  <1> DEFINE l == SubSeq(s, 1, k - 1)
             r == SubSeq(s, k + 1, Len(s))
  <1>1. k \in 1 .. Len(s) /\ Len(s) \in Nat /\ \A i \in 1 .. Len(s) : s[i] \in S
    BY LenProperties, ElementOfSeq
  <1>2. l \in Seq(S) /\ Len(l) = k - 1 /\ \A i \in 1 .. k - 1 : l[i] = s[i]
    BY <1>1, SubSeqProperties
  <1>3. r \in Seq(S) /\ Len(r) = Len(s) - k /\ \A i \in 1 .. Len(s) - k : r[i] = s[k + i]
    BY <1>1, SubSeqProperties
  <1>4. t = l \o r
    BY DEF RemoveAt
  <1> HIDE DEF l, r
  <1>5. /\ l \o r \in Seq(S)
        /\ Len(l \o r) = Len(l) + Len(r)
        /\ \A i \in 1 .. Len(l) + Len(r) :
             (l \o r)[i] = IF i <= Len(l) THEN l[i] ELSE r[i - Len(l)]
    BY <1>2, <1>3, ConcatProperties
  <1>6. ASSUME NEW i \in 1 .. Len(s) - 1
        PROVE  (l \o r)[i] = IF i < k THEN s[i] ELSE s[i + 1]
    <2>1. PICK z : z = Len(s)
      OBVIOUS
    <2>2. k \in 1 .. z /\ z \in Nat /\ i \in 1 .. z - 1 /\ Len(l) = k - 1 /\ Len(r) = z - k
      BY <1>1, <1>2, <1>3, <2>1
    <2>3. (l \o r)[i] = IF i <= k - 1 THEN l[i] ELSE r[i - (k - 1)]
      <3>1. Len(l) + Len(r) = z - 1
        BY <2>2
      <3>2. (l \o r)[i] = IF i <= Len(l) THEN l[i] ELSE r[i - Len(l)]
        BY <1>5, <2>2, <3>1
      <3> QED BY <2>2, <3>2
    <2>4. CASE i < k
      <3>1. i \in 1 .. k - 1 /\ i <= k - 1
        BY <2>2, <2>4
      <3> QED BY <1>2, <2>3, <2>4, <3>1
    <2>5. CASE ~ (i < k)
      <3>1. PICK j : j = i - (k - 1)
        OBVIOUS
      <3>2. j \in 1 .. z - k /\ ~ (i <= k - 1) /\ k + j = i + 1
        <4>1. k \in Int /\ z \in Int /\ i \in Int /\ k <= i /\ i <= z - 1 /\ 1 <= k
          BY <2>2, <2>5
        <4>2. j \in Int /\ 1 <= j /\ j <= z - k /\ k + j = i + 1 /\ k - 1 < i
          BY <3>1, <4>1
        <4> QED BY <4>1, <4>2
      <3>3. r[j] = s[i + 1]
        <4>1. j \in 1 .. Len(s) - k
          BY <2>1, <3>2
        <4>2. r[j] = s[k + j]
          BY <1>3, <4>1
        <4> QED BY <3>2, <4>2
      <3>4. (l \o r)[i] = r[j]
        BY <2>3, <3>1, <3>2
      <3> QED BY <2>5, <3>3, <3>4
    <2> QED BY <2>4, <2>5
  <1>7. Len(l) + Len(r) = Len(s) - 1
    BY <1>1, <1>2, <1>3
  <1> QED BY <1>4, <1>5, <1>6, <1>7 DEF Removed

\* list_del: the list r is s without x.
Without(S, s, x, r) ==
  /\ r \in Seq(S) /\ IsInjective(r)
  /\ x \in S /\ x \in ToSet(s) /\ ToSet(r) = ToSet(s) \ {x}

LEMMA WithoutHead ==
  ASSUME NEW S, NEW s \in Seq(S), s # <<>>, IsInjective(s)
  PROVE  Without(S, s, Head(s), Tail(s))
BY TailProps DEF Without

LEMMA WithoutNth ==
  ASSUME NEW S, NEW s \in Seq(S), IsInjective(s), NEW k \in DOMAIN s
  PROVE  Without(S, s, s[k], RemoveAt(s, k))
<1> DEFINE r == RemoveAt(s, k)
<1>1. Removed(S, r, s, k)
  BY RemoveAtProps, Zenon
<1> HIDE DEF r
<1>2. PICK z : z = Len(s)
  OBVIOUS
<1>3. /\ z \in Nat /\ DOMAIN s = 1 .. z /\ k \in 1 .. z /\ \A i \in 1 .. z : s[i] \in S
  BY <1>2, LenProperties, ElementOfSeq
<1>4. /\ r \in Seq(S) /\ Len(r) = z - 1
      /\ \A i \in 1 .. z - 1 : r[i] = IF i < k THEN s[i] ELSE s[i + 1]
  BY <1>1, <1>2 DEF Removed
<1>5. DOMAIN r = 1 .. z - 1
  BY <1>3, <1>4, LenProperties
<1>6. \A i, j \in 1 .. z : s[i] = s[j] => i = j
  BY <1>3 DEF IsInjective
<1>7. IsInjective(r)
  <2> SUFFICES ASSUME NEW i \in 1 .. z - 1, NEW j \in 1 .. z - 1, r[i] = r[j] PROVE i = j
    BY <1>5 DEF IsInjective
  <2>1. /\ i \in 1 .. z /\ i + 1 \in 1 .. z /\ j \in 1 .. z /\ j + 1 \in 1 .. z
    BY <1>3
  <2> QED BY <1>3, <1>4, <1>6, <2>1
<1>8. ASSUME NEW x \in ToSet(r) PROVE x \in ToSet(s) \ {s[k]}
  <2>1. PICK i \in 1 .. z - 1 : x = r[i]
    BY <1>5 DEF ToSet
  <2>2. i \in 1 .. z /\ i + 1 \in 1 .. z
    BY <1>3
  <2>3. (x = s[i] /\ i # k) \/ (x = s[i + 1] /\ i + 1 # k)
    BY <1>3, <1>4, <2>1
  <2> QED BY <1>3, <1>6, <2>2, <2>3 DEF ToSet
<1>9. ASSUME NEW x \in ToSet(s) \ {s[k]} PROVE x \in ToSet(r)
  <2>1. PICK i \in 1 .. z : x = s[i] /\ i # k
    BY <1>3 DEF ToSet
  <2>2. CASE i < k
    <3>1. i \in 1 .. z - 1
      BY <1>3, <2>2
    <3> QED BY <1>4, <1>5, <2>1, <2>2, <3>1 DEF ToSet
  <2>3. CASE ~ (i < k)
    <3>1. PICK j : j = i - 1
      OBVIOUS
    <3>2. j \in 1 .. z - 1 /\ ~ (j < k) /\ j + 1 = i
      BY <1>3, <2>1, <2>3, <3>1
    <3> QED BY <1>4, <1>5, <2>1, <3>2 DEF ToSet
  <2> QED BY <2>2, <2>3
<1>10. s[k] \in S /\ s[k] \in ToSet(s)
  BY <1>3 DEF ToSet
<1>11. Without(S, s, s[k], r)
  BY <1>4, <1>7, <1>8, <1>9, <1>10 DEF Without
<1> QED BY <1>11 DEF r

\* The tile of a run tells the run and its list.
LEMMA TileOfRun ==
  ASSUME NEW c, NEW d, NEW r \in Run, NEW q \in Run, FreeTile(c, r) = FreeTile(d, q)
  PROVE  c = d /\ r = q
<1>1. c = d /\ r.head = q.head /\ r.last = q.last
  BY DEF FreeTile
<1> QED BY <1>1 DEF Run

LEMMA ElementsOf ==
  ASSUME NEW S, NEW s \in Seq(S), NEW x \in ToSet(s)
  PROVE  x \in S
<1>1. PICK i \in DOMAIN s : x = s[i]
  BY DEF ToSet
<1> QED BY <1>1, LenProperties, ElementOfSeq

LEMMA TileInLists ==
  ASSUME NEW L, NEW c \in Order, NEW r \in ToSet(L[c])
  PROVE  FreeTile(c, r) \in FreeTiles(L)
<1>1. FreeTile(c, r) \in {FreeTile(c, q) : q \in ToSet(L[c])}
  OBVIOUS
<1> QED BY <1>1, Zenon DEF FreeTiles

\* The lists M are L with run r taken out of list c.
TakenOut(M, L, c, r) ==
  /\ Lists(M) /\ r \in Run /\ FreeTile(c, r) \in FreeTiles(L)
  /\ FreeTiles(M) = FreeTiles(L) \ {FreeTile(c, r)}

LEMMA TakeOut ==
  ASSUME NEW L, Lists(L), NEW c \in Order, NEW r, NEW s, Without(Run, L[c], r, s),
         NEW M, M = [L EXCEPT ![c] = s]
  PROVE  TakenOut(M, L, c, r)
<1>1. Lists(M)
  BY DEF Lists, Without
<1>2. r \in Run /\ FreeTile(c, r) \in FreeTiles(L)
  BY DEF Without, FreeTiles
<1>3. ASSUME NEW t \in FreeTiles(M) PROVE t \in FreeTiles(L) \ {FreeTile(c, r)}
  <2>0. PICK d \in Order : t \in {FreeTile(d, q) : q \in ToSet(M[d])}
    BY DEF FreeTiles
  <2>1. PICK q \in ToSet(M[d]) : t = FreeTile(d, q)
    BY <2>0
  <2>2. q \in Run
    BY <1>1, ElementsOf DEF Lists
  <2>3. q \in ToSet(L[d]) /\ (d = c => q # r)
    BY DEF Lists, Without
  <2>4. t # FreeTile(c, r)
    BY <1>2, <2>1, <2>2, <2>3, TileOfRun
  <2> QED BY <2>1, <2>3, <2>4 DEF FreeTiles
<1>4. ASSUME NEW t \in FreeTiles(L), t # FreeTile(c, r) PROVE t \in FreeTiles(M)
  <2>0. PICK d \in Order : t \in {FreeTile(d, q) : q \in ToSet(L[d])}
    BY DEF FreeTiles
  <2>1. PICK q \in ToSet(L[d]) : t = FreeTile(d, q)
    BY <2>0
  <2>2. q \in ToSet(M[d])
    BY <1>4, <2>1 DEF Lists, Without
  <2> QED BY <2>1, <2>2 DEF FreeTiles
<1> QED BY <1>1, <1>2, <1>3, <1>4 DEF TakenOut

\* The lists M are L with run r put in front of list c.
PutIn(M, L, c, r) ==
  Lists(M) /\ FreeTiles(M) = FreeTiles(L) \cup {FreeTile(c, r)}

LEMMA PuttingIn ==
  ASSUME NEW L, Lists(L), NEW c \in Order, NEW r \in Run, FreeTile(c, r) \notin FreeTiles(L),
         NEW M, M = [L EXCEPT ![c] = <<r>> \o L[c]]
  PROVE  PutIn(M, L, c, r)
<1> DEFINE s == <<r>> \o L[c]
<1>1. L[c] \in Seq(Run) /\ IsInjective(L[c]) /\ r \notin ToSet(L[c])
  <2>1. L[c] \in Seq(Run) /\ IsInjective(L[c])
    BY DEF Lists
  <2>2. ASSUME r \in ToSet(L[c]) PROVE FALSE
    <3>1. FreeTile(c, r) \in FreeTiles(L)
      BY <2>2, TileInLists
    <3> QED BY <3>1
  <2> QED BY <2>1, <2>2
<1>2. Prepended(Run, L[c], r, s)
  BY <1>1, PrependProps, Zenon
<1> HIDE DEF s
<1>3. M = [L EXCEPT ![c] = s]
  BY DEF s
<1>4. s \in Seq(Run) /\ ToSet(s) = ToSet(L[c]) \cup {r} /\ IsInjective(s)
  BY <1>1, <1>2 DEF Prepended
<1>5. Lists(M)
  BY <1>3, <1>4 DEF Lists
<1>6. ASSUME NEW t \in FreeTiles(M) PROVE t \in FreeTiles(L) \cup {FreeTile(c, r)}
  <2>0. PICK d \in Order : t \in {FreeTile(d, q) : q \in ToSet(M[d])}
    BY DEF FreeTiles
  <2>1. PICK q \in ToSet(M[d]) : t = FreeTile(d, q)
    BY <2>0
  <2>2. q \in ToSet(L[d]) \/ (d = c /\ q = r)
    <3>1. CASE d = c
      <4>1. M[d] = s
        BY <1>3, <3>1 DEF Lists
      <4>2. q \in ToSet(s)
        BY <2>1, <4>1
      <4> QED BY <1>4, <3>1, <4>2
    <3>2. CASE d # c
      BY <1>3, <2>1, <3>2 DEF Lists
    <3> QED BY <3>1, <3>2
  <2> QED BY <2>1, <2>2 DEF FreeTiles
<1>7. ASSUME NEW t \in FreeTiles(L) PROVE t \in FreeTiles(M)
  <2>0. PICK d \in Order : t \in {FreeTile(d, q) : q \in ToSet(L[d])}
    BY DEF FreeTiles
  <2>1. PICK q \in ToSet(L[d]) : t = FreeTile(d, q)
    BY <2>0
  <2>2. q \in ToSet(M[d])
    BY <1>3, <1>4 DEF Lists
  <2> QED BY <2>1, <2>2 DEF FreeTiles
<1>8. FreeTile(c, r) \in FreeTiles(M)
  <2>1. r \in ToSet(M[c])
    BY <1>3, <1>4 DEF Lists
  <2> QED BY <2>1, TileInLists
<1> QED BY <1>5, <1>6, <1>7, <1>8 DEF PutIn
-----------------------------------------------------------------------------
(***************************************************************************)
(* A run in hand, while mem_divide cuts it or mem_merge joins it.          *)
(***************************************************************************)

\* The tile of a run that is in no list, for x.
HandTile(c, f, l, x) == [order |-> c, head |-> f, last |-> l, of |-> x]

\* The tiles R are those of other holders than x.
Others(R, x) == x # {} /\ \A u \in R : u.of # {} /\ u.of # x

InHand(L, R, c, f, l, x, e) == Laid(L, R \cup {HandTile(c, f, l, x)}, e)

LEMMA HandIsApart ==
  ASSUME NEW L, NEW R, NEW c, NEW f, NEW l, NEW x, Others(R, x)
  PROVE  /\ HandTile(c, f, l, x) \notin R
         /\ HandTile(c, f, l, x) \notin FreeTiles(L)
         /\ \A d, r : FreeTile(d, r) \notin R
<1>1. \A d, r : FreeTile(d, r).of = {}
  BY DEF FreeTile
<1>2. HandTile(c, f, l, x).of = x
  BY DEF HandTile
<1> QED BY <1>1, <1>2 DEF FreeTiles, Others

\* The first run of a list is taken for x.
LEMMA TakeInHand ==
  ASSUME NEW L, NEW R, NEW e, Laid(L, R, e),
         NEW c \in Order, NEW r, NEW M, TakenOut(M, L, c, r),
         NEW x \in SUBSET Held, Others(R, x)
  PROVE  InHand(M, R, c, r.head, NotAPage, x, e)
<1> DEFINE T == FreeTiles(L) \cup R
           t == FreeTile(c, r)
           u == HandTile(c, r.head, NotAPage, x)
           V == FreeTiles(M) \cup (R \cup {u})
<1>1. t \in T /\ r \in Run /\ Lists(M) /\ FreeTiles(M) = FreeTiles(L) \ {t}
  BY DEF TakenOut
<1>2. t \notin R
  BY HandIsApart
<1>3. V = Retiled(T, {t}, {u})
  <2> HIDE DEF t, u
  <2> QED BY <1>1, <1>2 DEF Retiled
<1>4. u \in Tile /\ u.order = t.order /\ u.head = t.head /\ u.last = NotAPage
  BY <1>1 DEF Tile, HandTile, FreeTile, Run
<1>5. Good(T) /\ (e => Whole(T))
  BY DEF Laid
<1> HIDE DEF t, u, T, V
<1>6. Good(V) /\ (Whole(T) => Whole(V))
  BY <1>1, <1>3, <1>4, <1>5, Retag
<1>7. Laid(M, R \cup {u}, e)
  BY <1>1, <1>5, <1>6 DEF Laid, V
<1> QED BY <1>7 DEF InHand, u

\* divide_execute: the upper half of the run goes into the list below.
LEMMA HalveInHand ==
  ASSUME NEW L, NEW R, NEW e, NEW c \in Order, NEW f, NEW x \in SUBSET Held, Others(R, x),
         InHand(L, R, c + 1, f, NotAPage, x, e),
         NEW M, M = [L EXCEPT ![c] = <<Half(f, c)>> \o L[c]]
  PROVE  InHand(M, R, c, f, NotAPage, x, e)
<1> DEFINE r == Half(f, c)
           t == HandTile(c + 1, f, NotAPage, x)
           a == HandTile(c, f, NotAPage, x)
           b == FreeTile(c, r)
           T == FreeTiles(L) \cup (R \cup {t})
           V == FreeTiles(M) \cup (R \cup {a})
<1>1. /\ t.order = c + 1 /\ t.head = f /\ t.last = NotAPage
      /\ a.order = c /\ a.head = f /\ a.last = NotAPage /\ a.of = x
      /\ b.order = c /\ b.head = f + Size[c] /\ b.last = EndOf(f, c + 1) /\ b.of = {}
      /\ r = [head |-> f + Size[c], last |-> EndOf(f, c + 1)]
  <2>1. t.order = c + 1 /\ t.head = f /\ t.last = NotAPage
    BY DEF HandTile
  <2>2. a.order = c /\ a.head = f /\ a.last = NotAPage /\ a.of = x
    BY DEF HandTile
  <2>3. r = [head |-> f + Size[c], last |-> f + (Size[c + 1] - 1)]
    BY DEF Half
  <2>4. b.order = c /\ b.head = f + Size[c] /\ b.last = r.last /\ b.of = {}
    BY <2>3 DEF FreeTile
  <2>5. t \in Tile
    BY DEF InHand, Laid, Good, Inside
  <2>6. f \in Int /\ c + 1 \in Order
    BY <2>1, <2>5, Orders DEF Tile
  <2>7. f + (Size[c + 1] - 1) = EndOf(f, c + 1)
    <3>1. Size[c + 1] \in Int
      BY <2>6, Orders
    <3> QED BY <2>6, <3>1 DEF EndOf
  <2> QED BY <2>1, <2>2, <2>3, <2>4, <2>7
<1>2. Lists(L) /\ Good(T) /\ (e => Whole(T)) /\ t \in T
  BY DEF InHand, Laid
<1>3. t \notin R /\ t \notin FreeTiles(L)
  BY HandIsApart
<1> HIDE DEF r, t, a, b, T, V
<1>4. Inside(t) /\ t \in Tile /\ f \in KPage /\ c + 1 \in Order
  BY <1>1, <1>2 DEF Good, Inside, Tile
<1>5. /\ Span(a) \cup Span(b) = Span(t) /\ b.head \in Span(b)
      /\ EndOf(b.head, c) = EndOf(f, c + 1)
  BY <1>1, <1>4, HalfTiles
<1>6. f + Size[c] \in KPage /\ EndOf(f, c + 1) \in KPage
  <2>1. b.head \in Span(t)
    BY <1>5
  <2>2. EndOf(f, c + 1) \in Span(t)
    <3>1. Span(t) = f .. EndOf(f, c + 1)
      BY <1>1 DEF Span
    <3>2. f \in Int /\ EndOf(f, c + 1) \in Int
      BY <1>4, Orders DEF EndOf
    <3> QED BY <1>1, <2>1, <3>1, <3>2
  <2> QED BY <1>1, <1>4, <2>1, <2>2 DEF Inside
<1>7. r \in Run /\ a \in Tile /\ b \in Tile
  <2>1. r \in Run
    BY <1>1, <1>6 DEF Run
  <2>2. a \in Tile
    BY <1>4 DEF a, HandTile, Tile
  <2>3. b \in Tile
    BY <2>1 DEF b, FreeTile, Tile, Run
  <2> QED BY <2>1, <2>2, <2>3
<1>8. b \notin FreeTiles(L)
  <2> SUFFICES ASSUME b \in FreeTiles(L) PROVE FALSE
    OBVIOUS
  <2>1. Apart(b, t) /\ b # t
    BY <1>2, <1>3 DEF Good, T
  <2> QED BY <1>5, <2>1 DEF Apart
<1>9. Lists(M) /\ FreeTiles(M) = FreeTiles(L) \cup {b}
  <2>1. M = [L EXCEPT ![c] = <<r>> \o L[c]]
    BY DEF r
  <2>2. PutIn(M, L, c, r)
    BY <1>2, <1>7, <1>8, <2>1, PuttingIn DEF b
  <2> QED BY <2>2 DEF PutIn, b
<1>10. V = Retiled(T, {t}, {a, b})
  BY <1>3, <1>9 DEF Retiled, V, T
<1>11. Good(V) /\ (Whole(T) => Whole(V))
  BY <1>1, <1>2, <1>5, <1>7, <1>10, Halving
<1>12. Laid(M, R \cup {a}, e)
  BY <1>2, <1>9, <1>11 DEF Laid, V
<1> QED BY <1>12 DEF InHand, a

\* get_continue_subpages: a run of list c that lies beside the one in hand.
LEMMA JoinInHand ==
  ASSUME NEW L, NEW R, NEW e, NEW c \in Order, c + 1 \in Order,
         NEW f, NEW l, NEW x \in SUBSET Held, Others(R, x),
         InHand(L, R, c, f, l, x, e),
         NEW q, NEW M, TakenOut(M, L, c, q),
         NEW g, g = [head |-> f, last |-> l],
         l + 1 = q.head \/ q.last + 1 = f
  PROVE  InHand(M, R, c + 1, Joined(g, q).head, Joined(g, q).last, x, e)
<1> DEFINE t == HandTile(c, f, l, x)
           b == FreeTile(c, q)
           j == Joined(g, q)
           a == HandTile(c + 1, j.head, j.last, x)
           T == FreeTiles(L) \cup (R \cup {t})
           V == FreeTiles(M) \cup (R \cup {a})
<1>1. /\ t.order = c /\ t.head = f /\ t.last = l
      /\ b.order = c /\ b.head = q.head /\ b.last = q.last
      /\ a.order = c + 1 /\ a.head = j.head /\ a.last = j.last
  BY DEF HandTile, FreeTile
<1>2. Good(T) /\ (e => Whole(T)) /\ t \in T /\ b \in T /\ Lists(M) /\ FreeTiles(M) = FreeTiles(L) \ {b}
  BY DEF InHand, Laid, TakenOut
<1>3. t \notin R /\ t \notin FreeTiles(L) /\ b \notin R /\ b \in FreeTiles(L) /\ q \in Run
  BY HandIsApart DEF TakenOut
<1>4. /\ l + 1 = q.head => j.head = f /\ j.last = q.last
      /\ ~ (l + 1 = q.head) => j.head = q.head /\ j.last = l
  BY DEF Joined
<1> HIDE DEF t, b, j, a, T, V
<1>5. t \in Tile
  BY <1>2 DEF Good, Inside
<1>6. a \in Tile
  <2>1. f \in KPage /\ l \in KPage \cup {NotAPage} /\ q.head \in KPage /\ q.last \in KPage \cup {NotAPage}
    BY <1>1, <1>3, <1>5 DEF Tile, Run
  <2>2. j.head \in KPage /\ j.last \in KPage \cup {NotAPage}
    BY <1>4, <2>1
  <2> QED BY <2>2 DEF a, HandTile, Tile
<1>7. V = Retiled(T, {t, b}, {a})
  BY <1>2, <1>3 DEF Retiled, V, T
<1>8. Good(V) /\ (Whole(T) => Whole(V))
  <2>1. CASE l + 1 = q.head
    <3>1. Touches(t, b) /\ a.head = t.head /\ a.last = b.last /\ t # b
      BY <1>1, <1>3, <1>4, <2>1 DEF Touches
    <3> QED BY <1>1, <1>2, <1>6, <1>7, <3>1, Joining
  <2>2. CASE ~ (l + 1 = q.head)
    <3>1. Touches(b, t) /\ a.head = b.head /\ a.last = t.last /\ t # b /\ {t, b} = {b, t}
      BY <1>1, <1>3, <1>4, <2>2 DEF Touches
    <3> QED BY <1>1, <1>2, <1>6, <1>7, <3>1, Joining
  <2> QED BY <2>1, <2>2
<1>9. Laid(M, R \cup {a}, e)
  BY <1>2, <1>8 DEF Laid, V
<1> QED BY <1>9 DEF InHand, a, j

\* put_subpages: the run in hand goes into the list of its order.
LEMMA PutFromHand ==
  ASSUME NEW L, NEW R, NEW e, NEW c \in Order, NEW x \in SUBSET Held, Others(R, x),
         NEW r \in Run, InHand(L, R, c, r.head, r.last, x, e),
         NEW M, M = [L EXCEPT ![c] = <<r>> \o L[c]]
  PROVE  Laid(M, R, e)
<1> DEFINE t == HandTile(c, r.head, r.last, x)
           b == FreeTile(c, r)
           T == FreeTiles(L) \cup (R \cup {t})
           V == FreeTiles(M) \cup R
<1>1. /\ t.order = c /\ t.head = r.head /\ t.last = r.last
      /\ b.order = c /\ b.head = r.head /\ b.last = r.last
  BY DEF HandTile, FreeTile
<1>2. Lists(L) /\ Good(T) /\ (e => Whole(T)) /\ t \in T
  BY DEF InHand, Laid
<1>3. t \notin R /\ t \notin FreeTiles(L)
  BY HandIsApart
<1>4. b \in Tile
  BY DEF FreeTile, Tile, Run
<1> HIDE DEF t, b, T, V
<1>5. Inside(t) /\ t \in Tile /\ b.last \in {NotAPage} \cup Span(t)
  BY <1>1, <1>2 DEF Good, Inside
<1>6. b \notin FreeTiles(L)
  <2> SUFFICES ASSUME b \in FreeTiles(L) PROVE FALSE
    OBVIOUS
  <2>1. Apart(b, t) /\ b # t
    BY <1>2, <1>3 DEF Good, T
  <2>2. r.head \in Span(b) /\ Span(t) = Span(b)
    <3>1. r.head \in Int /\ Size[c] \in Nat \ {0}
      BY Orders DEF Run
    <3> QED BY <1>1, <3>1 DEF Span, EndOf
  <2> QED BY <2>1, <2>2 DEF Apart
<1>7. Lists(M) /\ FreeTiles(M) = FreeTiles(L) \cup {b}
  <2>1. PutIn(M, L, c, r)
    BY <1>2, <1>6, PuttingIn DEF b
  <2> QED BY <2>1 DEF PutIn, b
<1>8. V = Retiled(T, {t}, {b})
  BY <1>3, <1>7 DEF Retiled, V, T
<1>9. Whole(T) => b.last \in {NotAPage, EndOf(b.head, b.order)}
  BY <1>1, <1>2 DEF Whole, EndsRight
<1>10. Good(V) /\ (Whole(T) => Whole(V))
  BY <1>1, <1>2, <1>4, <1>5, <1>8, <1>9, Retag
<1> QED BY <1>2, <1>7, <1>10 DEF Laid, V

LEMMA OthersHeld ==
  ASSUME NEW H, NEW h, h \notin H
  PROVE  Others(HeldTiles(H), {h})
<1>1. \A g : HeldTile(g).of = {g}
  BY DEF HeldTile
<1> QED BY <1>1 DEF Others, HeldTiles

\* The pages of a tile begin with its head.
LEMMA HeadInSpan ==
  ASSUME NEW t, Inside(t)
  PROVE  t.head \in Span(t) /\ EndOf(t.head, t.order) \in Span(t)
<1>1. t.head \in Int /\ Size[t.order] \in Nat \ {0}
  BY Orders DEF Inside, Tile
<1> QED BY <1>1 DEF Span, EndOf

\* A holder's run is in no list.
LEMMA NotFree ==
  ASSUME NEW L, NEW H, NEW e, Laid(L, HeldTiles(H), e),
         NEW t \in FreeTiles(L), NEW h \in H, h.head \in KPage
  PROVE  Span(t) \cap Span(HeldTile(h)) = {} /\ Inside(HeldTile(h)) /\ Inside(t)
<1>1. t.of = {} /\ HeldTile(h).of = {h}
  BY DEF FreeTiles, FreeTile, HeldTile
<1>2. HeldTile(h) \in HeldTiles(H)
  BY DEF HeldTiles
<1>3. t # HeldTile(h)
  BY <1>1
<1> QED BY <1>2, <1>3 DEF Laid, Good, Apart

\* Division: the run of list s, in hand for h with order c, and the lists below s
\* down to c with one half more.
Halved(c, s, h) ==
  InHand(Cut(s, c), HeldTiles(held), c, Head(lists[s]).head, NotAPage, {h}, exact)

LEMMA Divides ==
  ASSUME Laid(lists, HeldTiles(held), exact),
         NEW n, Fits(n), NEW by \in Holder,
         NEW s \in Order, s >= OrderOf(n), lists[s] # <<>>,
         NEW h, h = [head |-> Head(lists[s]).head, size |-> n, by |-> by]
  PROVE  /\ Laid(Cut(s, OrderOf(n)), HeldTiles(held \cup {h}), exact)
         /\ h \notin held /\ h \in Held /\ h.head \in KPage
         /\ FreeTile(s, Head(lists[s])) \in FreeTiles(lists)
         /\ Span(HeldTile(h)) \subseteq Span(FreeTile(s, Head(lists[s])))
<1> DEFINE r == Head(lists[s])
           f == r.head
           k == OrderOf(n)
           R == HeldTiles(held)
<1>1. k \in Order /\ k \in Nat /\ s \in Nat /\ k <= s
  BY OrderFits, Orders
<1>2. Lists(lists)
  BY DEF Laid
<1>3. Without(Run, lists[s], r, Tail(lists[s]))
  <2>1. lists[s] \in Seq(Run) /\ IsInjective(lists[s])
    BY <1>2 DEF Lists
  <2> QED BY <2>1, WithoutHead, Zenon
<1>4. Cut(s, s) = [lists EXCEPT ![s] = Tail(lists[s])]
  <2>1. \A d \in Order : ~ (s <= d /\ d < s)
    BY <1>1, Orders
  <2>2. lists = [d \in Order |-> lists[d]]
    BY <1>2 DEF Lists
  <2>3. Cut(s, s) = [d \in Order |-> IF d = s THEN Tail(lists[s]) ELSE lists[d]]
    BY <2>1, Zenon DEF Cut
  <2> QED BY <2>2, <2>3, Zenon
<1>5. TakenOut(Cut(s, s), lists, s, r)
  <2> HIDE DEF r
  <2> QED BY <1>2, <1>3, <1>4, TakeOut
<1>6. r \in Run /\ FreeTile(s, r) \in FreeTiles(lists)
  BY <1>5 DEF TakenOut
<1>7. h \in Held /\ h.head = f /\ h.head \in KPage /\ h.size = n
  BY <1>6 DEF Held, Run, Fits
<1>8. h \notin held
  <2> SUFFICES ASSUME h \in held PROVE FALSE
    OBVIOUS
  <2>1. /\ Span(FreeTile(s, r)) \cap Span(HeldTile(h)) = {}
        /\ Inside(HeldTile(h)) /\ Inside(FreeTile(s, r))
    BY <1>6, <1>7, NotFree
  <2>2. FreeTile(s, r).head = f /\ HeldTile(h).head = f
    BY <1>7 DEF FreeTile, HeldTile
  <2> QED BY <2>1, <2>2, HeadInSpan
<1>9. Others(R, {h}) /\ {h} \in SUBSET Held
  BY <1>7, <1>8, OthersHeld
<1>10. Halved(s, s, h)
  <2>1. InHand(Cut(s, s), R, s, r.head, NotAPage, {h}, exact)
    <3> HIDE DEF r, R
    <3>1. Laid(lists, R, exact)
      BY DEF R
    <3> QED BY <1>5, <1>9, <3>1, TakeInHand
  <2> QED BY <2>1 DEF Halved
<1>11. ASSUME NEW c \in k .. s - 1, Halved(c + 1, s, h) PROVE Halved(c, s, h)
  <2>1. c \in Order /\ c < s /\ c # s /\ c >= k
    BY <1>1, Orders
  <2>2. Cut(s, c) = [Cut(s, c + 1) EXCEPT ![c] = <<Half(f, c)>> \o Cut(s, c + 1)[c]]
    <3>1. Cut(s, c + 1)[c] = lists[c]
      BY <2>1, Orders DEF Cut
    <3>2. ASSUME NEW d \in Order PROVE (c <= d /\ d < s) <=> (d = c \/ (c + 1 <= d /\ d < s))
      BY <2>1, Orders
    <3> HIDE DEF f
    <3>3. f = Head(lists[s]).head
      BY DEF f
    <3> QED BY <2>1, <3>1, <3>2, <3>3 DEF Cut
  <2>3. InHand(Cut(s, c + 1), R, c + 1, f, NotAPage, {h}, exact)
    BY <1>11 DEF Halved
  <2>4. InHand(Cut(s, c), R, c, f, NotAPage, {h}, exact)
    <3> HIDE DEF f, R
    <3> QED BY <1>9, <2>1, <2>2, <2>3, HalveInHand
  <2> QED BY <2>4 DEF Halved
<1>12. Halved(k, s, h)
  <2> DEFINE T == {c \in k .. s : Halved(c, s, h)}
  <2>1. s \in T
    BY <1>1, <1>10
  <2>2. ASSUME NEW c \in k .. s - 1, c + 1 \in T PROVE c \in T
    BY <1>1, <1>11, <2>2
  <2> HIDE DEF T, k
  <2>3. k .. s \subseteq T
    BY <1>1, <2>1, <2>2, Downwards
  <2>4. k \in T
    BY <1>1, <2>3
  <2> QED BY <2>4 DEF T
<1>13. HandTile(k, f, NotAPage, {h}) = HeldTile(h)
  BY <1>7 DEF HandTile, HeldTile
<1>14. HeldTiles(held \cup {h}) = HeldTiles(held) \cup {HeldTile(h)}
  BY <1>7 DEF HeldTiles
<1>15. Laid(Cut(s, k), HeldTiles(held \cup {h}), exact)
  BY <1>12, <1>13, <1>14 DEF Halved, InHand
<1>16. Span(HeldTile(h)) \subseteq Span(FreeTile(s, r))
  <2>1. Size[k] <= Size[s] /\ Size[k] \in Nat /\ Size[s] \in Nat /\ f \in Nat
    BY <1>1, <1>6, SizesGrow, Orders DEF Run
  <2>2. Span(HeldTile(h)) = f .. (f + Size[k]) - 1 /\ Span(FreeTile(s, r)) = f .. (f + Size[s]) - 1
    BY <1>7 DEF Span, HeldTile, FreeTile, EndOf
  <2> QED BY <2>1, <2>2
<1> QED BY <1>6, <1>7, <1>8, <1>15, <1>16

\* The run that goes on from a list: joined, if there is a neighbour.
Longer(x, list) ==
  LET near == Neighbours(list, x) IN IF near = {} THEN x ELSE Joined(x, list[Min(near)])

LEMMA FirstNeighbour ==
  ASSUME NEW s \in Seq(Run), NEW x, Neighbours(s, x) # {}
  PROVE  LET i == Min(Neighbours(s, x))
         IN  i \in DOMAIN s /\ s[i] \in Run /\ (x.last + 1 = s[i].head \/ s[i].last + 1 = x.head)
<1> DEFINE I == Neighbours(s, x)
<1>1. DOMAIN s \subseteq Nat /\ \A i \in DOMAIN s : s[i] \in Run
  BY LenProperties, ElementOfSeq
<1>2. I \in SUBSET Nat
  BY <1>1 DEF Neighbours
<1>3. Min(I) \in I
  <2> HIDE DEF I
  <2>1. I # {}
    BY DEF I
  <2> QED BY <1>2, <2>1, MinIn
<1> QED BY <1>1, <1>3 DEF Neighbours

LEMMA LongerRun ==
  ASSUME NEW s \in Seq(Run), NEW x \in Run
  PROVE  Longer(x, s) \in Run
<1>1. CASE Neighbours(s, x) = {}
  BY <1>1 DEF Longer
<1>2. CASE Neighbours(s, x) # {}
  <2>1. PICK q : q = s[Min(Neighbours(s, x))]
    OBVIOUS
  <2>2. q \in Run
    BY <1>2, <2>1, FirstNeighbour
  <2>3. Longer(x, s) = Joined(x, q)
    BY <1>2, <2>1 DEF Longer
  <2> QED BY <2>2, <2>3 DEF Joined, Run
<1> QED BY <1>1, <1>2

\* merge_execute, list by list.
LEMMA GrownFacts ==
  ASSUME Lists(lists), NEW k \in Order, NEW r \in Run
  PROVE  /\ Grown(r, k)[k] = r
         /\ \A c \in k .. MaxOrder : Grown(r, k)[c] \in Run
         /\ \A c \in k .. MaxOrder - 1 : Grown(r, k)[c + 1] = Longer(Grown(r, k)[c], lists[c])
<1> DEFINE F == [n \in Nat |-> [x \in Run |->
                   IF k + n < MaxOrder THEN Longer(x, lists[k + n]) ELSE x]]
<1>1. F \in [Nat -> [Run -> Run]]
  <2> SUFFICES ASSUME NEW n \in Nat, NEW x \in Run PROVE F[n][x] \in Run
    OBVIOUS
  <2>1. CASE k + n < MaxOrder
    <3>1. k + n \in Order
      BY <2>1, Orders
    <3>2. lists[k + n] \in Seq(Run)
      BY <3>1 DEF Lists
    <3> QED BY <2>1, <3>2, LongerRun
  <2> QED BY <2>1
<1>2. \E g : Iterates(g, Run, r, F)
  <2> HIDE DEF F
  <2> QED BY <1>1, Iteration, Zenon
<1>3. PICK g : Iterates(g, Run, r, F)
  BY <1>2
<1> DEFINE h == [c \in k .. MaxOrder |-> g[c - k]]
           D(f) == f = [c \in k .. MaxOrder |-> IF c = k THEN r ELSE Longer(f[c - 1], lists[c - 1])]
<1>4. ASSUME NEW c \in k .. MaxOrder
      PROVE  h[c] = IF c = k THEN r ELSE Longer(h[c - 1], lists[c - 1])
  <2>1. CASE c = k
    <3>1. c - k = 0
      BY <2>1, Orders
    <3> QED BY <1>3, <2>1, <3>1 DEF Iterates
  <2>2. CASE c # k
    <3>1. PICK m : m = (c - 1) - k
      OBVIOUS
    <3>2. m \in Nat /\ c - k = m + 1 /\ k + m = c - 1 /\ k + m < MaxOrder /\ c - 1 \in k .. MaxOrder
      BY <2>2, <3>1, Orders
    <3>3. h[c] = g[m + 1] /\ h[c - 1] = g[m]
      BY <3>1, <3>2
    <3>4. g[m + 1] = F[m][g[m]] /\ g[m] \in Run
      BY <1>3, <3>2 DEF Iterates
    <3>5. F[m][g[m]] = Longer(g[m], lists[c - 1])
      BY <3>2, <3>4
    <3> QED BY <2>2, <3>3, <3>4, <3>5
  <2> QED BY <2>1, <2>2
<1>5. D(h)
  BY <1>4
<1>6. Grown(r, k) = CHOOSE f : D(f)
  BY DEF Grown, Longer
<1>7. D(Grown(r, k))
  <2> HIDE DEF D, h
  <2> QED BY <1>5, <1>6, Zenon
<1>8. PICK z : z = Grown(r, k)
  OBVIOUS
<1>9. z = [c \in k .. MaxOrder |-> IF c = k THEN r ELSE Longer(z[c - 1], lists[c - 1])]
  BY <1>7, <1>8
<1>10. \A c \in k .. MaxOrder : z[c] = IF c = k THEN r ELSE Longer(z[c - 1], lists[c - 1])
  BY <1>9, Zenon
<1>11. z[k] = r
  <2>1. k \in k .. MaxOrder
    BY Orders
  <2> QED BY <1>10, <2>1
<1>12. ASSUME NEW c \in k .. MaxOrder - 1 PROVE z[c + 1] = Longer(z[c], lists[c])
  <2>1. c + 1 \in k .. MaxOrder /\ c + 1 # k /\ (c + 1) - 1 = c
    BY Orders
  <2> QED BY <1>10, <2>1
<1>13. ASSUME NEW c \in k .. MaxOrder PROVE z[c] \in Run
  <2> DEFINE T == {d \in k .. MaxOrder : z[d] \in Run}
  <2>1. k \in T
    BY <1>11, Orders
  <2>2. ASSUME NEW d \in k .. MaxOrder - 1, d \in T PROVE d + 1 \in T
    <3>1. d \in Order /\ d + 1 \in k .. MaxOrder
      BY Orders
    <3>2. lists[d] \in Seq(Run)
      BY <3>1 DEF Lists
    <3> QED BY <1>12, <2>2, <3>1, <3>2, LongerRun
  <2>3. k .. MaxOrder \subseteq T
    <3> HIDE DEF T
    <3> QED BY <2>1, <2>2, Upwards, Orders
  <2> QED BY <2>3
<1> QED BY <1>8, <1>11, <1>12, <1>13

\* The loop ends at a list that is not beyond the last one, and joined the run
\* in each before.
LEMMA StopFacts ==
  ASSUME NEW g, NEW k \in Order
  PROVE  /\ Stop(g, k) \in k .. MaxOrder
         /\ \A c \in k .. Stop(g, k) - 1 : c < MaxOrder /\ Neighbours(lists[c], g[c]) # {}
<1> DEFINE I == {c \in k .. MaxOrder : c = MaxOrder \/ Neighbours(lists[c], g[c]) = {}}
<1>1. I \in SUBSET Nat /\ MaxOrder \in I
  BY Orders
<1>2. Min(I) \in I /\ \A y \in I : Min(I) <= y
  <2> HIDE DEF I
  <2> QED BY <1>1, MinIn
<1>3. Stop(g, k) = Min(I)
  BY DEF Stop
<1>4. PICK m : m = Min(I)
  OBVIOUS
<1>5. m \in I /\ \A y \in I : m <= y
  BY <1>2, <1>4
<1>6. ASSUME NEW c \in k .. m - 1 PROVE c < MaxOrder /\ Neighbours(lists[c], g[c]) # {}
  <2>1. c \in k .. MaxOrder /\ ~ (m <= c) /\ c < MaxOrder
    BY <1>5, Orders
  <2> QED BY <1>5, <2>1
<1> QED BY <1>3, <1>4, <1>5, <1>6

\* The lists below c without the neighbours that the run was joined with.
Merged(g, k, c) ==
  [d \in Order |->
     IF k <= d /\ d < c THEN RemoveAt(lists[d], Min(Neighbours(lists[d], g[d]))) ELSE lists[d]]

\* Merging: the run in hand, grown up to list c.
GrownTo(c, k, g, h, e) ==
  InHand(Merged(g, k, c), HeldTiles(held \ {h}), c, g[c].head, g[c].last, {h}, e)

\* The run of h that is given back, with n pages.
LEMMA ComesBack ==
  ASSUME NEW L, NEW H, NEW e, Laid(L, HeldTiles(H), e), NEW h \in H, h.head \in KPage,
         NEW n \in Nat \ {0}, n <= Size[OrderOf(h.size)],
         NEW d, d => e /\ n = Size[OrderOf(h.size)]
  PROVE  InHand(L, HeldTiles(H \ {h}), OrderOf(h.size), h.head, (h.head + n) - 1, {h}, d)
<1> DEFINE t == HeldTile(h)
           u == HandTile(OrderOf(h.size), h.head, (h.head + n) - 1, {h})
           T == FreeTiles(L) \cup HeldTiles(H)
           V == FreeTiles(L) \cup (HeldTiles(H \ {h}) \cup {u})
<1>1. Lists(L) /\ Good(T) /\ (e => Whole(T)) /\ t \in T
  BY DEF Laid, HeldTiles
<1>2. \A g : HeldTile(g).of = {g}
  BY DEF HeldTile
<1>3. HeldTiles(H \ {h}) = HeldTiles(H) \ {t} /\ t \notin FreeTiles(L)
  <2>1. \A g \in H \ {h} : HeldTile(g) # t
    BY <1>2
  <2>2. HeldTiles(H \ {h}) = HeldTiles(H) \ {t}
    BY <2>1 DEF HeldTiles
  <2>3. t.of = {h} /\ \A v \in FreeTiles(L) : v.of = {}
    BY <1>2 DEF FreeTiles, FreeTile
  <2> QED BY <2>2, <2>3
<1>4. Inside(t) /\ t \in Tile /\ t.order = OrderOf(h.size) /\ t.head = h.head /\ t.of = {h}
  BY <1>1 DEF Good, Inside, HeldTile
<1>5. u.order = t.order /\ u.head = t.head /\ u.last = (h.head + n) - 1 /\ u.of = {h}
  BY <1>4 DEF HandTile
<1> HIDE DEF t, u, T, V
<1>6. PICK f, s : f = h.head /\ s = Size[OrderOf(h.size)]
  OBVIOUS
<1>7. f \in Nat /\ s \in Nat /\ Span(t) = f .. (f + s) - 1 /\ EndOf(t.head, t.order) = (f + s) - 1
  <2>1. t.order \in Order /\ t.head \in KPage
    BY <1>4 DEF Tile
  <2> QED BY <1>4, <1>6, <2>1, Orders DEF Span, EndOf
<1>8. u.last \in Span(t) /\ (d => u.last = EndOf(t.head, t.order))
  <2>1. u.last = (f + n) - 1 /\ n <= s
    BY <1>5, <1>6
  <2>2. d => n = s
    BY <1>6
  <2> QED BY <1>7, <2>1, <2>2
<1>9. u \in Tile
  <2>1. u.last \in KPage
    BY <1>4, <1>8 DEF Inside
  <2>2. h.head \in KPage /\ OrderOf(h.size) \in Order /\ {h} \in SUBSET Held
    BY <1>4 DEF Tile
  <2>3. (h.head + n) - 1 \in KPage
    BY <1>5, <2>1
  <2> QED BY <2>2, <2>3 DEF u, HandTile, Tile
<1>10. V = Retiled(T, {t}, {u})
  BY <1>3 DEF Retiled, V, T
<1>11. Good(V) /\ (d /\ Whole(T) => Whole(V))
  BY <1>1, <1>5, <1>8, <1>9, <1>10, Retag
<1>12. Laid(L, HeldTiles(H \ {h}) \cup {u}, d)
  BY <1>1, <1>11 DEF Laid, V
<1> QED BY <1>12 DEF InHand, u

LEMMA Merges ==
  ASSUME Laid(lists, HeldTiles(held), exact), NEW h \in held, h.head \in KPage, Fits(h.size),
         NEW r, r = [head |-> h.head, last |-> (h.head + h.size) - 1],
         NEW e, e => exact /\ Size[OrderOf(h.size)] = h.size
  PROVE  Laid(MergeInto(r, OrderOf(h.size)), HeldTiles(held \ {h}), e)
<1> DEFINE k == OrderOf(h.size)
           R == HeldTiles(held \ {h})
           g == Grown(r, k)
           m == Stop(g, k)
<1>1. k \in Order /\ h.size <= Size[k] /\ h.size \in Nat \ {0}
  BY OrderFits DEF Fits
<1>2. Lists(lists)
  BY DEF Laid
<1>3. InHand(lists, R, k, h.head, (h.head + h.size) - 1, {h}, e)
  BY <1>1, ComesBack
<1>4. Others(R, {h}) /\ {h} \in SUBSET Held
  <2>1. HandTile(k, h.head, (h.head + h.size) - 1, {h}) \in Tile
    <3> HIDE DEF k, R
    <3> QED BY <1>3 DEF InHand, Laid, Good, Inside
  <2>2. {h} \in SUBSET Held
    BY <2>1 DEF HandTile, Tile
  <2> QED BY <2>2, OthersHeld
<1>5. r \in Run
  <2>1. HandTile(k, h.head, (h.head + h.size) - 1, {h}) \in Tile /\ HandTile(k, h.head, (h.head + h.size) - 1, {h}).last # NotAPage
    <3>1. HandTile(k, h.head, (h.head + h.size) - 1, {h}) \in Tile
      <4> HIDE DEF k, R
      <4> QED BY <1>3 DEF InHand, Laid, Good, Inside
    <3>2. (h.head + h.size) - 1 # NotAPage
      BY <1>1, Orders
    <3> QED BY <3>1, <3>2 DEF HandTile
  <2> QED BY <2>1 DEF HandTile, Tile, Run
<1>6. /\ g[k] = r
      /\ \A c \in k .. MaxOrder : g[c] \in Run
      /\ \A c \in k .. MaxOrder - 1 : g[c + 1] = Longer(g[c], lists[c])
  <2> HIDE DEF k
  <2> QED BY <1>1, <1>2, <1>5, GrownFacts
<1>7. /\ m \in k .. MaxOrder
      /\ \A c \in k .. m - 1 : c < MaxOrder /\ Neighbours(lists[c], g[c]) # {}
  <2> HIDE DEF k, g
  <2> QED BY <1>1, StopFacts
<1>8. MergeInto(r, k) = [Merged(g, k, m) EXCEPT ![m] = <<g[m]>> \o Merged(g, k, m)[m]]
  <2>1. MergeInto(r, k) = [c \in Order |->
          IF c = m THEN <<g[c]>> \o lists[c]
          ELSE IF k <= c /\ c < m
               THEN RemoveAt(lists[c], Min(Neighbours(lists[c], g[c])))
          ELSE lists[c]]
    BY DEF MergeInto
  <2> HIDE DEF m, k, g
  <2>2. m \in Order /\ Merged(g, k, m)[m] = lists[m]
    BY <1>1, <1>7, Orders DEF Merged
  <2> QED BY <2>1, <2>2 DEF Merged
<1> HIDE DEF k, R, g, m
<1>9. GrownTo(k, k, g, h, e)
  <2>1. Merged(g, k, k) = lists
    <3>1. \A d \in Order : ~ (k <= d /\ d < k)
      BY <1>1, Orders
    <3>2. lists = [d \in Order |-> lists[d]]
      BY <1>2 DEF Lists
    <3>3. Merged(g, k, k) = [d \in Order |-> lists[d]]
      BY <3>1, Zenon DEF Merged
    <3> QED BY <3>2, <3>3, Zenon
  <2>2. g[k].head = h.head /\ g[k].last = (h.head + h.size) - 1
    BY <1>6
  <2> QED BY <1>3, <2>1, <2>2 DEF GrownTo, R
<1>10. ASSUME NEW c \in k .. m - 1, GrownTo(c, k, g, h, e) PROVE GrownTo(c + 1, k, g, h, e)
  <2>1. /\ c \in Order /\ c + 1 \in Order /\ c >= k /\ c \in k .. MaxOrder - 1
    BY <1>1, <1>7, Orders
  <2>2. Neighbours(lists[c], g[c]) # {}
    BY <1>7
  <2>3. lists[c] \in Seq(Run) /\ IsInjective(lists[c]) /\ g[c] \in Run
    <3>1. lists[c] \in Seq(Run) /\ IsInjective(lists[c])
      BY <1>2, <2>1 DEF Lists
    <3>2. g[c] \in Run
      <4>1. c \in k .. MaxOrder
        BY <1>1, <2>1, Orders
      <4> QED BY <1>6, <4>1
    <3> QED BY <3>1, <3>2
  <2>4. PICK i : i = Min(Neighbours(lists[c], g[c]))
    OBVIOUS
  <2>5. PICK q : q = lists[c][i]
    OBVIOUS
  <2>6. i \in DOMAIN lists[c] /\ q \in Run /\ (g[c].last + 1 = q.head \/ q.last + 1 = g[c].head)
    BY <2>2, <2>3, <2>4, <2>5, FirstNeighbour
  <2>7. g[c + 1] = Joined(g[c], q)
    BY <1>6, <2>1, <2>2, <2>4, <2>5 DEF Longer
  <2>8. Merged(g, k, c)[c] = lists[c]
    BY <2>1, Orders DEF Merged
  <2>9. Merged(g, k, c + 1) = [Merged(g, k, c) EXCEPT ![c] = RemoveAt(lists[c], i)]
    <3>1. ASSUME NEW d \in Order PROVE (k <= d /\ d < c + 1) <=> (d = c \/ (k <= d /\ d < c))
      BY <2>1, Orders
    <3> QED BY <2>1, <2>4, <3>1 DEF Merged
  <2>10. Without(Run, lists[c], q, RemoveAt(lists[c], i))
    BY <2>3, <2>5, <2>6, WithoutNth
  <2>11. InHand(Merged(g, k, c), R, c, g[c].head, g[c].last, {h}, e)
    BY <1>10 DEF GrownTo, R
  <2>12. Lists(Merged(g, k, c))
    BY <2>11 DEF InHand, Laid
  <2>13. TakenOut(Merged(g, k, c + 1), Merged(g, k, c), c, q)
    BY <2>1, <2>8, <2>9, <2>10, <2>12, TakeOut
  <2>14. g[c] = [head |-> g[c].head, last |-> g[c].last]
    BY <2>3 DEF Run
  <2>15. InHand(Merged(g, k, c + 1), R, c + 1, Joined(g[c], q).head, Joined(g[c], q).last, {h}, e)
    BY <1>4, <2>1, <2>6, <2>11, <2>13, <2>14, JoinInHand
  <2> QED BY <2>7, <2>15 DEF GrownTo, R
<1>11. GrownTo(m, k, g, h, e)
  <2> DEFINE T == {c \in k .. m : GrownTo(c, k, g, h, e)}
  <2>1. k \in T /\ k \in Nat /\ m \in Nat /\ k <= m
    BY <1>1, <1>7, <1>9, Orders
  <2>2. ASSUME NEW c \in k .. m - 1, c \in T PROVE c + 1 \in T
    BY <1>10, <2>1, <2>2
  <2> HIDE DEF T
  <2>3. k .. m \subseteq T
    BY <2>1, <2>2, Upwards
  <2>4. m \in T
    BY <2>1, <2>3
  <2> QED BY <2>4 DEF T
<1>12. InHand(Merged(g, k, m), R, m, g[m].head, g[m].last, {h}, e) /\ m \in Order /\ g[m] \in Run
  BY <1>1, <1>6, <1>7, <1>11, Orders DEF GrownTo, R
<1>13. Laid(MergeInto(r, k), R, e)
  BY <1>4, <1>8, <1>12, PutFromHand
<1> QED BY <1>13 DEF k, R
-----------------------------------------------------------------------------
(***************************************************************************)
(* The lists at boot.                                                      *)
(***************************************************************************)

LEMMA LeftFalls ==
  ASSUME NEW j \in Order, NEW k \in Order, j <= k
  PROVE  Left[j] <= Left[k]
<1> DEFINE T == {c \in Order : Left[c] <= Left[k]}
<1>1. k \in T /\ j \in Nat /\ k \in Nat
  BY LeftFacts, Orders
<1>2. ASSUME NEW c \in j .. k - 1, c + 1 \in T PROVE c \in T
  <2>1. c \in Order /\ c + 1 \in Order /\ c \in 0 .. MaxOrder - 1
    BY <1>1, Orders
  <2>2. /\ Left[c] \in Nat /\ Left[c + 1] \in Nat /\ Size[c + 1] \in Nat /\ Left[k] \in Nat
        /\ Left[c] = IF Left[c + 1] >= Size[c + 1] THEN Left[c + 1] - Size[c + 1] ELSE Left[c + 1]
    BY <2>1, LeftFacts, Orders
  <2>3. Left[c + 1] <= Left[k]
    BY <1>2
  <2> QED BY <2>1, <2>2, <2>3
<1> HIDE DEF T
<1>3. j .. k \subseteq T
  BY <1>1, <1>2, Downwards
<1>4. j \in T
  BY <1>1, <1>3
<1> QED BY <1>4 DEF T

\* A run of boot lies within the area, and what is left behind it is for the
\* lower bits.
LEMMA BootRunFacts ==
  ASSUME NEW k \in Order, Left[k] >= Size[k]
  PROVE  LET r == BootRun(k) IN
         /\ r \in Run /\ Inside(FreeTile(k, r))
         /\ r.head = Base + (Pages - Left[k])
         /\ r.last \in {NotAPage, EndOf(r.head, k)}
         /\ \A j \in Order : j < k => EndOf(r.head, k) < Base + (Pages - Left[j])
<1> DEFINE r == BootRun(k)
           f == Base + (Pages - Left[k])
<1>1. PICK s, l, n : s = Size[k] /\ l = Left[k] /\ n = Pages
  OBVIOUS
<1>2. s \in Nat \ {0} /\ l \in Nat /\ n \in Nat /\ Base \in Nat /\ l >= s /\ l <= n
  <2>1. l <= n
    <3>1. MaxOrder \in Order /\ k <= MaxOrder
      BY Orders
    <3> QED BY <1>1, <3>1, LeftFalls, LeftFacts
  <2> QED BY <1>1, <2>1, LeftFacts, Orders
<1>3. f = Base + (n - l) /\ EndOf(f, k) = (Base + (n - l) + s) - 1
  BY <1>1 DEF EndOf
<1>4. f \in KPage /\ EndOf(f, k) \in KPage /\ f .. EndOf(f, k) \subseteq KPage
  <2>1. PICK z : z = EndOf(f, k)
    OBVIOUS
  <2>2. KPage = Base .. (Base + n) - 1
    BY <1>1, Orders
  <2> HIDE DEF f
  <2>3. f \in Int /\ z \in Int /\ Base <= f /\ f <= z /\ z <= (Base + n) - 1
    BY <1>2, <1>3, <2>1
  <2> QED BY <1>2, <2>1, <2>2, <2>3
<1>5. r.head = f /\ r = [head |-> f, last |-> IF k = 0 THEN NotAPage ELSE f + (s - 1)]
  BY <1>1 DEF BootRun
<1>6. f + (s - 1) = EndOf(f, k)
  BY <1>2, <1>3
<1> HIDE DEF f
<1>7. r.last \in {NotAPage, EndOf(f, k)} /\ r \in Run
  BY <1>4, <1>5, <1>6 DEF Run
<1>8. Inside(FreeTile(k, r))
  <2>1. /\ FreeTile(k, r).order = k /\ FreeTile(k, r).head = f /\ FreeTile(k, r).last = r.last
        /\ FreeTile(k, r) \in Tile
    BY <1>4, <1>5, <1>7 DEF FreeTile, Tile, Run
  <2>2. Span(FreeTile(k, r)) = f .. EndOf(f, k)
    BY <2>1 DEF Span
  <2>3. EndOf(f, k) \in f .. EndOf(f, k)
    BY <1>2, <1>3, <1>4, Orders DEF f
  <2> QED BY <1>4, <1>7, <2>1, <2>2, <2>3 DEF Inside
<1>9. ASSUME NEW j \in Order, j < k PROVE EndOf(f, k) < Base + (Pages - Left[j])
  <2>1. k - 1 \in Order /\ j <= k - 1 /\ k - 1 \in 0 .. MaxOrder - 1 /\ (k - 1) + 1 = k
    BY <1>9, Orders
  <2>2. Left[k - 1] = l - s
    BY <1>1, <2>1, LeftFacts
  <2>3. Left[j] <= l - s /\ Left[j] \in Nat
    BY <2>1, <2>2, LeftFalls, LeftFacts
  <2> QED BY <1>1, <1>2, <1>3, <2>3
<1> QED BY <1>5, <1>7, <1>8, <1>9 DEF f

LEMMA BootTile ==
  ASSUME NEW t \in FreeTiles(BootLists)
  PROVE  \E k \in Order : Left[k] >= Size[k] /\ t = FreeTile(k, BootRun(k))
<1>1. PICK k \in Order : t \in {FreeTile(k, r) : r \in ToSet(BootLists[k])}
  BY DEF FreeTiles
<1>2. PICK r \in ToSet(BootLists[k]) : t = FreeTile(k, r)
  BY <1>1
<1>3. BootLists[k] = IF Left[k] >= Size[k] THEN <<BootRun(k)>> ELSE <<>>
  BY DEF BootLists
<1>4. Left[k] >= Size[k] /\ r = BootRun(k)
  BY <1>2, <1>3 DEF ToSet
<1> QED BY <1>2, <1>4

\* The runs of two bits do not overlap.
LEMMA BootRunsApart ==
  ASSUME NEW j \in Order, NEW k \in Order, j < k, Left[j] >= Size[j], Left[k] >= Size[k]
  PROVE  Span(FreeTile(j, BootRun(j))) \cap Span(FreeTile(k, BootRun(k))) = {}
<1>1. PICK f, g, z : f = BootRun(j).head /\ g = BootRun(k).head /\ z = EndOf(g, k)
  OBVIOUS
<1>2. z < f /\ f \in Int /\ g \in Int /\ z \in Int
  <2>1. z < f
    BY <1>1, BootRunFacts
  <2>2. f \in Int /\ g \in Int
    BY <1>1, BootRunFacts, Orders DEF Run
  <2> QED BY <1>1, <2>1, <2>2, Orders DEF EndOf
<1>3. Span(FreeTile(j, BootRun(j))) = f .. EndOf(f, j) /\ Span(FreeTile(k, BootRun(k))) = g .. z
  BY <1>1 DEF Span, FreeTile
<1> QED BY <1>2, <1>3

LEMMA BootLaid == Laid(BootLists, {}, TRUE)
<1>1. Lists(BootLists)
  <2>1. ASSUME NEW k \in Order PROVE BootLists[k] \in Seq(Run) /\ IsInjective(BootLists[k])
    <3>1. CASE Left[k] >= Size[k]
      <4>1. BootLists[k] = <<BootRun(k)>>
        BY <3>1 DEF BootLists
      <4>2. BootRun(k) \in Run
        BY <3>1, BootRunFacts
      <4> QED BY <4>1, <4>2 DEF IsInjective
    <3>2. CASE ~ (Left[k] >= Size[k])
      BY <3>2 DEF BootLists, IsInjective
    <3> QED BY <3>1, <3>2
  <2>2. BootLists = [k \in Order |-> BootLists[k]]
    BY DEF BootLists
  <2> HIDE DEF BootLists
  <2> QED BY <2>1, <2>2 DEF Lists
<1>2. ASSUME NEW t \in FreeTiles(BootLists) PROVE Inside(t) /\ t.last \in {NotAPage, EndOf(t.head, t.order)}
  <2>1. PICK k \in Order : Left[k] >= Size[k] /\ t = FreeTile(k, BootRun(k))
    BY BootTile
  <2>2. Inside(FreeTile(k, BootRun(k))) /\ BootRun(k).last \in {NotAPage, EndOf(BootRun(k).head, k)}
    BY <2>1, BootRunFacts
  <2> QED BY <2>1, <2>2 DEF FreeTile
<1>3. ASSUME NEW t \in FreeTiles(BootLists), NEW u \in FreeTiles(BootLists) PROVE Apart(t, u)
  <2>1. PICK j \in Order : Left[j] >= Size[j] /\ t = FreeTile(j, BootRun(j))
    BY BootTile
  <2>2. PICK k \in Order : Left[k] >= Size[k] /\ u = FreeTile(k, BootRun(k))
    BY BootTile
  <2>3. CASE j < k
    BY <2>1, <2>2, <2>3, BootRunsApart DEF Apart
  <2>4. CASE k < j
    BY <2>1, <2>2, <2>4, BootRunsApart DEF Apart
  <2>5. CASE j = k
    BY <2>1, <2>2, <2>5 DEF Apart
  <2> QED BY <2>3, <2>4, <2>5, Orders
<1>4. ASSUME NEW p \in KPage PROVE p \in Covered(FreeTiles(BootLists))
  <2> DEFINE I == {c \in Order : Base + (Pages - Left[c]) <= p}
  <2>1. I \in SUBSET Nat /\ MaxOrder \in I
    BY LeftFacts, Orders
  <2>2. PICK k \in I : \A y \in I : k <= y
    <3> HIDE DEF I
    <3> QED BY <2>1, Least
  <2>3. PICK s, l : s = Size[k] /\ l = Left[k]
    OBVIOUS
  <2>4. k \in Order /\ s \in Nat \ {0} /\ l \in Nat /\ l < 2 * s /\ Base + (Pages - l) <= p
    BY <2>2, <2>3, Orders, LeftFacts
  <2>5. l >= s /\ p <= (Base + (Pages - l) + s) - 1
    <3>1. CASE k = 0
      <4>1. s = 1
        BY <2>3, <3>1, SizeFacts
      <4>2. p <= (Base + Pages) - 1 /\ p \in Nat
        BY Orders
      <4> QED BY <2>4, <4>1, <4>2, Orders
    <3>2. CASE k # 0
      <4>1. k - 1 \in Order /\ k - 1 \in 0 .. MaxOrder - 1 /\ (k - 1) + 1 = k /\ ~ (k <= k - 1)
        BY <2>4, <3>2, Orders
      <4>2. Left[k - 1] = IF l >= s THEN l - s ELSE l
        BY <2>3, <4>1, LeftFacts
      <4>3. ~ (Base + (Pages - Left[k - 1]) <= p)
        BY <2>2, <4>1
      <4>4. p \in Nat /\ Base \in Nat /\ Pages \in Nat
        BY Orders
      <4> QED BY <2>4, <4>2, <4>3, <4>4
    <3> QED BY <3>1, <3>2
  <2>6. FreeTile(k, BootRun(k)) \in FreeTiles(BootLists)
    <3>1. BootLists[k] = <<BootRun(k)>>
      BY <2>3, <2>4, <2>5 DEF BootLists
    <3>2. BootRun(k) \in ToSet(BootLists[k])
      BY <3>1 DEF ToSet
    <3> QED BY <2>4, <3>2, TileInLists
  <2>7. p \in Span(FreeTile(k, BootRun(k)))
    <3>1. BootRun(k).head = Base + (Pages - l)
      BY <2>3, <2>4, <2>5, BootRunFacts
    <3>2. Span(FreeTile(k, BootRun(k))) = Base + (Pages - l) .. (Base + (Pages - l) + s) - 1
      BY <2>3, <3>1 DEF Span, FreeTile, EndOf
    <3>3. p \in Int /\ Base + (Pages - l) \in Int /\ s \in Int
      BY <2>4, Orders
    <3> QED BY <2>4, <2>5, <3>2, <3>3
  <2> QED BY <2>6, <2>7 DEF Covered
<1>5. FreeTiles(BootLists) \cup {} = FreeTiles(BootLists)
  OBVIOUS
<1> QED BY <1>1, <1>2, <1>3, <1>4, <1>5 DEF Laid, Good, Whole, EndsRight
-----------------------------------------------------------------------------
(***************************************************************************)
(* Counts.                                                                 *)
(***************************************************************************)

\* The pages on which the run of h is counted.
Ends(h) == {h.head, EndOf(h.head, OrderOf(h.size))}

LEMMA EndsInSpan ==
  ASSUME NEW h, Inside(HeldTile(h))
  PROVE  Ends(h) \subseteq Span(HeldTile(h)) /\ h.head \in KPage /\ h \in Held
<1>1. /\ HeldTile(h).head = h.head /\ HeldTile(h).order = OrderOf(h.size)
      /\ HeldTile(h).of = {h} /\ HeldTile(h) \in Tile
  BY DEF HeldTile, Inside
<1>2. h.head \in KPage /\ h \in Held
  BY <1>1 DEF Tile
<1> QED BY <1>1, <1>2, HeadInSpan DEF Ends

\* The runs of two holders do not overlap.
LEMMA HoldersApart ==
  ASSUME NEW L, NEW H, NEW e, Laid(L, HeldTiles(H), e),
         NEW g \in H, NEW h \in H, g # h, g.head \in KPage, h.head \in KPage
  PROVE  /\ Span(HeldTile(g)) \cap Span(HeldTile(h)) = {}
         /\ Inside(HeldTile(g)) /\ Inside(HeldTile(h))
<1>1. HeldTile(g) \in HeldTiles(H) /\ HeldTile(h) \in HeldTiles(H)
  BY DEF HeldTiles
<1>2. HeldTile(g).of = {g} /\ HeldTile(h).of = {h}
  BY DEF HeldTile
<1>3. HeldTile(g) # HeldTile(h)
  BY <1>2
<1> QED BY <1>1, <1>3 DEF Laid, Good, Apart

\* divide_update_subpages counts a run that was not counted.
LEMMA CountsUp ==
  ASSUME NEW H, NEW h, NEW f, NEW k \in Order, count \in [KPage -> 0 .. CountMax],
         h.head \in KPage, f = h.head, k = OrderOf(h.size),
         \A g \in H : g.head \in KPage => Ends(g) \cap Ends(h) = {},
         Counted(count, H)
  PROVE  Counted(CountRun(f, k), H \cup {h})
<1>1. f + (Size[k] - 1) = EndOf(f, k) /\ Ends(h) = {f, EndOf(f, k)}
  <2>1. f \in Int /\ Size[k] \in Int
    BY Orders
  <2> QED BY <2>1 DEF EndOf, Ends
<1>2. CountMax # 0 /\ Up(0) = 1
  BY PageAssumption DEF Up
<1>3. \A p \in KPage : CountRun(f, k)[p] = IF p \in Ends(h) THEN Up(count[p]) ELSE count[p]
  BY <1>1 DEF CountRun
<1> SUFFICES ASSUME NEW p \in KPage
             PROVE  CountRun(f, k)[p] = IF \E g \in H \cup {h} : g.head \in KPage /\ p \in Ends(g) THEN 1 ELSE 0
  BY DEF Counted, Ends
<1>4. count[p] = IF \E g \in H : g.head \in KPage /\ p \in Ends(g) THEN 1 ELSE 0
  BY DEF Counted, Ends
<1>5. CASE p \in Ends(h)
  <2>1. ~ \E g \in H : g.head \in KPage /\ p \in Ends(g)
    BY <1>5
  <2> QED BY <1>2, <1>3, <1>4, <1>5, <2>1
<1>6. CASE p \notin Ends(h)
  BY <1>3, <1>4, <1>6
<1> QED BY <1>5, <1>6

\* merge_update_subpages takes back what divide_update_subpages counted.
LEMMA CountsDown ==
  ASSUME NEW H, NEW h \in H, count \in [KPage -> 0 .. CountMax],
         h.head \in KPage, OrderOf(h.size) \in Order, Size[OrderOf(h.size)] = h.size,
         \A g \in H \ {h} : g.head \in KPage => Ends(g) \cap Ends(h) = {},
         Counted(count, H)
  PROVE  /\ Counted(UncountRun(h.head, h.size), H \ {h})
         /\ UncountRun(h.head, h.size)[h.head] = 0
<1> DEFINE U == UncountRun(h.head, h.size)
<1>1. h.head + (h.size - 1) = EndOf(h.head, OrderOf(h.size)) /\ h.head \in Ends(h)
  <2>1. h.head \in Int /\ h.size \in Int
    BY Orders
  <2> QED BY <2>1 DEF EndOf, Ends
<1>2. Down(1) = 0
  BY DEF Down
<1>3. \A p \in KPage : U[p] = IF p \in Ends(h) THEN Down(count[p]) ELSE count[p]
  BY <1>1 DEF UncountRun, Ends
<1> HIDE DEF U
<1>4. ASSUME NEW p \in KPage
      PROVE  U[p] = IF \E g \in H \ {h} : g.head \in KPage /\ p \in Ends(g) THEN 1 ELSE 0
  <2>1. count[p] = IF \E g \in H : g.head \in KPage /\ p \in Ends(g) THEN 1 ELSE 0
    BY DEF Counted, Ends
  <2>2. CASE p \in Ends(h)
    <3>1. ~ \E g \in H \ {h} : g.head \in KPage /\ p \in Ends(g)
      BY <2>2
    <3>2. count[p] = 1
      BY <2>1, <2>2
    <3> QED BY <1>2, <1>3, <2>2, <3>1, <3>2
  <2>3. CASE p \notin Ends(h)
    <3>1. (\E g \in H : g.head \in KPage /\ p \in Ends(g)) <=> (\E g \in H \ {h} : g.head \in KPage /\ p \in Ends(g))
      BY <2>3
    <3> QED BY <1>3, <2>1, <2>3, <3>1
  <2> QED BY <2>2, <2>3
<1>5. Counted(U, H \ {h})
  BY <1>4 DEF Counted, Ends
<1>6. U[h.head] = 0
  <2>1. count[h.head] = 1
    BY <1>1 DEF Counted, Ends
  <2> QED BY <1>1, <1>2, <1>3, <2>1
<1> QED BY <1>5, <1>6 DEF U

LEMMA CountTypes ==
  ASSUME count \in [KPage -> 0 .. CountMax], NEW f, NEW k, NEW n
  PROVE  CountRun(f, k) \in [KPage -> 0 .. CountMax] /\ UncountRun(f, n) \in [KPage -> 0 .. CountMax]
<1>1. \A v \in 0 .. CountMax : Up(v) \in 0 .. CountMax /\ Down(v) \in 0 .. CountMax
  BY PageAssumption DEF Up, Down
<1>2. CountRun(f, k) \in [KPage -> 0 .. CountMax]
  BY <1>1 DEF CountRun
<1>3. UncountRun(f, n) \in [KPage -> 0 .. CountMax]
  BY <1>1 DEF UncountRun
<1> QED BY <1>2, <1>3
-----------------------------------------------------------------------------
(***************************************************************************)
(* The steps.                                                              *)
(***************************************************************************)

\* The single pages of the lazy list, at boot and later.
LEMMA AppsAtBoot == SetToSeq(AppPage) \in Seq(AppPage) /\ IsInjective(SetToSeq(AppPage))
<1> DEFINE n == Cardinality(AppPage)
           P(f) == f \in [1 .. n -> AppPage] /\ IsInjective(f)
<1>1. n \in Nat /\ ExistsBijection(1 .. n, AppPage)
  BY PageAssumption, FS_CardinalityType
<1>2. PICK b : b \in Bijection(1 .. n, AppPage)
  BY <1>1 DEF ExistsBijection
<1>3. P(b)
  BY <1>2 DEF Bijection, Injection, IsInjective
<1>4. SetToSeq(AppPage) = CHOOSE f : P(f)
  BY DEF SetToSeq
<1>5. P(SetToSeq(AppPage))
  <2> HIDE DEF P
  <2> QED BY <1>3, <1>4, Zenon
<1> HIDE DEF n
<1>6. SetToSeq(AppPage) \in Seq(AppPage)
  BY <1>1, <1>5, IsASeq
<1> QED BY <1>5, <1>6

LEMMA InitInv == Init => PInv
<1> SUFFICES ASSUME Init PROVE PInv
  OBVIOUS
<1>1. HeldTiles(held) = {}
  BY DEF Init, HeldTiles
<1>2. Laid(lists, HeldTiles(held), exact)
  BY <1>1, BootLaid DEF Init
<1>3. lists \in [Order -> Seq(Run)]
  BY <1>2 DEF Laid, Lists
<1>4. TypeOK
  BY <1>3, AppsAtBoot, PageAssumption DEF Init, TypeOK
<1>5. AppsApart /\ SizesFit
  BY AppsAtBoot DEF Init, AppsApart, SizesFit
<1>6. Counted(count, held)
  BY DEF Init, Counted
<1> QED BY <1>2, <1>4, <1>5, <1>6 DEF PInv

\* divide_list_range finds the first list that has a run that is large enough.
LEMMA SourceFacts ==
  ASSUME NEW k \in Order, Sources(k) # {}
  PROVE  Min(Sources(k)) \in Order /\ Min(Sources(k)) >= k /\ lists[Min(Sources(k))] # <<>>
<1> DEFINE I == Sources(k)
<1>1. I \in SUBSET Nat
  BY Orders DEF Sources
<1>2. Min(I) \in I
  <2> HIDE DEF I
  <2>1. I # {}
    BY DEF I
  <2> QED BY <1>1, <2>1, MinIn
<1> QED BY <1>2 DEF Sources

LEMMA NotAnApp == ASSUME NEW p \in KPage PROVE p \notin AppPage
BY PageAssumption

LEMMA DivideStep ==
  ASSUME PInv, NEW n, Fits(n), NEW by \in Holder, by = "box" => n = 1, Divide(n, by)
  PROVE  PInv'
<1> DEFINE k == OrderOf(n)
           s == Min(Sources(k))
           f == Head(lists[s]).head
           h == [head |-> f, size |-> n, by |-> by]
<1>1. k \in Order
  BY OrderFits
<1>2. s \in Order /\ s >= k /\ lists[s] # <<>>
  <2>1. Sources(k) # {}
    BY DEF Divide
  <2> HIDE DEF k
  <2> QED BY <1>1, <2>1, SourceFacts
<1>3. /\ lists' = Cut(s, k) /\ count' = CountRun(f, k) /\ held' = held \cup {h}
      /\ apps' = apps /\ exact' = exact
  BY DEF Divide
<1>4. h = [head |-> f, size |-> n, by |-> by] /\ h.head = f /\ h.size = n /\ h.by = by
  OBVIOUS
<1>5. Laid(lists, HeldTiles(held), exact) /\ TypeOK /\ AppsApart /\ SizesFit
  BY DEF PInv
<1> HIDE DEF h, s
<1>6. /\ Laid(Cut(s, k), HeldTiles(held \cup {h}), exact)
      /\ h \notin held /\ h \in Held /\ h.head \in KPage
      /\ FreeTile(s, Head(lists[s])) \in FreeTiles(lists)
      /\ Span(HeldTile(h)) \subseteq Span(FreeTile(s, Head(lists[s])))
  BY <1>2, <1>4, <1>5, Divides
<1>7. Laid(lists', HeldTiles(held'), exact')
  BY <1>3, <1>6
<1>8. TypeOK'
  <2>1. lists' \in [Order -> Seq(Run)]
    BY <1>7 DEF Laid, Lists
  <2>2. count' \in [KPage -> 0 .. CountMax]
    BY <1>3, <1>5, CountTypes DEF TypeOK
  <2> QED BY <1>3, <1>5, <1>6, <2>1, <2>2 DEF TypeOK
<1>9. AppsApart'
  <2>1. h.head \notin AppPage
    BY <1>6, NotAnApp
  <2> QED BY <1>3, <1>5, <2>1 DEF AppsApart
<1>10. SizesFit'
  BY <1>3, <1>4, <1>5 DEF SizesFit
<1>11. ASSUME exact' PROVE Counted(count', held')
  <2>1. Counted(count, held)
    BY <1>3, <1>11 DEF PInv
  <2>2. ASSUME NEW g \in held, g.head \in KPage PROVE Ends(g) \cap Ends(h) = {}
    <3>1. Span(FreeTile(s, Head(lists[s]))) \cap Span(HeldTile(g)) = {} /\ Inside(HeldTile(g))
      BY <1>5, <1>6, <2>2, NotFree
    <3>2. Ends(g) \subseteq Span(HeldTile(g))
      BY <3>1, EndsInSpan
    <3>3. HeldTile(h) \in HeldTiles(held \cup {h})
      BY <1>6 DEF HeldTiles
    <3>4. Inside(HeldTile(h))
      BY <1>6, <3>3 DEF Laid, Good
    <3>5. Ends(h) \subseteq Span(HeldTile(h))
      BY <3>4, EndsInSpan
    <3> QED BY <1>6, <3>1, <3>2, <3>5
  <2>3. Counted(CountRun(f, k), held \cup {h})
    <3>1. count \in [KPage -> 0 .. CountMax]
      BY <1>5 DEF TypeOK
    <3> HIDE DEF f
    <3> QED BY <1>1, <1>4, <1>6, <2>1, <2>2, <3>1, CountsUp
  <2> QED BY <1>3, <2>3
<1> QED BY <1>7, <1>8, <1>9, <1>10, <1>11 DEF PInv

LEMMA LazyStep ==
  ASSUME PInv, apps # <<>>,
         NEW h, h = [head |-> Head(apps), size |-> 1, by |-> "box"],
         apps' = Tail(apps), held' = held \cup {h}, UNCHANGED <<lists, count, exact>>
  PROVE  PInv'
<1>1. Laid(lists, HeldTiles(held), exact) /\ TypeOK /\ AppsApart /\ SizesFit
  BY DEF PInv
<1>2. Without(AppPage, apps, Head(apps), Tail(apps))
  BY <1>1, WithoutHead DEF TypeOK, AppsApart
<1>3. h.head \in AppPage /\ h.head \notin KPage /\ h \in Held /\ h.size = 1 /\ h.by = "box" /\ h.head = Head(apps)
  <2>1. Head(apps) \in AppPage
    BY <1>2 DEF Without
  <2>2. Head(apps) \notin KPage
    BY <2>1, NotAnApp
  <2> QED BY <2>1, <2>2 DEF Held, Holder
<1>4. HeldTiles(held') = HeldTiles(held)
  BY <1>3 DEF HeldTiles
<1>5. TypeOK'
  BY <1>1, <1>2, <1>3 DEF TypeOK, Without
<1>6. AppsApart'
  BY <1>1, <1>2, <1>3 DEF AppsApart, Without
<1>7. SizesFit'
  BY <1>1, <1>3, OneFits DEF SizesFit
<1>8. exact' => Counted(count', held')
  <2>1. exact => Counted(count, held)
    BY DEF PInv
  <2>2. Counted(count, held) => Counted(count, held')
    BY <1>3 DEF Counted
  <2> QED BY <2>1, <2>2
<1> QED BY <1>1, <1>4, <1>5, <1>6, <1>7, <1>8 DEF PInv

\* A holder that goes: nobody else is concerned.
LEMMA FewerHolders ==
  ASSUME TypeOK, AppsApart, SizesFit, NEW h, held' = held \ {h}, apps' = apps
  PROVE  /\ held' \subseteq Held /\ AppsApart' /\ SizesFit'
BY DEF TypeOK, AppsApart, SizesFit

LEMMA MergeStep ==
  ASSUME PInv, NEW h \in held, h.head \in KPage, Merge(h.head, h.size), held' = held \ {h}
  PROVE  PInv'
<1> DEFINE k == OrderOf(h.size)
           r == [head |-> h.head, last |-> (h.head + h.size) - 1]
           R == HeldTiles(held \ {h})
<1>1. Laid(lists, HeldTiles(held), exact) /\ TypeOK /\ AppsApart /\ SizesFit
  BY DEF PInv
<1>2. Fits(h.size) /\ k \in Order /\ h.head \in Int /\ h.size \in Int
  <2>1. Fits(h.size)
    BY <1>1 DEF SizesFit
  <2> QED BY <2>1, OrderFits, Orders DEF Fits
<1>3. r = [head |-> h.head, last |-> h.head + (h.size - 1)]
  BY <1>2
<1>4. /\ count' = UncountRun(h.head, h.size)
      /\ lists' = IF count'[h.head] > 0 THEN lists ELSE MergeInto(r, k)
      /\ exact' = (exact /\ Size[k] = h.size)
      /\ apps' = apps
  BY <1>3 DEF Merge
<1>5. ASSUME exact'
      PROVE  exact /\ Size[k] = h.size /\ Counted(count', held') /\ count'[h.head] = 0
  <2>1. exact /\ Size[k] = h.size /\ Counted(count, held)
    BY <1>4, <1>5 DEF PInv
  <2>2. ASSUME NEW g \in held \ {h}, g.head \in KPage PROVE Ends(g) \cap Ends(h) = {}
    <3>1. /\ Span(HeldTile(g)) \cap Span(HeldTile(h)) = {}
          /\ Inside(HeldTile(g)) /\ Inside(HeldTile(h))
      BY <1>1, <2>2, HoldersApart
    <3>2. Ends(g) \subseteq Span(HeldTile(g)) /\ Ends(h) \subseteq Span(HeldTile(h))
      BY <3>1, EndsInSpan
    <3> QED BY <3>1, <3>2
  <2>3. count \in [KPage -> 0 .. CountMax]
    BY <1>1 DEF TypeOK
  <2>4. Counted(UncountRun(h.head, h.size), held \ {h}) /\ UncountRun(h.head, h.size)[h.head] = 0
    BY <1>2, <2>1, <2>2, <2>3, CountsDown
  <2> QED BY <1>4, <2>1, <2>4
<1>6. Laid(lists', R, exact')
  <2>1. CASE count'[h.head] > 0
    <3>1. ~ exact'
      BY <1>5, <2>1
    <3>2. Good(FreeTiles(lists) \cup R) /\ Lists(lists)
      <4>1. R \subseteq HeldTiles(held)
        BY DEF HeldTiles
      <4> HIDE DEF R
      <4> QED BY <1>1, <4>1 DEF Laid, Good
    <3>3. lists' = lists
      BY <1>4, <2>1
    <3> QED BY <3>1, <3>2, <3>3 DEF Laid
  <2>2. CASE ~ (count'[h.head] > 0)
    <3>1. lists' = MergeInto(r, k)
      BY <1>4, <2>2
    <3>2. PICK e : e = exact'
      OBVIOUS
    <3>3. e => exact /\ Size[OrderOf(h.size)] = h.size
      BY <1>5, <3>2
    <3>4. PICK q : q = r
      OBVIOUS
    <3>5. Laid(MergeInto(q, OrderOf(h.size)), HeldTiles(held \ {h}), e)
      BY <1>1, <1>2, <3>3, <3>4, Merges
    <3> QED BY <3>1, <3>2, <3>4, <3>5
  <2> QED BY <2>1, <2>2
<1>7. TypeOK'
  <2>1. lists' \in [Order -> Seq(Run)]
    BY <1>6 DEF Laid, Lists
  <2>2. count' \in [KPage -> 0 .. CountMax]
    BY <1>1, <1>4, CountTypes DEF TypeOK
  <2>3. exact' \in BOOLEAN
    BY <1>4
  <2>4. held' \subseteq Held
    BY <1>1 DEF TypeOK
  <2> QED BY <1>1, <1>4, <2>1, <2>2, <2>3, <2>4 DEF TypeOK
<1>8. AppsApart' /\ SizesFit'
  BY <1>1, <1>4, FewerHolders
<1>9. Laid(lists', HeldTiles(held'), exact')
  BY <1>6
<1> QED BY <1>5, <1>7, <1>8, <1>9 DEF PInv

LEMMA UnheldAppStep ==
  ASSUME PInv, NEW h \in held, h.head \in AppPage,
         UNCHANGED <<lists, count, apps, exact>>, held' = held \ {h}
  PROVE  PInv'
<1>1. Laid(lists, HeldTiles(held), exact) /\ TypeOK /\ AppsApart /\ SizesFit
  BY DEF PInv
<1>2. h.head \notin KPage
  BY NotAnApp
<1>3. HeldTiles(held') = HeldTiles(held)
  BY <1>2 DEF HeldTiles
<1>4. exact' => Counted(count', held')
  <2>1. exact => Counted(count, held)
    BY DEF PInv
  <2>2. Counted(count, held) => Counted(count, held')
    BY <1>2 DEF Counted
  <2> QED BY <2>1, <2>2
<1>5. AppsApart' /\ SizesFit'
  BY <1>1, FewerHolders
<1>6. TypeOK'
  BY <1>1 DEF TypeOK
<1> QED BY <1>1, <1>3, <1>4, <1>5, <1>6 DEF PInv

LEMMA GiveStep ==
  ASSUME PInv, NEW h \in held, GiveBack(h) \/ GiveBackApps(h)
  PROVE  PInv' /\ held' = held \ {h}
<1>1. TypeOK /\ AppsApart /\ SizesFit /\ h \in Held
  BY DEF PInv, TypeOK
<1>2. held' = held \ {h}
  BY DEF GiveBack, GiveBackApps
<1>3. CASE h.head \in AppPage
  <2>1. h.by = "box" /\ UNCHANGED <<lists, count, apps, exact>>
    BY <1>1, <1>3 DEF AppsApart, GiveBack, GiveBackApps
  <2> QED BY <1>2, <1>3, <2>1, UnheldAppStep
<1>4. CASE h.head \notin AppPage
  <2>1. h.head \in KPage
    BY <1>1, <1>4 DEF Held
  <2>2. Merge(h.head, h.size)
    BY <1>1, <1>4 DEF GiveBack, GiveBackApps, SizesFit
  <2> QED BY <1>2, <2>1, <2>2, MergeStep
<1> QED BY <1>3, <1>4

LEMMA DivideAppsStep ==
  ASSUME PInv, DivideApps
  PROVE  PInv'
<1>1. CASE apps = <<>>
  BY <1>1, OneFits, DivideStep DEF DivideApps, Holder
<1>2. CASE apps # <<>>
  <2>1. PICK h : h = [head |-> Head(apps), size |-> 1, by |-> "box"]
    OBVIOUS
  <2>2. /\ apps' = Tail(apps) /\ held' = held \cup {h} /\ UNCHANGED <<lists, count, exact>>
    BY <1>2, <2>1 DEF DivideApps
  <2> QED BY <1>2, <2>1, <2>2, LazyStep
<1> QED BY <1>1, <1>2

LEMMA StepInv == PInv /\ [Next]_vars => PInv'
<1> SUFFICES ASSUME PInv, [Next]_vars PROVE PInv'
  OBVIOUS
<1>1. ASSUME NEW n \in PoolSizes, Divide(n, "pool") PROVE PInv'
  BY <1>1, AskedFit, DivideStep DEF Holder
<1>2. ASSUME NEW n \in KernelSizes, Divide(n, "kernel") PROVE PInv'
  BY <1>2, AskedFit, DivideStep DEF Holder
<1>3. CASE DivideApps
  BY <1>3, DivideAppsStep
<1>4. ASSUME NEW h \in held, GiveBack(h) \/ GiveBackApps(h) PROVE PInv'
  BY <1>4, GiveStep
<1>5. CASE UNCHANGED vars
  BY <1>5 DEF vars, PInv, TypeOK, AppsApart, SizesFit
<1> QED BY <1>1, <1>2, <1>3, <1>4, <1>5 DEF Next

LEMMA Always == Spec => []PInv
BY InitInv, StepInv, PTL DEF Spec
-----------------------------------------------------------------------------
(***************************************************************************)
(* The theorems.                                                           *)
(***************************************************************************)

\* The pages of free runs and of holders are those of their tiles.
LEMMA PagesOfRun ==
  ASSUME Lists(lists), NEW x \in FreeRuns
  PROVE  LET t == FreeTile(x[1], lists[x[1]][x[2]]) IN
         /\ x[1] \in Order /\ x[2] \in DOMAIN lists[x[1]] /\ x = <<x[1], x[2]>>
         /\ lists[x[1]][x[2]] \in Run /\ t \in FreeTiles(lists)
         /\ FreePages(x[1], x[2]) = Span(t)
         /\ lists[x[1]][x[2]].head + (Size[x[1]] - 1) = EndOf(lists[x[1]][x[2]].head, x[1])
<1>1. PICK c \in Order : x \in {<<c, i>> : i \in DOMAIN lists[c]}
  BY DEF FreeRuns
<1>2. PICK i \in DOMAIN lists[c] : x = <<c, i>>
  BY <1>1
<1>3. x[1] = c /\ x[2] = i
  BY <1>2
<1>4. PICK r : r = lists[c][i]
  OBVIOUS
<1>5. r \in Run /\ r \in ToSet(lists[c])
  <2>1. lists[c] \in Seq(Run)
    BY DEF Lists
  <2> QED BY <1>4, <2>1, LenProperties, ElementOfSeq DEF ToSet
<1>6. FreeTile(c, r) \in FreeTiles(lists)
  BY <1>5, TileInLists
<1>7. r.head + (Size[c] - 1) = EndOf(r.head, c)
  <2>1. r.head \in Int /\ Size[c] \in Int
    BY <1>5, Orders DEF Run
  <2> QED BY <2>1 DEF EndOf
<1>8. FreePages(c, i) = Span(FreeTile(c, r))
  <2>1. FreePages(c, i) = r.head .. (r.head + (Size[c] - 1))
    BY <1>4 DEF FreePages
  <2>2. Span(FreeTile(c, r)) = r.head .. EndOf(r.head, c)
    BY DEF Span, FreeTile
  <2> QED BY <1>7, <2>1, <2>2
<1> QED BY <1>2, <1>3, <1>4, <1>5, <1>6, <1>7, <1>8

LEMMA RunOfTile ==
  ASSUME Lists(lists), NEW t \in FreeTiles(lists)
  PROVE  \E x \in FreeRuns : t = FreeTile(x[1], lists[x[1]][x[2]])
<1>1. PICK c \in Order : t \in {FreeTile(c, r) : r \in ToSet(lists[c])}
  BY DEF FreeTiles
<1>2. PICK r \in ToSet(lists[c]) : t = FreeTile(c, r)
  BY <1>1
<1>3. PICK i \in DOMAIN lists[c] : r = lists[c][i]
  BY DEF ToSet
<1>4. <<c, i>> \in {<<c, j>> : j \in DOMAIN lists[c]}
  OBVIOUS
<1>5. <<c, i>> \in FreeRuns
  BY <1>4, Zenon DEF FreeRuns
<1> QED BY <1>2, <1>3, <1>5

LEMMA PagesOfHolder ==
  ASSUME NEW h \in Held, Fits(h.size)
  PROVE  /\ h.head \in KPage => HeldPages(h) = Span(HeldTile(h))
         /\ h.size = 1 => HeldPages(h) = {h.head}
         /\ HeldPages(h) = h.head .. EndOf(h.head, OrderOf(h.size))
         /\ h.head \in HeldPages(h) /\ h.head <= EndOf(h.head, OrderOf(h.size))
         /\ EndOf(h.head, OrderOf(h.size)) \in HeldPages(h)
<1>1. PICK f, s : f = h.head /\ s = Size[OrderOf(h.size)]
  OBVIOUS
<1>2. f \in Nat /\ s \in Nat \ {0}
  <2>1. f \in KPage \cup AppPage /\ OrderOf(h.size) \in Order
    BY <1>1, OrderFits DEF Held
  <2>2. KPage \subseteq Nat /\ AppPage \subseteq Nat
    BY Orders, PageAssumption
  <2>3. s \in Nat \ {0}
    BY <1>1, <2>1, Orders
  <2> QED BY <1>1, <2>1, <2>2, <2>3
<1>3. EndOf(h.head, OrderOf(h.size)) = (f + s) - 1 /\ HeldPages(h) = f .. f + (s - 1)
  BY <1>1 DEF EndOf, HeldPages
<1>4. HeldPages(h) = f .. (f + s) - 1
  BY <1>2, <1>3
<1>5. Span(HeldTile(h)) = h.head .. EndOf(h.head, OrderOf(h.size))
  BY DEF Span, HeldTile
<1>6. h.size = 1 => s = 1
  BY <1>1, OneFits, SizeFacts
<1> QED BY <1>1, <1>2, <1>3, <1>4, <1>5, <1>6

\* mem_divide and mem_merge: whatever is cut and joined, no page is in two free
\* runs, or in one and with a holder.
THEOREM PagesStayApart == Spec => []FreeApart
<1>1. ASSUME PInv PROVE FreeApart
  <2>1. Laid(lists, HeldTiles(held), exact) /\ Lists(lists) /\ AppsApart /\ SizesFit /\ held \subseteq Held
    BY <1>1 DEF PInv, Laid, TypeOK
  <2>2. ASSUME NEW x \in FreeRuns
        PROVE  /\ FreePages(x[1], x[2]) \subseteq KPage
               /\ \A y \in FreeRuns \ {x} : FreePages(x[1], x[2]) \cap FreePages(y[1], y[2]) = {}
               /\ \A h \in held : FreePages(x[1], x[2]) \cap HeldPages(h) = {}
    <3>1. PICK t : t = FreeTile(x[1], lists[x[1]][x[2]])
      OBVIOUS
    <3>2. t \in FreeTiles(lists) /\ FreePages(x[1], x[2]) = Span(t)
      BY <2>1, <3>1, PagesOfRun
    <3>3. Inside(t)
      BY <2>1, <3>2 DEF Laid, Good
    <3>4. ASSUME NEW y \in FreeRuns \ {x} PROVE Span(t) \cap FreePages(y[1], y[2]) = {}
      <4>1. PICK u : u = FreeTile(y[1], lists[y[1]][y[2]])
        OBVIOUS
      <4>2. u \in FreeTiles(lists) /\ FreePages(y[1], y[2]) = Span(u)
        BY <2>1, <4>1, PagesOfRun
      <4>3. t # u
        <5> SUFFICES ASSUME t = u PROVE FALSE
          OBVIOUS
        <5>1. x[1] = y[1] /\ lists[x[1]][x[2]] = lists[y[1]][y[2]]
          <6>1. PICK r, q : r = lists[x[1]][x[2]] /\ q = lists[y[1]][y[2]]
            OBVIOUS
          <6>2. r \in Run /\ q \in Run
            BY <2>1, <6>1, PagesOfRun
          <6>3. FreeTile(x[1], r) = FreeTile(y[1], q)
            BY <3>1, <4>1, <6>1
          <6> QED BY <6>1, <6>2, <6>3, TileOfRun
        <5>2. /\ x[1] \in Order /\ x[2] \in DOMAIN lists[x[1]] /\ x = <<x[1], x[2]>>
              /\ y[2] \in DOMAIN lists[x[1]] /\ y = <<y[1], y[2]>>
          BY <2>1, <5>1, PagesOfRun
        <5>3. x[2] = y[2]
          BY <2>1, <5>1, <5>2 DEF Lists, IsInjective
        <5> QED BY <5>1, <5>2, <5>3
      <4> QED BY <2>1, <3>2, <4>2, <4>3 DEF Laid, Good, Apart
    <3>5. ASSUME NEW h \in held PROVE Span(t) \cap HeldPages(h) = {}
      <4>1. h \in Held /\ Fits(h.size)
        BY <2>1 DEF SizesFit
      <4>2. CASE h.head \in KPage
        BY <2>1, <3>2, <4>1, <4>2, NotFree, PagesOfHolder
      <4>3. CASE h.head \in AppPage
        <5>1. HeldPages(h) = {h.head}
          BY <2>1, <4>1, <4>3, PagesOfHolder DEF AppsApart, SizesFit
        <5>2. h.head \notin KPage
          BY <4>3, NotAnApp
        <5> QED BY <3>3, <5>1, <5>2 DEF Inside
      <4> QED BY <4>1, <4>2, <4>3 DEF Held
    <3> QED BY <3>2, <3>3, <3>4, <3>5 DEF Inside
  <2>3. ASSUME NEW h \in held PROVE h.head \notin ToSet(apps)
    <3>1. CASE h.head \in AppPage
      BY <2>1, <3>1 DEF AppsApart
    <3>2. CASE h.head \notin AppPage
      BY <1>1, <3>2, ElementsOf DEF PInv, TypeOK
    <3> QED BY <3>1, <3>2
  <2> QED BY <2>1, <2>2, <2>3 DEF FreeApart, AppsApart
<1> QED BY <1>1, Always, PTL

\* As long as callers give back what they have, every page is in a free run or
\* with a holder.
THEOREM NoneIsLost == Spec => []ExactAccounted
<1>1. ASSUME PInv PROVE ExactAccounted
  <2> SUFFICES ASSUME exact PROVE Accounted
    BY DEF ExactAccounted
  <2>1. /\ Laid(lists, HeldTiles(held), exact) /\ Lists(lists) /\ SizesFit /\ held \subseteq Held
        /\ Whole(FreeTiles(lists) \cup HeldTiles(held))
    BY <1>1 DEF PInv, Laid, TypeOK
  <2> DEFINE A == UNION {HeldPages(h) : h \in {g \in held : g.head \in KPage}}
             B == UNION {FreePages(x[1], x[2]) : x \in FreeRuns}
  <2>2. ASSUME NEW h \in held, h.head \in KPage
        PROVE  HeldPages(h) = Span(HeldTile(h)) /\ HeldTile(h) \in HeldTiles(held)
    BY <2>1, <2>2, PagesOfHolder DEF SizesFit, HeldTiles
  <2>3. ASSUME NEW x \in FreeRuns
        PROVE  /\ FreePages(x[1], x[2]) = Span(FreeTile(x[1], lists[x[1]][x[2]]))
               /\ FreeTile(x[1], lists[x[1]][x[2]]) \in FreeTiles(lists)
    BY <2>1, PagesOfRun
  <2>4. \A t \in FreeTiles(lists) \cup HeldTiles(held) : Span(t) \subseteq KPage
    BY <2>1 DEF Laid, Good, Inside
  <2>5. A \subseteq KPage
    BY <2>2, <2>4
  <2>6. B \subseteq KPage
    BY <2>3, <2>4
  <2>7. ASSUME NEW p \in KPage PROVE p \in A \cup B
    <3>1. PICK t \in FreeTiles(lists) \cup HeldTiles(held) : p \in Span(t)
      BY <2>1 DEF Whole, Covered
    <3>2. CASE t \in FreeTiles(lists)
      <4>1. PICK x \in FreeRuns : t = FreeTile(x[1], lists[x[1]][x[2]])
        BY <2>1, <3>2, RunOfTile
      <4>2. p \in FreePages(x[1], x[2])
        BY <2>3, <3>1, <4>1
      <4> QED BY <4>2
    <3>3. CASE t \in HeldTiles(held)
      <4>1. PICK h \in held : h.head \in KPage /\ t = HeldTile(h)
        BY <3>3 DEF HeldTiles
      <4>2. p \in HeldPages(h)
        BY <2>2, <3>1, <4>1
      <4> QED BY <4>1, <4>2
    <3> QED BY <3>1, <3>2, <3>3
  <2>8. KPage = A \cup B
    BY <2>5, <2>6, <2>7
  <2> QED BY <2>8, Zenon DEF Accounted
<1> QED BY <1>1, Always, PTL

\* As long as they do, the end by which a run is found to have a neighbour is its
\* last page.
THEOREM EndsAreKnown == Spec => []EndsKnown
<1>1. ASSUME PInv PROVE EndsKnown
  <2> SUFFICES ASSUME exact, NEW x \in FreeRuns
               PROVE  lists[x[1]][x[2]].last \in {NotAPage, lists[x[1]][x[2]].head + (Size[x[1]] - 1)}
    BY DEF EndsKnown
  <2>1. Lists(lists) /\ Whole(FreeTiles(lists) \cup HeldTiles(held))
    BY <1>1 DEF PInv, Laid
  <2>2. PICK t : t = FreeTile(x[1], lists[x[1]][x[2]])
    OBVIOUS
  <2>3. /\ t \in FreeTiles(lists)
        /\ lists[x[1]][x[2]].head + (Size[x[1]] - 1) = EndOf(lists[x[1]][x[2]].head, x[1])
    BY <2>1, <2>2, PagesOfRun
  <2>4. t.last \in {NotAPage, EndOf(t.head, t.order)}
    BY <2>1, <2>3 DEF Whole, EndsRight
  <2> QED BY <2>2, <2>3, <2>4 DEF FreeTile
<1> QED BY <1>1, Always, PTL

\* Nobody has pages of somebody else, and a page of the lazy list has one holder.
Owners(H) ==
  \A h \in H :
    /\ h \in Held /\ Fits(h.size)
    /\ h.head \in AppPage => h.size = 1 /\ h.by = "box"

LEMMA HeldOwners ==
  ASSUME PInv
  PROVE  Owners(held) /\ Laid(lists, HeldTiles(held), exact)
BY DEF PInv, SizesFit, TypeOK, AppsApart, Owners

LEMMA OwnersDiffer ==
  ASSUME NEW L, NEW H, NEW e, Laid(L, HeldTiles(H), e), Owners(H),
         NEW g \in H, NEW h \in H, g # h
  PROVE  HeldPages(g) \cap HeldPages(h) = {}
<1>1. g \in Held /\ h \in Held /\ Fits(g.size) /\ Fits(h.size)
  BY DEF Owners
<1>2. CASE g.head \in KPage /\ h.head \in KPage
  BY <1>1, <1>2, HoldersApart, PagesOfHolder
<1>3. ASSUME NEW a \in H, a.head \notin KPage
      PROVE  HeldPages(a) = {a.head} /\ a.head \in AppPage /\ a.size = 1 /\ a.by = "box"
  <2>1. a \in Held /\ Fits(a.size)
    BY DEF Owners
  <2>2. a.head \in AppPage
    BY <1>3, <2>1 DEF Held
  <2> QED BY <2>1, <2>2, PagesOfHolder DEF Owners
<1>4. ASSUME NEW a \in H, a.head \in KPage
      PROVE  HeldPages(a) \subseteq KPage
  <2>1. HeldTile(a) \in HeldTiles(H)
    BY <1>4 DEF HeldTiles
  <2>2. Inside(HeldTile(a))
    BY <2>1 DEF Laid, Good
  <2>3. a \in Held /\ Fits(a.size)
    BY DEF Owners
  <2> QED BY <1>4, <2>2, <2>3, PagesOfHolder DEF Inside
<1>5. CASE g.head \in KPage /\ h.head \notin KPage
  BY <1>3, <1>4, <1>5
<1>6. CASE g.head \notin KPage /\ h.head \in KPage
  BY <1>3, <1>4, <1>6
<1>7. CASE g.head \notin KPage /\ h.head \notin KPage
  <2>1. /\ HeldPages(g) = {g.head} /\ g.size = 1 /\ g.by = "box"
        /\ HeldPages(h) = {h.head} /\ h.size = 1 /\ h.by = "box"
    BY <1>3, <1>7
  <2>2. g.head # h.head
    BY <1>1, <2>1 DEF Held
  <2> QED BY <2>1, <2>2
<1> QED BY <1>2, <1>5, <1>6, <1>7

\* A holder more is a Take: its pages are nobody's.
LEMMA TakeStep ==
  ASSUME PInv, PInv', NEW h, h \notin held, held' = held \cup {h}
  PROVE  Owner!Next
<1>1. h \in held' /\ h \in Held /\ Fits(h.size)
  BY DEF PInv, TypeOK, SizesFit
<1>2. PICK a, b : a = h.head /\ b = EndOf(h.head, OrderOf(h.size))
  OBVIOUS
<1>3. HeldPages(h) = a .. b /\ a \in a .. b /\ b \in a .. b /\ a <= b
  BY <1>1, <1>2, PagesOfHolder
<1>4. a .. b \subseteq KPage \cup AppPage
  <2>1. CASE h.head \in KPage
    <3>1. HeldTile(h) \in HeldTiles(held')
      BY <1>1, <2>1 DEF HeldTiles
    <3>2. Inside(HeldTile(h))
      BY <3>1 DEF PInv, Laid, Good
    <3>3. HeldPages(h) = Span(HeldTile(h))
      BY <1>1, <2>1, PagesOfHolder
    <3> QED BY <1>3, <3>2, <3>3 DEF Inside
  <2>2. CASE h.head \in AppPage
    <3>1. h.size = 1
      BY <1>1, <2>2 DEF PInv, AppsApart, SizesFit
    <3>2. HeldPages(h) = {h.head}
      BY <1>1, <3>1, PagesOfHolder
    <3> QED BY <1>3, <2>2, <3>2
  <2> QED BY <1>1, <2>1, <2>2 DEF Held
<1>5. \A g \in held : HeldPages(g) \cap HeldPages(h) = {}
  <2> SUFFICES ASSUME NEW g \in held PROVE HeldPages(g) \cap HeldPages(h) = {}
    OBVIOUS
  <2>1. g \in held' /\ g # h
    OBVIOUS
  <2>2. Owners(held') /\ Laid(lists', HeldTiles(held'), exact')
    BY DEF PInv, SizesFit, TypeOK, AppsApart, Owners
  <2> QED BY <1>1, <2>1, <2>2, OwnersDiffer
<1>6. (a .. b) \cap UNION Owned = {}
  BY <1>3, <1>5 DEF Owned
<1>7. Owned' = Owned \cup {a .. b}
  BY <1>3 DEF Owned, HeldPages
<1>8. Owner!Take(a, b)
  BY <1>3, <1>4, <1>6, <1>7 DEF Owner!Take, Owned
<1>9. a \in KPage \cup AppPage /\ b \in KPage \cup AppPage
  BY <1>3, <1>4
<1> QED BY <1>8, <1>9 DEF Owner!Next

\* A holder less is a Give.
LEMMA LeaveStep ==
  ASSUME PInv, NEW h \in held, held' = held \ {h}
  PROVE  Owner!Next
<1>1. \A g \in held \ {h} : HeldPages(g) # HeldPages(h)
  <2> SUFFICES ASSUME NEW g \in held, g # h, HeldPages(g) = HeldPages(h) PROVE FALSE
    OBVIOUS
  <2>1. h \in Held /\ Fits(h.size)
    BY DEF PInv, TypeOK, SizesFit
  <2>2. Owners(held) /\ Laid(lists, HeldTiles(held), exact)
    BY HeldOwners
  <2> QED BY <2>1, <2>2, OwnersDiffer, PagesOfHolder
<1>2. PICK s : s = HeldPages(h)
  OBVIOUS
<1>3. s \in Owned /\ Owned' = Owned \ {s}
  BY <1>1, <1>2 DEF Owned, HeldPages
<1>4. Owner!Give(s)
  BY <1>3 DEF Owner!Give, Owned
<1> QED BY <1>3, <1>4 DEF Owner!Next, Owned

\* mem_divide and mem_divide_apps add a holder.
LEMMA DivideAdds ==
  ASSUME PInv, NEW n, Fits(n), NEW by \in Holder, Divide(n, by)
  PROVE  \E h : h \notin held /\ held' = held \cup {h}
<1>1. PICK k, s : k = OrderOf(n) /\ s = Min(Sources(k))
  OBVIOUS
<1>2. PICK h : h = [head |-> Head(lists[s]).head, size |-> n, by |-> by]
  OBVIOUS
<1>3. held' = held \cup {h} /\ Sources(k) # {}
  BY <1>1, <1>2 DEF Divide
<1>4. s \in Order /\ s >= k /\ lists[s] # <<>>
  BY <1>1, <1>3, OrderFits, SourceFacts
<1>5. h \notin held
  BY <1>1, <1>2, <1>4, Divides DEF PInv
<1> QED BY <1>3, <1>5

LEMMA AppsAdd ==
  ASSUME PInv, DivideApps
  PROVE  \E h : h \notin held /\ held' = held \cup {h}
<1>1. CASE apps = <<>>
  BY <1>1, OneFits, DivideAdds DEF DivideApps, Holder
<1>2. CASE apps # <<>>
  <2>1. PICK h : h = [head |-> Head(apps), size |-> 1, by |-> "box"]
    OBVIOUS
  <2>2. held' = held \cup {h}
    BY <1>2, <2>1 DEF DivideApps
  <2>3. Head(apps) \in AppPage /\ Head(apps) \in ToSet(apps)
    BY <1>2, TailProps DEF PInv, TypeOK, AppsApart
  <2>4. h \notin held
    BY <2>1, <2>3 DEF PInv, AppsApart
  <2> QED BY <2>2, <2>4
<1> QED BY <1>1, <1>2

\* The allocator implements PageOwner: whoever asks gets pages that nobody has.
THEOREM NobodysPages == Spec => OwnersApart
<1>1. Init => Owner!Init
  BY DEF Init, Owner!Init, Owned
<1>2. PInv /\ [Next]_vars => [Owner!Next]_Owned
  <2> SUFFICES ASSUME PInv, [Next]_vars PROVE [Owner!Next]_Owned
    OBVIOUS
  <2>1. PInv'
    BY StepInv
  <2>2. ASSUME NEW n \in PoolSizes, Divide(n, "pool") PROVE Owner!Next
    BY <2>1, <2>2, AskedFit, DivideAdds, TakeStep DEF Holder
  <2>3. ASSUME NEW n \in KernelSizes, Divide(n, "kernel") PROVE Owner!Next
    BY <2>1, <2>3, AskedFit, DivideAdds, TakeStep DEF Holder
  <2>4. CASE DivideApps
    BY <2>1, <2>4, AppsAdd, TakeStep
  <2>5. ASSUME NEW h \in held, GiveBack(h) \/ GiveBackApps(h) PROVE Owner!Next
    BY <2>5, GiveStep, LeaveStep
  <2>6. CASE UNCHANGED vars
    BY <2>6 DEF vars, Owned, HeldPages
  <2> QED BY <2>2, <2>3, <2>4, <2>5, <2>6 DEF Next
<1> QED BY <1>1, <1>2, Always, PTL DEF Spec, OwnersApart, Owner!Spec
=============================================================================
