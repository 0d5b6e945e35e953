---------------------------- MODULE PageAllocator ----------------------------
(***************************************************************************)
(* The physical page allocator of wind-os: hal/x86/memapi.c over the lists *)
(* that hal/x86/memtable.c fills at boot, with the callers that decide how *)
(* many pages are given back: kernel/mempool.c, hal/x86/memobject.c,       *)
(* hal/x86/mmu.c and the page faults of kernel/kvmprocess.c.               *)
(*                                                                         *)
(* A free run is known by its first MemPage; its `next` points to the last *)
(* one, or to the MemList when the run was a single page at boot.  Every   *)
(* operation holds the lock of its area with interrupts off and is a step. *)
(* The allocated bit, the type of the link and the statistics of the areas *)
(* are read by no code after boot; the HWAD area is never divided.         *)
(***************************************************************************)
EXTENDS Integers, Sequences, FiniteSets, SequencesExt, FiniteSetsExt

CONSTANTS
  Base,       \* number of the first page of the KRNL area
  Pages,      \* usable pages of the KRNL area, consecutive
  AppPage,    \* pages of the APPS area
  MaxOrder,   \* bound of the orders, MEMLIST_MAX in the code
  CountMax,   \* largest value of flags.count, 2^24 - 1 in the code
  PoolSizes,  \* the sizes mempool_new is asked for, in pages
  KernelSizes \* the sizes of mobj containers and of page tables, in pages

KPage == Base .. Base + Pages - 1

\* (MemPage*)list: its page number, total_num >> 12, is below every KRNL page.
NotAPage == 0

Order == 0 .. MaxOrder

\* The pages of a run of order k: 1UL << order.
Size[k \in Nat] == IF k = 0 THEN 1 ELSE 2 * Size[k - 1]

ASSUME PageAssumption ==
  /\ Base \in Nat \ {0, 1} /\ Pages \in Nat \ {0} /\ MaxOrder \in Nat
  /\ Pages < Size[MaxOrder]
  /\ IsFiniteSet(AppPage) /\ AppPage \subseteq Nat /\ AppPage \cap KPage = {}
  /\ CountMax \in Nat \ {0}
  /\ PoolSizes \subseteq 1 .. Pages
  /\ KernelSizes \subseteq {Size[k] : k \in Order}

VARIABLES
  lists,  \* areas[KRNL].table.lists: free_pages of every order
  count,  \* flags.count of the pages of the KRNL area
  apps,   \* areas[APPS].table.list: the single pages
  held,   \* the runs the kernel holds, with the size they were asked for
  exact   \* so far every run was given back with all its pages

vars == <<lists, count, apps, held, exact>>

Run == [head : KPage, last : KPage \cup {NotAPage}]

\* The holders: a page list of mempool, the page list of an object container
\* or an entry of a page table, and the box of an address space.
Holder == {"pool", "kernel", "box"}

Held == [head : KPage \cup AppPage, size : Nat \ {0}, by : Holder]

\* get_order
OrderOf(n) == CHOOSE k \in Order : Size[k] >= n /\ \A j \in 0 .. k - 1 : Size[j] < n

\* split_continuous: the pages that are left when the loop, from the highest bit
\* down, comes to bit k.  They are fewer than 2^(k + 1), so bit k of the number of
\* pages is set if they are at least 2^k.
Left[k \in Order] ==
  IF k = MaxOrder THEN Pages
  ELSE IF Left[k + 1] >= Size[k + 1] THEN Left[k + 1] - Size[k + 1]
  ELSE Left[k + 1]

\* The run of bit k begins behind those of the higher ones.  A single page is its
\* own tail, and tail->next = list comes last.
BootRun(k) ==
  LET first == Base + Pages - Left[k]
  IN [head |-> first, last |-> IF k = 0 THEN NotAPage ELSE first + Size[k] - 1]

BootLists ==
  [k \in Order |-> IF Left[k] >= Size[k] THEN <<BootRun(k)>> ELSE <<>>]

Init ==
  /\ lists = BootLists
  /\ count = [p \in KPage |-> 0]
  /\ apps = SetToSeq(AppPage)
  /\ held = {}
  /\ exact = TRUE

\* flags.count++ and flags.count--.
Up(n) == IF n = CountMax THEN 0 ELSE n + 1
Down(n) == IF n = 0 THEN CountMax ELSE n - 1
-----------------------------------------------------------------------------
(***************************************************************************)
(* Division.                                                               *)
(***************************************************************************)

\* divide_list_range: the orders a run of 2^k pages can be cut from.
Sources(k) == {s \in Order : s >= k /\ lists[s] # <<>>}

\* A bug divide_execute could have: it puts the half back that it hands out.
HalfTaken(f, c) == [head |-> f, last |-> f + Size[c] - 1]

\* The half that is put back into list c when a run is cut that starts at f.
Half(f, c) == [head |-> f + Size[c], last |-> f + Size[c + 1] - 1]

\* divide_execute: cut the first run of list s down to order k.
Cut(s, k) ==
  LET f == Head(lists[s]).head
  IN [c \in Order |->
        IF c = s THEN Tail(lists[s])
        ELSE IF k <= c /\ c < s THEN <<Half(f, c)>> \o lists[c]
        ELSE lists[c]]

\* divide_update_subpages: the first and the last page are counted.
CountRun(f, k) ==
  [p \in KPage |-> IF p \in {f, f + Size[k] - 1} THEN Up(count[p]) ELSE count[p]]

\* mem_divide from the KRNL area.
Divide(n, by) ==
  /\ Sources(OrderOf(n)) # {}
  /\ LET k == OrderOf(n)
         s == Min(Sources(k))
         f == Head(lists[s]).head
     IN /\ lists' = Cut(s, k)
        /\ count' = CountRun(f, k)
        /\ held' = held \cup {[head |-> f, size |-> n, by |-> by]}
  /\ UNCHANGED <<apps, exact>>

\* mem_divide_apps: the lazy list, and the KRNL area when it is empty.
DivideApps ==
  IF apps = <<>> THEN Divide(1, "box")
  ELSE /\ apps' = Tail(apps)
       /\ held' = held \cup {[head |-> Head(apps), size |-> 1, by |-> "box"]}
       /\ UNCHANGED <<lists, count, exact>>
-----------------------------------------------------------------------------
(***************************************************************************)
(* Merging.                                                                *)
(***************************************************************************)

\* get_continue_subpages: the places in a list of a run that follows run r or
\* precedes it.
Neighbours(list, r) ==
  {i \in DOMAIN list : \/ r.last + 1 = list[i].head
                       \/ list[i].last + 1 = r.head}

\* Bugs get_continue_subpages could have: the joined run keeps its head, or its
\* end.
JoinedLow(r, q) ==
  [head |-> r.head, last |-> IF r.last + 1 = q.head THEN q.last ELSE r.last]

JoinedShort(r, q) ==
  [head |-> IF r.last + 1 = q.head THEN r.head ELSE q.head, last |-> r.last]

\* The run r and its neighbour q as one run.
Joined(r, q) ==
  IF r.last + 1 = q.head THEN [head |-> r.head, last |-> q.last]
  ELSE [head |-> q.head, last |-> r.last]

\* merge_execute: from list k upwards, take the first neighbour out of a list
\* and join it; Grown[c] is the run that looks for a neighbour in list c.
Grown(r, k) ==
  LET grown[c \in k .. MaxOrder] ==
        IF c = k THEN r
        ELSE LET list == lists[c - 1]
                 near == Neighbours(list, grown[c - 1])
             IN IF near = {} THEN grown[c - 1]
                ELSE Joined(grown[c - 1], list[Min(near)])
  IN grown

\* The list at which the loop ends.
Stop(grown, k) ==
  Min({c \in k .. MaxOrder : c = MaxOrder \/ Neighbours(lists[c], grown[c]) = {}})

\* A bug merge_execute could have: the run goes back to the list it began with.
MergeIntoFirst(r, k) ==
  LET grown == Grown(r, k)
      stop == Stop(grown, k)
  IN [c \in Order |->
        LET rest == IF k <= c /\ c < stop
                    THEN RemoveAt(lists[c], Min(Neighbours(lists[c], grown[c])))
                    ELSE lists[c]
        IN IF c = k THEN <<grown[stop]>> \o rest ELSE rest]

\* The lists once the grown run is back in the list at which the loop ended.
MergeInto(r, k) ==
  LET grown == Grown(r, k)
      stop == Stop(grown, k)
  IN [c \in Order |->
        IF c = stop THEN <<grown[c]>> \o lists[c]
        ELSE IF k <= c /\ c < stop
             THEN RemoveAt(lists[c], Min(Neighbours(lists[c], grown[c])))
        ELSE lists[c]]

\* merge_update_subpages on the run of n pages that starts at f.
UncountRun(f, n) ==
  [p \in KPage |-> IF p \in {f, f + n - 1} THEN Down(count[p]) ELSE count[p]]

\* mem_merge of n pages into the KRNL area.  A first page that is still counted
\* is taken for shared, and nothing is merged.
Merge(f, n) ==
  /\ count' = UncountRun(f, n)
  /\ lists' = IF count'[f] > 0 THEN lists
              ELSE MergeInto([head |-> f, last |-> f + n - 1], OrderOf(n))
  /\ exact' = (exact /\ Size[OrderOf(n)] = n)
  /\ UNCHANGED apps

\* mempool_delete gives back the number of pages that was asked for, object
\* containers and page tables the number they got.
GiveBack(h) ==
  /\ h \in held /\ h.by # "box"
  /\ Merge(h.head, h.size)
  /\ held' = held \ {h}

\* vma_del_usermsa, when a page fault could not be mapped: mempage_len of a page
\* from the lazy list reaches from the page to the MemList, which is more than
\* one page, and merge_core refuses it.
GiveBackApps(h) ==
  /\ h \in held /\ h.by = "box"
  /\ IF h.head \in AppPage THEN UNCHANGED <<lists, count, apps, exact>>
     ELSE Merge(h.head, 1)
  /\ held' = held \ {h}
-----------------------------------------------------------------------------
Next ==
  \/ \E n \in PoolSizes : Divide(n, "pool")
  \/ \E n \in KernelSizes : Divide(n, "kernel")
  \/ DivideApps
  \/ \E h \in held : GiveBack(h) \/ GiveBackApps(h)

Spec == Init /\ [][Next]_vars
-----------------------------------------------------------------------------
(***************************************************************************)
(* Properties.                                                             *)
(***************************************************************************)

TypeOK ==
  /\ lists \in [Order -> Seq(Run)]
  /\ count \in [KPage -> 0 .. CountMax]
  /\ apps \in Seq(AppPage)
  /\ held \subseteq Held
  /\ exact \in BOOLEAN

\* The pages a holder may use, and the pages a free run stands for.
HeldPages(h) == h.head .. h.head + Size[OrderOf(h.size)] - 1

FreePages(c, i) == lists[c][i].head .. lists[c][i].head + Size[c] - 1

FreeRuns == UNION {{<<c, i>> : i \in DOMAIN lists[c]} : c \in Order}

\* No page is in two free runs, or in a free run and with a holder, and no run
\* reaches beyond the area: cutting and joining neighbours of any alignment
\* keeps them apart, even when fewer pages are given back than were taken.
FreeApart ==
  /\ \A f \in FreeRuns :
       /\ FreePages(f[1], f[2]) \subseteq KPage
       /\ \A g \in FreeRuns \ {f} : FreePages(f[1], f[2]) \cap FreePages(g[1], g[2]) = {}
       /\ \A h \in held : FreePages(f[1], f[2]) \cap HeldPages(h) = {}
  /\ IsInjective(apps)
  /\ \A h \in held : h.head \notin ToSet(apps)

Owned == {HeldPages(h) : h \in held}

\* Nobody gets a page that somebody else has.
Owner == INSTANCE PageOwner WITH Page <- KPage \cup AppPage, owned <- Owned

OwnersApart == Owner!Spec

\* A page that nobody holds can be found again: given back pages return to the
\* physical memory manager (mempool.c:124).
Accounted ==
  KPage = (UNION {HeldPages(h) : h \in {g \in held : g.head \in KPage}})
          \cup (UNION {FreePages(f[1], f[2]) : f \in FreeRuns})

\* A page of the lazy list that is not held is on the list: a page that could
\* not be mapped is given back (kvmprocess.c:466).
AppsAccounted == AppPage \subseteq ToSet(apps) \cup {h.head : h \in held}

\* As long as every caller gives back all pages it has, they are found again:
\* neither cutting nor joining drops one.
ExactAccounted == exact => Accounted

\* As long as they do, the pointer by which runs are joined names the end of the
\* run, except for the single page of boot: a run is never joined with one it
\* does not touch.
EndsKnown ==
  exact => \A f \in FreeRuns :
    lists[f[1]][f[2]].last \in {NotAPage, lists[f[1]][f[2]].head + Size[f[1]] - 1}
=============================================================================
