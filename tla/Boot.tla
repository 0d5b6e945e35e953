--------------------------------- MODULE Boot ---------------------------------
(***************************************************************************)
(* How wind-os finds the memory it may hand out: tools/pack/pack.c packs  *)
(* the files of the system into an image, loader/boot/machine.c copies     *)
(* them out of it, one behind the other, and memmgr_init of                *)
(* hal/x86/memmgr.c puts its own tables behind them, makes a descriptor of *)
(* every usable page of the BIOS's memory map, marks those the boot uses   *)
(* and hangs the others on the lists of three areas, as large runs or as   *)
(* single pages.                                                           *)
(*                                                                         *)
(* Nothing runs beside the boot; what varies is the memory map, in which   *)
(* order the BIOS tells it, and the files.  Addresses are physical.        *)
(***************************************************************************)
EXTENDS Integers, Sequences, FiniteSets, SequencesExt

CONSTANTS
  PageSize,   \* 4096 in the code
  StackAdr,   \* STACK_ADR, not aligned in the code either
  StackSize,  \* STACK_SIZE
  KernelAdr,  \* KERNEL_ADR, where the KRNL area begins
  ImageAdr,   \* IMAGE_ADR, where grub has put the image
  AppsAdr,    \* MEMAREA_APPS_START
  GrubSize,   \* GRUB_SIZE: where the header of the image is
  FileOffset, \* FILE_OFFSET: where its second file is
  HeaderSize, \* the header and the handles of the files
  MmuSize, ViewSize, DescSize, AreasSize, \* REMMU_SIZE and three sizeofs
  Maps,       \* the memory maps a BIOS may tell
  FileSizes,  \* the sizes the packed files may have, in the order of packing
  MaxOrder    \* MEMLIST_MAX - 1

File == {"grub", "kernel", "font", "logo"}
Area == {"hwad", "krnl", "apps"}
Order == 0 .. MaxOrder

\* The pages of a run of order k.
Size[k \in Nat] == IF k = 0 THEN 1 ELSE 2 * Size[k - 1]

View == [addr : Nat, size : Nat, usable : BOOLEAN]

\* Areas and the places of image and kernel are aligned; grub fits before the
\* header, as the image would not boot otherwise.
ASSUME BootAssumption ==
  /\ PageSize \in Nat \ {0} /\ MaxOrder \in Nat
  /\ {GrubSize, FileOffset, HeaderSize} \subseteq Nat
  /\ {StackAdr, StackSize, MmuSize, ViewSize, DescSize, AreasSize} \subseteq Nat
  /\ \A a \in {KernelAdr, ImageAdr, AppsAdr} : a \in Nat /\ a % PageSize = 0
  /\ 0 < StackAdr /\ StackAdr < KernelAdr /\ KernelAdr < ImageAdr
  /\ GrubSize + HeaderSize <= FileOffset
  /\ Maps \subseteq Seq(View)
  /\ \A s \in FileSizes : s \in [File -> Nat] /\ s["grub"] <= GrubSize

VARIABLES
  pc,       \* what the boot does next
  size,     \* the sizes of the packed files
  next,     \* machine.next_addr
  placed,   \* what was put into memory, in this order
  views,    \* the memory map: e820s, then the sorted MemView array
  pages,    \* the MemPage array
  free,     \* areas[HWAD, KRNL].table.lists: runs of each order
  single,   \* areas[APPS].table.list
  free_num, \* areas[].free_num
  stats     \* memmgr.allocate_pages and free_pages

vars == <<pc, size, next, placed, views, pages, free, single, free_num, stats>>

Align(a) == ((a + PageSize - 1) \div PageSize) * PageSize

PageOf(a) == a \div PageSize

Extent(what, adr, n) == [what |-> what, adr |-> adr, size |-> n]

Step(from, to) == pc = from /\ pc' = to
-----------------------------------------------------------------------------
(***************************************************************************)
(* The image.                                                              *)
(***************************************************************************)

\* pack: the first file has a fixed room, the others follow one another.
PackedAt ==
  [f \in File |->
     CASE f = "grub" -> 0
       [] f = "kernel" -> FileOffset
       [] f = "font" -> FileOffset + size["kernel"]
       [] f = "logo" -> FileOffset + size["kernel"] + size["font"]]

\* header.size, and get_image_size.
ImageSize == FileOffset + size["kernel"] + size["font"] + size["logo"]

\* What pack writes into the image: the files, then header and handles.
Packed ==
  {Extent(f, PackedAt[f], size[f]) : f \in File}
    \cup {Extent("header", GrubSize, HeaderSize)}

\* get_image_file: a file of size 0 stands for one that is not in the image or
\* is damaged.
ImageFile(f) == Extent(f, ImageAdr + PackedAt[f], size[f])
-----------------------------------------------------------------------------
(***************************************************************************)
(* The memory map and the descriptors.                                     *)
(***************************************************************************)

\* A bug: the last page of a range need not be whole.
PagesOfLoose(v) ==
  [i \in 1 .. (v.size + PageSize - 1) \div PageSize |->
     [value |-> PageOf(v.addr + (i - 1) * PageSize), area |-> "init", count |-> 0]]

\* mempage_init: a descriptor for every PageSize bytes of a usable range.
PagesOf(v) ==
  [i \in 1 .. v.size \div PageSize |->
     [value |-> PageOf(v.addr + (i - 1) * PageSize), area |-> "init", count |-> 0]]

AllPages(m) ==
  LET made[i \in 0 .. Len(m)] ==
        IF i = 0 THEN <<>>
        ELSE made[i - 1] \o (IF m[i].usable THEN PagesOf(m[i]) ELSE <<>>)
  IN made[Len(m)]

\* memviews_sort: the first of the least entries from i on goes to i.
LeastFrom(m, i) ==
  CHOOSE k \in i .. Len(m) :
    /\ \A j \in i .. Len(m) : m[k].addr <= m[j].addr
    /\ \A j \in i .. k - 1 : m[k].addr < m[j].addr

Swap(m, i, k) == [m EXCEPT ![i] = m[k], ![k] = m[i]]

Sorted(m) ==
  LET sorted[i \in 0 .. Len(m)] ==
        IF i = 0 THEN m
        ELSE LET s == sorted[i - 1] IN Swap(s, i, LeastFrom(s, i))
  IN sorted[Len(m)]

\* mark_occupy: from the descriptor of the first page up to the first one that
\* is beyond the end.
FirstOf(start) == {i \in DOMAIN pages : pages[i].value = PageOf(start)}

Occupied(start, n) ==
  {i \in DOMAIN pages :
     \E f \in FirstOf(start) :
       f <= i /\ \A j \in f .. i : pages[j].value * PageSize <= start + n - 1}

\* The loop has no other end than a page beyond: it leaves the array.
Overruns(start, n) == Len(pages) \in Occupied(start, n)

\* mark_area.
AreaOf(p) ==
  CASE p * PageSize + PageSize - 1 < KernelAdr -> "hwad"
    [] p * PageSize >= KernelAdr /\ p * PageSize + PageSize - 1 < AppsAdr -> "krnl"
    [] p * PageSize >= AppsAdr -> "apps"
    [] OTHER -> "init"
-----------------------------------------------------------------------------
(***************************************************************************)
(* The lists.                                                              *)
(***************************************************************************)

\* match_page.
Mountable(a, i) == pages[i].area = a /\ pages[i].count = 0

Joined(i) == pages[i + 1].value = pages[i].value + 1

\* Next of memtable.c: the maximal runs of mountable descriptors whose pages
\* are consecutive, as pairs of indexes.
Runs(a) ==
  {r \in (DOMAIN pages) \X (DOMAIN pages) :
     /\ r[1] <= r[2]
     /\ \A i \in r[1] .. r[2] : Mountable(a, i)
     /\ \A i \in r[1] .. r[2] - 1 : Joined(i)
     /\ r[1] > 1 => ~(Mountable(a, r[1] - 1) /\ Joined(r[1] - 1))
     /\ r[2] < Len(pages) => ~(Mountable(a, r[2] + 1) /\ Joined(r[2]))}

\* mount_table: the runs in ascending order; list_add puts what is made of each
\* before what was made of earlier ones.
MountTable(parts) ==
  LET list[i \in 0 .. Len(pages)] ==
        IF i = 0 THEN <<>>
        ELSE LET ends == {r \in DOMAIN parts : r[2] = i}
             IN IF ends = {} THEN list[i - 1]
                ELSE parts[CHOOSE r \in ends : TRUE] \o list[i - 1]
  IN list[Len(pages)]

RunLen(r) == r[2] - r[1] + 1

\* A bug: the last page of a run of odd length is lost.
PartLost(r, k) ==
  IF (RunLen(r) \div Size[k]) % 2 = 0 \/ (k = 0 /\ RunLen(r) > 1) THEN <<>>
  ELSE <<pages[r[1]].value + (RunLen(r) \div Size[k + 1]) * Size[k + 1]>>

\* split_continuous: a run of Size[k] pages for every bit of the length, the
\* larger ones first.
PartOf(r, k) ==
  IF (RunLen(r) \div Size[k]) % 2 = 0 THEN <<>>
  ELSE <<pages[r[1]].value + (RunLen(r) \div Size[k + 1]) * Size[k + 1]>>

SplitContinuous(a) ==
  [k \in Order |-> MountTable([r \in Runs(a) |-> PartOf(r, k)])]

\* split_single: the pages one by one.
SinglesOf(r) == [i \in 1 .. RunLen(r) |-> pages[r[1]].value + RunLen(r) - i]

SplitSingle(a) == MountTable([r \in Runs(a) |-> SinglesOf(r)])

MountedNum(a) == Cardinality({i \in DOMAIN pages : Mountable(a, i)})
-----------------------------------------------------------------------------
(***************************************************************************)
(* The boot.                                                               *)
(***************************************************************************)

Init ==
  /\ pc = "kernel"
  /\ size \in FileSizes
  /\ views \in Maps
  /\ next = KernelAdr
  /\ placed = <<>>
  /\ pages = <<>>
  /\ free = [a \in {"hwad", "krnl"} |-> [k \in Order |-> <<>>]]
  /\ single = <<>>
  /\ free_num = [a \in Area |-> 0]
  /\ stats = [allocate |-> 0, free |-> 0]

\* A bug: next_addr moves by whole pages only.
PlaceShort(what, n) ==
  /\ placed' = Append(placed, Extent(what, next, n))
  /\ next' = next + (n \div PageSize) * PageSize

\* What is put at next_addr, and how next_addr moves behind it.
Place(what, n) ==
  /\ placed' = Append(placed, Extent(what, next, n))
  /\ next' = Align(next + n)

\* kernel_init, font_init and logo_init: a missing file is only reported.
LoadFile(f, to) ==
  /\ Step(f, to)
  /\ IF ImageFile(f).size = 0 THEN UNCHANGED <<next, placed>>
     ELSE Place(f, ImageFile(f).size)
  /\ UNCHANGED <<size, views, pages, free, single, free_num, stats>>

\* remmu_init, the first thing the kernel places; without a kernel there is
\* nothing to run.
RemmuInit ==
  /\ Step("remmu", "views")
  /\ size["kernel"] > 0
  /\ Place("mmu", MmuSize)
  /\ UNCHANGED <<size, views, pages, free, single, free_num, stats>>

MemviewInit ==
  /\ Step("views", "pages")
  /\ views' = Sorted(views)
  /\ Place("views", Len(views) * ViewSize)
  /\ UNCHANGED <<size, pages, free, single, free_num, stats>>

MempageInit ==
  /\ Step("pages", "areas")
  /\ pages' = AllPages(views)
  /\ Place("pages", Len(pages') * DescSize)
  /\ UNCHANGED <<size, views, free, single, free_num, stats>>

MemareaInit ==
  /\ Step("areas", "bios")
  /\ Place("areas", AreasSize)
  /\ UNCHANGED <<size, views, pages, free, single, free_num, stats>>

\* The regions of mempage_occupy: the interrupt table of the BIOS, the stack,
\* the image, and all that has been placed.
Region(what) ==
  CASE what = "bios" -> Extent("bios", 0, PageSize)
    [] what = "stack" -> Extent("stack", PageOf(StackAdr) * PageSize, StackSize)
    [] what = "image" -> Extent("image", ImageAdr, ImageSize)
    [] what = "kernels" -> Extent("kernels", KernelAdr, next - KernelAdr)

\* mark_occupy for one of them.
Occupy(what, to) ==
  LET r == Region(what)
  IN /\ ~Overruns(r.adr, r.size)
     /\ Step(what, to)
     /\ pages' = [i \in DOMAIN pages |->
                    IF i \in Occupied(r.adr, r.size)
                    THEN [pages[i] EXCEPT !.count = @ + 1] ELSE pages[i]]
     /\ UNCHANGED <<size, next, placed, views, free, single, free_num, stats>>

\* What lies behind the array decides what happens.
OccupyOverruns(what) ==
  /\ Overruns(Region(what).adr, Region(what).size)
  /\ Step(what, "undefined")
  /\ UNCHANGED <<size, next, placed, views, pages, free, single, free_num, stats>>

\* mount_pages: first traversal.
MarkAreas ==
  /\ Step("mark", "hwad")
  /\ pages' = [i \in DOMAIN pages |->
                 [pages[i] EXCEPT !.area = AreaOf(pages[i].value)]]
  /\ UNCHANGED <<size, next, placed, views, free, single, free_num, stats>>

\* mount_pages: second traversal, mount_table of one area.
MountRuns(a, to) ==
  /\ Step(a, to)
  /\ free' = [free EXCEPT ![a] = SplitContinuous(a)]
  /\ free_num' = [free_num EXCEPT ![a] = MountedNum(a)]
  /\ UNCHANGED <<size, next, placed, views, pages, single, stats>>

MountSingles ==
  /\ Step("apps", "memmgr")
  /\ single' = SplitSingle("apps")
  /\ free_num' = [free_num EXCEPT !["apps"] = MountedNum("apps")]
  /\ UNCHANGED <<size, next, placed, views, pages, free, stats>>

\* set_memmgr.
SetMemmgr ==
  /\ Step("memmgr", "done")
  /\ LET used == Cardinality({i \in DOMAIN pages : pages[i].count = 1})
     IN stats' = [allocate |-> used, free |-> Len(pages) - used]
  /\ UNCHANGED <<size, next, placed, views, pages, free, single, free_num>>

Next ==
  \/ LoadFile("kernel", "font") \/ LoadFile("font", "logo") \/ LoadFile("logo", "remmu")
  \/ RemmuInit \/ MemviewInit \/ MempageInit \/ MemareaInit
  \/ Occupy("bios", "stack") \/ Occupy("stack", "image")
  \/ Occupy("image", "kernels") \/ Occupy("kernels", "mark")
  \/ \E w \in {"bios", "stack", "image", "kernels"} : OccupyOverruns(w)
  \/ MarkAreas \/ MountRuns("hwad", "krnl") \/ MountRuns("krnl", "apps")
  \/ MountSingles \/ SetMemmgr

Spec == Init /\ [][Next]_vars
-----------------------------------------------------------------------------
(***************************************************************************)
(* Properties.                                                             *)
(***************************************************************************)

TypeOK ==
  /\ next \in Nat /\ next % PageSize = 0
  /\ \A i \in DOMAIN placed : placed[i].adr \in Nat /\ placed[i].size \in Nat
  /\ \A i \in DOMAIN pages :
       /\ pages[i].value \in Nat /\ pages[i].count \in 0 .. 4
       /\ pages[i].area \in Area \cup {"init"}
  /\ \A a \in DOMAIN free, k \in Order : free[a][k] \in Seq(Nat)
  /\ single \in Seq(Nat)
  /\ free_num \in [Area -> Nat]
  /\ stats.allocate \in Nat /\ stats.free \in Nat

Apart(e, f) == e.adr + e.size <= f.adr \/ f.adr + f.size <= e.adr

Touches(p, e) == ~Apart(e, Extent("page", p * PageSize, PageSize))

\* What must not be handed out: what the boot says is in use.
InUse == {Region(w) : w \in {"bios", "stack", "image"}}
           \cup {placed[i] : i \in DOMAIN placed}

Usable(p) ==
  \E i \in DOMAIN views :
    /\ views[i].usable
    /\ views[i].addr <= p * PageSize
    /\ (p + 1) * PageSize <= views[i].addr + views[i].size

RunPages(h, k) == h .. h + Size[k] - 1

\* The pages the lists of an area hand out, and how often each.
Handed(a) ==
  IF a = "apps" THEN ToSet(single)
  ELSE UNION {UNION {RunPages(h, k) : h \in ToSet(free[a][k])} : k \in Order}

TimesHanded(a, p) ==
  IF a = "apps" THEN Cardinality({i \in DOMAIN single : single[i] = p})
  ELSE Cardinality({o \in Order \X DOMAIN pages :
                      /\ o[2] \in DOMAIN free[a][o[1]]
                      /\ p \in RunPages(free[a][o[1]][o[2]], o[1])})

\* Every page on a list of an area, the inner ones of a run included, is a
\* whole usable page of that area and holds nothing of the image, the stack,
\* the kernel and its tables (memtable.c:65, mempage.c:142).
FreeIsFree ==
  \A a \in Area : \A p \in Handed(a) :
    /\ Usable(p) /\ AreaOf(p) = a
    /\ \A e \in InUse : e.size > 0 => ~Touches(p, e)

\* When the boot is done, every whole usable page that nothing touches is on
\* one list, once, and the areas have counted it (memtable.c:83).
EachOnce ==
  pc = "done" =>
    /\ \A v \in ToSet(views) : \A p \in PageOf(v.addr) .. PageOf(v.addr + v.size) :
         Usable(p) /\ (\A e \in InUse : e.size > 0 => ~Touches(p, e)) =>
           TimesHanded(AreaOf(p), p) = 1
    /\ \A a \in Area : free_num[a] = Cardinality(Handed(a))

\* The parts of the image do not overlap, nor do the things placed in memory,
\* and no file is read from the image after something was put there
\* (pack.c:121, machine.c:200).
CopiesWhole ==
  /\ \A e, f \in Packed : e # f => Apart(e, f)
  /\ \A i, j \in DOMAIN placed : i # j => Apart(placed[i], placed[j])
  /\ \A i \in DOMAIN placed : placed[i].adr + placed[i].size <= next
  /\ pc \in {"font", "logo"} => \A i \in DOMAIN placed :
       Apart(placed[i], Extent("image", ImageAdr, ImageSize))

\* A page that is not whole is thrown away (mempage.c:76).
NoPartialPage ==
  \A i \in DOMAIN pages : Usable(pages[i].value)
=============================================================================
