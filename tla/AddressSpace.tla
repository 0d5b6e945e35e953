---------------------------- MODULE AddressSpace ----------------------------
(***************************************************************************)
(* The address space of a process (kernel/kvmprocess.c, kvmarea.c): a list *)
(* of areas in the order of their addresses, pointers to the last and to   *)
(* the most recently used one, and the pages that page faults bring in.    *)
(*                                                                         *)
(* kvm_new and kvm_delete hold the lock of the space, so they do not       *)
(* interleave with each other.  The page fault handler holds the lock of   *)
(* the process instead and runs with interrupts on: it may come between    *)
(* any two steps of a kvm_delete, and kvm_delete between any two of its.   *)
(*                                                                         *)
(* Addresses count halves of a page, so that an address need not be        *)
(* aligned; the end of the space is not.  Sums of addresses and sizes wrap *)
(* as those of addr_t do.                                                  *)
(*                                                                         *)
(* The cached area may have been deleted.  What is left of it may match    *)
(* whatever is looked for, or not; nothing is said of what comes after a   *)
(* write to it.                                                            *)
(***************************************************************************)
EXTENDS Integers, Sequences, FiniteSets, SequencesExt, FiniteSetsExt

CONSTANTS
  Area,        \* the objects mobj_new has for areas
  None,        \* the NULL area
  SpaceEnd,    \* USER_VIRADR_END
  FirstSize,   \* size of the first area at boot
  StackSize,   \* room for the stack at boot
  Sizes,       \* the sizes callers ask for
  Limits,      \* limits and mapType of an area, as one
  Faulter,     \* threads that touch addresses of the space
  AddrMod,     \* addr_t and size_t count modulo this
  UintMod      \* uint_t counts modulo this

Page == 2  \* 0x1000

Plus(x, y) == (x + y) % AddrMod

\* ALIGN_4K
Align(n) == (Plus(n, Page - 1) \div Page) * Page

Address == 0 .. SpaceEnd - 1

StackStart == Align(SpaceEnd - StackSize)

ASSUME SpaceAssumption ==
  /\ None \notin Area /\ Cardinality(Area) >= 2
  /\ AddrMod \in Nat /\ AddrMod % Page = 0
  /\ SpaceEnd \in Nat /\ SpaceEnd + Page <= AddrMod
  /\ FirstSize \in 1 .. SpaceEnd /\ StackSize \in 0 .. SpaceEnd
  /\ Align(FirstSize) = FirstSize
  /\ Page + FirstSize <= StackStart /\ StackStart < SpaceEnd
  /\ Sizes \subseteq 1 .. AddrMod - 1
  /\ 0 \in Limits
  /\ UintMod \in Nat \ {0, 1, 2}

VARIABLES
  areas,      \* space->areas
  rec,        \* start, end and limits of each area
  box,        \* the pages in the box of each area; no box counts as empty
  curArea,    \* space->curArea
  endArea,    \* space->endArea
  areasNum,   \* space->areasNum
  split,      \* the new area that kvm_delete has yet to link, and its left part
  fault,      \* fault[t]: how far the fault handler of t is, and with what
  filled,     \* filled[p]: the frames page p has been given
  owned,      \* how often each address was given out and not yet given back,
              \* by the replies of kvm_new and kvm_delete
  gone,       \* threads that bring in a page for an area that was deleted before
              \* it was found, or for an address given back since
  undefined   \* freed memory has been written to

vars == <<areas, rec, box, curArea, endArea, areasNum, split, fault, filled, owned, gone,
          undefined>>

Nowhere == [start |-> 0, end |-> 0, limits |-> 0]
NoSplit == [left |-> None, new |-> None]
Running == [pc |-> "run", adr |-> 0, area |-> None]

PageOf(v) == v \div Page
PageNo == {PageOf(v) : v \in 0 .. SpaceEnd}

Live == ToSet(areas)
\* Objects that are areas, and those that mobj_new may return.
Valid == (Live \cup {split.new}) \ {None}
FreeAreas == Area \ Valid

RangeOf(a) == rec[a].start .. rec[a].end - 1

Word == 0 .. AddrMod - 1

TypeOK ==
  /\ areas \in Seq(Area)
  /\ rec \in [Area -> [start : Word, end : Word, limits : Limits]]
  /\ box \in [Area -> SUBSET PageNo]
  /\ {curArea, endArea} \subseteq Area \cup {None}
  /\ areasNum \in 0 .. UintMod - 1
  /\ split \in [left : Area \cup {None}, new : Area \cup {None}]
  /\ fault \in [Faulter -> [pc : {"run", "raised", "found", "dead"},
                            adr : Address \cup {SpaceEnd}, area : Area \cup {None}]]
  /\ filled \in [PageNo -> Nat]
  /\ owned \in [Address -> Int]
  /\ gone \subseteq Faulter
  /\ undefined \in BOOLEAN

BootRanges == (Page .. Page + FirstSize - 1) \cup (StackStart .. SpaceEnd - 1)

\* init_userspace_kvmspace
Init ==
  \E first, stack \in Area :
    /\ first # stack
    /\ areas = <<first, stack>>
    /\ rec = [a \in Area |->
               CASE a = first -> [Nowhere EXCEPT !.start = Page, !.end = Page + FirstSize]
                 [] a = stack -> [Nowhere EXCEPT !.start = StackStart, !.end = SpaceEnd]
                 [] OTHER     -> Nowhere]
    /\ box = [a \in Area |-> {}]
    /\ curArea = None /\ endArea = stack /\ areasNum = 2
    /\ split = NoSplit
    /\ fault = [t \in Faulter |-> Running]
    /\ filled = [p \in PageNo |-> 0]
    /\ owned = [v \in Address |-> IF v \in BootRanges THEN 1 ELSE 0]
    /\ gone = {} /\ undefined = FALSE
-----------------------------------------------------------------------------
Credit(r) == [v \in Address |-> owned[v] + IF v \in r THEN 1 ELSE 0]
Debit(r)  == [v \in Address |-> owned[v] - IF v \in r THEN 1 ELSE 0]

\* Threads that are about to bring in a page of the addresses r.
Lost(r) == {t \in Faulter : fault[t].pc = "found" /\ fault[t].adr \in r}

Dangling == curArea \notin Valid \cup {None}

Follow == undefined' = TRUE
          /\ UNCHANGED <<areas, rec, box, curArea, endArea, areasNum, split, fault, filled,
                         owned, gone>>

\* What both kvm_new and kvm_delete need: nobody holds space->lock.
Unlocked == split = NoSplit /\ ~undefined

IndexOf(a) == CHOOSE i \in DOMAIN areas : areas[i] = a

\* Where the free room behind area a ends.
RoomEnd(a) ==
  IF IndexOf(a) = Len(areas) THEN SpaceEnd ELSE rec[areas[IndexOf(a) + 1]].start

\* A bug: the requested start may lie below the room.
FitsBelow(a, start, size) ==
  IF start = 0 THEN Plus(rec[a].end, size) <= RoomEnd(a)
  ELSE Plus(start, Plus(start, size)) <= RoomEnd(a)

\* check_area_for_new.  A requested start is added to the requested end.
Fits(a, start, size) ==
  IF start = 0 THEN Plus(rec[a].end, size) <= RoomEnd(a)
  ELSE rec[a].end <= start /\ Plus(start, Plus(start, size)) <= RoomEnd(a)

\* The cached area if it is good, else the first good one of the list.
Pick(good) ==
  IF curArea \in good THEN curArea
  ELSE IF good = {} THEN None
  ELSE areas[Min({i \in DOMAIN areas : areas[i] \in good})]

\* What kvm_new and find_area_for_new ask of a request.  A sum that wraps is
\* within the space.
Legal(start, size) ==
  /\ start # 0 => start >= Page /\ start % Page = 0 /\ Plus(start, size) <= SpaceEnd
  /\ Align(size) >= Page /\ Plus(start, Align(size)) <= SpaceEnd

\* kvm_new takes what is left of a deleted area for one with room behind it,
\* and writes to it or links a new area behind it.
NewStale(start, size) ==
  /\ Unlocked /\ Legal(start, size) /\ Dangling
  /\ Follow

PickNew(start, size) == Pick({a \in Live : Fits(a, start, Align(size))})

\* A bug: the reply is the start of the area that grew.
GrownFromStart(a, size) == rec[a].start .. rec[a].start + Align(size) - 1

\* What kvm_new replies when it makes area a longer.
Grown(a, size) == rec[a].end .. rec[a].end + Align(size) - 1

\* kvm_new: the area before the room can be made longer.
NewGrows(start, size, limits) ==
  /\ Unlocked /\ Legal(start, size)
  /\ LET a == PickNew(start, size) IN
       /\ a # None
       /\ start \in {0, rec[a].start} /\ limits = rec[a].limits
       /\ rec' = [rec EXCEPT ![a].end = Plus(@, Align(size))]
       /\ owned' = Credit(Grown(a, size))
       /\ curArea' = a
  /\ UNCHANGED <<areas, box, endArea, areasNum, split, fault, filled, gone, undefined>>

\* kvm_new: an area of its own behind the one found.  It is not counted.
NewArea(start, size, limits, new) ==
  /\ Unlocked /\ Legal(start, size)
  /\ new \in FreeAreas
  /\ LET a    == PickNew(start, size)
         from == IF start = 0 THEN rec[a].end ELSE start
     IN
       /\ a # None
       /\ ~(start \in {0, rec[a].start} /\ limits = rec[a].limits)
       /\ rec' = [rec EXCEPT ![new] = [start |-> from, end |-> Plus(from, Align(size)),
                                       limits |-> limits]]
       /\ box' = [box EXCEPT ![new] = {}]
       /\ areas' = InsertAt(areas, IndexOf(a) + 1, new)
       /\ endArea' = IF IndexOf(a) = Len(areas) THEN a ELSE endArea
       /\ owned' = Credit(from .. from + Align(size) - 1)
  /\ UNCHANGED <<curArea, areasNum, split, fault, filled, gone, undefined>>
-----------------------------------------------------------------------------
\* find_area_for_delete
PickHolder(start, end) == Pick({a \in Live : rec[a].start <= start /\ end <= rec[a].end})

\* kvm_delete may take what is left of a deleted area for the one it looks for.
DeleteStale(start) ==
  /\ Unlocked /\ start # 0 /\ Dangling
  /\ Follow

\* What the caller of kvm_delete gives back when it succeeds.
GiveBack(start, size) ==
  LET r == start .. start + Align(size) - 1 IN owned' = Debit(r) /\ gone' = gone \cup Lost(r)

OneLess == (areasNum - 1) % UintMod

\* kvm_delete of all of an area.  The cache keeps pointing to it.
DeleteWhole(start, size) ==
  /\ Unlocked /\ start # 0
  /\ LET end == Plus(start, Align(size))
         a   == PickHolder(start, end)
     IN
       /\ a # None
       /\ rec[a].start = start /\ end = rec[a].end
       /\ areas' = RemoveFirst(areas, a)
       /\ rec' = [rec EXCEPT ![a] = Nowhere]
       /\ box' = [box EXCEPT ![a] = {}]
       /\ areasNum' = OneLess
  /\ GiveBack(start, size)
  /\ UNCHANGED <<curArea, endArea, split, fault, filled, undefined>>

\* kvm_delete of the beginning or of the end of an area.
DeleteSide(start, size) ==
  /\ Unlocked /\ start # 0
  /\ LET end == Plus(start, Align(size))
         a   == PickHolder(start, end)
     IN
       /\ a # None
       /\ \/ /\ rec[a].start = start /\ end < rec[a].end
             /\ rec' = [rec EXCEPT ![a].start = end]
          \/ /\ rec[a].start < start /\ end = rec[a].end
             /\ rec' = [rec EXCEPT ![a].end = start]
  /\ GiveBack(start, size)
  /\ UNCHANGED <<areas, box, curArea, endArea, areasNum, split, fault, filled, undefined>>

\* kvm_delete from within an area: the right part becomes an area of its own,
\* and the area is cut before that one can be found.
DeleteCuts(start, size, new) ==
  /\ Unlocked /\ start # 0
  /\ new \in FreeAreas
  /\ LET end == Plus(start, Align(size))
         a   == PickHolder(start, end)
     IN
       /\ a # None
       /\ rec[a].start < start /\ end < rec[a].end
       /\ rec' = [rec EXCEPT ![new] = [rec[a] EXCEPT !.start = end], ![a].end = start]
       /\ box' = [box EXCEPT ![new] = {}]
       /\ split' = [left |-> a, new |-> new]
  /\ GiveBack(start, size)
  /\ UNCHANGED <<areas, curArea, endArea, areasNum, fault, filled, undefined>>

\* A bug: the right part is dropped when the space has enough areas.
LinkForgets ==
  /\ split # NoSplit /\ ~undefined
  /\ split' = NoSplit
  /\ UNCHANGED <<areas, rec, box, curArea, endArea, areasNum, fault, filled, owned, gone, undefined>>

\* kvm_delete links the right part, counts it and makes it the cached area.
DeleteLinks ==
  /\ split # NoSplit /\ ~undefined
  /\ areas' = InsertAt(areas, IndexOf(split.left) + 1, split.new)
  /\ areasNum' = (areasNum + 1) % UintMod
  /\ endArea' = IF IndexOf(split.left) = Len(areas) THEN split.new ELSE endArea
  /\ curArea' = split.new
  /\ split' = NoSplit
  /\ UNCHANGED <<rec, box, fault, filled, owned, gone, undefined>>
-----------------------------------------------------------------------------
\* A thread touches an address whose page is not there.
Raise(t, v) ==
  /\ ~undefined /\ fault[t].pc = "run"
  /\ filled[PageOf(v)] = 0
  /\ fault' = [fault EXCEPT ![t] = [pc |-> "raised", adr |-> v, area |-> None]]
  /\ UNCHANGED <<areas, rec, box, curArea, endArea, areasNum, split, filled, owned, gone, undefined>>

\* The lock of the process is free.
CanLock(t) ==
  /\ ~undefined /\ fault[t].pc = "raised"
  /\ \A u \in Faulter : fault[u].pc # "found"

\* vma_map_find_kvmarea takes what is left of a deleted area for the one it
\* looks for.
FindStale(t) ==
  /\ CanLock(t)
  /\ fault[t].adr >= Page /\ Dangling
  /\ fault' = [fault EXCEPT ![t].pc = "found", ![t].area = curArea]
  /\ gone' = gone \cup {t}
  /\ UNCHANGED <<areas, rec, box, curArea, endArea, areasNum, split, filled, owned, undefined>>

\* A bug: the end of an area counts as inside.
HoldersWithEnd(v) == {a \in Live \cup ({curArea} \cap Valid) : v \in rec[a].start .. rec[a].end}

\* The areas that contain v: those of the list, and the cached one.
Holders(v) == {a \in Live \cup ({curArea} \cap Valid) : v \in RangeOf(a)}

\* vma_map_find_kvmarea
Find(t) ==
  /\ CanLock(t)
  /\ fault[t].adr >= Page
  /\ LET a == Pick(Holders(fault[t].adr)) IN
       /\ a # None
       /\ fault' = [fault EXCEPT ![t].pc = "found", ![t].area = a]
  /\ UNCHANGED <<areas, rec, box, curArea, endArea, areasNum, split, filled, owned, gone, undefined>>

\* The address is in no area: error() stops the thread.
Miss(t) ==
  /\ CanLock(t)
  /\ fault[t].adr >= Page => Holders(fault[t].adr) = {}
  /\ fault' = [fault EXCEPT ![t].pc = "dead"]
  /\ UNCHANGED <<areas, rec, box, curArea, endArea, areasNum, split, filled, owned, gone, undefined>>

\* A frame and its entry of the page table.  Neither whether there is a page
\* already nor whether anybody still has the address is asked.
BringIn(t) ==
  /\ filled' = [filled EXCEPT ![PageOf(fault[t].adr)] = @ + 1]
  /\ fault' = [fault EXCEPT ![t] = Running]
  /\ gone' = gone \ {t}

\* The frame goes to the box of the area, which is made if there is none.
Map(t) ==
  /\ ~undefined /\ fault[t].pc = "found" /\ fault[t].area \in Valid
  /\ BringIn(t)
  /\ box' = [box EXCEPT ![fault[t].area] = @ \cup {PageOf(fault[t].adr)}]
  /\ UNCHANGED <<areas, rec, curArea, endArea, areasNum, split, owned, undefined>>

\* The area that was found has been deleted.  If what is left of it has no box,
\* the one that is made is written to it.
MapStale(t) ==
  /\ ~undefined /\ fault[t].pc = "found" /\ fault[t].area \notin Valid
  /\ BringIn(t)
  /\ undefined' \in BOOLEAN
  /\ UNCHANGED <<areas, rec, box, curArea, endArea, areasNum, split, owned>>

\* No memory for the box, the frame or a page table: error() again.
MapFails(t) ==
  /\ ~undefined /\ fault[t].pc = "found"
  /\ fault' = [fault EXCEPT ![t].pc = "dead", ![t].area = None]
  /\ gone' = gone \ {t}
  /\ UNCHANGED <<areas, rec, box, curArea, endArea, areasNum, split, filled, owned, undefined>>
-----------------------------------------------------------------------------
NewNext ==
  \E start \in Address, size \in Sizes :
    \/ NewStale(start, size)
    \/ \E limits \in Limits :
         \/ NewGrows(start, size, limits)
         \/ \E new \in FreeAreas : NewArea(start, size, limits, new)

DeleteNext ==
  \/ \E start \in Address, size \in Sizes :
       \/ DeleteStale(start)
       \/ DeleteWhole(start, size)
       \/ DeleteSide(start, size)
       \/ \E new \in FreeAreas : DeleteCuts(start, size, new)
  \/ DeleteLinks

FaultNext(t) ==
  \/ \E v \in Address \cup {SpaceEnd} : Raise(t, v)
  \/ Find(t) \/ FindStale(t) \/ Miss(t)
  \/ Map(t) \/ MapStale(t) \/ MapFails(t)

Next == NewNext \/ DeleteNext \/ \E t \in Faulter : FaultNext(t)

Spec == Init /\ [][Next]_vars
-----------------------------------------------------------------------------
\* No sum of kvm_new and kvm_delete wraps for the sizes they are called with.
\* The code does not ask.
NoneWraps == \A n \in Sizes : 2 * SpaceEnd + n + Page <= AddrMod

\* The areas of the list are in order and apart, not empty and within the
\* space, whatever starts and sizes that do not wrap kvm_new and kvm_delete
\* are called with, and in whatever order.
AreasApart ==
  /\ \A i \in DOMAIN areas :
       /\ Page <= rec[areas[i]].start
       /\ rec[areas[i]].start < rec[areas[i]].end
       /\ rec[areas[i]].end <= SpaceEnd
  /\ \A i, j \in DOMAIN areas : i < j => rec[areas[i]].end <= rec[areas[j]].start

\* Addresses somebody has been given.
Owned == {v \in Address : owned[v] > 0}

\* The right part of an area that is being cut, until it is linked.
Unlinked == IF split = NoSplit THEN {} ELSE RangeOf(split.new)

\* kvm_new never gives out an address that somebody has, and kvm_delete
\* never succeeds on one that nobody has.
Ranges == INSTANCE AddressRanges WITH
  used <- owned,
  Given <- BootRanges
RangesKept == Ranges!Spec

\* The cached area is an area of the list.
CacheLive == ~Dangling

\* areasNum counts the areas and endArea points to the last one.
SummaryRight ==
  split = NoSplit =>
    /\ areasNum = Len(areas)
    /\ areas # <<>> => endArea = areas[Len(areas)]

\* The box of an area has the pages that are in memory for it.
BoxManages ==
  split = NoSplit =>
    \A a \in Live : \A v \in RangeOf(a) :
      filled[PageOf(v)] > 0 => PageOf(v) \in box[a]

\* An address that is in no area when the fault handler looks for it has not
\* been given to anybody.
MissesUnowned ==
  \A t \in Faulter :
    CanLock(t) /\ fault[t].adr \in Owned => Holders(fault[t].adr) # {}

\* As above, but for the right part of an area that is being cut and is not on
\* the list yet: nothing else that somebody has is ever out of reach, since what
\* the areas cover is what kvm_new and kvm_delete have replied
\* (kvmprocess.c:302).
MissesExplained ==
  \A t \in Faulter :
    CanLock(t) /\ fault[t].adr \in Owned /\ Holders(fault[t].adr) = {} =>
      fault[t].adr \in Unlinked

\* The fault handler brings in a page only for an address that somebody has;
\* else kvm_delete has taken it back since the area was found
\* (kvmprocess.c:518), or the area was what is left of a deleted one.
FillsExplained ==
  [][\A t \in Faulter :
       fault[t].pc = "found" /\ fault'[t].pc = "run" =>
         fault[t].adr \in Owned \/ t \in gone]_vars

\* The fault handler brings in a page only for an address that somebody has.
FillsOwned ==
  [][\A t \in Faulter :
       fault[t].pc = "found" /\ fault'[t].pc = "run" => fault[t].adr \in Owned]_vars

\* The fault handler brings in a page that is missing.
FillsMissing ==
  \A t \in Faulter : fault[t].pc = "found" => filled[PageOf(fault[t].adr)] = 0
=============================================================================
