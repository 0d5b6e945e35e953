----------------------------- MODULE PageTables -----------------------------
(***************************************************************************)
(* The page tables of hal/x86/mmu.c: four levels, a page of memory for     *)
(* every table, and for the tables of each level a list of their pages.    *)
(*                                                                         *)
(* Each operation holds the lock of the mmu; nothing else reads or writes  *)
(* the tables but the processor, which follows the entries from the first  *)
(* table on.  A virtual address is the sequence of its four indexes.       *)
(***************************************************************************)
EXTENDS Naturals, Sequences, FiniteSets

CONSTANTS
  Idx,      \* indexes of a table
  KrnlIdx,  \* indexes of the first table that mmu_init copies from the loader
  VAdr,     \* the virtual pages that are mapped
  PAdr,     \* the physical pages they are mapped to
  Frame,    \* the pages mem_divide has for tables
  Root,     \* the first table
  Krnl,     \* the table of the loader that the copied entries point to
  NULL

ASSUME TablesAssumption ==
  /\ KrnlIdx \subseteq Idx
  /\ VAdr \subseteq {v \in [1 .. 4 -> Idx] : v[1] \notin KrnlIdx}
  /\ NULL \notin PAdr \cup Frame \cup {Root, Krnl}
  /\ {Root, Krnl} \cap Frame = {} /\ Root # Krnl
  /\ PAdr \cap (Frame \cup {Root, Krnl}) = {}

VARIABLES
  entries,  \* entries[t][i]: the page an entry of table t points to
  pts,      \* mmu->pt2s, pt3s and pt4s: the tables of each level
  locked    \* mmu->lock was not released

tableVars == <<entries, pts, locked>>

Table == Frame \cup {Root}
Level == 2 .. 4
Empty == [i \in Idx |-> NULL]

TablesType ==
  /\ entries \in [Table -> [Idx -> Frame \cup PAdr \cup {Krnl, NULL}]]
  /\ pts \in [Level -> SUBSET Frame]
  /\ locked \in BOOLEAN

\* mmu_init: the entries of the kernel, no flat mapping.
TablesInit ==
  /\ entries = [t \in Table |->
                 [i \in Idx |-> IF t = Root /\ i \in KrnlIdx THEN Krnl ELSE NULL]]
  /\ pts = [k \in Level |-> {}]
  /\ locked = FALSE

Used == UNION {pts[k] : k \in Level}
-----------------------------------------------------------------------------
\* An operation works on a state s of the entries (s.e) and the lists (s.l).
Now == [e |-> entries, l |-> pts]

Become(s) == entries' = s.e /\ pts' = s.l

\* pt2_is_empty, pt3_is_empty, pt4_is_empty.  The table of the loader is not.
IsEmpty(e, t) == t # Krnl /\ \A i \in Idx : e[t][i] = NULL

\* Entry i of table t becomes x.
Write(e, t, i, x) == [e EXCEPT ![t] = [j \in Idx |-> IF j = i THEN x ELSE e[t][j]]]

\* transform_pt1 to transform_pt3: entry i of t has a table of level k, if
\* need be the new one f that mem_divide gave.
Hang(s, t, i, k, f) ==
  IF s.e[t][i] # NULL \/ f = NULL THEN s
  ELSE [e |-> Write([s.e EXCEPT ![f] = Empty], t, i, f),
        l |-> [s.l EXCEPT ![k] = s.l[k] \cup {f}]]

\* A bug: the table is given back, its entry stays.
UnhangStale(s, t, i, k) ==
  LET f == s.e[t][i] IN
  IF f = NULL \/ ~IsEmpty(s.e, f) \/ f \notin s.l[k] THEN s
  ELSE [e |-> s.e, l |-> [s.l EXCEPT ![k] = s.l[k] \ {f}]]

\* A bug: the table is given back whether or not it is empty.
UnhangFull(s, t, i, k) ==
  LET f == s.e[t][i] IN
  IF f = NULL \/ f \notin s.l[k] THEN s
  ELSE [e |-> Write(s.e, t, i, NULL), l |-> [s.l EXCEPT ![k] = s.l[k] \ {f}]]

\* untransform_pt1, untransform_pt2: the table of level k in entry i of t is
\* given back if it is empty.
Unhang(s, t, i, k) ==
  LET f == s.e[t][i] IN
  IF f = NULL \/ ~IsEmpty(s.e, f) \/ f \notin s.l[k] THEN s
  ELSE [e |-> Write(s.e, t, i, NULL), l |-> [s.l EXCEPT ![k] = s.l[k] \ {f}]]

\* The way back from v: the third table goes by its second index, and so does
\* the second table, for untransform_pt1 takes pt2_idx too.
Retreat2(s, v) == Unhang(s, Root, v[2], 2)
Retreat3(s, t2, v) == Retreat2(Unhang(s, t2, v[2], 3), v)
-----------------------------------------------------------------------------
\* What three calls of mem_divide would return.
Offers ==
  {f \in [Level -> (Frame \ Used) \cup {NULL}] :
     \A j, k \in Level : j # k /\ f[j] # NULL => f[j] # f[k]}

\* mmu_transform, with the tables it finds or makes on the way down.
Transform(v, p, f) ==
  LET s2 == Hang(Now, Root, v[1], 2, f[2])
      t2 == s2.e[Root][v[1]]
      s3 == Hang(s2, t2, v[2], 3, f[3])
      t3 == s3.e[t2][v[2]]
      s4 == Hang(s3, t3, v[3], 4, f[4])
      t4 == s4.e[t3][v[3]]
  IN
    /\ ~locked
    /\ \/ /\ t2 = NULL
          /\ Become(Retreat2(s2, v))
       \/ /\ t2 # NULL /\ t3 = NULL
          /\ Become(Retreat3(s3, t2, v))
       \/ /\ t2 # NULL /\ t3 # NULL /\ t4 = NULL
          /\ Become(Retreat3(s4, t2, v))
       \/ /\ t2 # NULL /\ t3 # NULL /\ t4 # NULL
          /\ Become([s4 EXCEPT !.e = Write(s4.e, t4, v[4], p)])
    /\ UNCHANGED locked

\* The next table on the way down, if there is one.
Below(e, t, i) == IF t = NULL THEN NULL ELSE e[t][i]

\* mmu_untransform.  untransform_pt3 refuses the NULL page it is called with,
\* so a table of the last level stays.
Untransform(v) ==
  LET t2 == entries[Root][v[1]]
      t3 == Below(entries, t2, v[2])
      t4 == Below(entries, t3, v[3])
      cut == [Now EXCEPT !.e = Write(entries, t4, v[4], NULL)]
  IN
    /\ ~locked
    /\ t2 # NULL
    /\ \/ t3 = NULL /\ Become(Retreat2(Now, v))
       \/ t3 # NULL /\ t4 = NULL /\ Become(Retreat3(Now, t2, v))
       \/ t3 # NULL /\ t4 # NULL /\ Become(Retreat3(cut, t2, v))
    /\ UNCHANGED locked

\* mmu_clean of tables the processor uses, as it does from kvm_init on, gives
\* nothing back and keeps the lock.
Clean ==
  /\ ~locked
  /\ locked' = TRUE
  /\ UNCHANGED <<entries, pts>>

TablesNext ==
  \/ \E v \in VAdr : Untransform(v) \/ \E p \in PAdr, f \in Offers : Transform(v, p, f)
  \/ Clean

TablesSpec == TablesInit /\ [][TablesNext]_tableVars
-----------------------------------------------------------------------------
\* What the processor finds for v.
Leaf(v) ==
  Below(entries, Below(entries, Below(entries, entries[Root][v[1]], v[2]), v[3]), v[4])

\* The tables of level k.
TablesOf(k) == IF k = 1 THEN {Root} ELSE pts[k]

\* The lists have the tables that the entries point to, level by level, and
\* every table hangs in one entry: no entry points to a page that was given
\* back, and no page is out of reach.
ListsMatchTree ==
  /\ \A j, k \in Level : j # k => pts[j] \cap pts[k] = {}
  /\ \A k \in Level :
       /\ \A f \in pts[k] :
            Cardinality({x \in TablesOf(k - 1) \X Idx : entries[x[1]][x[2]] = f}) = 1
       /\ \A t \in TablesOf(k - 1), i \in Idx :
            entries[t][i] \in pts[k] \cup {NULL} \cup (IF k = 2 THEN {Krnl} ELSE {})

\* What the processor finds for every page.
Mapping == [v \in VAdr |-> Leaf(v)]

Maps == INSTANCE AddressMap WITH map <- Mapping

\* A mapping that fails for want of a page, and the way back from it, change
\* no other mapping; nor does the end of a mapping.
MapKept == Maps!Spec

\* mmu_untransform gives back a table of the last level that it empties.
LastLevelFull == \A f \in pts[4] : ~IsEmpty(entries, f)

\* A mapping that fails, or ends, leaves no empty table in the first table.
SecondLevelFull == \A f \in pts[2] : ~IsEmpty(entries, f)

\* mmu_clean gives back all tables.
CleanReturnsAll == locked => Used = {}
=============================================================================
