----------------------------- MODULE ObjectPool -----------------------------
(***************************************************************************)
(* The object allocator of hal/x86/memobject.c.  A mount point serves the  *)
(* objects of one size from a container: a run of pages with the container *)
(* itself in front, and one more run for each time the container is        *)
(* extended.  It is destroyed when its last object comes back.             *)
(*                                                                         *)
(* Runs of pages are numbered by address; who owns them is PageOwner's     *)
(* business, so here mem_divide returns any run nobody has, or fails.      *)
(* Every operation holds the lock of the manager with interrupts off.      *)
(***************************************************************************)
EXTENDS Integers, Sequences, FiniteSets, SequencesExt, FiniteSetsExt

CONSTANTS
  Mount,     \* the mount points
  None,      \* the NULL container
  Runs,      \* bound: runs of pages the allocator has for containers
  PerBase,   \* objects in the run of a container, after the container
  PerExtend  \* objects in a run it is extended with

PageRun == 1 .. Runs

ASSUME PoolAssumption ==
  /\ Runs \in Nat /\ None \notin PageRun
  /\ PerBase \in Nat \ {0} /\ PerExtend \in Nat \ {0}

\* An object is known by its address: the run it is in, and its place there
\* behind the container or the extension, which has place 0.
Object == PageRun \X (Nat \ {0})

VARIABLES
  containers,  \* mount->containers, a container is known by its first run
  cache,       \* mount->cache
  extends,     \* container->extends, the newest first
  frees,       \* container->frees; frees_num is its length
  total,       \* container->total_num
  live,        \* the objects callers of this mount point have
  stuck        \* objects whose mobj_delete failed

vars == <<containers, cache, extends, frees, total, live, stuck>>

TypeOK ==
  /\ containers \in [Mount -> Seq(PageRun)]
  /\ cache \in [Mount -> PageRun \cup {None}]
  /\ extends \in [PageRun -> Seq(PageRun)]
  /\ frees \in [PageRun -> Seq(Object)]
  /\ total \in [PageRun -> Nat]
  /\ live \in [Mount -> SUBSET Object]
  /\ stuck \in [Mount -> SUBSET Object]

Init ==
  /\ containers = [m \in Mount |-> <<>>]
  /\ cache = [m \in Mount |-> None]
  /\ extends = [r \in PageRun |-> <<>>]
  /\ frees = [r \in PageRun |-> <<>>]
  /\ total = [r \in PageRun |-> 0]
  /\ live = [m \in Mount |-> {}]
  /\ stuck = [m \in Mount |-> {}]

RunsOf(c) == {c} \cup ToSet(extends[c])

\* A bug: the pages of extensions count as free.
UsedByBases == UNION {ToSet(containers[m]) : m \in Mount}

\* The runs of pages that containers own.
Used == UNION {UNION {RunsOf(c) : c \in ToSet(containers[m])} : m \in Mount}

\* The objects of a run of n, in the order repeated list_add leaves them.
Fresh(r, n) == [i \in 1 .. n |-> <<r, n + 1 - i>>]

\* find_container_for_create: the cache, or the first container there is.
Found(m) ==
  IF cache[m] # None THEN cache[m]
  ELSE IF containers[m] # <<>> THEN Head(containers[m]) ELSE None
-----------------------------------------------------------------------------
\* _allocate_object from the list of free objects of container c.
Take(m, c, list) ==
  /\ frees' = [frees EXCEPT ![c] = Tail(list)]
  /\ live' = [live EXCEPT ![m] = @ \cup {Head(list)}]
  /\ cache' = [cache EXCEPT ![m] = c]

\* mobj_new when the container has a free object.
New(m) ==
  /\ Found(m) # None /\ frees[Found(m)] # <<>>
  /\ Take(m, Found(m), frees[Found(m)])
  /\ UNCHANGED <<containers, extends, total, stuck>>

\* mobj_new when it has none: extend_container.
NewExtends(m, r) ==
  /\ Found(m) # None /\ frees[Found(m)] = <<>>
  /\ r \in PageRun \ Used
  /\ LET c == Found(m) IN
       /\ extends' = [extends EXCEPT ![c] = <<r>> \o @]
       /\ total' = [total EXCEPT ![c] = @ + PerExtend]
       /\ Take(m, c, Fresh(r, PerExtend))
  /\ UNCHANGED <<containers, stuck>>

\* mobj_new when there is no container: create_container.
NewCreates(m, r) ==
  /\ Found(m) = None
  /\ r \in PageRun \ Used
  /\ containers' = [containers EXCEPT ![m] = <<r>> \o @]
  /\ total' = [total EXCEPT ![r] = PerBase]
  /\ Take(m, r, Fresh(r, PerBase))
  /\ UNCHANGED <<extends, stuck>>

\* mobj_new when mem_divide fails: the cache is set all the same.
NewFails(m) ==
  /\ Found(m) # None /\ frees[Found(m)] = <<>>
  /\ cache' = [cache EXCEPT ![m] = Found(m)]
  /\ UNCHANGED <<containers, extends, frees, total, live, stuck>>
-----------------------------------------------------------------------------
\* check_container_for_delete: an object of an extension has to lie below the
\* end of the container itself, because that is the end it is compared with.
Covers(c, o) ==
  \/ o[1] = c
  \/ \E e \in ToSet(extends[c]) : e <= o[1] /\ o[1] <= c

\* find_container_for_delete: the cache first, then one container after another.
FoundFor(m, o) ==
  LET hits == {i \in DOMAIN containers[m] : Covers(containers[m][i], o)}
  IN IF cache[m] # None /\ Covers(cache[m], o) THEN cache[m]
     ELSE IF hits # {} THEN containers[m][Min(hits)] ELSE None

\* _recycle_mObject refuses an object when all of them are free already.
Recycles(c) == c # None /\ Len(frees[c]) < total[c]

\* A bug _destroy_container could have: the cache keeps a container that is gone.
DestroyCached(m, c) ==
  /\ containers' = [containers EXCEPT ![m] = RemoveFirst(@, c)]
  /\ extends' = [extends EXCEPT ![c] = <<>>]
  /\ frees' = [frees EXCEPT ![c] = <<>>]
  /\ total' = [total EXCEPT ![c] = 0]
  /\ UNCHANGED cache

\* _destroy_container: off the mount point and out of its cache, and every run
\* of pages back to the page allocator.
Destroy(m, c) ==
  /\ containers' = [containers EXCEPT ![m] = RemoveFirst(@, c)]
  /\ cache' = [cache EXCEPT ![m] = IF @ = c THEN None ELSE @]
  /\ extends' = [extends EXCEPT ![c] = <<>>]
  /\ frees' = [frees EXCEPT ![c] = <<>>]
  /\ total' = [total EXCEPT ![c] = 0]

\* Bugs mobj_delete could have: the container goes one object early, or never.
DeleteEarly(m, o) ==
  LET c == FoundFor(m, o) IN
    /\ o \in live[m] /\ Recycles(c)
    /\ live' = [live EXCEPT ![m] = @ \ {o}]
    /\ IF Len(frees[c]) + 2 = total[c] THEN Destroy(m, c)
       ELSE /\ frees' = [frees EXCEPT ![c] = <<o>> \o @]
            /\ UNCHANGED <<containers, cache, extends, total>>
    /\ UNCHANGED stuck

DeleteKeeps(m, o) ==
  LET c == FoundFor(m, o) IN
    /\ o \in live[m] /\ Recycles(c)
    /\ live' = [live EXCEPT ![m] = @ \ {o}]
    /\ frees' = [frees EXCEPT ![c] = <<o>> \o @]
    /\ UNCHANGED <<containers, cache, extends, total, stuck>>

\* mobj_delete: the object goes to the front of the free list of its container,
\* which is destroyed when all its objects are free.
Delete(m, o) ==
  LET c == FoundFor(m, o) IN
    /\ o \in live[m] /\ Recycles(c)
    /\ live' = [live EXCEPT ![m] = @ \ {o}]
    /\ IF Len(frees[c]) + 1 = total[c] THEN Destroy(m, c)
       ELSE /\ frees' = [frees EXCEPT ![c] = <<o>> \o @]
            /\ UNCHANGED <<containers, cache, extends, total>>
    /\ UNCHANGED stuck

\* mobj_delete that returns FALSE: the caller has let go of the object.
DeleteFails(m, o) ==
  /\ o \in live[m] /\ ~ Recycles(FoundFor(m, o))
  /\ live' = [live EXCEPT ![m] = @ \ {o}]
  /\ stuck' = [stuck EXCEPT ![m] = @ \cup {o}]
  /\ UNCHANGED <<containers, cache, extends, frees, total>>

Next ==
  \E m \in Mount :
    \/ New(m)
    \/ NewFails(m)
    \/ \E r \in PageRun : NewExtends(m, r) \/ NewCreates(m, r)
    \/ \E o \in live[m] : Delete(m, o) \/ DeleteFails(m, o)

Spec == Init /\ [][Next]_vars
-----------------------------------------------------------------------------
(***************************************************************************)
(* Properties.                                                             *)
(***************************************************************************)

AllContainers == UNION {ToSet(containers[m]) : m \in Mount}

\* No run of pages belongs to two containers, or twice to one.
RunsApart ==
  /\ \A m \in Mount : IsInjective(containers[m])
  /\ \A m, n \in Mount : m # n => ToSet(containers[m]) \cap ToSet(containers[n]) = {}
  /\ \A c \in AllContainers :
       /\ IsInjective(extends[c]) /\ c \notin ToSet(extends[c])
       /\ \A d \in AllContainers \ {c} : RunsOf(c) \cap RunsOf(d) = {}

\* An object a caller has lies in the pages of a container of its size and is
\* not free, nor is a free object twice in the list: a container is not given
\* back under the objects it still has outside (memobject.c:515).
LiveKept ==
  \A m \in Mount : \A o \in live[m] \cup stuck[m] :
    \E c \in ToSet(containers[m]) :
      /\ o[1] \in RunsOf(c)
      /\ IsInjective(frees[c]) /\ o \notin ToSet(frees[c])

\* The cached container of a mount point is one of its containers.
CacheFresh ==
  \A m \in Mount : cache[m] \in ToSet(containers[m]) \cup {None}

\* The counters are exact, and a container all of whose objects are free does
\* not stay: its pages are given back with the last object (memobject.c:600).
NothingIdle ==
  \A m \in Mount : \A c \in ToSet(containers[m]) :
    LET out == {o \in live[m] \cup stuck[m] : o[1] \in RunsOf(c)}
    IN total[c] = Len(frees[c]) + Cardinality(out) /\ out # {}

\* Every object that was allocated can be deleted (memobject.c:412).
DeletesSucceed == \A m \in Mount : stuck[m] = {}
=============================================================================
