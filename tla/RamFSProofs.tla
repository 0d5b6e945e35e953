---------------------------- MODULE RamFSProofs ----------------------------
(***************************************************************************)
(* For every number of entries and of blocks, of names and of nodes: a     *)
(* single caller never loses or shares a block.  With two callers it can   *)
(* (files_race.cfg).                                                       *)
(*                                                                         *)
(* The argument: a single caller's copy of the superblock is the           *)
(* superblock, so what it writes back differs by its own change only; and  *)
(* as there are more blocks than entries, block_apply finds a free one     *)
(* whenever an entry is empty, so the 0 it returns otherwise, the block of *)
(* the superblock itself, is never given to a file.                        *)
(***************************************************************************)
EXTENDS RamFS, FiniteSetTheorems, WellFoundedInduction, TLAPS

Inode == [name : [1 .. Width -> Nat], block : Block, off : Nat]
Disk == [bitmap : SUBSET Block, root : [Slot -> Inode]]

\* BlocksOwned of any superblock.
Owned(s) ==
  /\ \A b \in Block :
       b \in s.bitmap <=> b = 0 \/ \E q \in Used(s.root) : s.root[q].block = b
  /\ \A q, r \in Used(s.root) : s.root[q].block = s.root[r].block => q = r
  /\ \A q \in Used(s.root) : s.root[q].block # 0

\* A caller between superblock_read and superblock_write.
CopyTrue == \A t \in Thread : held[t].pc = "super" => held[t].copy = super

FInv ==
  /\ DOMAIN held = Thread
  /\ \A t \in Thread : held[t].pc = "block" => held[t].slot \in Slot
  /\ fnode \in [Node -> Slot \cup {None}]
  /\ super \in Disk
  /\ CopyTrue
  /\ Owned(super)
-----------------------------------------------------------------------------
\* The searches for a free block, for an entry of a name and for an empty entry
\* find one if there is one.

LEMMA MinIn ==
  ASSUME NEW T, T \subseteq Nat, T # {}
  PROVE  Min(T) \in T
  <1>1. PICK x \in T : \A y \in T : ~ (<<y, x>> \in OpToRel(<, Nat))
    BY WFMin, NatLessThanWellFounded, Zenon
  <1>2. ASSUME NEW y \in T PROVE x <= y
    <2>1. ~ (y < x)
      BY <1>1 DEF OpToRel
    <2> QED BY <2>1
  <1> QED BY <1>2 DEF Min

LEMMA MaxIn ==
  ASSUME NEW T, T \subseteq Slot, T # {}
  PROVE  Max(T) \in T
  <1> DEFINE U == {Slots - x : x \in T}
  <1> USE RamFSAssumption DEF Slot
  <1>1. U \subseteq Nat /\ U # {}
    <2>1. \A x \in 1 .. Slots : Slots - x \in Nat
      OBVIOUS
    <2> QED BY <2>1
  <1>2. PICK u \in U : \A y \in U : ~ (<<y, u>> \in OpToRel(<, Nat))
    <2> HIDE DEF U
    <2> QED BY <1>1, WFMin, NatLessThanWellFounded, Zenon
  <1>3. PICK x \in T : u = Slots - x
    OBVIOUS
  <1>4. ASSUME NEW y \in T PROVE x >= y
    <2>1. Slots - y \in U /\ Slots - y \in Nat /\ u \in Nat
      BY <1>1
    <2>2. ~ (Slots - y < u)
      BY <1>2, <1>1, <2>1 DEF OpToRel
    <2> QED BY <2>1, <2>2, <1>3
  <1> QED BY <1>4 DEF Max

LEMMA UsedSlots == ASSUME NEW root PROVE Used(root) \subseteq Slot
  BY DEF Used

LEMMA FirstFound ==
  ASSUME NEW root, NEW n \in Name, Found(root, n) # {}
  PROVE  First(root, n) \in Used(root)
  <1>1. Found(root, n) \subseteq Used(root) /\ Used(root) \subseteq Nat
    BY UsedSlots DEF Found, Slot
  <1> QED BY <1>1, MinIn DEF First

\* As long as an entry is empty there are fewer files than entries, and fewer
\* entries than blocks: block_apply does not return 0.
LEMMA BlockIsFree ==
  ASSUME NEW s \in Disk, Owned(s), Used(s.root) # Slot
  PROVE  /\ BlockApply(s.bitmap) \in Block
         /\ BlockApply(s.bitmap) \notin s.bitmap
  <1> USE RamFSAssumption
  <1>1. PICK e \in Slot : e \notin Used(s.root)
    BY UsedSlots
  <1>2. ~ (Block \subseteq s.bitmap)
    <2> SUFFICES ASSUME Block \subseteq s.bitmap PROVE FALSE
      OBVIOUS
    <2> DEFINE file == [b \in Block |-> IF b = 0 THEN e
                          ELSE CHOOSE q \in Used(s.root) : s.root[q].block = b]
    <2>1. ASSUME NEW b \in Block, b # 0
          PROVE  file[b] \in Used(s.root) /\ s.root[file[b]].block = b
      <3>1. \E q \in Used(s.root) : s.root[q].block = b
        BY <2>1 DEF Owned
      <3>2. file[b] = CHOOSE q \in Used(s.root) : s.root[q].block = b
        BY <2>1
      <3> HIDE DEF file
      <3> QED BY <3>1, <3>2
    <2>2. file[0] = e
      BY DEF Block
    <2>3. file \in [Block -> Slot]
      <3>1. ASSUME NEW b \in Block PROVE file[b] \in Slot
        BY <1>1, <2>1, <2>2, UsedSlots
      <3> QED BY <3>1
    <2> HIDE DEF file
    <2>4. /\ IsFiniteSet(Slot) /\ Cardinality(Slot) = Slots
          /\ IsFiniteSet(Block) /\ Cardinality(Block) = Blocks
      BY FS_Interval DEF Slot, Block
    <2>5. PICK a, b \in Block : a # b /\ file[a] = file[b]
      BY <2>3, <2>4, FS_PigeonHole
    <2> QED BY <1>1, <2>1, <2>2, <2>5
  <1>3. Block \ s.bitmap \subseteq Nat /\ Block \ s.bitmap # {}
    BY <1>2 DEF Block
  <1>4. Min(Block \ s.bitmap) \in Block \ s.bitmap
    BY <1>3, MinIn
  <1> QED BY <1>2, <1>4 DEF BlockApply
-----------------------------------------------------------------------------
\* What the operations do to a superblock.

\* rfs_new_file in an empty entry.
LEMMA NewOwned ==
  ASSUME NEW s \in Disk, Owned(s), NEW e \in Slot, e \notin Used(s.root),
         NEW b \in Block, b \notin s.bitmap,
         NEW t \in Disk, t.bitmap = s.bitmap \cup {b},
         t.root[e].name[1] # 0, t.root[e].block = b,
         \A q \in Slot \ {e} : t.root[q] = s.root[q]
  PROVE  Owned(t)
  <1>1. /\ t.root[e].name[1] # 0 /\ t.root[e].block = b
        /\ \A q \in Slot \ {e} : t.root[q] = s.root[q]
    OBVIOUS
  <1>2. Used(t.root) = Used(s.root) \cup {e}
    BY <1>1 DEF Used
  <1>3. b # 0 /\ \A q \in Used(s.root) : s.root[q].block # b
    BY UsedSlots DEF Owned
  <1>4. \A q \in Used(s.root) : t.root[q].block = s.root[q].block
    BY <1>1, UsedSlots
  <1>5. ASSUME NEW c \in Block
        PROVE  c \in t.bitmap <=> c = 0 \/ \E q \in Used(t.root) : t.root[q].block = c
    <2>1. c \in s.bitmap <=> c = 0 \/ \E q \in Used(s.root) : s.root[q].block = c
      BY DEF Owned
    <2> QED BY <2>1, <1>1, <1>2, <1>4
  <1>6. ASSUME NEW q \in Used(t.root), NEW r \in Used(t.root), t.root[q].block = t.root[r].block
        PROVE  q = r
    BY <1>1, <1>2, <1>3, <1>4, <1>6 DEF Owned
  <1>7. \A q \in Used(t.root) : t.root[q].block # 0
    BY <1>1, <1>2, <1>3, <1>4 DEF Owned
  <1> QED BY <1>5, <1>6, <1>7 DEF Owned

\* rfs_delete_file of the file in entry e.
LEMMA DeleteOwned ==
  ASSUME NEW s \in Disk, Owned(s), NEW e \in Used(s.root),
         NEW t \in Disk, t.bitmap = s.bitmap \ {s.root[e].block},
         t.root = [s.root EXCEPT ![e].name[1] = 0]
  PROVE  Owned(t)
  <1> USE RamFSAssumption
  <1>0. e \in Slot /\ s.root[e] \in Inode
    BY UsedSlots DEF Disk
  <1>1. /\ t.root[e].name[1] = 0
        /\ \A q \in Slot \ {e} : t.root[q] = s.root[q]
    BY <1>0 DEF Disk, Inode
  <1>2. Used(t.root) = Used(s.root) \ {e}
    BY <1>1 DEF Used
  <1>3. \A q \in Used(t.root) : t.root[q].block = s.root[q].block
    BY <1>1, <1>2, UsedSlots
  <1>4. ASSUME NEW c \in Block
        PROVE  c \in t.bitmap <=> c = 0 \/ \E q \in Used(t.root) : t.root[q].block = c
    <2>1. c \in s.bitmap <=> c = 0 \/ \E q \in Used(s.root) : s.root[q].block = c
      BY DEF Owned
    <2>2. s.root[e].block # 0
      BY DEF Owned
    <2>3. \A q \in Used(s.root) : s.root[q].block = s.root[e].block => q = e
      BY DEF Owned
    <2> QED BY <2>1, <2>2, <2>3, <1>2, <1>3
  <1>5. /\ \A q, r \in Used(t.root) : t.root[q].block = t.root[r].block => q = r
        /\ \A q \in Used(t.root) : t.root[q].block # 0
    BY <1>2, <1>3 DEF Owned
  <1> QED BY <1>4, <1>5 DEF Owned

\* An operation that moves an offset.
LEMMA OffsetOwned ==
  ASSUME NEW s \in Disk, Owned(s), NEW e \in Slot, NEW n \in Nat,
         NEW t \in Disk, t.bitmap = s.bitmap, t.root = [s.root EXCEPT ![e].off = n]
  PROVE  Owned(t)
  <1>1. \A q \in Slot : t.root[q].name = s.root[q].name /\ t.root[q].block = s.root[q].block
    BY DEF Disk, Inode
  <1>2. Used(t.root) = Used(s.root)
    BY <1>1 DEF Used
  <1>3. \A q \in Used(t.root) : t.root[q].block = s.root[q].block
    BY <1>1, UsedSlots
  <1> QED BY <1>2, <1>3 DEF Owned
-----------------------------------------------------------------------------
LEMMA InitFInv == Init => FInv
  <1> SUFFICES ASSUME Init PROVE FInv
    OBVIOUS
  <1> USE RamFSAssumption
  <1>1. super \in Disk /\ super.bitmap = {0} /\ \A s \in Slot : super.root[s].name[1] = 0
    <2>1. 0 \in Block /\ 1 \in 1 .. Width
      BY DEF Block
    <2> QED BY <2>1 DEF Init, NoName, Disk, Inode
  <1>2. Used(super.root) = {}
    BY <1>1 DEF Used
  <1>3. Owned(super)
    BY <1>1, <1>2 DEF Owned
  <1>4. \A t \in Thread : held[t].pc = "idle"
    BY DEF Init, Idle
  <1> QED BY <1>1, <1>3, <1>4 DEF Init, FInv, CopyTrue

\* superblock_write of a superblock that is in order, by the only caller.
LEMMA WrittenBack ==
  ASSUME FInv, NEW t, Thread = {t}, NEW s \in Disk, Owned(s), SuperblockWrite(t, s),
         fnode' \in [Node -> Slot \cup {None}]
  PROVE  FInv'
  <1>1. DOMAIN held' = Thread /\ held'[t].pc = "idle"
    BY DEF FInv, SuperblockWrite, Idle
  <1>2. super' = s
    BY DEF SuperblockWrite
  <1> QED BY <1>1, <1>2 DEF FInv, CopyTrue

LEMMA NewFileKeeps ==
  ASSUME FInv, NEW t, Thread = {t}, NEW n \in Name, NewFile(t, n)
  PROVE  FInv'
  <1> USE RamFSAssumption
  <1> DEFINE e == Max(Slot \ Used(super.root))
             b == BlockApply(super.bitmap)
             name == Strcpy(super.root[e].name, n)
             new == [bitmap |-> super.bitmap \cup {b},
                     root |-> [super.root EXCEPT ![e] =
                       [name |-> name, block |-> b, off |-> super.root[e].off]]]
  <1>1. held[t].copy = super
    BY DEF NewFile, Ready, FInv, CopyTrue
  <1>2. Slot \ Used(super.root) # {} /\ SuperblockWrite(t, new)
    BY <1>1 DEF NewFile
  <1>3. super \in Disk /\ Owned(super) /\ fnode' \in [Node -> Slot \cup {None}]
    BY DEF FInv, NewFile
  <1>4. e \in Slot /\ e \notin Used(super.root)
    <2>1. Max(Slot \ Used(super.root)) \in Slot \ Used(super.root)
      BY <1>2, MaxIn
    <2> QED BY <2>1
  <1>5. b \in Block /\ b \notin super.bitmap
    BY <1>2, <1>3, BlockIsFree
  <1>6. name \in [1 .. Width -> Nat] /\ name[1] # 0
    <2>1. super.root[e].name \in [1 .. Width -> Nat]
      BY <1>3, <1>4 DEF Disk, Inode
    <2>2. n \in [1 .. Width -> Nat] /\ n[1] # 0 /\ 1 \in 1 .. Width
      OBVIOUS
    <2> QED BY <2>1, <2>2 DEF Strcpy
  <1>7. new \in Disk /\ new.bitmap = super.bitmap \cup {b}
        /\ new.root = [super.root EXCEPT ![e] = [name |-> name, block |-> b, off |-> super.root[e].off]]
    <2> HIDE DEF name, b, e
    <2>1. super.root \in [Slot -> Inode] /\ super.bitmap \subseteq Block
      BY <1>3 DEF Disk
    <2>2. [name |-> name, block |-> b, off |-> super.root[e].off] \in Inode
      BY <1>4, <1>5, <1>6, <2>1 DEF Inode
    <2> QED BY <1>4, <1>5, <2>1, <2>2 DEF Disk
  <1> HIDE DEF new, name, b, e
  <1>8. new.root[e].name[1] # 0 /\ new.root[e].block = b
    BY <1>3, <1>4, <1>6, <1>7 DEF Disk
  <1>9. \A q \in Slot \ {e} : new.root[q] = super.root[q]
    BY <1>3, <1>4, <1>7 DEF Disk
  <1>10. PICK f \in Slot : f = e
    BY <1>4
  <1>11. PICK c \in Block : c = b
    BY <1>5
  <1>12. PICK new1 \in Disk : new1 = new
    BY <1>7
  <1> HIDE RamFSAssumption
  <1>13. Owned(new1)
    <2>1. super \in Disk /\ Owned(super) /\ f \notin Used(super.root) /\ c \notin super.bitmap
      BY <1>3, <1>4, <1>5, <1>10, <1>11
    <2>2. new1.bitmap = super.bitmap \cup {c}
      BY <1>7, <1>11, <1>12
    <2>3. new1.root[f].name[1] # 0
      BY <1>8, <1>10, <1>12
    <2>4. new1.root[f].block = c
      BY <1>8, <1>10, <1>11, <1>12
    <2>5. \A q \in Slot \ {f} : new1.root[q] = super.root[q]
      BY <1>9, <1>10, <1>12
    <2> QED BY <2>1, <2>2, <2>3, <2>4, <2>5, NewOwned
  <1> QED BY <1>2, <1>3, <1>7, <1>12, <1>13, WrittenBack

LEMMA DeleteFileKeeps ==
  ASSUME FInv, NEW t, Thread = {t}, NEW n \in Name, DeleteFile(t, n)
  PROVE  FInv'
  <1> USE RamFSAssumption
  <1> DEFINE e == First(super.root, n)
             new == [bitmap |-> super.bitmap \ {super.root[e].block},
                     root |-> [super.root EXCEPT ![e].name[1] = 0]]
  <1>1. held[t].copy = super
    BY DEF DeleteFile, Ready, FInv, CopyTrue
  <1>2. Found(super.root, n) # {} /\ SuperblockWrite(t, new)
    BY <1>1 DEF DeleteFile, BlockFree
  <1>3. super \in Disk /\ Owned(super) /\ fnode' \in [Node -> Slot \cup {None}]
    BY DEF FInv, DeleteFile
  <1>4. e \in Used(super.root)
    BY <1>2, FirstFound
  <1>5. new \in Disk /\ new.bitmap = super.bitmap \ {super.root[e].block}
        /\ new.root = [super.root EXCEPT ![e].name[1] = 0]
    <2> HIDE DEF e
    <2>1. super.root \in [Slot -> Inode] /\ super.bitmap \subseteq Block /\ e \in Slot
      BY <1>3, <1>4, UsedSlots DEF Disk
    <2>2. super.root[e] \in Inode
      BY <2>1
    <2>3. [super.root[e] EXCEPT !.name[1] = 0] \in Inode
      BY <2>2 DEF Inode
    <2>4. [super.root EXCEPT ![e].name[1] = 0] \in [Slot -> Inode]
      BY <2>1, <2>2, <2>3
    <2> QED BY <2>1, <2>4 DEF Disk
  <1> HIDE DEF new, e
  <1>6. Owned(new)
    BY <1>3, <1>4, <1>5, DeleteOwned
  <1> QED BY <1>2, <1>3, <1>5, <1>6, WrittenBack

LEMMA OpenFileKeeps ==
  ASSUME FInv, NEW t, Thread = {t}, NEW n \in Name, NEW o \in Node, OpenFile(t, n, o)
  PROVE  FInv'
  <1>1. held[t].copy = super
    BY DEF OpenFile, Ready, FInv, CopyTrue
  <1>2. Found(super.root, n) # {} /\ SuperblockWrite(t, super)
    BY <1>1 DEF OpenFile
  <1>3. First(super.root, n) \in Slot
    BY <1>2, FirstFound, UsedSlots
  <1>4. fnode' \in [Node -> Slot \cup {None}]
    BY <1>1, <1>3 DEF OpenFile, FInv
  <1> QED BY <1>2, <1>4, WrittenBack DEF FInv

\* What fails writes back what it has read.
LEMMA FailureKeeps ==
  ASSUME FInv, NEW t, Thread = {t}, NEW n \in Name, NewFileFails(t, n) \/ NotFound(t, n)
  PROVE  FInv'
  <1>1. held[t].copy = super
    BY DEF NewFileFails, NotFound, Ready, FInv, CopyTrue
  <1>2. SuperblockWrite(t, super) /\ fnode' = fnode
    BY <1>1 DEF NewFileFails, NotFound
  <1> QED BY <1>2, WrittenBack DEF FInv

\* An offset that moves on changes neither names nor blocks.
LEMMA OffsetMoves ==
  ASSUME super \in Disk, Owned(super), NEW e \in Slot, NEW len \in Nat,
         super' = [super EXCEPT !.root[e].off = @ + len]
  PROVE  /\ super' \in Disk /\ Owned(super')
         /\ \A q \in Slot :
              /\ super'.root[q].name = super.root[q].name
              /\ super'.root[q].block = super.root[q].block
              /\ super'.root[q].off = IF q = e THEN super.root[q].off + len ELSE super.root[q].off
  <1> USE RamFSAssumption
  <1> DEFINE n == super.root[e].off + len
             new == [super EXCEPT !.root[e].off = n]
  <1>1. super' = new
    OBVIOUS
  <1>2. super.root \in [Slot -> Inode] /\ super.bitmap \subseteq Block /\ super.root[e] \in Inode
    BY DEF Disk
  <1>3. n \in Nat /\ n = super.root[e].off + len
    BY <1>2 DEF Inode
  <1> HIDE DEF n
  <1>4. new \in Disk /\ new.bitmap = super.bitmap /\ new.root = [super.root EXCEPT ![e].off = n]
    <2>1. [super.root[e] EXCEPT !.off = n] \in Inode
      BY <1>2, <1>3 DEF Inode
    <2>2. [super.root EXCEPT ![e].off = n] \in [Slot -> Inode]
      BY <1>2, <2>1
    <2> QED BY <1>2, <2>2 DEF Disk
  <1> HIDE DEF new
  <1>5. Owned(new)
    <2>1. n \in Nat
      BY <1>3
    <2> QED BY <1>4, <2>1, OffsetOwned
  <1>6. \A q \in Slot :
          /\ new.root[q].name = super.root[q].name
          /\ new.root[q].block = super.root[q].block
          /\ new.root[q].off = IF q = e THEN n ELSE super.root[q].off
    BY <1>2, <1>4 DEF Inode
  <1> QED BY <1>1, <1>3, <1>4, <1>5, <1>6

LEMMA BlockKeeps ==
  ASSUME FInv, NEW t, Thread = {t}, NEW len \in 1 .. BlockSize,
         ReadFile(t, len) \/ \E d \in Data : WriteFile(t, len, d)
  PROVE  FInv'
  <1> USE RamFSAssumption
  <1> DEFINE e == held[t].slot
  <1>1. e \in Slot /\ Advance(t, len) /\ fnode' = fnode /\ len \in Nat
    <2>1. len \in Nat
      OBVIOUS
    <2>2. Advance(t, len) /\ fnode' = fnode /\ held[t].pc = "block"
      BY DEF ReadFile, WriteFile, Ready
    <2>3. e \in Slot
      BY <2>2 DEF FInv
    <2> QED BY <2>1, <2>2, <2>3
  <1>2. super \in Disk /\ Owned(super) /\ super' = [super EXCEPT !.root[e].off = @ + len]
    BY <1>1 DEF FInv, Advance
  <1> HIDE DEF e
  <1>3. super' \in Disk /\ Owned(super')
    BY <1>1, <1>2, OffsetMoves
  <1>4. SuperblockWrite(t, super')
    BY <1>1 DEF Advance, SuperblockWrite
  <1> QED BY <1>1, <1>3, <1>4, WrittenBack DEF FInv

\* Without a buffer only the offset moves.
LEMMA NoBufferMoves ==
  ASSUME FInv, NEW t, Thread = {t}, NEW o \in Node, NEW len \in 1 .. BlockSize,
         NoBuffer(t, o, len)
  PROVE  /\ FInv' /\ held[t].pc = "idle" /\ held' = held /\ disk' = disk /\ names' = names
         /\ \A q \in Slot :
              /\ super'.root[q].name = super.root[q].name
              /\ super'.root[q].block = super.root[q].block
              /\ super'.root[q].off = IF q = fnode[o] THEN len ELSE super.root[q].off
  <1> USE RamFSAssumption
  <1>1. fnode[o] \in Slot /\ len \in Nat
    BY DEF NoBuffer, FInv
  <1>2. /\ super \in Disk /\ Owned(super) /\ super' = [super EXCEPT !.root[fnode[o]].off = @ + len]
        /\ super.root[fnode[o]].off = 0
    BY DEF NoBuffer, FInv
  <1>3. /\ super' \in Disk /\ Owned(super')
        /\ \A q \in Slot :
             /\ super'.root[q].name = super.root[q].name
             /\ super'.root[q].block = super.root[q].block
             /\ super'.root[q].off = IF q = fnode[o] THEN super.root[q].off + len
                                                     ELSE super.root[q].off
    BY <1>1, <1>2, OffsetMoves
  <1>4. held[t].pc = "idle" /\ held' = held /\ disk' = disk /\ names' = names /\ fnode' = fnode
    BY DEF NoBuffer, Ready
  <1>5. FInv'
    BY <1>3, <1>4 DEF FInv, CopyTrue
  <1> QED BY <1>1, <1>2, <1>3, <1>4, <1>5

\* The steps that leave the superblock alone.
LEMMA RestKeeps ==
  ASSUME FInv, NEW t, Thread = {t},
         \/ SuperblockRead(t)
         \/ \E o \in Node : CloseFile(t, o) \/ BlockRead(t, o) \/ NoBufferStops(t, o)
         \/ \E len \in 1 .. BlockSize : Overrun(t, len)
  PROVE  FInv'
  <1> USE DEF FInv, CopyTrue
  <1>1. CASE SuperblockRead(t)
    <2>1. super' = super /\ fnode' = fnode /\ DOMAIN held' = Thread
      BY <1>1 DEF SuperblockRead
    <2>2. held'[t].pc = "super" /\ held'[t].copy = super
      BY <1>1 DEF SuperblockRead
    <2> QED BY <2>1, <2>2
  <1>2. ASSUME NEW o \in Node, NoBufferStops(t, o) PROVE FInv'
    <2>1. super' = super /\ fnode' = fnode
      BY <1>2 DEF NoBufferStops
    <2>2. CASE held' = held
      BY <2>1, <2>2
    <2>3. CASE DOMAIN held' = Thread /\ held'[t].pc = "dead"
      BY <2>1, <2>3
    <2> QED BY <1>2, <2>2, <2>3 DEF NoBufferStops
  <1>3. ASSUME NEW o \in Node, CloseFile(t, o) PROVE FInv'
    BY <1>3 DEF CloseFile
  <1>4. ASSUME NEW o \in Node, BlockRead(t, o) PROVE FInv'
    <2>1. super' = super /\ fnode' = fnode /\ DOMAIN held' = Thread
      BY <1>4 DEF BlockRead
    <2>2. held'[t].pc = "block" /\ held'[t].slot = fnode[o] /\ fnode[o] \in Slot
      BY <1>4 DEF BlockRead
    <2> QED BY <2>1, <2>2
  <1>5. ASSUME NEW len \in 1 .. BlockSize, Overrun(t, len) PROVE FInv'
    BY <1>5 DEF Overrun
  <1> QED BY <1>1, <1>2, <1>3, <1>4, <1>5

LEMMA FInvKept ==
  ASSUME NEW t, Thread = {t}
  PROVE  FInv /\ [Next]_vars => FInv'
  <1> SUFFICES ASSUME FInv, [Next]_vars PROVE FInv'
    OBVIOUS
  <1>1. CASE UNCHANGED vars
    BY <1>1 DEF vars, FInv, CopyTrue, Owned
  <1>2. CASE Next
    BY <1>2, NewFileKeeps, DeleteFileKeeps, OpenFileKeeps, FailureKeeps, BlockKeeps,
       NoBufferMoves, RestKeeps DEF Next
  <1> QED BY <1>1, <1>2

\* With a single caller every file has a block of its own, and the bitmap has
\* these blocks and the superblock's, whatever is created, deleted, read and
\* written in any order (rfs_new_file, drvrfs.c:219; rfs_delete_file, :256).
THEOREM BlocksKept ==
  ASSUME NEW t, Thread = {t}
  PROVE  Spec => []BlocksOwned
  <1>1. Init => FInv
    BY InitFInv
  <1>2. FInv /\ [Next]_vars => FInv'
    BY FInvKept
  <1>3. FInv => BlocksOwned
    <2> SUFFICES ASSUME FInv PROVE BlocksOwned
      OBVIOUS
    <2>1. super \in Disk /\ Owned(super) /\ 0 \in Block
      BY RamFSAssumption DEF FInv, Block
    <2>2. \A q \in Used(super.root) : super.root[q].block \in Block
      BY <2>1, UsedSlots DEF Disk, Inode
    <2>3. super.bitmap \subseteq Block
      BY <2>1 DEF Disk
    <2>4. super.bitmap = {0} \cup {super.root[s].block : s \in Used(super.root)}
      BY <2>1, <2>2, <2>3 DEF Owned
    <2> QED BY <2>1, <2>4 DEF Owned, BlocksOwned
  <1> QED BY <1>1, <1>2, <1>3, PTL DEF Spec
-----------------------------------------------------------------------------
(***************************************************************************)
(* The names.  rfs_new_file copies a name without the zero at its end into *)
(* an entry that may hold what is left of a deleted name; a longer one     *)
(* shows through (files_names.cfg).  When all names have one length there  *)
(* are zeros behind every name, those of deleted files included, so an     *)
(* entry has the name its file was given, and strcmp finds it again.       *)
(***************************************************************************)

OneLength == \A m, n \in Name : \A i \in 1 .. Width : m[i] = 0 <=> n[i] = 0

\* The used entries have names of callers, and all have zeros behind.
Clean(root) ==
  /\ \A s \in Used(root) : root[s].name \in Name
  /\ \A s \in Slot, n \in Name, i \in 1 .. Width : n[i] = 0 => root[s].name[i] = 0

Named(root, n) == {s \in Used(root) : root[s].name = n}

NInv ==
  /\ FInv
  /\ Clean(super.root)
  /\ DOMAIN names = Name
  /\ \A n \in Name : names[n] = Cardinality(Named(super.root, n))

\* Behind a zero of a name there are only zeros.
LEMMA ZerosBehind ==
  ASSUME NEW n \in Name, NEW i \in 1 .. Width, n[i] = 0,
         NEW j \in 1 .. Width, i <= j
  PROVE  n[j] = 0
  <1> USE RamFSAssumption
  <1> SUFFICES ASSUME n[j] # 0 PROVE FALSE
    OBVIOUS
  <1> DEFINE T == {k \in 1 .. Width : i <= k /\ n[k] # 0}
  <1>1. T \subseteq Nat /\ T # {}
    <2>1. j \in T
      OBVIOUS
    <2>2. T \subseteq Nat
      <3>1. 1 .. Width \subseteq Nat
        OBVIOUS
      <3> QED BY <3>1
    <2> HIDE DEF T
    <2> QED BY <2>1, <2>2
  <1>2. PICK k \in T : \A l \in T : k <= l
    <2>1. PICK k \in T : \A l \in T : ~ (<<l, k>> \in OpToRel(<, Nat))
      <3> HIDE DEF T
      <3> QED BY <1>1, WFMin, NatLessThanWellFounded, Zenon
    <2>2. ASSUME NEW l \in T PROVE k <= l
      <3>1. ~ (l < k)
        BY <1>1, <2>1 DEF OpToRel
      <3> QED BY <3>1
    <2> QED BY <2>2
  <1>3. k \in 1 .. Width /\ i < k /\ n[k] # 0 /\ k - 1 \in 1 .. Width - 1
    BY <1>2
  <1>4. n[k - 1] = 0
    BY <1>2, <1>3
  <1>5. n[(k - 1) + 1] = 0
    BY <1>3, <1>4
  <1> QED BY <1>3, <1>5

\* strcmp tells names apart.
LEMMA StrcmpNames ==
  ASSUME NEW m \in Name, NEW n \in Name
  PROVE  Strcmp(m, n) = 0 <=> m = n
  <1> USE RamFSAssumption
  <1> DEFINE T == {j \in 1 .. Width : m[j] = 0 \/ n[j] = 0 \/ m[j] # n[j]}
  <1>1. T \subseteq Nat /\ T # {}
    <2>1. Width \in T
      OBVIOUS
    <2> QED BY <2>1
  <1>2. PICK i \in T : i = Min(T)
    <2> HIDE DEF T
    <2> QED BY <1>1, MinIn
  <1>3. \A j \in T : i <= j
    <2> HIDE DEF T
    <2>1. PICK x \in T : \A y \in T : ~ (<<y, x>> \in OpToRel(<, Nat))
      BY <1>1, WFMin, NatLessThanWellFounded, Zenon
    <2>2. ASSUME NEW y \in T PROVE x <= y
      <3>1. ~ (y < x)
        BY <2>1, <1>1 DEF OpToRel
      <3> QED BY <1>1, <3>1
    <2> QED BY <1>2, <2>2 DEF Min
  <1>4. Strcmp(m, n) = m[i] - n[i]
    BY <1>2 DEF Strcmp
  <1>5. m[i] \in Nat /\ n[i] \in Nat /\ i \in 1 .. Width
    OBVIOUS
  <1>6. ASSUME m[i] = n[i] PROVE m = n
    <2>1. m[i] = 0 /\ n[i] = 0
      BY <1>6
    <2>2. ASSUME NEW j \in 1 .. Width PROVE m[j] = n[j]
      <3>1. CASE j < i
        BY <3>1, <1>3, <1>5
      <3>2. CASE i <= j
        <4>1. m[j] = 0
          BY <2>1, <3>2, <1>5, ZerosBehind
        <4>2. n[j] = 0
          BY <2>1, <3>2, <1>5, ZerosBehind
        <4> QED BY <4>1, <4>2
      <3> QED BY <3>1, <3>2, <1>5
    <2>3. m \in [1 .. Width -> Nat] /\ n \in [1 .. Width -> Nat]
      OBVIOUS
    <2> QED BY <2>2, <2>3
  <1>7. m[i] - n[i] = 0 <=> m[i] = n[i]
    BY <1>5
  <1> QED BY <1>4, <1>6, <1>7

LEMMA FoundNamed ==
  ASSUME NEW root, Clean(root), NEW n \in Name
  PROVE  Found(root, n) = Named(root, n)
  BY StrcmpNames DEF Found, Named, Clean

\* strcpy over zeros.
LEMMA StrcpyClean ==
  ASSUME NEW f \in [1 .. Width -> Nat], NEW n \in Name,
         \A i \in 1 .. Width : n[i] = 0 => f[i] = 0
  PROVE  Strcpy(f, n) = n
  <1>1. n \in [1 .. Width -> Nat]
    BY RamFSAssumption
  <1> QED BY <1>1 DEF Strcpy

LEMMA NamedFinite ==
  ASSUME NEW root, NEW n
  PROVE  IsFiniteSet(Named(root, n)) /\ Cardinality(Named(root, n)) \in Nat
  <1>1. IsFiniteSet(Slot)
    BY RamFSAssumption, FS_Interval DEF Slot
  <1>2. Named(root, n) \subseteq Slot
    BY UsedSlots DEF Named
  <1> QED BY <1>1, <1>2, FS_Subset, FS_CardinalityType

\* An entry that gets the name n.
LEMMA NewNamed ==
  ASSUME OneLength, NEW old \in [Slot -> Inode], Clean(old), NEW e \in Slot, e \notin Used(old),
         NEW n \in Name, NEW new \in [Slot -> Inode], new[e].name = n,
         \A q \in Slot \ {e} : new[q] = old[q]
  PROVE  /\ Clean(new)
         /\ \A m \in Name : Cardinality(Named(new, m)) =
              IF m = n THEN Cardinality(Named(old, m)) + 1 ELSE Cardinality(Named(old, m))
  <1>1. Used(new) = Used(old) \cup {e} /\ n[1] # 0
    BY RamFSAssumption DEF Used
  <1>2. Clean(new)
    <2>1. \A s \in Used(new) : new[s].name \in Name
      BY <1>1, UsedSlots DEF Clean
    <2>2. ASSUME NEW s \in Slot, NEW m \in Name, NEW i \in 1 .. Width, m[i] = 0
          PROVE  new[s].name[i] = 0
      <3>1. CASE s = e
        BY <2>2, <3>1 DEF OneLength
      <3>2. CASE s # e
        <4>1. new[s] = old[s]
          BY <3>2
        <4>2. old[s].name[i] = 0
          BY <2>2, Zenon DEF Clean
        <4> QED BY <4>1, <4>2
      <3> QED BY <3>1, <3>2
    <2> QED BY <2>1, <2>2 DEF Clean
  <1>3. ASSUME NEW m \in Name, m # n PROVE Named(new, m) = Named(old, m)
    BY <1>1, <1>3, UsedSlots DEF Named
  <1>4. Named(new, n) = Named(old, n) \cup {e} /\ e \notin Named(old, n)
    BY <1>1, UsedSlots DEF Named
  <1>5. Cardinality(Named(new, n)) = Cardinality(Named(old, n)) + 1
    BY <1>4, NamedFinite, FS_AddElement
  <1> QED BY <1>2, <1>3, <1>5

\* An entry that loses the name n.
Deleted(old, e, new) == new = [old EXCEPT ![e].name[1] = 0]

OneLess(old, new, n) ==
  \A m \in Name : Cardinality(Named(new, m)) =
    IF m = n THEN Cardinality(Named(old, m)) - 1 ELSE Cardinality(Named(old, m))

LEMMA DeleteNamed ==
  ASSUME NEW old \in [Slot -> Inode], Clean(old), NEW n \in Name, NEW e \in Named(old, n),
         NEW new, Deleted(old, e, new)
  PROVE  Clean(new) /\ OneLess(old, new, n)
  <1> USE RamFSAssumption DEF Deleted
  <1>1. e \in Slot /\ old[e].name = n /\ 1 \in 1 .. Width
    BY UsedSlots DEF Named
  <1>2. /\ new[e].name = [n EXCEPT ![1] = 0]
        /\ \A q \in Slot \ {e} : new[q] = old[q]
    BY <1>1 DEF Inode
  <1>3. n \in [1 .. Width -> Nat]
    OBVIOUS
  <1> HIDE RamFSAssumption
  <1>4. new[e].name[1] = 0
    BY <1>1, <1>2, <1>3
  <1>5. Used(new) = Used(old) \ {e}
    BY <1>1, <1>2, <1>4 DEF Used
  <1>6. Clean(new)
    <2>1. \A s \in Used(new) : new[s].name \in Name
      BY <1>2, <1>5, UsedSlots DEF Clean
    <2>2. ASSUME NEW s \in Slot, NEW m \in Name, NEW i \in 1 .. Width, m[i] = 0
          PROVE  new[s].name[i] = 0
      <3>1. old[s].name[i] = 0
        BY <2>2 DEF Clean
      <3>2. CASE s = e
        <4>1. old[e].name[i] = 0
          BY <3>1, <3>2
        <4>2. n[i] = 0
          BY <1>1, <4>1
        <4>3. [n EXCEPT ![1] = 0][i] = 0
          BY <1>3, <4>2
        <4>4. new[e].name[i] = 0
          BY <1>2, <4>3
        <4> QED BY <3>2, <4>4
      <3>3. CASE s # e
        BY <1>2, <3>1, <3>3
      <3> QED BY <3>2, <3>3
    <2> QED BY <2>1, <2>2 DEF Clean
  <1>7. ASSUME NEW m \in Name, m # n PROVE Named(new, m) = Named(old, m)
    BY <1>1, <1>2, <1>5, <1>7, UsedSlots DEF Named
  <1>8. Named(new, n) = Named(old, n) \ {e} /\ e \in Named(old, n)
    BY <1>2, <1>5, UsedSlots DEF Named
  <1>9. Cardinality(Named(new, n)) = Cardinality(Named(old, n)) - 1
    BY <1>8, NamedFinite, FS_RemoveElement
  <1> QED BY <1>6, <1>7, <1>9 DEF OneLess

LEMMA InitNInv == Init => NInv
  <1> SUFFICES ASSUME Init PROVE NInv
    OBVIOUS
  <1>1. FInv
    BY InitFInv
  <1>2. \A s \in Slot, i \in 1 .. Width : super.root[s].name[i] = 0
    BY DEF Init, NoName
  <1>3. Used(super.root) = {}
    BY <1>2, RamFSAssumption DEF Used
  <1>4. Clean(super.root)
    BY <1>2, <1>3 DEF Clean
  <1>5. \A n \in Name : Named(super.root, n) = {}
    BY <1>3 DEF Named
  <1>6. \A n \in Name : names[n] = 0
    BY DEF Init
  <1> QED BY <1>1, <1>4, <1>5, <1>6, FS_EmptySet DEF NInv, Init

LEMMA NewFileNames ==
  ASSUME OneLength, NInv, NEW t, Thread = {t}, NEW n \in Name, NewFile(t, n), FInv'
  PROVE  NInv'
  <1> DEFINE root == super.root
             e == Max(Slot \ Used(root))
  <1>1. held[t].copy = super
    BY DEF NewFile, Ready, NInv, FInv, CopyTrue
  <1>2. Slot \ Used(root) # {}
    BY <1>1 DEF NewFile
  <1>3. e \in Slot /\ e \notin Used(root)
    <2>1. Max(Slot \ Used(root)) \in Slot \ Used(root)
      BY <1>2, MaxIn
    <2> QED BY <2>1
  <1>4. root \in [Slot -> Inode] /\ super'.root \in [Slot -> Inode] /\ Clean(root)
    BY DEF NInv, FInv, Disk
  <1>5. PICK b : super'.root = [root EXCEPT ![e] =
                   [name |-> Strcpy(root[e].name, n), block |-> b, off |-> root[e].off]]
    BY <1>1 DEF NewFile, SuperblockWrite
  <1>6. Strcpy(root[e].name, n) = n
    BY <1>3, <1>4, StrcpyClean DEF Clean, Inode
  <1>7. super'.root[e].name = n /\ \A q \in Slot \ {e} : super'.root[q] = root[q]
    <2> HIDE DEF root, e
    <2> QED BY <1>3, <1>4, <1>5, <1>6
  <1>8. /\ Clean(super'.root)
        /\ \A m \in Name : Cardinality(Named(super'.root, m)) =
             IF m = n THEN Cardinality(Named(root, m)) + 1 ELSE Cardinality(Named(root, m))
    <2> HIDE DEF root, e
    <2>1. PICK f \in Slot : f = e
      BY <1>3
    <2> QED BY <1>3, <1>4, <1>7, <2>1, NewNamed
  <1>9. /\ DOMAIN names' = Name
        /\ \A m \in Name : names'[m] = IF m = n THEN names[m] + 1 ELSE names[m]
    BY DEF NewFile, NInv
  <1> QED BY <1>8, <1>9 DEF NInv

LEMMA DeleteFileNames ==
  ASSUME NInv, NEW t, Thread = {t}, NEW n \in Name, DeleteFile(t, n), FInv'
  PROVE  NInv'
  <1> DEFINE root == super.root
             e == First(root, n)
  <1>1. held[t].copy = super
    BY DEF DeleteFile, Ready, NInv, FInv, CopyTrue
  <1>2. Found(root, n) # {}
    BY <1>1 DEF DeleteFile
  <1>3. root \in [Slot -> Inode] /\ Clean(root)
    BY DEF NInv, FInv, Disk
  <1>4. e \in Named(root, n)
    <2>1. Found(root, n) \subseteq Nat
      BY UsedSlots DEF Found, Slot
    <2>2. Min(Found(root, n)) \in Found(root, n)
      BY <1>2, <2>1, MinIn
    <2> QED BY <1>3, <2>2, FoundNamed DEF First
  <1>5. Deleted(root, e, super'.root)
    BY <1>1 DEF DeleteFile, SuperblockWrite, Deleted
  <1>6. Clean(super'.root) /\ OneLess(root, super'.root, n)
    <2> HIDE DEF root, e
    <2> QED BY <1>3, <1>4, <1>5, DeleteNamed, Zenon
  <1>7. /\ DOMAIN names' = Name
        /\ \A m \in Name : names'[m] = IF m = n THEN names[m] - 1 ELSE names[m]
    BY DEF DeleteFile, NInv
  <1> QED BY <1>6, <1>7 DEF NInv, OneLess

\* What leaves the names in the directory alone.
LEMMA SameNames ==
  ASSUME NInv, FInv', names' = names, \A s \in Slot : super'.root[s].name = super.root[s].name
  PROVE  NInv'
  <1>1. Used(super'.root) = Used(super.root)
    BY DEF Used
  <1>2. Clean(super'.root)
    BY <1>1, UsedSlots DEF NInv, Clean
  <1>3. \A n \in Name : Named(super'.root, n) = Named(super.root, n)
    BY <1>1, UsedSlots DEF Named
  <1> QED BY <1>2, <1>3 DEF NInv

LEMMA OthersNames ==
  ASSUME NInv, NEW t, Thread = {t}, FInv',
         \/ SuperblockRead(t)
         \/ \E n \in Name :
              \/ NewFileFails(t, n) \/ NotFound(t, n)
              \/ \E o \in Node : OpenFile(t, n, o)
         \/ \E o \in Node : CloseFile(t, o) \/ BlockRead(t, o) \/ NoBufferStops(t, o)
         \/ \E len \in 1 .. BlockSize :
              \/ \E o \in Node : NoBuffer(t, o, len)
              \/ ReadFile(t, len) \/ Overrun(t, len)
              \/ \E d \in Data : WriteFile(t, len, d)
  PROVE  NInv'
  <1>1. CASE super' = super /\ names' = names
    BY <1>1, SameNames
  <1>2. CASE \/ SuperblockRead(t)
             \/ \E o \in Node : CloseFile(t, o) \/ BlockRead(t, o) \/ NoBufferStops(t, o)
             \/ \E len \in 1 .. BlockSize : Overrun(t, len)
    BY <1>1, <1>2 DEF SuperblockRead, NoBufferStops, CloseFile, BlockRead, Overrun
  <1>3. ASSUME NEW n \in Name,
               \/ NewFileFails(t, n) \/ NotFound(t, n)
               \/ \E o \in Node : OpenFile(t, n, o)
        PROVE  NInv'
    <2>1. held[t].pc = "super" /\ super' = held[t].copy /\ names' = names
      BY <1>3 DEF NewFileFails, NotFound, OpenFile, SuperblockWrite, Ready
    <2> QED BY <1>1, <2>1 DEF NInv, FInv, CopyTrue
  <1>4. ASSUME NEW len \in 1 .. BlockSize,
               ReadFile(t, len) \/ \E d \in Data : WriteFile(t, len, d)
        PROVE  NInv'
    <2>1. Advance(t, len) /\ names' = names
      BY <1>4 DEF ReadFile, WriteFile
    <2>2. super \in Disk
      BY DEF NInv, FInv
    <2>3. ASSUME NEW s \in Slot PROVE super'.root[s].name = super.root[s].name
      BY <2>1, <2>2 DEF Advance, Disk, Inode
    <2> QED BY <2>1, <2>3, SameNames
  <1>5. ASSUME NEW o \in Node, NEW len \in 1 .. BlockSize, NoBuffer(t, o, len) PROVE NInv'
    BY <1>5, NoBufferMoves, SameNames DEF NInv
  <1> QED BY <1>2, <1>3, <1>4, <1>5

\* A single caller whose names have one length finds every file it has created,
\* under its name, until it has deleted it, whatever names come and go in the
\* entries (rfs_new_file, drvrfs.c:219; rfs_delete_file, :256).
THEOREM FilesAreFound ==
  ASSUME NEW t, Thread = {t}, OneLength
  PROVE  Spec => []NamesKept
  <1>1. Init => NInv
    BY InitNInv
  <1>2. NInv /\ [Next]_vars => NInv'
    <2> SUFFICES ASSUME NInv, [Next]_vars PROVE NInv'
      OBVIOUS
    <2>1. FInv'
      BY FInvKept DEF NInv
    <2>2. CASE UNCHANGED vars
      BY <2>1, <2>2, SameNames DEF vars
    <2>3. CASE Next
      <3>1. ASSUME NEW n \in Name, NewFile(t, n) PROVE NInv'
        BY <2>1, <3>1, NewFileNames
      <3>2. ASSUME NEW n \in Name, DeleteFile(t, n) PROVE NInv'
        BY <2>1, <3>2, DeleteFileNames
      <3> QED BY <2>1, <2>3, <3>1, <3>2, OthersNames DEF Next
    <2> QED BY <2>2, <2>3
  <1>3. NInv => NamesKept
    BY FoundNamed DEF NInv, NamesKept
  <1> QED BY <1>1, <1>2, <1>3, PTL DEF Spec
-----------------------------------------------------------------------------
(***************************************************************************)
(* The files of a single caller are those of FileStore.  The contents of a *)
(* file are those of its block; as no two files share one, a write changes *)
(* one file at most, and none if the block is one that a deleted file had. *)
(***************************************************************************)

\* Contents, of any superblock and blocks.
Texts(s, d) ==
  [q \in Slot |-> IF q \in Used(s.root) THEN d[s.root[q].block] ELSE None]

\* A caller between fileblock_read or fileblock_write's copy of a block and its
\* end has what the block has.
DataTrue ==
  \A t \in Thread : held[t].pc = "block" =>
    held[t].data = disk[super.root[held[t].slot].block]

RInv ==
  /\ FInv
  /\ disk \in [Block -> [Offset -> Data]]
  /\ \A q \in Slot : super.root[q].off <= BlockSize
  /\ DataTrue

LEMMA InitRInv == Init => RInv
  <1> SUFFICES ASSUME Init PROVE RInv
    OBVIOUS
  <1>1. disk \in [Block -> [Offset -> Data]] /\ \A q \in Slot : super.root[q].off <= BlockSize
    BY RamFSAssumption DEF Init
  <1>2. \A t \in Thread : held[t].pc = "idle"
    BY DEF Init, Idle
  <1> QED BY <1>1, <1>2, InitFInv DEF RInv, DataTrue

\* The only step that writes to a block.
LEMMA WriteTyped ==
  ASSUME RInv, NEW t \in Thread, NEW len \in 1 .. BlockSize, NEW d \in Data, WriteFile(t, len, d)
  PROVE  disk' \in [Block -> [Offset -> Data]]
  <1> DEFINE k == super.root[held[t].slot].block
             new == [i \in Offset |->
               IF super.root[held[t].slot].off <= i /\ i < super.root[held[t].slot].off + len
               THEN d ELSE held[t].data[i]]
  <1>1. held[t].slot \in Slot /\ held[t].pc = "block"
    BY DEF WriteFile, Ready, RInv, FInv
  <1>2. k \in Block
    BY <1>1 DEF RInv, FInv, Disk, Inode
  <1>3. held[t].data = disk[k]
    BY <1>1 DEF RInv, DataTrue
  <1>4. disk[k] \in [Offset -> Data]
    BY <1>2 DEF RInv
  <1>5. new \in [Offset -> Data]
    BY <1>3, <1>4
  <1>6. disk' = [disk EXCEPT ![k] = new]
    BY DEF WriteFile
  <1> QED BY <1>5, <1>6 DEF RInv

\* Offsets stay within a block, for Advance is taken only where they do.
LEMMA OffsetsKept ==
  ASSUME RInv, NEW t, Thread = {t}, Next
  PROVE  \A q \in Slot : super'.root[q].off <= BlockSize
  <1> USE DEF RInv
  <1>1. super.root \in [Slot -> Inode] /\ \A q \in Slot : super.root[q] \in Inode
    BY DEF FInv, Disk
  <1>2. held[t].pc = "super" => held[t].copy = super
    BY DEF FInv, CopyTrue
  <1>3. ASSUME NEW n \in Name, NewFile(t, n) PROVE \A q \in Slot : super'.root[q].off <= BlockSize
    <2>1. \A q \in Slot : super'.root[q].off = super.root[q].off
      BY <1>1, <1>2, <1>3 DEF NewFile, Ready, SuperblockWrite
    <2> QED BY <2>1
  <1>4. ASSUME NEW n \in Name, DeleteFile(t, n) PROVE \A q \in Slot : super'.root[q].off <= BlockSize
    <2>1. \A q \in Slot : super'.root[q].off = super.root[q].off
      BY <1>1, <1>2, <1>4 DEF DeleteFile, Ready, SuperblockWrite, Inode
    <2> QED BY <2>1
  <1>5. ASSUME NEW len \in 1 .. BlockSize, Advance(t, len), held[t].pc = "block"
        PROVE  \A q \in Slot : super'.root[q].off <= BlockSize
    <2>1. held[t].slot \in Slot
      BY <1>5 DEF FInv
    <2>2. \A q \in Slot : super'.root[q].off = IF q = held[t].slot THEN super.root[q].off + len ELSE super.root[q].off
      BY <1>1, <1>5, <2>1 DEF Advance, Inode, FInv, Disk
    <2> QED BY <1>5, <2>1, <2>2 DEF Advance
  <1>6. CASE super' = super
    BY <1>6
  <1>7. ASSUME NEW n \in Name, NewFileFails(t, n) \/ NotFound(t, n) PROVE super' = super
    BY <1>2, <1>7 DEF NewFileFails, NotFound, Ready, SuperblockWrite
  <1>8. ASSUME NEW n \in Name, NEW o \in Node, OpenFile(t, n, o) PROVE super' = super
    BY <1>2, <1>8 DEF OpenFile, Ready, SuperblockWrite
  <1>9. ASSUME NEW o \in Node, CloseFile(t, o) \/ BlockRead(t, o) \/ NoBufferStops(t, o)
        PROVE  super' = super
    BY <1>9 DEF CloseFile, BlockRead, NoBufferStops
  <1>10. ASSUME NEW len \in 1 .. BlockSize, Overrun(t, len) PROVE super' = super
    BY <1>10 DEF Overrun
  <1>11. SuperblockRead(t) => super' = super
    BY DEF SuperblockRead
  <1>12. ASSUME NEW len \in 1 .. BlockSize, ReadFile(t, len) \/ \E d \in Data : WriteFile(t, len, d)
         PROVE  \A q \in Slot : super'.root[q].off <= BlockSize
    BY <1>5, <1>12 DEF ReadFile, WriteFile, Ready
  <1>13. ASSUME NEW o \in Node, NEW len \in 1 .. BlockSize, NoBuffer(t, o, len)
         PROVE  \A q \in Slot : super'.root[q].off <= BlockSize
    <2>1. \A q \in Slot : super'.root[q].off = IF q = fnode[o] THEN len ELSE super.root[q].off
      BY <1>13, NoBufferMoves
    <2>2. len <= BlockSize
      BY RamFSAssumption
    <2> QED BY <2>1, <2>2
  <1> QED BY <1>3, <1>4, <1>6, <1>7, <1>8, <1>9, <1>10, <1>11, <1>12, <1>13 DEF Next

LEMMA RInvKept ==
  ASSUME NEW t, Thread = {t}, RInv, Next
  PROVE  RInv'
  <1>1. FInv'
    BY NewFileKeeps, DeleteFileKeeps, OpenFileKeeps, FailureKeeps, BlockKeeps,
       NoBufferMoves, RestKeeps DEF Next, RInv
  <1>2. \A q \in Slot : super'.root[q].off <= BlockSize
    BY OffsetsKept
  <1>3. disk' \in [Block -> [Offset -> Data]]
    <2>1. disk' = disk => disk' \in [Block -> [Offset -> Data]]
      BY DEF RInv
    <2>2. ASSUME NEW n \in Name, NewFile(t, n) \/ NewFileFails(t, n) \/ DeleteFile(t, n) \/ NotFound(t, n)
          PROVE  disk' = disk
      BY <2>2 DEF NewFile, NewFileFails, DeleteFile, NotFound
    <2>3. ASSUME NEW n \in Name, NEW o \in Node, OpenFile(t, n, o) PROVE disk' = disk
      BY <2>3 DEF OpenFile
    <2>4. ASSUME NEW o \in Node, CloseFile(t, o) \/ BlockRead(t, o) \/ NoBufferStops(t, o)
          PROVE  disk' = disk
      BY <2>4 DEF CloseFile, BlockRead, NoBufferStops
    <2>5. ASSUME NEW len \in 1 .. BlockSize,
                 ReadFile(t, len) \/ Overrun(t, len) \/ \E o \in Node : NoBuffer(t, o, len)
          PROVE  disk' = disk
      BY <2>5 DEF ReadFile, Overrun, NoBuffer
    <2>6. SuperblockRead(t) => disk' = disk
      BY DEF SuperblockRead
    <2> QED BY <2>1, <2>2, <2>3, <2>4, <2>5, <2>6, WriteTyped DEF Next
  <1>4. held'[t].pc = "block" => held'[t].data = disk'[super'.root[held'[t].slot].block]
    <2> USE DEF RInv, FInv
    <2>1. ASSUME NEW s, SuperblockWrite(t, s) PROVE held'[t].pc # "block"
      BY <2>1 DEF SuperblockWrite, Idle
    <2>2. ASSUME NEW len, Advance(t, len) PROVE held'[t].pc # "block"
      BY <2>2 DEF Advance, Idle
    <2>3. ASSUME NEW o \in Node, BlockRead(t, o)
          PROVE  held'[t].data = disk'[super'.root[held'[t].slot].block]
      BY <2>3 DEF BlockRead
    <2>4. SuperblockRead(t) => held'[t].pc # "block"
      BY DEF SuperblockRead
    <2>5. ASSUME NEW o \in Node,
                 \/ CloseFile(t, o) \/ NoBufferStops(t, o)
                 \/ \E len \in 1 .. BlockSize : NoBuffer(t, o, len)
          PROVE  held'[t].pc # "block"
      BY <2>5 DEF CloseFile, NoBufferStops, NoBuffer, Ready
    <2>6. ASSUME NEW len \in 1 .. BlockSize, Overrun(t, len)
          PROVE  held'[t].pc = "block" => held'[t].data = disk'[super'.root[held'[t].slot].block]
      BY <2>6 DEF Overrun, DataTrue
    <2>7. ASSUME NEW n \in Name, NewFile(t, n) \/ NewFileFails(t, n) \/ DeleteFile(t, n) \/ NotFound(t, n)
          PROVE  held'[t].pc # "block"
      BY <2>1, <2>7 DEF NewFile, NewFileFails, DeleteFile, NotFound
    <2>8. ASSUME NEW n \in Name, NEW o \in Node, OpenFile(t, n, o) PROVE held'[t].pc # "block"
      BY <2>1, <2>8 DEF OpenFile
    <2>9. ASSUME NEW len \in 1 .. BlockSize, ReadFile(t, len) \/ \E d \in Data : WriteFile(t, len, d)
          PROVE  held'[t].pc # "block"
      BY <2>2, <2>9 DEF ReadFile, WriteFile
    <2> HIDE DEF RInv, FInv
    <2> QED BY <2>3, <2>4, <2>5, <2>6, <2>7, <2>8, <2>9 DEF Next
  <1> QED BY <1>1, <1>2, <1>3, <1>4 DEF RInv, DataTrue
-----------------------------------------------------------------------------
\* Two superblocks in which the same entries are used, for the same blocks.
LEMMA SameTexts ==
  ASSUME NEW s \in Disk, NEW u \in Disk, NEW d,
         \A q \in Slot : /\ u.root[q].name[1] = s.root[q].name[1]
                         /\ u.root[q].block = s.root[q].block
  PROVE  Texts(u, d) = Texts(s, d)
  <1>1. Used(u.root) = Used(s.root)
    BY DEF Used
  <1> QED BY <1>1 DEF Texts

LEMMA AdvanceKeepsTexts ==
  ASSUME RInv, NEW t, Thread = {t}, NEW len \in 1 .. BlockSize, Advance(t, len),
         held[t].pc = "block", super' \in Disk, NEW d
  PROVE  Texts(super', d) = Texts(super, d)
  <1>1. super \in Disk /\ held[t].slot \in Slot
    BY DEF RInv, FInv
  <1>2. \A q \in Slot : /\ super'.root[q].name[1] = super.root[q].name[1]
                        /\ super'.root[q].block = super.root[q].block
    BY <1>1 DEF Advance, Disk, Inode
  <1> QED BY <1>1, <1>2, SameTexts

LEMMA NewFileMakes ==
  ASSUME RInv, NEW t, Thread = {t}, NEW n \in Name, NewFile(t, n)
  PROVE  \E e \in Slot, c \in [Offset -> Data] :
           /\ Texts(super, disk)[e] = None
           /\ Texts(super', disk') = [Texts(super, disk) EXCEPT ![e] = c]
  <1> USE RamFSAssumption
  <1> DEFINE e == Max(Slot \ Used(super.root))
             b == BlockApply(super.bitmap)
  <1>1. super \in Disk /\ held[t].copy = super /\ disk' = disk
    BY DEF NewFile, Ready, RInv, FInv, CopyTrue
  <1>2. /\ Slot \ Used(super.root) # {} /\ Owned(super)
        /\ super'.root = [super.root EXCEPT ![e] =
             [name |-> Strcpy(super.root[e].name, n), block |-> b, off |-> super.root[e].off]]
    BY <1>1 DEF NewFile, RInv, FInv, SuperblockWrite
  <1>3. e \in Slot /\ e \notin Used(super.root)
    <2>1. Max(Slot \ Used(super.root)) \in Slot \ Used(super.root)
      BY <1>2, MaxIn
    <2> QED BY <2>1
  <1>4. b \in Block
    BY <1>1, <1>2, BlockIsFree
  <1> HIDE DEF e, b
  <1>5. Strcpy(super.root[e].name, n)[1] # 0
    <2>1. n[1] # 0 /\ 1 \in 1 .. Width
      OBVIOUS
    <2> QED BY <2>1 DEF Strcpy
  <1>6. /\ super'.root[e].name[1] # 0 /\ super'.root[e].block = b
        /\ \A q \in Slot \ {e} : super'.root[q] = super.root[q]
    BY <1>1, <1>2, <1>3, <1>5 DEF Disk
  <1>7. Used(super'.root) = Used(super.root) \cup {e}
    BY <1>3, <1>6 DEF Used
  <1>8. Texts(super, disk)[e] = None
    BY <1>3 DEF Texts
  <1>9. disk[b] \in [Offset -> Data]
    BY <1>4 DEF RInv
  <1>10. Texts(super', disk') = [Texts(super, disk) EXCEPT ![e] = disk[b]]
    BY <1>1, <1>3, <1>6, <1>7 DEF Texts
  <1> QED BY <1>3, <1>8, <1>9, <1>10

LEMMA DeleteFileRemoves ==
  ASSUME RInv, NEW t, Thread = {t}, NEW n \in Name, DeleteFile(t, n)
  PROVE  \E e \in Slot :
           /\ Texts(super, disk)[e] \in [Offset -> Data]
           /\ Texts(super', disk') = [Texts(super, disk) EXCEPT ![e] = None]
  <1> USE RamFSAssumption
  <1> DEFINE e == First(super.root, n)
  <1>1. super \in Disk /\ held[t].copy = super /\ disk' = disk
    BY DEF DeleteFile, Ready, RInv, FInv, CopyTrue
  <1>2. Found(super.root, n) # {} /\ super'.root = [super.root EXCEPT ![e].name[1] = 0]
    BY <1>1 DEF DeleteFile, SuperblockWrite
  <1>3. e \in Used(super.root) /\ e \in Slot
    BY <1>2, FirstFound, UsedSlots
  <1> HIDE DEF e
  <1>4. /\ super'.root[e].name[1] = 0
        /\ \A q \in Slot \ {e} : super'.root[q] = super.root[q]
    BY <1>1, <1>2, <1>3 DEF Disk, Inode
  <1>5. Used(super'.root) = Used(super.root) \ {e}
    BY <1>3, <1>4 DEF Used
  <1>6. Texts(super, disk)[e] \in [Offset -> Data]
    <2>1. super.root[e].block \in Block
      BY <1>1, <1>3 DEF Disk, Inode
    <2> QED BY <1>3, <2>1 DEF Texts, RInv
  <1>7. Texts(super', disk') = [Texts(super, disk) EXCEPT ![e] = None]
    BY <1>1, <1>3, <1>4, <1>5 DEF Texts
  <1> QED BY <1>3, <1>6, <1>7

LEMMA WriteFileWrites ==
  ASSUME RInv, NEW t, Thread = {t}, NEW len \in 1 .. BlockSize, NEW d \in Data,
         WriteFile(t, len, d), super' \in Disk
  PROVE  \/ Texts(super', disk') = Texts(super, disk)
         \/ \E e \in Slot, lo, hi \in 0 .. BlockSize :
              /\ Texts(super, disk)[e] \in [Offset -> Data]
              /\ Texts(super', disk') = [Texts(super, disk) EXCEPT ![e] =
                   [i \in Offset |-> IF lo <= i /\ i < hi THEN d ELSE Texts(super, disk)[e][i]]]
  <1> USE RamFSAssumption
  <1> DEFINE w == held[t].slot
             k == super.root[w].block
             from == super.root[w].off
             to == from + len
             new == [i \in Offset |-> IF from <= i /\ i < to THEN d ELSE disk[k][i]]
  <1>1. w \in Slot /\ held[t].pc = "block" /\ Advance(t, len) /\ super \in Disk
    BY DEF WriteFile, Ready, RInv, FInv
  <1>2. k \in Block /\ from \in Nat /\ disk[k] \in [Offset -> Data]
    BY <1>1 DEF Disk, Inode, RInv
  <1>3. held[t].data = disk[k]
    BY <1>1 DEF RInv, DataTrue
  <1>4. disk' = [disk EXCEPT ![k] = new]
    BY <1>3 DEF WriteFile
  <1>5. from \in 0 .. BlockSize /\ to \in 0 .. BlockSize
    <2>1. to <= BlockSize
      BY <1>1 DEF Advance
    <2> HIDE DEF from
    <2> QED BY <1>2, <2>1
  <1>6. Texts(super', disk') = Texts(super, disk')
    BY <1>1, AdvanceKeepsTexts
  <1> HIDE DEF new, k, w, from, to
  <1>7. \A b \in Block : disk'[b] = IF b = k THEN new ELSE disk[b]
    BY <1>4 DEF RInv
  <1>8. \A q \in Used(super.root) : q \in Slot /\ super.root[q].block \in Block
    BY <1>1, UsedSlots DEF Disk, Inode
  <1>9. CASE \E q \in Used(super.root) : super.root[q].block = k
    <2>1. PICK q \in Used(super.root) : super.root[q].block = k
      BY <1>9
    <2>2. q \in Slot /\ Texts(super, disk)[q] = disk[k]
      BY <1>8, <2>1 DEF Texts
    <2>3. \A r \in Used(super.root) : r # q => super.root[r].block # k
      BY <2>1 DEF RInv, FInv, Owned
    <2>4. Texts(super, disk') = [Texts(super, disk) EXCEPT ![q] = new]
      BY <1>7, <1>8, <2>1, <2>2, <2>3 DEF Texts
    <2>5. new = [i \in Offset |-> IF from <= i /\ i < to THEN d ELSE Texts(super, disk)[q][i]]
      BY <2>2 DEF new
    <2>6. Texts(super, disk)[q] \in [Offset -> Data]
      BY <1>2, <2>2
    <2>7. Texts(super', disk') = [Texts(super, disk) EXCEPT ![q] =
            [i \in Offset |-> IF from <= i /\ i < to THEN d ELSE Texts(super, disk)[q][i]]]
      BY <1>6, <2>4, <2>5
    <2>8. \E e \in Slot, lo, hi \in 0 .. BlockSize :
            /\ Texts(super, disk)[e] \in [Offset -> Data]
            /\ Texts(super', disk') = [Texts(super, disk) EXCEPT ![e] =
                 [i \in Offset |-> IF lo <= i /\ i < hi THEN d ELSE Texts(super, disk)[e][i]]]
      <3> q \in Slot /\ from \in 0 .. BlockSize /\ to \in 0 .. BlockSize
        BY <1>5, <2>2
      <3> WITNESS q \in Slot, from \in 0 .. BlockSize, to \in 0 .. BlockSize
      <3> QED BY <2>6, <2>7
    <2> QED BY <2>8
  <1>10. CASE ~ \E q \in Used(super.root) : super.root[q].block = k
    <2>1. Texts(super, disk') = Texts(super, disk)
      BY <1>7, <1>8, <1>10 DEF Texts
    <2> QED BY <1>6, <2>1
  <1> QED BY <1>9, <1>10

\* With a single caller RamFS implements FileStore: a call makes, removes or
\* writes one file and leaves the others as they are (superblock_write writes
\* all entries, drvrfs.c:166; fileblock_write a whole block).
THEOREM RamFSImplementsFileStore ==
  ASSUME NEW t, Thread = {t}, None \notin [Offset -> Data]
  PROVE  Spec => FilesKept
  <1> USE DEF Files!Contents
  <1>0. Contents = Texts(super, disk) /\ Contents' = Texts(super', disk')
    BY DEF Contents, Texts
  <1>1. Init => Files!Init
    <2> SUFFICES ASSUME Init PROVE Files!Init
      OBVIOUS
    <2>1. Used(super.root) = {}
      BY RamFSAssumption DEF Init, NoName, Used
    <2> QED BY <2>1 DEF Files!Init, Contents
  <1>2. RInv /\ RInv' /\ [Next]_vars => [Files!Next]_Contents
    <2> SUFFICES ASSUME RInv, RInv', [Next]_vars
                 PROVE  [Files!Next]_Contents
      OBVIOUS
    <2>1. super \in Disk /\ super' \in Disk
      BY DEF RInv, FInv
    <2>2. super' = super /\ disk' = disk => UNCHANGED Contents
      BY DEF Contents
    <2>3. CASE UNCHANGED vars
      BY <2>2, <2>3 DEF vars
    <2>4. held[t].pc = "super" => held[t].copy = super
      BY DEF RInv, FInv, CopyTrue
    <2>5. ASSUME NEW n \in Name, NewFile(t, n) PROVE Files!Next
      <3>1. PICK e \in Slot, c \in [Offset -> Data] :
              /\ Contents[e] = None
              /\ Contents' = [Contents EXCEPT ![e] = c]
        BY <2>5, <1>0, NewFileMakes
      <3>2. Files!New(e)
        BY <3>1 DEF Files!New, Offset
      <3> QED BY <3>2 DEF Files!Next
    <2>6. ASSUME NEW n \in Name, DeleteFile(t, n) PROVE Files!Next
      <3>1. PICK e \in Slot :
              /\ Contents[e] \in [Offset -> Data]
              /\ Contents' = [Contents EXCEPT ![e] = None]
        BY <2>6, <1>0, DeleteFileRemoves
      <3>2. Contents[e] # None
        BY <3>1
      <3>3. Files!Delete(e)
        BY <3>1, <3>2 DEF Files!Delete
      <3> QED BY <3>3 DEF Files!Next
    <2>7. ASSUME NEW len \in 1 .. BlockSize, NEW d \in Data, WriteFile(t, len, d)
          PROVE  Files!Next \/ Contents' = Contents
      <3>1. CASE Contents' = Contents
        BY <3>1
      <3>2. CASE Contents' # Contents
        <4>1. PICK e \in Slot, from, to \in 0 .. BlockSize :
                /\ Contents[e] \in [Offset -> Data]
                /\ Contents' = [Contents EXCEPT ![e] =
                     [i \in Offset |-> IF from <= i /\ i < to THEN d ELSE Contents[e][i]]]
          BY <2>1, <2>7, <3>2, <1>0, WriteFileWrites
        <4>2. Contents[e] # None
          BY <4>1
        <4>3. Files!Write(e)
          BY <4>1, <4>2 DEF Files!Write, Offset
        <4> QED BY <4>3 DEF Files!Next
      <3> QED BY <3>1, <3>2
    <2>8. ASSUME NEW len \in 1 .. BlockSize, ReadFile(t, len)
          PROVE  Contents' = Contents
      <3>1. Advance(t, len) /\ held[t].pc = "block" /\ disk' = disk
        BY <2>8 DEF ReadFile, Ready
      <3> QED BY <2>1, <3>1, <1>0, AdvanceKeepsTexts
    <2>9. ASSUME NEW n \in Name, NewFileFails(t, n) \/ NotFound(t, n)
          PROVE  super' = super /\ disk' = disk
      BY <2>4, <2>9 DEF NewFileFails, NotFound, Ready, SuperblockWrite
    <2>10. ASSUME NEW n \in Name, NEW o \in Node, OpenFile(t, n, o)
           PROVE  super' = super /\ disk' = disk
      BY <2>4, <2>10 DEF OpenFile, Ready, SuperblockWrite
    <2>11. ASSUME NEW o \in Node, CloseFile(t, o) \/ BlockRead(t, o) \/ NoBufferStops(t, o)
           PROVE  super' = super /\ disk' = disk
      BY <2>11 DEF CloseFile, BlockRead, NoBufferStops
    <2>12. ASSUME NEW len \in 1 .. BlockSize, Overrun(t, len)
           PROVE  super' = super /\ disk' = disk
      BY <2>12 DEF Overrun
    <2>13. SuperblockRead(t) => super' = super /\ disk' = disk
      BY DEF SuperblockRead
    <2>14. ASSUME NEW o \in Node, NEW len \in 1 .. BlockSize, NoBuffer(t, o, len)
           PROVE  Contents' = Contents
      <3>1. disk' = disk /\ \A q \in Slot : /\ super'.root[q].name[1] = super.root[q].name[1]
                                            /\ super'.root[q].block = super.root[q].block
        BY <2>14, NoBufferMoves DEF RInv
      <3> QED BY <2>1, <3>1, <1>0, SameTexts
    <2> USE <2>2
    <2>15. CASE Next
      <3>1. PICK u \in Thread :
              \/ SuperblockRead(u)
              \/ \E n \in Name :
                   \/ NewFile(u, n) \/ NewFileFails(u, n)
                   \/ DeleteFile(u, n) \/ NotFound(u, n)
                   \/ \E o \in Node : OpenFile(u, n, o)
              \/ \E o \in Node : CloseFile(u, o) \/ BlockRead(u, o) \/ NoBufferStops(u, o)
              \/ \E len \in 1 .. BlockSize :
                   \/ \E o \in Node : NoBuffer(u, o, len)
                   \/ ReadFile(u, len) \/ Overrun(u, len)
                   \/ \E d \in Data : WriteFile(u, len, d)
        BY <2>15 DEF Next
      <3>2. u = t
        OBVIOUS
      <3>3. Files!Next \/ Contents' = Contents
        BY <3>1, <3>2, <2>5, <2>6, <2>7, <2>8, <2>9, <2>10, <2>11, <2>12, <2>13,
           <2>14
      <3> QED BY <3>3
    <2> QED BY <2>3, <2>15
  <1>3. Init => RInv
    BY InitRInv
  <1>4. RInv /\ [Next]_vars => RInv'
    <2>1. RInv /\ UNCHANGED vars => RInv'
      BY DEF vars, RInv, FInv, CopyTrue, Owned, DataTrue
    <2> QED BY <2>1, RInvKept
  <1> QED BY <1>1, <1>2, <1>3, <1>4, PTL DEF Spec, FilesKept, Files!Spec
=============================================================================
