-------------------------------- MODULE RamFS --------------------------------
(***************************************************************************)
(* The file system in memory (driver/drvrfs.c): a superblock with a bitmap *)
(* of blocks and a directory, one block for every file.                    *)
(*                                                                         *)
(* Creating, deleting and opening a file copies the superblock, works on   *)
(* the copy and writes all of it back; reading and writing copies the      *)
(* block of the file, but moves the offset in the superblock itself.  No   *)
(* lock is taken.  A copy is one step here: with several threads the code  *)
(* can do all that the model does, and more; with one thread, the same.    *)
(*                                                                         *)
(* An offset counts units of a block.  A name is the sequence of its       *)
(* characters, filled up with zeros.                                       *)
(***************************************************************************)
EXTENDS Integers, FiniteSets, FiniteSetsExt

CONSTANTS
  Slots,      \* CATALOG_MAX_NUM
  Blocks,     \* BITMAP_MAX_SIZE
  BlockSize,  \* units in 0x1000 bytes
  Width,      \* characters in fname
  Name,       \* the names callers use
  Data,       \* what they write, and what is in memory at boot
  Node,       \* the objnode_t of callers
  None,       \* a node that is not open
  Thread      \* the callers

Slot == 1 .. Slots
Block == 0 .. Blocks - 1
Offset == 0 .. BlockSize - 1
Char == UNION {{n[i] : i \in 1 .. Width} : n \in Name} \cup {0}

ASSUME RamFSAssumption ==
  /\ Slots \in Nat \ {0} /\ Blocks \in Nat /\ Blocks > Slots
  /\ BlockSize \in Nat \ {0} /\ Width \in Nat \ {0}
  /\ \A n \in Name :
       /\ n \in [1 .. Width -> Nat] /\ n[1] # 0 /\ n[Width] = 0
       /\ \A i \in 1 .. Width - 1 : n[i] = 0 => n[i + 1] = 0
  /\ None \notin Slot

VARIABLES
  super,    \* the superblock: its bitmap and its directory
  disk,     \* the contents of the other blocks
  fnode,    \* the slot of the inode an open node points to
  held,     \* the buffer a thread has, within an operation
  names,    \* how often each name was created and not deleted, by the replies
  undefined \* memory beyond a buffer has been read or written

vars == <<super, disk, fnode, held, names, undefined>>

NoName == [i \in 1 .. Width |-> 0]
Idle == [pc |-> "idle"]
Entry == [name : [1 .. Width -> Char], block : Block, off : 0 .. BlockSize]
Super == [bitmap : SUBSET Block, root : [Slot -> Entry]]

TypeOK ==
  /\ super \in Super
  /\ disk \in [Block -> [Offset -> Data]]
  /\ fnode \in [Node -> Slot \cup {None}]
  /\ held \in [Thread -> [pc : {"idle", "dead"}] \cup [pc : {"super"}, copy : Super]
                           \cup [pc : {"block"}, slot : Slot, data : [Offset -> Data]]]
  /\ names \in [Name -> Nat]
  /\ undefined \in BOOLEAN

\* new_devext, superblock_t_init
Init ==
  /\ super = [bitmap |-> {0},
              root |-> [s \in Slot |-> [name |-> NoName, block |-> 0, off |-> 0]]]
  /\ disk \in {[b \in Block |-> [i \in Offset |-> d]] : d \in Data}
  /\ fnode = [n \in Node |-> None]
  /\ held = [t \in Thread |-> Idle]
  /\ names = [n \in Name |-> 0]
  /\ undefined = FALSE
-----------------------------------------------------------------------------
\* strcmp: the difference of the first characters that differ, or of the last.
Strcmp(f, n) ==
  LET i == Min({j \in 1 .. Width : f[j] = 0 \/ n[j] = 0 \/ f[j] # n[j]})
  IN f[i] - n[i]

\* strcpy without the zero at the end: what f had there stays.
Strcpy(f, n) == [i \in 1 .. Width |-> IF n[i] = 0 THEN f[i] ELSE n[i]]

Used(root) == {s \in Slot : root[s].name[1] # 0}

\* The entries whose name is n.
Found(root, n) == {s \in Used(root) : Strcmp(root[s].name, n) = 0}

\* A bug: the loop stops at the first entry that is used.
FirstUsed(root, n) == Min(Used(root))

\* The first entry whose name is n.
First(root, n) == Min(Found(root, n))

\* An entry that rfs_new_file takes for one of the same name.  It compares the
\* difference of the names with TRUE.
Refused(root, n) == \E s \in Used(root) : Strcmp(root[s].name, n) = 1

\* A bug: the search for a free block looks behind the last one only.
BlockApplyNext(bitmap) ==
  IF bitmap = {} THEN 0 ELSE (Max(bitmap) + 1) % Blocks

\* block_apply: 0 when no block is free.
BlockApply(bitmap) ==
  IF Block \subseteq bitmap THEN 0 ELSE Min(Block \ bitmap)

\* Thread t is at pc.
Ready(t, pc) == held[t].pc = pc /\ ~undefined

\* superblock_read.  Without memory for the copy its callers return
\* DFCERRSTUS and nothing has changed.
SuperblockRead(t) ==
  /\ Ready(t, "idle")
  /\ held' = [held EXCEPT ![t] = [pc |-> "super", copy |-> super]]
  /\ UNCHANGED <<super, disk, fnode, names, undefined>>

\* superblock_write
SuperblockWrite(t, s) ==
  /\ super' = s
  /\ held' = [held EXCEPT ![t] = Idle]

-----------------------------------------------------------------------------
\* rfs_new_file: the last empty entry, whose offset stays.
NewFile(t, n) ==
  /\ Ready(t, "super")
  /\ LET copy  == held[t].copy
         empty == Slot \ Used(copy.root)
         s     == Max(empty)
         b     == BlockApply(copy.bitmap)
     IN
       /\ empty # {} /\ ~Refused(copy.root, n)
       /\ SuperblockWrite(t,
            [bitmap |-> copy.bitmap \cup {b},
             root |-> [copy.root EXCEPT ![s] =
                        [name |-> Strcpy(copy.root[s].name, n),
                         block |-> b, off |-> copy.root[s].off]]])
  /\ names' = [names EXCEPT ![n] = @ + 1]
  /\ UNCHANGED <<disk, fnode, undefined>>

\* rfs_new_file of a name that is refused or when the directory is full.
NewFileFails(t, n) ==
  /\ Ready(t, "super")
  /\ Refused(held[t].copy.root, n) \/ Used(held[t].copy.root) = Slot
  /\ SuperblockWrite(t, held[t].copy)
  /\ UNCHANGED <<disk, fnode, names, undefined>>

\* A bug: the block of the file stays in the bitmap.
BlockFreeForgotten(bitmap, b) == bitmap

\* block_free
BlockFree(bitmap, b) == bitmap \ {b}

\* rfs_delete_file, whether or not a node is open on the file.
DeleteFile(t, n) ==
  /\ Ready(t, "super")
  /\ LET copy == held[t].copy
         s    == First(copy.root, n)
     IN
       /\ Found(copy.root, n) # {}
       /\ SuperblockWrite(t,
            [bitmap |-> BlockFree(copy.bitmap, copy.root[s].block),
             root |-> [copy.root EXCEPT ![s].name[1] = 0]])
  /\ names' = [names EXCEPT ![n] = @ - 1]
  /\ UNCHANGED <<disk, fnode, undefined>>

\* rfs_open_file: the node points to the inode in the superblock on the disk.
OpenFile(t, n, o) ==
  /\ Ready(t, "super")
  /\ Found(held[t].copy.root, n) # {}
  /\ fnode' = [fnode EXCEPT ![o] = First(held[t].copy.root, n)]
  /\ SuperblockWrite(t, held[t].copy)
  /\ UNCHANGED <<disk, names, undefined>>

\* rfs_delete_file or rfs_open_file of a name that is not there.
NotFound(t, n) ==
  /\ Ready(t, "super")
  /\ Found(held[t].copy.root, n) = {}
  /\ SuperblockWrite(t, held[t].copy)
  /\ UNCHANGED <<disk, fnode, names, undefined>>

\* rfs_close_file
CloseFile(t, o) ==
  /\ Ready(t, "idle") /\ fnode[o] # None
  /\ fnode' = [fnode EXCEPT ![o] = None]
  /\ UNCHANGED <<super, disk, held, names, undefined>>
-----------------------------------------------------------------------------
\* fileblock_read, fileblock_write: a copy of the block of the file.
BlockRead(t, o) ==
  /\ Ready(t, "idle") /\ fnode[o] # None
  /\ held' = [held EXCEPT ![t] =
       [pc |-> "block", slot |-> fnode[o], data |-> disk[super.root[fnode[o]].block]]]
  /\ UNCHANGED <<super, disk, fnode, names, undefined>>

\* inode->curoff += len, in the superblock on the disk.
Advance(t, len) ==
  /\ super.root[held[t].slot].off + len <= BlockSize
  /\ super' = [super EXCEPT !.root[held[t].slot].off = @ + len]
  /\ held' = [held EXCEPT ![t] = Idle]

\* fileblock_read
ReadFile(t, len) ==
  /\ Ready(t, "block")
  /\ Advance(t, len)
  /\ UNCHANGED <<disk, fnode, names, undefined>>

\* fileblock_write, with len units d from the user.
WriteFile(t, len, d) ==
  /\ Ready(t, "block")
  /\ Advance(t, len)
  /\ LET inode == super.root[held[t].slot] IN
       disk' = [disk EXCEPT ![inode.block] =
         [i \in Offset |-> IF inode.off <= i /\ i < inode.off + len THEN d ELSE held[t].data[i]]]
  /\ UNCHANGED <<fnode, names, undefined>>

\* Either of them when the offset has gone too far: only len is compared with
\* the size of a block.
Overrun(t, len) ==
  /\ Ready(t, "block")
  /\ super.root[held[t].slot].off + len > BlockSize
  /\ undefined' = TRUE
  /\ UNCHANGED <<super, disk, fnode, held, names>>

\* Either of them when buf_new has no memory.  At the beginning of a file
\* memcpy, block_read and block_write find NULL and return: nothing is copied,
\* the offset moves on, and the caller is told that all went well.
NoBuffer(t, o, len) ==
  /\ Ready(t, "idle") /\ fnode[o] # None
  /\ super.root[fnode[o]].off = 0
  /\ super' = [super EXCEPT !.root[fnode[o]].off = @ + len]
  /\ UNCHANGED <<disk, fnode, held, names, undefined>>

\* Behind the beginning memcpy is given the offset as an address.  In the first
\* page the fault stops the thread; at its end the address is a user's, whose
\* memory may be there.
NoBufferStops(t, o) ==
  /\ Ready(t, "idle") /\ fnode[o] # None
  /\ super.root[fnode[o]].off # 0
  /\ \/ held' = [held EXCEPT ![t] = [pc |-> "dead"]] /\ undefined' = undefined
     \/ super.root[fnode[o]].off = BlockSize /\ undefined' = TRUE /\ held' = held
  /\ UNCHANGED <<super, disk, fnode, names>>

Next ==
  \E t \in Thread :
    \/ SuperblockRead(t)
    \/ \E n \in Name :
         \/ NewFile(t, n) \/ NewFileFails(t, n)
         \/ DeleteFile(t, n) \/ NotFound(t, n)
         \/ \E o \in Node : OpenFile(t, n, o)
    \/ \E o \in Node : CloseFile(t, o) \/ BlockRead(t, o) \/ NoBufferStops(t, o)
    \/ \E len \in 1 .. BlockSize :
         \/ \E o \in Node : NoBuffer(t, o, len)
         \/ ReadFile(t, len) \/ Overrun(t, len)
         \/ \E d \in Data : WriteFile(t, len, d)

Spec == Init /\ [][Next]_vars
-----------------------------------------------------------------------------
\* Every file has a block of its own, which is not the superblock's, and the
\* bitmap has these blocks and no others: no block is lost or shared, whatever
\* order files are created, deleted and written in.
BlocksOwned ==
  LET used == Used(super.root) IN
    /\ super.bitmap = {0} \cup {super.root[s].block : s \in used}
    /\ \A r, s \in used : super.root[r].block = super.root[s].block => r = s
    /\ \A s \in used : super.root[s].block # 0

\* A file can be found by its name for as long as callers have been told that
\* it exists (the test creates, opens and deletes one), and no longer.
NamesKept ==
  \A n \in Name : names[n] = Cardinality(Found(super.root, n))

\* Two files do not have the same name.
NamesDistinct == \A n \in Name : Cardinality(Found(super.root, n)) <= 1

\* The contents of a file are those of its block.
Contents ==
  [s \in Slot |-> IF s \in Used(super.root) THEN disk[super.root[s].block] ELSE None]

Files == INSTANCE FileStore WITH File <- Slot, NoFile <- None, contents <- Contents

\* A call of a single thread changes the contents of one file at most, even
\* through a node whose file has been deleted.
FilesKept == Files!Spec

\* Reads and writes stay within the buffer of a block.
InsideBlock == ~undefined

\* The offset of a file moves only with what was read from its block or written
\* to it (drvrfs.c:358, :395).
OffsetsEarned ==
  [][\A s \in Slot :
       super'.root[s].off # super.root[s].off =>
         \E t \in Thread : held[t].pc = "block" /\ held[t].slot = s]_vars

\* A file that has not been read or written is at its beginning.
NewAtStart ==
  [][\A s \in Slot : s \in Used(super'.root) \ Used(super.root) => super'.root[s].off = 0]_vars

\* An open node points to the inode of a file.
NodesLive == \A o \in Node : fnode[o] # None => fnode[o] \in Used(super.root)
=============================================================================
