------------------------------ MODULE SimpleFS ------------------------------
(***************************************************************************)
(* "06. File Systems": fs.c on the disk of disk.c, under the commands of   *)
(* shell.c.  Block 0 of the disk is the superblock, then come the inode    *)
(* blocks, then data.  Which blocks are free is known in memory only, from *)
(* mount to the end of the session.  Files are copied in a buffer at a     *)
(* time, each by a call of fs_write, which writes a block at a time.       *)
(* Files are text.                                                         *)
(***************************************************************************)
EXTENDS Integers

CONSTANTS
  nblocks,             \* the second argument of the program
  SHARE,               \* one block in SHARE is for inodes: 10 in fs_format
  INODES_PER_BLOCK, POINTERS_PER_INODE, BLOCK_SIZE,
  BUFFER,              \* sizeof(buffer) in do_copyin
  Lengths,             \* sizes of the files copied in
  MaxSize              \* bound: the size of an inode

ninodeblocks == IF nblocks % SHARE = 0 THEN nblocks \div SHARE ELSE nblocks \div SHARE + 1
MaxDirect    == POINTERS_PER_INODE * BLOCK_SIZE

\* The last call of fs_write for a file begins within the direct blocks or right
\* behind them; one that begins later stores pointers outside of the inode.
ASSUME SizesAssumption ==
  /\ INODES_PER_BLOCK \in Nat /\ INODES_PER_BLOCK > 1
  /\ POINTERS_PER_INODE \in Nat \ {0} /\ SHARE \in Nat \ {0}
  /\ BLOCK_SIZE \in Nat \ {0}
  /\ BUFFER \in { m * BLOCK_SIZE : m \in 1..POINTERS_PER_INODE }
  /\ nblocks \in Nat /\ nblocks >= POINTERS_PER_INODE /\ nblocks > ninodeblocks
  /\ Lengths \subseteq 1..BUFFER * (MaxDirect \div BUFFER + 1)
  /\ MaxSize \in Nat

VARIABLES
  disk,       \* the contents of each block
  mounted,    \* bitmap # NULL
  bitmap,     \* the blocks marked in it
  sizeBitmap,
  pc,         \* "command", or where in fs_write the copyin command is
  copy,       \* do_copyin: the inode, what is left of the file, the offset
  w,          \* fs_write: its local variables
  owned       \* history: whose each block was at the last mount

memory == <<mounted, bitmap, sizeBitmap, owned>>
vars   == <<disk, memory, pc, copy, w>>

Blocks == 0..nblocks-1
Slots  == (1..ninodeblocks) \X (0..INODES_PER_BLOCK-1)   \* places of inodes

NoInode == [isvalid |-> FALSE, size |-> 0, indirect |-> 0,
            direct |-> [k \in 0..POINTERS_PER_INODE-1 |-> 0]]

\* What a block can hold: nothing, the superblock, inodes, or text of a file.
Zero        == [kind |-> "zero"]
Super       == [kind |-> "super"]
Table(t)    == [kind |-> "inodes", inode |-> t]
Data        == [kind |-> "data"]
EmptyTable  == Table([j \in 0..INODES_PER_BLOCK-1 |-> NoInode])

NoCopy  == [inumber |-> 0, left |-> 0, offset |-> 0]
NoWrite == [slot |-> <<1, 0>>, inode |-> NoInode, length |-> 0, written |-> 0,
            index |-> 0, pointers |-> "zero"]

\* A new disk file is all zeros, which the inode blocks show as invalid inodes.
Init ==
  /\ disk = [b \in Blocks |-> IF b \in 1..ninodeblocks THEN EmptyTable ELSE Zero]
  /\ mounted = FALSE
  /\ bitmap = {}
  /\ sizeBitmap = 0
  /\ pc = "command"
  /\ copy = NoCopy
  /\ w = NoWrite
  /\ owned = [b \in Blocks |-> {}]

-----------------------------------------------------------------------------
(* The layout of the disk.                                                 *)

\* The fields of the superblock are zero on a disk without one.
super == IF disk[0] = Super
         THEN [nblocks |-> nblocks, ninodeblocks |-> ninodeblocks,
               ninodes |-> INODES_PER_BLOCK * ninodeblocks]
         ELSE [nblocks |-> 0, ninodeblocks |-> 0, ninodes |-> 0]

getInodeNumber(slot) == (slot[1] - 1) * INODES_PER_BLOCK + slot[2]
getblock_num(n)      == (n + INODES_PER_BLOCK - 1) \div INODES_PER_BLOCK
SlotOf(n)            == <<getblock_num(n), n % INODES_PER_BLOCK>>

Inode(slot) == IF disk[slot[1]].kind = "inodes" THEN disk[slot[1]].inode[slot[2]]
               ELSE NoInode

StoreInode(slot, inode) ==
  disk' = [disk EXCEPT ![slot[1]] =
             Table([j \in 0..INODES_PER_BLOCK-1 |->
                      IF j = slot[2] THEN inode ELSE Inode(<<slot[1], j>>)])]

\* The first unmarked data block, or -1.  Slips: one block early, one too far.
NextBlockEarly ==
  LET free == { b \in super.ninodeblocks..sizeBitmap-1 : b \notin bitmap }
  IN  IF free = {} THEN -1 ELSE CHOOSE b \in free : \A c \in free : b <= c
NextBlockLate ==
  LET free == { b \in super.ninodeblocks+1..sizeBitmap : b \notin bitmap }
  IN  IF free = {} THEN -1 ELSE CHOOSE b \in free : \A c \in free : b <= c
getNextBlock ==
  LET free == { b \in super.ninodeblocks+1..sizeBitmap-1 : b \notin bitmap }
  IN  IF free = {} THEN -1 ELSE CHOOSE b \in free : \A c \in free : b <= c

-----------------------------------------------------------------------------
(* Commands.  Those that only print, or that refuse, change nothing.       *)

fs_format ==
  /\ pc = "command"
  /\ ~mounted
  /\ disk' = [b \in Blocks |-> CASE b = 0 -> Super
                                 [] b \in 1..ninodeblocks-1 -> EmptyTable
                                 [] OTHER -> disk[b]]
  /\ UNCHANGED <<memory, pc, copy, w>>

\* The inodes mount looks at: not those of the last inode block.
Files    == { s \in Slots : s[1] < super.ninodeblocks /\ Inode(s).isvalid }
Large(s) == Inode(s).size > MaxDirect

\* The blocks of a file that mount marks.
DirectBlocks(s) == { Inode(s).direct[k] :
                       k \in { i \in 0..POINTERS_PER_INODE-1 :
                                 i * BLOCK_SIZE < Inode(s).size } }

\* For a large file also the indirect block, and what is read as pointers there.
\* Slip: the indirect block itself is left out.
ListedBlocks(s, listed)   == IF Large(s) THEN listed ELSE {}
IndirectBlocks(s, listed) == IF Large(s) THEN {Inode(s).indirect} \cup listed ELSE {}

Pointers(inode) == ({ inode.direct[k] : k \in 0..POINTERS_PER_INODE-1 }
                      \cup {inode.indirect}) \ {0}
Refs(s) == Pointers(Inode(s))

\* What a large file names as its indirect block holds text: taken for pointers it
\* may name any blocks.  Marks on blocks before the data are never looked at.
fs_mount ==
  /\ pc = "command"
  /\ mounted' = TRUE
  /\ sizeBitmap' = super.nblocks
  /\ \E listed \in SUBSET (ninodeblocks+1..nblocks-1) :
       bitmap' = UNION { {s[1]} \cup DirectBlocks(s) \cup IndirectBlocks(s, listed) : s \in Files }
  /\ owned' = [b \in Blocks |->
                 IF \E s \in Files : b \in Refs(s)
                 THEN { s \in Slots : Inode(s).isvalid /\ b \in Refs(s) } ELSE {}]
  /\ UNCHANGED <<disk, pc, copy, w>>

\* The program ends; the next session starts on the same disk.
EndSession ==
  /\ mounted' = FALSE
  /\ bitmap' = {}
  /\ sizeBitmap' = 0
  /\ owned' = [b \in Blocks |-> {}]
  /\ pc' = "command"
  /\ copy' = NoCopy
  /\ w' = NoWrite
  /\ UNCHANGED disk

Quit == pc = "command" /\ EndSession

\* A signal ends the program in the middle of copyin.  Each disk_write has been done
\* or not: it writes one whole block.
Killed == pc # "command" /\ EndSession

\* Text taken for a pointer: mount marks a place far outside of bitmap, copyout has
\* the block number refused by sanity_check, which calls abort().
MountCrash ==
  /\ pc = "command"
  /\ \E s \in Files : Large(s) /\ disk[Inode(s).indirect].kind # "zero"
  /\ EndSession

CopyOutAbort(n) ==
  /\ pc = "command"
  /\ getblock_num(n) \in 1..super.ninodeblocks
  /\ Inode(SlotOf(n)).isvalid
  /\ Large(SlotOf(n))
  /\ disk[Inode(SlotOf(n)).indirect].kind # "zero"
  /\ EndSession

\* The loop over the inode blocks reads each into the union that holds its bound:
\* before block b it is what block b - 1 has in the place of super.ninodeblocks, the
\* first pointer of its first inode.  Slip: the bound of the superblock is kept.
KeptBound(b) == super.ninodeblocks
LoopBound(b) == IF b = 1 THEN super.ninodeblocks ELSE Inode(<<b-1, 0>>).direct[0]
Reached      == { b \in 1..ninodeblocks : \A c \in 1..b : c <= LoopBound(c) }

\* Slot 0 of the first block is passed over.
FreeSlots == { s \in Slots : s[1] \in Reached /\ s # <<1, 0>> /\ ~Inode(s).isvalid }
FirstSlot == CHOOSE s \in FreeSlots : \A t \in FreeSlots : getInodeNumber(s) <= getInodeNumber(t)

fs_create ==
  /\ pc = "command"
  /\ mounted
  /\ FreeSlots # {}
  /\ StoreInode(FirstSlot, [NoInode EXCEPT !.isvalid = TRUE])
  /\ bitmap' = bitmap \cup {FirstSlot[1]}
  /\ UNCHANGED <<mounted, sizeBitmap, owned, pc, copy, w>>

\* The blocks stay marked.  Number 0 is looked up in the superblock, whose magic
\* number makes it a valid inode: its fields are overwritten with zeros.
fs_delete(n) ==
  /\ pc = "command"
  /\ getblock_num(n) <= super.ninodeblocks
  /\ IF n = 0 THEN disk[0] = Super /\ disk' = [disk EXCEPT ![0] = Zero]
              ELSE Inode(SlotOf(n)).isvalid /\ StoreInode(SlotOf(n), NoInode)
  /\ UNCHANGED <<memory, pc, copy, w>>

-----------------------------------------------------------------------------
(* copyin: do_copyin calls fs_write for each buffer it has read.           *)

do_copyin(n, length) ==
  /\ pc = "command"
  /\ Inode(SlotOf(n)).size + length <= MaxSize
  /\ copy' = [inumber |-> n, left |-> length, offset |-> 0]
  /\ pc' = "fs_write"
  /\ UNCHANGED <<disk, memory, w>>

\* fs_write returns, and do_copyin with it.
GiveUp ==
  /\ pc' = "command"
  /\ copy' = NoCopy
  /\ w' = NoWrite

IsFile(n) == n \in 1..super.ninodes /\ Inode(SlotOf(n)).isvalid

RefuseWrite ==
  /\ pc = "fs_write"
  /\ ~IsFile(copy.inumber)
  /\ GiveUp
  /\ UNCHANGED <<disk, memory>>

fs_write ==
  /\ pc = "fs_write"
  /\ IsFile(copy.inumber)
  /\ w' = [slot |-> SlotOf(copy.inumber), inode |-> Inode(SlotOf(copy.inumber)),
           length |-> IF copy.left < BUFFER THEN copy.left ELSE BUFFER,
           written |-> 0, index |-> copy.offset \div BLOCK_SIZE, pointers |-> "zero"]
  /\ pc' = "direct"
  /\ UNCHANGED <<disk, memory, copy>>

section_size == IF w.length - w.written < BLOCK_SIZE THEN w.length - w.written ELSE BLOCK_SIZE

Unwritten == w.written < w.length

\* One turn of the loop over the direct blocks.  The block taken is not marked; the
\* one with the number of the pointer is.
WriteDirect ==
  LET allocates == w.inode.direct[w.index] = 0
      block     == IF allocates THEN getNextBlock ELSE w.inode.direct[w.index]
  IN  /\ pc = "direct"
      /\ w.index < POINTERS_PER_INODE /\ Unwritten
      /\ block # -1
      /\ disk' = [disk EXCEPT ![block] = Data]
      /\ bitmap' = IF allocates THEN bitmap \cup {w.index} ELSE bitmap
      /\ w' = [w EXCEPT !.inode.direct[w.index] = block, !.inode.size = @ + section_size,
                        !.written = @ + section_size, !.index = @ + 1]
      /\ UNCHANGED <<mounted, sizeBitmap, owned, pc, copy>>

\* The indirect block is taken and marked, and read as it is.
EnterIndirect ==
  LET allocates == w.inode.indirect = 0
      block     == IF allocates THEN getNextBlock ELSE w.inode.indirect
  IN  /\ pc = "direct"
      /\ w.index >= POINTERS_PER_INODE /\ Unwritten
      /\ block # -1
      /\ bitmap' = IF allocates THEN bitmap \cup {block} ELSE bitmap
      /\ w' = [w EXCEPT !.inode.indirect = block, !.pointers = disk[block].kind]
      /\ pc' = "indirect"
      /\ UNCHANGED <<disk, mounted, sizeBitmap, owned, copy>>

\* The pointer read from the indirect block is zero: in a block of zeros always, in
\* text perhaps.
MayBeZero  == w.pointers \in {"zero", "data"}
MayBeOther == w.pointers # "zero"

\* One turn of the loop behind.  What is looked at are the pointers of the indirect
\* block; what is written to is direct[index], the place of the field indirect.
\* Slip: the size is not added to.
WriteNoSize ==
  /\ pc = "indirect"
  /\ Unwritten
  /\ \E block \in (IF MayBeZero THEN {getNextBlock} ELSE {})
                    \cup (IF MayBeOther THEN {w.inode.indirect} ELSE {}) :
       /\ block # -1
       /\ disk' = [disk EXCEPT ![block] = Data]
       /\ w' = [w EXCEPT !.inode.indirect = block, !.written = @ + section_size]
  /\ UNCHANGED <<memory, pc, copy>>

WriteIndirect ==
  /\ pc = "indirect"
  /\ Unwritten
  /\ \E block \in (IF MayBeZero THEN {getNextBlock} ELSE {})
                    \cup (IF MayBeOther THEN {w.inode.indirect} ELSE {}) :
       /\ block # -1
       /\ disk' = [disk EXCEPT ![block] = Data]
       /\ w' = [w EXCEPT !.inode.indirect = block, !.inode.size = @ + section_size,
                         !.written = @ + section_size]
  /\ UNCHANGED <<memory, pc, copy>>

NeedsBlock ==
  \/ pc = "direct" /\ w.index < POINTERS_PER_INODE /\ w.inode.direct[w.index] = 0
  \/ pc = "direct" /\ w.index >= POINTERS_PER_INODE /\ w.inode.indirect = 0
  \/ pc = "indirect" /\ MayBeZero

\* return -1: the inode is not stored, the blocks written stay written.
NoSpace ==
  /\ NeedsBlock /\ Unwritten
  /\ getNextBlock = -1
  /\ GiveUp
  /\ UNCHANGED <<disk, memory>>

\* fs_write stores the inode; do_copyin goes on until the file is at its end.
FinishWrite ==
  /\ pc \in {"direct", "indirect"}
  /\ ~Unwritten
  /\ StoreInode(w.slot, w.inode)
  /\ IF copy.left = w.length
     THEN GiveUp
     ELSE /\ copy' = [copy EXCEPT !.left = @ - w.length, !.offset = @ + w.length]
          /\ pc' = "fs_write"
          /\ w' = NoWrite
  /\ UNCHANGED memory

-----------------------------------------------------------------------------
inumbers == 0..INODES_PER_BLOCK * ninodeblocks

Next ==
  \/ fs_format \/ fs_mount \/ MountCrash \/ Quit \/ Killed \/ fs_create
  \/ \E n \in inumbers : fs_delete(n) \/ CopyOutAbort(n)
  \/ \E n \in inumbers, length \in Lengths : do_copyin(n, length)
  \/ RefuseWrite \/ fs_write \/ WriteDirect \/ EnterIndirect \/ WriteIndirect
  \/ NoSpace \/ FinishWrite

Spec == Init /\ [][Next]_vars

-----------------------------------------------------------------------------
(* Properties.                                                             *)

IsInode(inode) ==
  /\ inode.isvalid \in BOOLEAN
  /\ inode.size \in 0..MaxSize
  /\ inode.direct \in [0..POINTERS_PER_INODE-1 -> Blocks]
  /\ inode.indirect \in Blocks

\* The types of the variables: no pointer leads out of the disk.
TypeOK ==
  /\ DOMAIN disk = Blocks
  /\ \A b \in Blocks : disk[b].kind \in {"zero", "super", "inodes", "data"}
  /\ \A s \in Slots : IsInode(Inode(s))
  /\ mounted \in BOOLEAN
  /\ bitmap \subseteq Blocks
  /\ sizeBitmap \in {0, nblocks}
  /\ pc \in {"command", "fs_write", "direct", "indirect"}
  /\ copy.inumber \in inumbers /\ copy.left \in Nat /\ copy.offset \in Nat
  /\ w.slot \in Slots /\ IsInode(w.inode) /\ w.index \in 0..POINTERS_PER_INODE
  /\ owned \in [Blocks -> SUBSET Slots]

\* Writing a file never touches the superblock, an inode block or somebody else's
\* inode: the blocks any inode names are data blocks.
PointersAreToData ==
  \A inode \in { Inode(s) : s \in Slots } \cup {w.inode} :
    /\ \A k \in 0..POINTERS_PER_INODE-1 : inode.direct[k] \notin 1..ninodeblocks
    /\ inode.indirect \notin 1..ninodeblocks

\* Mount goes by the size of a file, writing by its pointers: no block a file has
\* lies beyond its size, where mount would take it for free.
SizeCoversPointers ==
  \A s \in Slots :
    LET inode == Inode(s)
    IN  /\ \A k \in 0..POINTERS_PER_INODE-1 : inode.direct[k] # 0 => k * BLOCK_SIZE < inode.size
        /\ inode.indirect # 0 => inode.size > MaxDirect

\* A block that belonged to a file when the disk was mounted is given to no other
\* file in that session, whatever is deleted, created and written: an inode names
\* it only if it did so then.
MountProtects ==
  \A b \in Blocks : owned[b] # {} =>
    /\ disk[b].kind \in {"zero", "data"}
    /\ { s \in Slots : b \in Refs(s) } \subseteq owned[b]
    /\ b \in Pointers(w.inode) => w.slot \in owned[b]

\* Every file is found by the number that create printed for it.  The first inode of
\* a block would not be: getblock_num takes its number to the block before.  There
\* is none, because no inode in the first inode block, the only one whose first
\* inode is passed over, ever lets create go on to the next.
FilesAreFound ==
  \A s \in Slots : Inode(s).isvalid => SlotOf(getInodeNumber(s)) = s
=============================================================================
