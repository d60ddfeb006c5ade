--------------------------- MODULE SimpleFSProofs ---------------------------
(***************************************************************************)
(* For disks, inodes, blocks and files of any size: no pointer of a file   *)
(* leads out of the data blocks or beyond the size of the file, and no     *)
(* block that belonged to a file at the last mount is given to another one. *)
(***************************************************************************)
EXTENDS SimpleFS, TLAPS, WellFoundedInduction

-----------------------------------------------------------------------------
(* Sizes.                                                                  *)

Q == MaxDirect \div BUFFER     \* buffers that fit into the direct blocks

LEMMA Sizes ==
  /\ ninodeblocks \in Nat \ {0} /\ nblocks \in Nat /\ ninodeblocks < nblocks
  /\ POINTERS_PER_INODE \in Nat \ {0} /\ POINTERS_PER_INODE <= nblocks
  /\ INODES_PER_BLOCK \in Nat /\ INODES_PER_BLOCK > 1
  /\ BLOCK_SIZE \in Nat \ {0}
  /\ BUFFER \in Nat \ {0}
  /\ MaxDirect \in Nat
  /\ MaxSize \in Nat
<1> USE SizesAssumption
<1>1. PICK m \in 1..POINTERS_PER_INODE : BUFFER = m * BLOCK_SIZE
  OBVIOUS
<1>2. m * BLOCK_SIZE \in Nat \ {0}
  <2>1. m \in Nat \ {0}
    OBVIOUS
  <2> QED
    BY <2>1
<1>3. MaxDirect \in Nat
  BY DEF MaxDirect
<1>4. ninodeblocks \in Nat \ {0}
  <2>1. SHARE \in Nat \ {0} /\ nblocks \in Nat \ {0}
    OBVIOUS
  <2>2. /\ nblocks \div SHARE \in Nat
        /\ nblocks % SHARE \in 0..SHARE-1
        /\ nblocks = SHARE * (nblocks \div SHARE) + (nblocks % SHARE)
    BY <2>1, SMTT(30)
  <2>3. nblocks % SHARE = 0 => nblocks \div SHARE # 0
    BY <2>1, <2>2
  <2> QED
    BY <2>2, <2>3 DEF ninodeblocks
<1> QED
  BY <1>1, <1>2, <1>3, <1>4

\* The offsets at which do_copyin calls fs_write: fs_write begins at a block
\* boundary, within the direct blocks or right behind them.
LEMMA Offsets ==
  ASSUME NEW k \in 0..Q
  PROVE  /\ (k * BUFFER) \div BLOCK_SIZE \in 0..POINTERS_PER_INODE
         /\ ((k * BUFFER) \div BLOCK_SIZE) * BLOCK_SIZE = k * BUFFER
<1>1. PICK m \in 1..POINTERS_PER_INODE : BUFFER = m * BLOCK_SIZE
  BY SizesAssumption
<1>2. /\ k \in Nat /\ m \in Nat /\ Q \in Nat /\ k <= Q
      /\ Q * BUFFER <= MaxDirect
  <2>1. MaxDirect \in Nat /\ BUFFER \in Nat \ {0}
    BY Sizes
  <2>2. MaxDirect \div BUFFER \in Nat /\ (MaxDirect \div BUFFER) * BUFFER <= MaxDirect
    BY <2>1, SMTT(30)
  <2> QED
    BY <2>2 DEF Q
<1>3. k * BUFFER = (k * m) * BLOCK_SIZE /\ k * m \in Nat
  BY <1>1, <1>2, Sizes
<1>4. ((k * m) * BLOCK_SIZE) \div BLOCK_SIZE = k * m
  <2> DEFINE i == k * m
  <2>1. i \in Nat /\ BLOCK_SIZE \in Nat \ {0}
    BY <1>3, Sizes
  <2> HIDE DEF i
  <2>2. (i * BLOCK_SIZE) \div BLOCK_SIZE = i
    BY <2>1, SMTT(30)
  <2> QED
    BY <2>2 DEF i
<1>5. k * m <= POINTERS_PER_INODE
  <2>1. k * BUFFER <= Q * BUFFER
    BY <1>2, Sizes
  <2>2. (k * m) * BLOCK_SIZE <= POINTERS_PER_INODE * BLOCK_SIZE
    BY <2>1, <1>2, <1>3, Sizes DEF MaxDirect
  <2> DEFINE i == k * m
  <2> HIDE DEF i
  <2>3. i \in Nat /\ i * BLOCK_SIZE <= POINTERS_PER_INODE * BLOCK_SIZE
    BY <2>2, <1>3 DEF i
  <2>4. i <= POINTERS_PER_INODE
    <3>1. SUFFICES ASSUME i > POINTERS_PER_INODE PROVE FALSE
      BY <2>3, Sizes
    <3>2. i >= POINTERS_PER_INODE + 1
      BY <2>3, <3>1, Sizes
    <3>3. i * BLOCK_SIZE >= (POINTERS_PER_INODE + 1) * BLOCK_SIZE
      BY <2>3, <3>2, Sizes
    <3> QED
      BY <2>3, <3>3, Sizes
  <2> QED
    BY <2>4 DEF i
<1> QED
  BY <1>3, <1>4, <1>5

\* Another buffer follows only if it begins within the bound, too.
LEMMA NextOffset ==
  ASSUME NEW k \in 0..Q, (k + 1) * BUFFER < BUFFER * (Q + 1)
  PROVE  k + 1 \in 0..Q
<1>1. Q \in Nat
  <2>1. MaxDirect \in Nat /\ BUFFER \in Nat \ {0}
    BY Sizes
  <2>2. MaxDirect \div BUFFER \in Nat
    BY <2>1, SMTT(30)
  <2> QED
    BY <2>2 DEF Q
<1>2. SUFFICES ASSUME k = Q PROVE FALSE
  BY <1>1
<1> QED
  BY <1>1, <1>2, Sizes

-----------------------------------------------------------------------------
(* The disk.                                                               *)

Inodes == [isvalid : BOOLEAN, size : 0..MaxSize, indirect : Blocks,
           direct : [0..POINTERS_PER_INODE-1 -> Blocks]]

DataBlocks == ninodeblocks+1..nblocks-1

\* The superblock and the inode blocks keep their places; nothing but text is
\* written behind them.
DiskInv ==
  /\ DOMAIN disk = Blocks
  /\ disk[0] \in {Zero, Super}
  /\ \A b \in 1..ninodeblocks : \E t \in [0..INODES_PER_BLOCK-1 -> Inodes] : disk[b] = Table(t)
  /\ \A b \in DataBlocks : disk[b] \in {Zero, Data}

LEMMA Kinds ==
  /\ Zero.kind = "zero" /\ Super.kind = "super" /\ Data.kind = "data"
  /\ \A t : Table(t).kind = "inodes" /\ Table(t).inode = t
  BY DEF Zero, Super, Data, Table

LEMMA Layout ==
  /\ Blocks = {0} \cup 1..ninodeblocks \cup DataBlocks
  /\ 0 \notin 1..ninodeblocks /\ 0 \notin DataBlocks
  /\ \A b \in DataBlocks : b \notin 1..ninodeblocks
  /\ 1..ninodeblocks \subseteq Blocks
  /\ \A s \in Slots : /\ s[1] \in 1..ninodeblocks
                      /\ s[2] \in 0..INODES_PER_BLOCK-1
                      /\ s = <<s[1], s[2]>>
  /\ \A b \in 1..ninodeblocks, j \in 0..INODES_PER_BLOCK-1 : <<b, j>> \in Slots
  BY Sizes DEF Blocks, DataBlocks, Slots

LEMMA NoInodeType ==
  /\ NoInode \in Inodes
  /\ ~NoInode.isvalid
  /\ NoInode.size = 0
  /\ NoInode.indirect = 0
  /\ \A k \in 0..POINTERS_PER_INODE-1 : NoInode.direct[k] = 0
<1>1. 0 \in Blocks /\ 0 \in 0..MaxSize
  BY Sizes DEF Blocks
<1> QED
  BY <1>1 DEF NoInode, Inodes

\* What is read from a place in an inode block.
LEMMA InodeRead ==
  ASSUME DiskInv, NEW slot \in Slots
  PROVE  /\ disk[slot[1]].kind = "inodes"
         /\ Inode(slot) = disk[slot[1]].inode[slot[2]]
         /\ Inode(slot) \in Inodes
<1>1. PICK t \in [0..INODES_PER_BLOCK-1 -> Inodes] : disk[slot[1]] = Table(t)
  BY Layout DEF DiskInv
<1>2. disk[slot[1]].kind = "inodes" /\ disk[slot[1]].inode = t
  BY <1>1, Kinds
<1> QED
  BY <1>2, Layout DEF Inode

\* Storing an inode changes this inode only.
LEMMA InodeStored ==
  ASSUME DiskInv, NEW slot \in Slots, NEW inode \in Inodes, StoreInode(slot, inode)
  PROVE  /\ DiskInv'
         /\ Inode(slot)' = inode
         /\ \A s \in Slots : s # slot => Inode(s)' = Inode(s)
         /\ \A b \in Blocks : b \notin 1..ninodeblocks => disk'[b] = disk[b]
<1> DEFINE new == [j \in 0..INODES_PER_BLOCK-1 |->
                     IF j = slot[2] THEN inode ELSE Inode(<<slot[1], j>>)]
<1>1. disk' = [disk EXCEPT ![slot[1]] = Table(new)]
  BY DEF StoreInode
<1>2. \A j \in 0..INODES_PER_BLOCK-1 : <<slot[1], j>> \in Slots
  BY Layout
<1>3. new \in [0..INODES_PER_BLOCK-1 -> Inodes]
  BY <1>2, InodeRead
<1>4. DOMAIN disk = Blocks /\ slot[1] \in Blocks /\ slot[1] \in 1..ninodeblocks
  BY Layout DEF DiskInv
<1>5. \A b \in Blocks : b # slot[1] => disk'[b] = disk[b]
  BY <1>1, <1>4
<1>6. disk'[slot[1]] = Table(new)
  BY <1>1, <1>4
<1>7. DiskInv'
  <2>1. DOMAIN disk' = Blocks
    BY <1>1, <1>4
  <2>2. disk'[0] \in {Zero, Super}
    BY <1>4, <1>5, Layout DEF DiskInv
  <2>3. ASSUME NEW b \in 1..ninodeblocks
        PROVE  \E t \in [0..INODES_PER_BLOCK-1 -> Inodes] : disk'[b] = Table(t)
    <3>1. CASE b = slot[1]
      BY <1>3, <1>6, <3>1, Zenon
    <3>2. CASE b # slot[1]
      <4>1. disk'[b] = disk[b]
        BY <1>5, <3>2, Layout
      <4>2. \E t \in [0..INODES_PER_BLOCK-1 -> Inodes] : disk[b] = Table(t)
        BY DEF DiskInv
      <4> QED
        BY <4>1, <4>2, Zenon
    <3> QED
      BY <3>1, <3>2
  <2>4. ASSUME NEW b \in DataBlocks
        PROVE  disk'[b] \in {Zero, Data}
    BY <1>4, <1>5, Layout DEF DiskInv
  <2> QED
    BY <2>1, <2>2, <2>3, <2>4 DEF DiskInv
<1>8. ASSUME NEW s \in Slots
      PROVE  Inode(s)' = IF s = slot THEN inode ELSE Inode(s)
  <2>1. CASE s[1] = slot[1]
    <3>1. disk'[s[1]].kind = "inodes" /\ disk'[s[1]].inode = new
      BY <1>6, <2>1, Kinds
    <3>2. Inode(s)' = new[s[2]]
      BY <3>1 DEF Inode
    <3>3. s[2] = slot[2] <=> s = slot
      BY <2>1, Layout
    <3>4. Inode(<<slot[1], s[2]>>) = Inode(s)
      BY <2>1, Layout
    <3> QED
      BY <3>2, <3>3, <3>4, Layout
  <2>2. CASE s[1] # slot[1]
    BY <2>2, <1>5, Layout DEF Inode
  <2> QED
    BY <2>1, <2>2
<1> QED
  BY <1>4, <1>5, <1>7, <1>8

\* Writing text to a block of data changes no inode.
LEMMA DataWritten ==
  ASSUME DiskInv, NEW block \in DataBlocks, disk' = [disk EXCEPT ![block] = Data]
  PROVE  /\ DiskInv'
         /\ \A s \in Slots : Inode(s)' = Inode(s)
         /\ disk'[0] = disk[0]
<1>1. DOMAIN disk = Blocks /\ block \in Blocks /\ block # 0 /\ block \notin 1..ninodeblocks
  BY Layout DEF DiskInv
<1>2. \A b \in Blocks : disk'[b] = IF b = block THEN Data ELSE disk[b]
  BY <1>1
<1>3. \A b \in {0} \cup 1..ninodeblocks : disk'[b] = disk[b]
  BY <1>1, <1>2, Layout
<1>4. \A b \in DataBlocks : disk'[b] \in {Zero, Data}
  BY <1>2, Layout DEF DiskInv
<1>5. DiskInv'
  BY <1>1, <1>3, <1>4 DEF DiskInv
<1>6. \A s \in Slots : Inode(s)' = Inode(s)
  BY <1>3, Layout DEF Inode
<1> QED
  BY <1>3, <1>5, <1>6

\* A block that getNextBlock returns is a block of data and not marked.
LEMMA NextBlockIsFree ==
  ASSUME disk[0] = Super, sizeBitmap \in {0, nblocks}, getNextBlock # -1
  PROVE  getNextBlock \in DataBlocks /\ getNextBlock \notin bitmap
<1> DEFINE free == { b \in super.ninodeblocks+1..sizeBitmap-1 : b \notin bitmap }
<1>1. super.ninodeblocks = ninodeblocks
  BY DEF super
<1>2. free \in SUBSET DataBlocks /\ free \in SUBSET Nat
  BY <1>1, Sizes DEF DataBlocks
<1>3. free # {} /\ getNextBlock = CHOOSE b \in free : \A c \in free : b <= c
  BY DEF getNextBlock
<1>4. \E b \in free : \A c \in free : b <= c
  <2>1. PICK b \in free : \A c \in free : <<c, b>> \notin OpToRel(<, Nat)
    BY <1>2, <1>3, WFMin, NatLessThanWellFounded, ZenonT(40)
  <2>2. \A c \in free : ~(c < b)
    BY <1>2, <2>1, Zenon DEF OpToRel
  <2> QED
    BY <1>2, <2>2
<1>5. getNextBlock \in free
  BY <1>3, <1>4
<1> QED
  BY <1>2, <1>5

-----------------------------------------------------------------------------
(* The invariant.  The properties are not inductive: that the size covers  *)
(* the pointers depends on the offset of a write that goes on, and that no *)
(* block is given away twice on its mark in bitmap.                        *)

Sound(inode) ==
  /\ inode \in Inodes
  /\ \A k \in 0..POINTERS_PER_INODE-1 : inode.direct[k] \notin 1..ninodeblocks
  /\ inode.indirect \notin 1..ninodeblocks

DirectCovered(inode) ==
  \A k \in 0..POINTERS_PER_INODE-1 : inode.direct[k] # 0 => k * BLOCK_SIZE < inode.size

Covered(inode) ==
  /\ DirectCovered(inode)
  /\ inode.indirect # 0 => inode.size > MaxDirect

\* The places where fs_create makes an inode.
Usable(s) == s[1] = 1 /\ s[2] # 0

\* An inode that is not valid has no pointers, and a valid one names data only.
FileInv ==
  \A s \in Slots : /\ Sound(Inode(s))
                   /\ Covered(Inode(s))
                   /\ Inode(s).isvalid => Usable(s)
                   /\ ~Inode(s).isvalid => Inode(s) = NoInode

Copies == [inumber : inumbers, left : Nat, offset : Nat]
Writes == [slot : Slots, inode : Inodes, length : Nat, written : Nat,
           index : 0..POINTERS_PER_INODE,
           pointers : {"zero", "super", "inodes", "data"}]

\* do_copyin: what is left is written at its offset in the file.
CopyInv ==
  /\ pc \in {"command", "fs_write", "direct", "indirect"}
  /\ copy \in Copies
  /\ pc # "command" =>
       /\ copy.left >= 1
       /\ copy.offset \in { k * BUFFER : k \in 0..Q }
       /\ copy.offset + copy.left <= BUFFER * (Q + 1)
  /\ pc = "fs_write" /\ IsFile(copy.inumber) =>
       LET size == Inode(SlotOf(copy.inumber)).size
       IN  copy.offset <= size /\ size + copy.left <= MaxSize

\* fs_write: the copy of the inode that is filled in.
WriteInv ==
  /\ w \in Writes
  /\ Sound(w.inode)
  /\ pc \in {"command", "fs_write"} => w = NoWrite
  /\ pc \in {"direct", "indirect"} =>
       /\ disk[0] = Super
       /\ w.slot = SlotOf(copy.inumber)
       /\ w.inode.isvalid /\ Usable(w.slot)
       /\ w.length = (IF copy.left < BUFFER THEN copy.left ELSE BUFFER)
       /\ w.written <= w.length
       /\ copy.offset + w.written <= w.inode.size
       /\ w.inode.size + (copy.left - w.written) <= MaxSize
       /\ DirectCovered(w.inode)
       /\ w.inode.indirect # 0 =>
            \/ w.inode.size > MaxDirect
            \/ pc = "indirect" /\ Unwritten /\ w.inode.size = MaxDirect
  /\ pc = "direct" /\ Unwritten => w.index * BLOCK_SIZE = copy.offset + w.written
  /\ pc = "indirect" => w.inode.indirect # 0

\* Blocks of files are marked from mount on, and go to nobody else.
MemoryInv ==
  /\ mounted \in BOOLEAN
  /\ bitmap \subseteq Blocks
  /\ sizeBitmap \in {0, nblocks}
  /\ owned \in [Blocks -> SUBSET Slots]
  /\ \A b \in Blocks : owned[b] # {} =>
       /\ b \in bitmap
       /\ b \in DataBlocks
       /\ { s \in Slots : b \in Refs(s) } \subseteq owned[b]
       /\ b \in Pointers(w.inode) => w.slot \in owned[b]

IInv == DiskInv /\ FileInv /\ CopyInv /\ WriteInv /\ MemoryInv

-----------------------------------------------------------------------------
(* Preliminaries.                                                          *)

LEMMA NoInodeInv ==
  /\ Sound(NoInode) /\ Covered(NoInode) /\ Pointers(NoInode) = {}
<1>1. 0 \notin 1..ninodeblocks
  BY Sizes
<1> QED
  BY <1>1, NoInodeType DEF Sound, Covered, DirectCovered, Pointers

LEMMA NoWriteInv ==
  /\ NoWrite \in Writes
  /\ NoWrite.inode = NoInode
  /\ NoCopy \in Copies
<1>1. <<1, 0>> \in Slots /\ 0 \in 0..POINTERS_PER_INODE /\ 0 \in inumbers
  <2>1. 1 \in 1..ninodeblocks /\ 0 \in 0..INODES_PER_BLOCK-1
    BY Sizes
  <2>2. INODES_PER_BLOCK * ninodeblocks \in Nat
    BY Sizes
  <2> QED
    BY <2>1, <2>2, Layout, Sizes DEF inumbers
<1> QED
  BY <1>1, NoInodeType DEF NoWrite, NoCopy, Writes, Copies

\* The inode that a number of a file stands for.
LEMMA FileSlot ==
  /\ \A n \in Nat : IsFile(n) => disk[0] = Super /\ SlotOf(n) \in Slots
  /\ \A n \in Nat \ {0} : getblock_num(n) <= super.ninodeblocks => SlotOf(n) \in Slots
<1>1. ASSUME NEW n \in Nat \ {0}, getblock_num(n) <= ninodeblocks
      PROVE  SlotOf(n) \in Slots
  <2>1. INODES_PER_BLOCK \in Nat \ {0}
    BY Sizes
  <2>2. n % INODES_PER_BLOCK \in 0..INODES_PER_BLOCK-1
    BY <2>1, SMTT(30)
  <2> DEFINE m == n + INODES_PER_BLOCK - 1
  <2>3. m \in Nat /\ m >= INODES_PER_BLOCK
    BY <2>1
  <2> HIDE DEF m
  <2>4. m \div INODES_PER_BLOCK \in Nat /\ m \div INODES_PER_BLOCK >= 1
    BY <2>1, <2>3, SMTT(30)
  <2>5. getblock_num(n) \in 1..ninodeblocks
    BY <1>1, <2>4, Sizes DEF getblock_num, m
  <2> QED
    BY <2>2, <2>5, Layout DEF SlotOf
<1>2. ASSUME NEW n \in 1..INODES_PER_BLOCK * ninodeblocks
      PROVE  getblock_num(n) <= ninodeblocks
  <2> DEFINE m == n + INODES_PER_BLOCK - 1
             d == m \div INODES_PER_BLOCK
  <2>1. /\ INODES_PER_BLOCK \in Nat \ {0} /\ ninodeblocks \in Nat
        /\ INODES_PER_BLOCK * ninodeblocks \in Nat
    BY Sizes
  <2>2. m \in Nat /\ m < INODES_PER_BLOCK * ninodeblocks + INODES_PER_BLOCK
    BY <2>1
  <2> HIDE DEF m
  <2>3. d \in Nat /\ d * INODES_PER_BLOCK <= m
    BY <2>1, <2>2, SMTT(30)
  <2> HIDE DEF d
  <2>4. d <= ninodeblocks
    <3>1. SUFFICES ASSUME d >= ninodeblocks + 1 PROVE FALSE
      BY <2>1, <2>3
    <3>2. d * INODES_PER_BLOCK >= (ninodeblocks + 1) * INODES_PER_BLOCK
      BY <2>1, <2>3, <3>1
    <3> QED
      BY <2>1, <2>2, <2>3, <3>2
  <2> QED
    BY <2>4 DEF getblock_num, d, m
<1>3. /\ disk[0] = Super => super.ninodeblocks = ninodeblocks
      /\ disk[0] = Super => super.ninodes = INODES_PER_BLOCK * ninodeblocks
      /\ disk[0] # Super => super.ninodeblocks = 0
      /\ disk[0] # Super => super.ninodes = 0
  BY DEF super
<1>4. ASSUME NEW n \in Nat, IsFile(n)
      PROVE  disk[0] = Super /\ SlotOf(n) \in Slots
  <2>1. n \in 1..super.ninodes
    BY <1>4 DEF IsFile
  <2>2. disk[0] = Super
    BY <1>3, <2>1
  <2> QED
    BY <1>1, <1>2, <1>3, <2>1, <2>2
<1>5. ASSUME NEW n \in Nat \ {0}, getblock_num(n) <= super.ninodeblocks
      PROVE  SlotOf(n) \in Slots
  <2>1. super.ninodeblocks <= ninodeblocks
    BY <1>3, Sizes
  <2>2. getblock_num(n) \in Int
    <3>1. n + INODES_PER_BLOCK - 1 \in Nat /\ INODES_PER_BLOCK \in Nat \ {0}
      BY Sizes
    <3> QED
      BY <3>1, SMTT(30) DEF getblock_num
  <2> QED
    BY <1>1, <1>3, <1>5, <2>1, <2>2, Sizes
<1> QED
  BY <1>4, <1>5

\* The pointers of a sound inode.
LEMMA PointerBlocks ==
  ASSUME NEW inode, Sound(inode)
  PROVE  /\ Pointers(inode) \subseteq DataBlocks
         /\ \A k \in 0..POINTERS_PER_INODE-1 :
              /\ inode.direct[k] \in Blocks
              /\ inode.direct[k] # 0 => inode.direct[k] \in DataBlocks /\ inode.direct[k] \in Pointers(inode)
         /\ inode.indirect \in Blocks
         /\ inode.indirect # 0 => inode.indirect \in DataBlocks /\ inode.indirect \in Pointers(inode)
<1>1. inode.direct \in [0..POINTERS_PER_INODE-1 -> Blocks] /\ inode.indirect \in Blocks
  BY DEF Sound, Inodes
<1>2. \A b \in Blocks : b # 0 /\ b \notin 1..ninodeblocks => b \in DataBlocks
  BY Layout
<1>3. \A k \in 0..POINTERS_PER_INODE-1 :
        /\ inode.direct[k] \in Blocks
        /\ inode.direct[k] # 0 => inode.direct[k] \in DataBlocks
  BY <1>1, <1>2 DEF Sound
<1>4. inode.indirect # 0 => inode.indirect \in DataBlocks
  BY <1>1, <1>2 DEF Sound
<1> QED
  BY <1>1, <1>3, <1>4 DEF Pointers

LEMMA InitIInv == Init => IInv
<1> SUFFICES ASSUME Init PROVE IInv
  OBVIOUS
<1> DEFINE empty == [j \in 0..INODES_PER_BLOCK-1 |-> NoInode]
<1>1. empty \in [0..INODES_PER_BLOCK-1 -> Inodes]
  BY NoInodeType
<1>2. DiskInv
  <2>1. disk = [b \in Blocks |-> IF b \in 1..ninodeblocks THEN Table(empty) ELSE Zero]
    BY DEF Init, EmptyTable
  <2> HIDE DEF empty
  <2>2. DOMAIN disk = Blocks
    BY <2>1
  <2>3. \A b \in {0} \cup DataBlocks : disk[b] = Zero
    BY <2>1, Layout
  <2>4. \A b \in 1..ninodeblocks : disk[b] = Table(empty)
    BY <2>1, Layout
  <2> QED
    BY <1>1, <2>2, <2>3, <2>4 DEF DiskInv
<1>3. \A s \in Slots : Inode(s) = NoInode
  <2> TAKE s \in Slots
  <2>1. disk[s[1]] = Table(empty)
    BY Layout DEF Init, EmptyTable
  <2>2. disk[s[1]].inode = empty
    BY <2>1, Kinds
  <2> QED
    BY <1>2, <2>2, InodeRead, Layout
<1>4. FileInv
  BY <1>3, NoInodeInv, NoInodeType DEF FileInv
<1>5. CopyInv
  BY NoWriteInv DEF Init, CopyInv
<1>6. WriteInv
  BY NoWriteInv, NoInodeInv DEF Init, WriteInv
<1>7. MemoryInv
  BY DEF Init, MemoryInv
<1> QED
  BY <1>2, <1>4, <1>5, <1>6, <1>7 DEF IInv
-----------------------------------------------------------------------------
(* What steps have in common.                                              *)

LEMMA DiskKept ==
  ASSUME DiskInv, FileInv, disk' = disk
  PROVE  /\ DiskInv' /\ FileInv' /\ super' = super
         /\ \A s \in Slots : Inode(s)' = Inode(s)
<1>1. \A s \in Slots : Inode(s)' = Inode(s)
  BY DEF Inode
<1>2. DiskInv'
  BY DEF DiskInv
<1>3. FileInv'
  BY <1>1 DEF FileInv
<1>4. super' = super
  BY DEF super
<1> QED
  BY <1>1, <1>2, <1>3, <1>4

\* One inode is replaced by a good one.
LEMMA FilesKept ==
  ASSUME FileInv, NEW slot \in Slots, NEW inode, Sound(inode), Covered(inode),
         ~inode.isvalid => inode = NoInode, inode.isvalid => Usable(slot),
         \A s \in Slots : Inode(s)' = IF s = slot THEN inode ELSE Inode(s)
  PROVE  FileInv'
  BY DEF FileInv

\* Between commands nothing is known of copy and w but what they begin with.
LEMMA AtCommand ==
  ASSUME pc' = "command", copy' \in Copies, w' = NoWrite
  PROVE  CopyInv' /\ WriteInv'
<1>1. CopyInv'
  BY DEF CopyInv
<1>2. WriteInv'
  BY NoWriteInv, NoInodeInv DEF WriteInv
<1> QED
  BY <1>1, <1>2

\* Within a session an inode comes to a pointer only through fs_write, and fs_write
\* to a new one only where no mark is.
LEMMA OwnersKept ==
  ASSUME MemoryInv, owned' = owned, mounted' \in BOOLEAN, sizeBitmap' \in {0, nblocks},
         bitmap \subseteq bitmap', bitmap' \subseteq Blocks,
         \A s \in Slots, b \in Blocks : b \in Pointers(Inode(s)') =>
           \/ b \in Pointers(Inode(s))
           \/ s = w.slot /\ b \in Pointers(w.inode),
         \A b \in Blocks : b \in Pointers(w'.inode) =>
           \/ b \in Pointers(w.inode) /\ w'.slot = w.slot
           \/ b \notin bitmap
           \/ w'.slot \in Slots /\ b \in Pointers(Inode(w'.slot))
  PROVE  MemoryInv'
<1>1. ASSUME NEW b \in Blocks, owned[b] # {}
      PROVE  /\ b \in bitmap'
             /\ b \in DataBlocks
             /\ { s \in Slots : b \in Pointers(Inode(s)') } \subseteq owned[b]
             /\ b \in Pointers(w'.inode) => w'.slot \in owned[b]
  <2>1. /\ b \in bitmap
        /\ b \in DataBlocks
        /\ \A s \in Slots : b \in Pointers(Inode(s)) => s \in owned[b]
        /\ b \in Pointers(w.inode) => w.slot \in owned[b]
    BY <1>1 DEF MemoryInv, Refs
  <2> QED
    BY <2>1
<1> QED
  BY <1>1 DEF MemoryInv, Refs

\* The most frequent case: inodes only lose pointers, and fs_write is not at work.
LEMMA OwnersKeptAtCommand ==
  ASSUME IInv, owned' = owned, mounted' \in BOOLEAN, sizeBitmap' \in {0, nblocks},
         bitmap \subseteq bitmap', bitmap' \subseteq Blocks, w' = NoWrite,
         \A s \in Slots : Inode(s)' = Inode(s) \/ Pointers(Inode(s)') = {}
  PROVE  MemoryInv'
<1>1. Pointers(w'.inode) = {}
  BY NoWriteInv, NoInodeInv
<1> QED
  BY <1>1, OwnersKept DEF IInv

LEMMA EndSessionStep ==
  ASSUME IInv, EndSession
  PROVE  IInv'
<1>1. DiskInv' /\ FileInv' /\ super' = super
      /\ \A s \in Slots : Inode(s)' = Inode(s)
  BY DiskKept DEF IInv, EndSession
<1>2. MemoryInv'
  BY DEF EndSession, MemoryInv
<1> QED
  BY <1>1, <1>2, NoWriteInv, AtCommand DEF IInv, EndSession

-----------------------------------------------------------------------------
(* Commands.                                                               *)

LEMMA FormatStep ==
  ASSUME IInv, fs_format
  PROVE  IInv'
<1> DEFINE empty == [j \in 0..INODES_PER_BLOCK-1 |-> NoInode]
<1>1. DOMAIN disk' = Blocks
  BY DEF fs_format
<1>2. disk'[0] = Super
  BY Layout DEF fs_format
<1>3. \A b \in Blocks : b # 0 => disk'[b] = IF b \in 1..ninodeblocks-1 THEN EmptyTable ELSE disk[b]
  BY DEF fs_format
<1>4. empty \in [0..INODES_PER_BLOCK-1 -> Inodes] /\ EmptyTable = Table(empty)
  BY NoInodeType DEF EmptyTable
<1> HIDE DEF empty
<1>5. DiskInv'
  <2>1. ASSUME NEW b \in 1..ninodeblocks
        PROVE  \E t \in [0..INODES_PER_BLOCK-1 -> Inodes] : disk'[b] = Table(t)
    BY <1>3, <1>4, Layout DEF IInv, DiskInv
  <2>2. ASSUME NEW b \in DataBlocks
        PROVE  disk'[b] \in {Zero, Data}
    <3>1. b \notin 1..ninodeblocks-1 /\ b \in Blocks /\ b # 0
      BY Layout, Sizes
    <3> QED
      BY <1>3, <3>1 DEF IInv, DiskInv
  <2> QED
    BY <1>1, <1>2, <2>1, <2>2 DEF DiskInv
<1>6. ASSUME NEW s \in Slots
      PROVE  Inode(s)' = Inode(s) \/ Inode(s)' = NoInode
  <2>1. CASE s[1] \in 1..ninodeblocks-1
    <3>1. disk'[s[1]] = Table(empty)
      BY <1>3, <1>4, <2>1, Layout
    <3>2. disk'[s[1]].kind = "inodes" /\ disk'[s[1]].inode = empty
      BY <3>1, Kinds
    <3> QED
      BY <3>2, Layout DEF Inode, empty
  <2>2. CASE s[1] \notin 1..ninodeblocks-1
    <3>1. disk'[s[1]] = disk[s[1]]
      BY <1>3, <2>2, Layout
    <3> QED
      BY <3>1 DEF Inode
  <2> QED
    BY <2>1, <2>2
<1>7. FileInv'
  BY <1>6, NoInodeInv, NoInodeType DEF IInv, FileInv
<1>8. pc' = "command" /\ copy' \in Copies /\ w' = NoWrite
  BY DEF fs_format, IInv, CopyInv, WriteInv
<1>9. MemoryInv'
  BY <1>6, <1>8, NoInodeInv, OwnersKeptAtCommand DEF fs_format, memory, IInv, MemoryInv
<1> QED
  BY <1>5, <1>7, <1>8, <1>9, AtCommand DEF IInv
LEMMA SuperFields ==
  /\ super.nblocks \in {0, nblocks}
  /\ super.ninodeblocks \in {0, ninodeblocks}
  /\ super.ninodeblocks # 0 => disk[0] = Super
<1>1. CASE disk[0] = Super
  BY <1>1 DEF super
<1>2. CASE disk[0] # Super
  BY <1>2 DEF super
<1> QED
  BY <1>1, <1>2

\* Mount marks the blocks of the files it looks at, and sets who owns them.
LEMMA MountStep ==
  ASSUME IInv, fs_mount
  PROVE  IInv'
<1>1. DiskInv' /\ FileInv' /\ \A s \in Slots : Inode(s)' = Inode(s)
  BY DiskKept DEF IInv, fs_mount
<1>2. pc = "command" /\ pc' = "command" /\ copy' = copy /\ w' = w
  BY DEF fs_mount
<1>3. copy' \in Copies /\ w' = NoWrite
  BY <1>2 DEF IInv, CopyInv, WriteInv
<1>4. PICK listed \in SUBSET DataBlocks :
        bitmap' = UNION { {s[1]} \cup DirectBlocks(s) \cup IndirectBlocks(s, listed) : s \in Files }
  BY DEF fs_mount, DataBlocks
<1>5. \A s \in Files : s \in Slots /\ Sound(Inode(s)) /\ Covered(Inode(s))
  BY DEF Files, IInv, FileInv
<1>6. bitmap' \subseteq Blocks
  <2>1. ASSUME NEW s \in Files
        PROVE  {s[1]} \cup DirectBlocks(s) \cup IndirectBlocks(s, listed) \subseteq Blocks
    <3>1. s[1] \in Blocks
      BY <1>5, Layout
    <3>2. DirectBlocks(s) \subseteq Blocks
      BY <1>5, PointerBlocks DEF DirectBlocks
    <3>3. IndirectBlocks(s, listed) \subseteq Blocks
      BY <1>5, PointerBlocks, Layout DEF IndirectBlocks
    <3> QED
      BY <3>1, <3>2, <3>3
  <2> QED
    BY <1>4, <2>1
<1>7. ASSUME NEW s \in Files, NEW b \in Refs(s)
      PROVE  b \in DataBlocks /\ b \in bitmap'
  <2>1. b \in DataBlocks
    BY <1>5, PointerBlocks DEF Refs
  <2>2. b \in DirectBlocks(s) \cup IndirectBlocks(s, listed)
    <3>1. CASE b = Inode(s).indirect
      <4>1. b # 0
        BY <2>1, Layout
      <4> QED
        BY <1>5, <3>1, <4>1 DEF IndirectBlocks, Large, Covered
    <3>2. CASE b # Inode(s).indirect
      <4>1. b # 0
        BY <2>1, Layout
      <4>2. PICK k \in 0..POINTERS_PER_INODE-1 : b = Inode(s).direct[k]
        BY <3>2 DEF Refs, Pointers
      <4> QED
        BY <1>5, <4>1, <4>2 DEF DirectBlocks, Covered, DirectCovered
    <3> QED
      BY <3>1, <3>2
  <2> QED
    BY <1>4, <2>1, <2>2
<1>8. MemoryInv'
  <2>1. mounted' \in BOOLEAN /\ sizeBitmap' \in {0, nblocks}
    BY SuperFields DEF fs_mount
  <2>2. owned' = [b \in Blocks |->
                   IF \E s \in Files : b \in Refs(s)
                   THEN { s \in Slots : Inode(s).isvalid /\ b \in Refs(s) } ELSE {}]
    BY DEF fs_mount
  <2>3. owned' \in [Blocks -> SUBSET Slots]
    BY <2>2
  <2>4. \A b \in Blocks : b \notin Pointers(w'.inode)
    BY <1>3, NoWriteInv, NoInodeInv
  <2>5. ASSUME NEW s \in Slots, Refs(s) # {}
        PROVE  Inode(s).isvalid
    BY <2>5, NoInodeInv DEF IInv, FileInv, Refs
  <2>6. ASSUME NEW b \in Blocks, owned'[b] # {}
        PROVE  /\ b \in bitmap'
               /\ b \in DataBlocks
               /\ { s \in Slots : b \in Pointers(Inode(s)') } \subseteq owned'[b]
    <3>1. PICK s \in Files : b \in Refs(s)
      BY <2>2, <2>6
    <3>2. owned'[b] = { t \in Slots : Inode(t).isvalid /\ b \in Refs(t) }
      BY <2>2, <3>1
    <3>3. \A t \in Slots : Inode(t)' = Inode(t)
      BY <1>1
    <3>4. { t \in Slots : b \in Pointers(Inode(t)') } \subseteq { t \in Slots : b \in Refs(t) }
      BY <3>3 DEF Refs
    <3> QED
      BY <1>7, <2>5, <3>1, <3>2, <3>4
  <2> QED
    BY <1>6, <2>1, <2>3, <2>4, <2>6 DEF MemoryInv, Refs
<1> QED
  BY <1>1, <1>2, <1>3, <1>8, AtCommand DEF IInv

\* The number of a place on the disk grows with the place.
LEMMA SlotNumber ==
  ASSUME NEW s \in Slots
  PROVE  getInodeNumber(s) \in Nat
<1>1. s[1] \in Nat /\ s[1] >= 1 /\ s[2] \in Nat /\ INODES_PER_BLOCK \in Nat
  BY Layout, Sizes
<1>2. (s[1] - 1) * INODES_PER_BLOCK \in Nat
  <2> DEFINE m == s[1] - 1
  <2>1. m \in Nat
    BY <1>1
  <2> HIDE DEF m
  <2>2. m * INODES_PER_BLOCK \in Nat
    BY <1>1, <2>1
  <2> QED
    BY <2>2 DEF m
<1> QED
  BY <1>1, <1>2 DEF getInodeNumber

LEMMA FirstSlotIsFree ==
  ASSUME FreeSlots # {}
  PROVE  FirstSlot \in FreeSlots /\ FirstSlot \in Slots
<1>1. FreeSlots \subseteq Slots
  BY DEF FreeSlots
<1> DEFINE numbers == { getInodeNumber(s) : s \in FreeSlots }
<1>2. numbers \in SUBSET Nat /\ numbers # {}
  BY <1>1, SlotNumber
<1>3. PICK n \in numbers : \A m \in numbers : n <= m
  <2> HIDE DEF numbers
  <2>1. PICK n \in numbers : \A m \in numbers : <<m, n>> \notin OpToRel(<, Nat)
    BY <1>2, WFMin, NatLessThanWellFounded, Zenon
  <2>2. \A m \in numbers : ~(m < n)
    BY <1>2, <2>1, Zenon DEF OpToRel
  <2> QED
    BY <1>2, <2>2
<1>4. \E s \in FreeSlots : \A t \in FreeSlots : getInodeNumber(s) <= getInodeNumber(t)
  <2>1. PICK s \in FreeSlots : n = getInodeNumber(s)
    OBVIOUS
  <2> QED
    BY <1>3, <2>1
<1> QED
  BY <1>1, <1>4 DEF FirstSlot

\* The first inode of a block is never valid, so its first pointer is 0, and the loop
\* over the inode blocks ends after the first of them.
LEMMA OneBlockReached ==
  ASSUME IInv
  PROVE  /\ Reached \subseteq {1}
         /\ \A s \in FreeSlots : s \in Slots /\ Usable(s) /\ ~Inode(s).isvalid
<1>1. ASSUME NEW b \in Reached, b # 1
      PROVE  FALSE
  <2>1. b \in 1..ninodeblocks /\ 2 \in 1..b
    BY <1>1, Sizes DEF Reached
  <2>2. 2 <= LoopBound(2)
    BY <2>1 DEF Reached
  <2>3. LoopBound(2) = Inode(<<1, 0>>).direct[0]
    BY DEF LoopBound
  <2>4. 1 \in 1..ninodeblocks /\ 0 \in 0..INODES_PER_BLOCK-1
    BY Sizes
  <2>5. PICK s \in Slots : s = <<1, 0>>
    BY <2>4 DEF Slots
  <2>6. Inode(s) = NoInode
    BY <2>5 DEF IInv, FileInv, Usable
  <2>7. NoInode.direct[0] = 0
    BY Sizes DEF NoInode
  <2> QED
    BY <2>2, <2>3, <2>5, <2>6, <2>7
<1>2. ASSUME NEW s \in FreeSlots
      PROVE  s \in Slots /\ Usable(s) /\ ~Inode(s).isvalid
  <2>1. s \in Slots /\ s[1] = 1 /\ s # <<1, 0>> /\ ~Inode(s).isvalid
    BY <1>1 DEF FreeSlots
  <2>2. s = <<s[1], s[2]>>
    BY <2>1 DEF Slots
  <2> QED
    BY <2>1, <2>2 DEF Usable
<1> QED
  BY <1>1, <1>2

LEMMA CreateStep ==
  ASSUME IInv, fs_create
  PROVE  IInv'
<1> DEFINE inode == [NoInode EXCEPT !.isvalid = TRUE]
<1>1. FirstSlot \in Slots /\ Usable(FirstSlot)
  BY FirstSlotIsFree, OneBlockReached DEF fs_create
<1>2. /\ inode \in Inodes /\ inode.isvalid
      /\ inode.indirect = NoInode.indirect /\ inode.direct = NoInode.direct
      /\ inode.size = NoInode.size
  BY NoInodeType DEF Inodes
<1> HIDE DEF inode
<1>3. Sound(inode) /\ Covered(inode) /\ Pointers(inode) = {}
  BY <1>2, NoInodeInv DEF Sound, Covered, DirectCovered, Pointers
<1>4. StoreInode(FirstSlot, inode)
  BY DEF fs_create, inode
<1>5. /\ DiskInv'
      /\ \A s \in Slots : Inode(s)' = IF s = FirstSlot THEN inode ELSE Inode(s)
  BY <1>1, <1>2, <1>4, InodeStored DEF IInv
<1>6. FileInv'
  BY <1>1, <1>2, <1>3, <1>5, FilesKept DEF IInv
<1>7. pc' = "command" /\ copy' \in Copies /\ w' = NoWrite
  BY DEF fs_create, IInv, CopyInv, WriteInv
<1>8. bitmap \subseteq bitmap' /\ bitmap' \subseteq Blocks
  BY <1>1, Layout DEF fs_create, IInv, MemoryInv
<1>9. MemoryInv'
  BY <1>3, <1>5, <1>7, <1>8, OwnersKeptAtCommand DEF fs_create, IInv, MemoryInv
<1> QED
  BY <1>5, <1>6, <1>7, <1>9, AtCommand DEF IInv

LEMMA DeleteStep ==
  ASSUME IInv, NEW n \in inumbers, fs_delete(n)
  PROVE  IInv'
<1>1. pc' = "command" /\ copy' \in Copies /\ w' = NoWrite
  BY DEF fs_delete, IInv, CopyInv, WriteInv
<1>2. DiskInv' /\ FileInv' /\ \A s \in Slots : Inode(s)' = Inode(s) \/ Inode(s)' = NoInode
  <2>1. CASE n = 0
    <3>1. disk' = [disk EXCEPT ![0] = Zero]
      BY <2>1 DEF fs_delete
    <3>2. DOMAIN disk = Blocks /\ 0 \in Blocks
      BY Layout DEF IInv, DiskInv
    <3>3. disk'[0] = Zero /\ \A b \in Blocks : b # 0 => disk'[b] = disk[b]
      BY <3>1, <3>2
    <3>4. \A b \in 1..ninodeblocks \cup DataBlocks : disk'[b] = disk[b]
      BY <3>3, Layout
    <3>5. DiskInv'
      BY <3>1, <3>2, <3>3, <3>4 DEF IInv, DiskInv
    <3>6. \A s \in Slots : Inode(s)' = Inode(s)
      BY <3>4, Layout DEF Inode
    <3>7. FileInv'
      BY <3>6 DEF IInv, FileInv
    <3> QED
      BY <3>5, <3>6, <3>7
  <2>2. CASE n # 0
    <3>1. SlotOf(n) \in Slots
      <4>1. n \in Nat \ {0} /\ getblock_num(n) <= super.ninodeblocks
        BY <2>2, Sizes DEF fs_delete, inumbers
      <4> QED
        BY <4>1, FileSlot
    <3>2. StoreInode(SlotOf(n), NoInode)
      BY <2>2 DEF fs_delete
    <3>3. /\ DiskInv'
          /\ \A s \in Slots : Inode(s)' = IF s = SlotOf(n) THEN NoInode ELSE Inode(s)
      BY <3>1, <3>2, NoInodeType, InodeStored DEF IInv
    <3>4. FileInv'
      BY <3>1, <3>3, NoInodeInv, NoInodeType, FilesKept DEF IInv
    <3> QED
      BY <3>3, <3>4
  <2> QED
    BY <2>1, <2>2
<1>3. MemoryInv'
  BY <1>1, <1>2, NoInodeInv, OwnersKeptAtCommand DEF fs_delete, memory, IInv, MemoryInv
<1> QED
  BY <1>1, <1>2, <1>3, AtCommand DEF IInv
-----------------------------------------------------------------------------
(* Writing a file.                                                         *)

LEMMA CopyinStep ==
  ASSUME IInv, NEW n \in inumbers, NEW length \in Lengths, do_copyin(n, length)
  PROVE  IInv'
<1>1. DiskInv' /\ FileInv' /\ super' = super
      /\ \A s \in Slots : Inode(s)' = Inode(s)
  BY DiskKept DEF IInv, do_copyin
<1>2. /\ copy' = [inumber |-> n, left |-> length, offset |-> 0]
      /\ pc' = "fs_write" /\ w' = w /\ w = NoWrite
  BY DEF do_copyin, IInv, WriteInv
<1>3. /\ length \in Nat /\ length >= 1 /\ length <= BUFFER * (Q + 1)
      /\ Q \in Nat
  <2>1. Q \in Nat
    <3>1. MaxDirect \in Nat /\ BUFFER \in Nat \ {0}
      BY Sizes
    <3> QED
      BY <3>1, SMTT(30) DEF Q
  <2>2. BUFFER * (Q + 1) \in Nat
    BY <2>1, Sizes
  <2>3. length \in 1..BUFFER * (Q + 1)
    BY SizesAssumption DEF Q
  <2> QED
    BY <2>1, <2>2, <2>3
<1>4. n \in Nat
  BY Sizes DEF inumbers
<1>5. CopyInv'
  <2>1. copy' \in Copies
    BY <1>2, <1>3 DEF Copies
  <2>2. copy'.inumber = n /\ copy'.left = length /\ copy'.offset = 0
    BY <1>2
  <2>3. 0 \in { k * BUFFER : k \in 0..Q }
    BY <1>3, Sizes
  <2>4. ASSUME IsFile(n)'
        PROVE  0 <= Inode(SlotOf(n))'.size /\ Inode(SlotOf(n))'.size + length <= MaxSize
    <3>1. IsFile(n)
      BY <1>1, <2>4 DEF IsFile, do_copyin, Inode
    <3>2. SlotOf(n) \in Slots
      BY <1>4, <3>1, FileSlot
    <3>3. Inode(SlotOf(n)).size \in 0..MaxSize
      BY <3>2, InodeRead DEF IInv, Inodes
    <3> QED
      BY <1>1, <3>2, <3>3, Sizes DEF do_copyin
  <2>5. pc' = "fs_write" /\ IsFile(copy.inumber)' =>
          LET size == Inode(SlotOf(copy.inumber))'.size
          IN  copy'.offset <= size /\ size + copy'.left <= MaxSize
    BY <2>2, <2>4 DEF IsFile, Inode, SlotOf, super
  <2> QED
    BY <1>2, <1>3, <2>1, <2>2, <2>3, <2>5 DEF CopyInv
<1>6. WriteInv'
  BY <1>2, NoWriteInv, NoInodeInv DEF WriteInv
<1>7. MemoryInv'
  <2>1. pc' # "command" /\ \A b \in Blocks : b \notin Pointers(w'.inode)
    BY <1>2, NoWriteInv, NoInodeInv
  <2> QED
    BY <1>1, <2>1, OwnersKept DEF do_copyin, memory, IInv, MemoryInv
<1> QED
  BY <1>1, <1>5, <1>6, <1>7 DEF IInv

\* fs_write gives up, with or without having written.
LEMMA GiveUpStep ==
  ASSUME IInv, GiveUp, UNCHANGED <<disk, memory>>
  PROVE  IInv'
<1>1. DiskInv' /\ FileInv' /\ \A s \in Slots : Inode(s)' = Inode(s)
  BY DiskKept DEF IInv
<1>2. pc' = "command" /\ copy' \in Copies /\ w' = NoWrite
  BY NoWriteInv DEF GiveUp
<1>3. MemoryInv'
  BY <1>1, <1>2, OwnersKeptAtCommand DEF memory, IInv, MemoryInv
<1> QED
  BY <1>1, <1>2, <1>3, AtCommand DEF IInv

\* fs_write begins, at the block of its offset.
LEMMA WriteStep ==
  ASSUME IInv, fs_write
  PROVE  IInv'
<1> DEFINE slot  == SlotOf(copy.inumber)
           inode == Inode(slot)
           new == [slot |-> slot, inode |-> inode,
                   length |-> IF copy.left < BUFFER THEN copy.left ELSE BUFFER,
                   written |-> 0, index |-> copy.offset \div BLOCK_SIZE, pointers |-> "zero"]
<1>1. DiskInv' /\ FileInv' /\ disk' = disk /\ \A s \in Slots : Inode(s)' = Inode(s)
  BY DiskKept DEF IInv, fs_write
<1>2. pc = "fs_write" /\ pc' = "direct" /\ copy' = copy /\ w' = new /\ IsFile(copy.inumber)
  BY DEF fs_write
<1>3. copy \in Copies /\ copy.inumber \in Nat /\ copy.left \in Nat /\ copy.offset \in Nat
  BY Sizes DEF IInv, CopyInv, Copies, inumbers
<1>4. disk[0] = Super /\ slot \in Slots
  BY <1>2, <1>3, FileSlot
<1>5. inode \in Inodes /\ Sound(inode) /\ Covered(inode) /\ inode.isvalid /\ Usable(slot)
  BY <1>2, <1>4, InodeRead DEF IInv, FileInv, IsFile
<1>6. /\ copy.left >= 1
      /\ copy.offset <= inode.size /\ inode.size + copy.left <= MaxSize
  BY <1>2 DEF IInv, CopyInv
<1>7. /\ copy.offset \div BLOCK_SIZE \in 0..POINTERS_PER_INODE
      /\ (copy.offset \div BLOCK_SIZE) * BLOCK_SIZE = copy.offset
  <2>1. PICK k \in 0..Q : copy.offset = k * BUFFER
    BY <1>2 DEF IInv, CopyInv
  <2> QED
    BY <2>1, Offsets
<1>8. inode.size \in Nat
  BY <1>5, Sizes DEF Inodes
<1> DEFINE length == IF copy.left < BUFFER THEN copy.left ELSE BUFFER
<1>9. length \in Nat
  BY <1>3, Sizes
<1>10. /\ w'.slot = slot /\ w'.inode = inode /\ w'.length = length
       /\ w'.written = 0 /\ w'.index = copy.offset \div BLOCK_SIZE
  BY <1>2
<1>11. w' \in Writes
  BY <1>2, <1>4, <1>5, <1>7, <1>9 DEF Writes
<1> HIDE DEF new, slot, inode
<1>12. CopyInv'
  BY <1>2 DEF IInv, CopyInv
<1>13. WriteInv'
  <2>1. /\ disk'[0] = Super
        /\ slot = SlotOf(copy.inumber)'
    BY <1>1, <1>2, <1>4 DEF slot, SlotOf
  <2>2. /\ length = (IF copy'.left < BUFFER THEN copy'.left ELSE BUFFER)
        /\ 0 <= length
        /\ copy'.offset + 0 <= inode.size
        /\ inode.size + (copy'.left - 0) <= MaxSize
    BY <1>2, <1>3, <1>6, <1>8, <1>9
  <2>3. DirectCovered(inode) /\ (inode.indirect # 0 => inode.size > MaxDirect)
    BY <1>5 DEF Covered
  <2>4. w'.index * BLOCK_SIZE = copy'.offset + w'.written
    BY <1>2, <1>3, <1>7, <1>10
  <2> HIDE DEF length
  <2> QED
    BY <1>2, <1>5, <1>10, <1>11, <2>1, <2>2, <2>3, <2>4 DEF WriteInv
<1>14. MemoryInv'
  <2>1. \A b \in Blocks : b \in Pointers(w'.inode) =>
          w'.slot \in Slots /\ b \in Pointers(Inode(w'.slot))
    BY <1>4, <1>10 DEF inode
  <2> QED
    BY <1>1, <2>1, OwnersKept DEF fs_write, memory, IInv, MemoryInv
<1> QED
  BY <1>1, <1>12, <1>13, <1>14 DEF IInv
\* What is written in a turn of a loop of fs_write: a whole block, or the rest.
LEMMA Section ==
  ASSUME IInv, pc \in {"direct", "indirect"}, Unwritten
  PROVE  /\ section_size \in Nat /\ section_size >= 1 /\ section_size <= BLOCK_SIZE
         /\ w.written + section_size <= w.length
         /\ w.written + section_size < w.length => section_size = BLOCK_SIZE
         /\ w.inode.size + section_size \in 0..MaxSize
<1>1. /\ w.length \in Nat /\ w.written \in Nat /\ w.inode.size \in Nat
      /\ copy.left \in Nat
  BY Sizes DEF IInv, WriteInv, Writes, Inodes, CopyInv, Copies
<1>2. BLOCK_SIZE \in Nat \ {0} /\ BUFFER \in Nat /\ MaxSize \in Nat
  BY Sizes
<1>3. /\ w.length = (IF copy.left < BUFFER THEN copy.left ELSE BUFFER)
      /\ w.inode.size + (copy.left - w.written) <= MaxSize
  BY DEF IInv, WriteInv
<1>4. w.length <= copy.left
  BY <1>1, <1>2, <1>3
<1>5. w.written < w.length
  BY DEF Unwritten
<1>6. section_size = IF w.length - w.written < BLOCK_SIZE THEN w.length - w.written ELSE BLOCK_SIZE
  BY DEF section_size
<1> QED
  BY <1>1, <1>2, <1>3, <1>4, <1>5, <1>6

\* The block of a turn: an unmarked one, or the one that is there.
LEMMA BlockOfTurn ==
  ASSUME IInv, pc \in {"direct", "indirect"}, NEW old \in Pointers(w.inode) \cup {0}, NEW block,
         block # -1, block = getNextBlock \/ (block = old /\ old # 0)
  PROVE  block \in DataBlocks /\ (block \in Pointers(w.inode) \/ block \notin bitmap)
<1>1. Pointers(w.inode) \subseteq DataBlocks
  BY PointerBlocks DEF IInv, WriteInv
<1>2. CASE block = getNextBlock
  BY <1>2, NextBlockIsFree DEF IInv, WriteInv, MemoryInv
<1> QED
  BY <1>1, <1>2

LEMMA DirectSet ==
  ASSUME NEW inode, Sound(inode), NEW k \in 0..POINTERS_PER_INODE-1,
         NEW block \in DataBlocks, NEW size \in 0..MaxSize
  PROVE  LET e == [inode EXCEPT !.direct[k] = block, !.size = size]
         IN  /\ Sound(e) /\ e.size = size /\ e.isvalid = inode.isvalid
             /\ e.indirect = inode.indirect
             /\ \A i \in 0..POINTERS_PER_INODE-1 :
                  e.direct[i] = IF i = k THEN block ELSE inode.direct[i]
             /\ Pointers(e) \subseteq Pointers(inode) \cup {block}
<1> DEFINE e == [inode EXCEPT !.direct[k] = block, !.size = size]
<1>1. inode \in Inodes
  BY DEF Sound
<1>2. block \in Blocks /\ block \notin 1..ninodeblocks
  BY Layout
<1>3. inode.direct \in [0..POINTERS_PER_INODE-1 -> Blocks]
  BY <1>1 DEF Inodes
<1>4. /\ e.size = size /\ e.isvalid = inode.isvalid /\ e.indirect = inode.indirect
      /\ e.direct = [inode.direct EXCEPT ![k] = block]
      /\ e \in Inodes
  BY <1>1, <1>2, <1>3 DEF Inodes
<1> HIDE DEF e
<1>5. \A i \in 0..POINTERS_PER_INODE-1 :
        e.direct[i] = IF i = k THEN block ELSE inode.direct[i]
  BY <1>3, <1>4
<1>6. Sound(e)
  BY <1>2, <1>4, <1>5 DEF Sound
<1>7. Pointers(e) \subseteq Pointers(inode) \cup {block}
  BY <1>4, <1>5 DEF Pointers
<1> QED
  BY <1>4, <1>5, <1>6, <1>7 DEF e

LEMMA IndirectSet ==
  ASSUME NEW inode, Sound(inode), NEW block \in DataBlocks, NEW size \in 0..MaxSize
  PROVE  LET e == [inode EXCEPT !.indirect = block, !.size = size]
         IN  /\ Sound(e) /\ e.size = size /\ e.isvalid = inode.isvalid
             /\ e.indirect = block /\ e.direct = inode.direct
             /\ Pointers(e) \subseteq Pointers(inode) \cup {block}
<1> DEFINE e == [inode EXCEPT !.indirect = block, !.size = size]
<1>1. inode \in Inodes
  BY DEF Sound
<1>2. block \in Blocks /\ block \notin 1..ninodeblocks
  BY Layout
<1>3. /\ e.size = size /\ e.isvalid = inode.isvalid /\ e.indirect = block
      /\ e.direct = inode.direct /\ e \in Inodes
  BY <1>1, <1>2 DEF Inodes
<1> HIDE DEF e
<1>4. Sound(e)
  BY <1>2, <1>3 DEF Sound
<1>5. Pointers(e) \subseteq Pointers(inode) \cup {block}
  BY <1>3 DEF Pointers
<1> QED
  BY <1>3, <1>4, <1>5 DEF e

\* One turn of the loop over the direct blocks.
LEMMA WriteDirectStep ==
  ASSUME IInv, WriteDirect
  PROVE  IInv'
<1> DEFINE allocates == w.inode.direct[w.index] = 0
           block == IF allocates THEN getNextBlock ELSE w.inode.direct[w.index]
           size == w.inode.size + section_size
           inode == [w.inode EXCEPT !.direct[w.index] = block, !.size = size]
<1>1. /\ pc = "direct" /\ pc' = "direct" /\ copy' = copy
      /\ w.index < POINTERS_PER_INODE /\ Unwritten
      /\ block # -1
      /\ disk' = [disk EXCEPT ![block] = Data]
      /\ bitmap' = IF allocates THEN bitmap \cup {w.index} ELSE bitmap
      /\ w' = [w EXCEPT !.inode.direct[w.index] = block, !.inode.size = @ + section_size,
                        !.written = @ + section_size, !.index = @ + 1]
      /\ mounted' = mounted /\ sizeBitmap' = sizeBitmap /\ owned' = owned
  BY DEF WriteDirect
<1>2. /\ w \in Writes /\ w.inode \in Inodes /\ Sound(w.inode)
      /\ w.slot \in Slots /\ w.written \in Nat /\ w.length \in Nat
      /\ w.index \in 0..POINTERS_PER_INODE
  BY DEF IInv, WriteInv, Writes
<1>3. w.index \in 0..POINTERS_PER_INODE-1 /\ w.index \in Blocks
  BY <1>1, <1>2, Sizes, SMTT(20) DEF Blocks
<1>4. /\ section_size \in Nat /\ section_size >= 1 /\ section_size <= BLOCK_SIZE
      /\ w.written + section_size <= w.length
      /\ w.written + section_size < w.length => section_size = BLOCK_SIZE
      /\ size \in 0..MaxSize
  BY <1>1, Section
<1>5. block \in DataBlocks /\ (block \in Pointers(w.inode) \/ block \notin bitmap)
  <2>1. w.inode.direct[w.index] \in Pointers(w.inode) \cup {0}
    BY <1>2, <1>3, PointerBlocks
  <2> HIDE DEF IInv
  <2> QED
    BY <1>1, <2>1, BlockOfTurn
<1>6. /\ w'.inode = inode /\ w'.written = w.written + section_size
      /\ w'.index = w.index + 1 /\ w'.slot = w.slot /\ w'.length = w.length
      /\ w'.pointers = w.pointers
  <2> HIDE DEF block
  <2> QED
    BY <1>1, <1>2 DEF Writes, Inodes
<1>7. /\ Sound(inode) /\ inode.size = size /\ inode.isvalid = w.inode.isvalid
      /\ inode.indirect = w.inode.indirect
      /\ \A i \in 0..POINTERS_PER_INODE-1 :
           inode.direct[i] = IF i = w.index THEN block ELSE w.inode.direct[i]
      /\ Pointers(inode) \subseteq Pointers(w.inode) \cup {block}
  <2> HIDE DEF block, size
  <2> QED
    BY <1>2, <1>3, <1>4, <1>5, DirectSet
<1> HIDE DEF inode, block
<1>8. DiskInv' /\ (\A s \in Slots : Inode(s)' = Inode(s)) /\ disk'[0] = disk[0]
  BY <1>1, <1>5, DataWritten DEF IInv
<1>9. FileInv'
  BY <1>8 DEF IInv, FileInv
<1>10. CopyInv'
  BY <1>1 DEF IInv, CopyInv
<1>11. WriteInv'
  <2>1. /\ disk[0] = Super /\ w.slot = SlotOf(copy.inumber)
        /\ w.inode.isvalid /\ Usable(w.slot)
        /\ w.length = (IF copy.left < BUFFER THEN copy.left ELSE BUFFER)
        /\ copy.offset + w.written <= w.inode.size
        /\ w.inode.size + (copy.left - w.written) <= MaxSize
        /\ DirectCovered(w.inode)
        /\ w.inode.indirect # 0 => w.inode.size > MaxDirect
        /\ w.index * BLOCK_SIZE = copy.offset + w.written
    BY <1>1 DEF IInv, WriteInv
  <2>2. /\ copy.offset \in Nat /\ copy.left \in Nat /\ w.inode.size \in Nat
        /\ BLOCK_SIZE \in Nat /\ MaxDirect \in Nat
    BY <1>2, Sizes DEF IInv, CopyInv, Copies, Inodes
  <2>3. w' \in Writes
    <3>1. w.written + section_size \in Nat /\ w.index + 1 \in 0..POINTERS_PER_INODE
      BY <1>2, <1>3, <1>4, Sizes
    <3>2. w' = [slot |-> w.slot, inode |-> inode, length |-> w.length,
                written |-> w.written + section_size, index |-> w.index + 1,
                pointers |-> w.pointers]
      BY <1>1, <1>2, <1>6 DEF Writes
    <3> QED
      BY <1>2, <1>7, <3>1, <3>2 DEF Writes, Sound
  <2>4. /\ w'.written <= w'.length
        /\ copy.offset + w'.written <= inode.size
        /\ inode.size + (copy.left - w'.written) <= MaxSize
    BY <1>2, <1>4, <1>6, <1>7, <2>1, <2>2
  <2>5. DirectCovered(inode)
    <3> SUFFICES ASSUME NEW k \in 0..POINTERS_PER_INODE-1, inode.direct[k] # 0
                 PROVE  k * BLOCK_SIZE < inode.size
      BY DEF DirectCovered
    <3>1. CASE k = w.index
      BY <1>2, <1>4, <1>7, <2>1, <2>2, <3>1
    <3>2. CASE k # w.index
      <4>1. k * BLOCK_SIZE < w.inode.size
        BY <1>7, <2>1, <3>2 DEF DirectCovered
      <4>2. k * BLOCK_SIZE \in Nat
        BY <2>2
      <4> QED
        BY <1>4, <1>7, <2>2, <4>1, <4>2
    <3> QED
      BY <3>1, <3>2
  <2>6. inode.indirect # 0 => inode.size > MaxDirect
    BY <1>4, <1>7, <2>1, <2>2
  <2>7. w'.written < w'.length => w'.index * BLOCK_SIZE = copy.offset + w'.written
    <3> SUFFICES ASSUME w'.written < w'.length
                 PROVE  w'.index * BLOCK_SIZE = copy.offset + w'.written
      OBVIOUS
    <3>1. section_size = BLOCK_SIZE
      BY <1>4, <1>6
    <3>2. (w.index + 1) * BLOCK_SIZE = w.index * BLOCK_SIZE + BLOCK_SIZE
      BY <1>2, <2>2, Sizes
    <3> QED
      BY <1>2, <1>6, <2>1, <2>2, <3>1, <3>2
  <2>8. SlotOf(copy.inumber)' = SlotOf(copy.inumber)
    BY <1>1 DEF SlotOf
  <2> QED
    BY <1>1, <1>6, <1>7, <1>8, <2>1, <2>3, <2>4, <2>5, <2>6, <2>7, <2>8
       DEF WriteInv, Unwritten
<1>12. MemoryInv'
  <2>1. bitmap \subseteq bitmap' /\ bitmap' \subseteq Blocks
    BY <1>1, <1>3 DEF IInv, MemoryInv
  <2>2. \A b \in Blocks : b \in Pointers(w'.inode) =>
          (b \in Pointers(w.inode) /\ w'.slot = w.slot) \/ b \notin bitmap
    BY <1>5, <1>6, <1>7
  <2> QED
    BY <1>1, <1>8, <2>1, <2>2, OwnersKept DEF IInv, MemoryInv
<1> QED
  BY <1>8, <1>9, <1>10, <1>11, <1>12 DEF IInv
\* All direct pointers are in use; an indirect block is taken.
LEMMA EnterIndirectStep ==
  ASSUME IInv, EnterIndirect
  PROVE  IInv'
<1> DEFINE allocates == w.inode.indirect = 0
           block == IF allocates THEN getNextBlock ELSE w.inode.indirect
           inode == [w.inode EXCEPT !.indirect = block, !.size = w.inode.size]
<1>1. /\ pc = "direct" /\ pc' = "indirect" /\ copy' = copy
      /\ w.index >= POINTERS_PER_INODE /\ Unwritten
      /\ block # -1
      /\ disk' = disk
      /\ bitmap' = IF allocates THEN bitmap \cup {block} ELSE bitmap
      /\ w' = [w EXCEPT !.inode.indirect = block, !.pointers = disk[block].kind]
      /\ mounted' = mounted /\ sizeBitmap' = sizeBitmap /\ owned' = owned
  BY DEF EnterIndirect
<1>2. /\ w \in Writes /\ w.inode \in Inodes /\ Sound(w.inode)
      /\ w.slot \in Slots /\ w.written \in Nat /\ w.length \in Nat
      /\ w.index \in 0..POINTERS_PER_INODE /\ w.inode.size \in 0..MaxSize
  BY DEF IInv, WriteInv, Writes, Inodes
<1>3. block \in DataBlocks /\ (block \in Pointers(w.inode) \/ block \notin bitmap)
  <2>1. w.inode.indirect \in Pointers(w.inode) \cup {0}
    BY <1>2, PointerBlocks
  <2> HIDE DEF IInv
  <2> QED
    BY <1>1, <2>1, BlockOfTurn
<1>4. disk[block].kind \in {"zero", "data"}
  BY <1>3, Kinds DEF IInv, DiskInv
<1>5. /\ w'.inode = inode /\ w'.written = w.written
      /\ w'.index = w.index /\ w'.slot = w.slot /\ w'.length = w.length
      /\ w'.pointers = disk[block].kind
  <2> HIDE DEF block
  <2> QED
    BY <1>1, <1>2 DEF Writes, Inodes
<1>6. /\ Sound(inode) /\ inode.size = w.inode.size /\ inode.isvalid = w.inode.isvalid
      /\ inode.indirect = block /\ inode.direct = w.inode.direct
      /\ Pointers(inode) \subseteq Pointers(w.inode) \cup {block}
  <2> HIDE DEF block
  <2> QED
    BY <1>2, <1>3, IndirectSet
<1> HIDE DEF inode, block
<1>7. DiskInv' /\ FileInv' /\ \A s \in Slots : Inode(s)' = Inode(s)
  BY <1>1, DiskKept DEF IInv
<1>8. CopyInv'
  BY <1>1 DEF IInv, CopyInv
<1>9. WriteInv'
  <2>1. /\ disk[0] = Super /\ w.slot = SlotOf(copy.inumber)
        /\ w.inode.isvalid /\ Usable(w.slot)
        /\ w.length = (IF copy.left < BUFFER THEN copy.left ELSE BUFFER)
        /\ w.written <= w.length
        /\ copy.offset + w.written <= w.inode.size
        /\ w.inode.size + (copy.left - w.written) <= MaxSize
        /\ DirectCovered(w.inode)
        /\ w.index * BLOCK_SIZE = copy.offset + w.written
    BY <1>1 DEF IInv, WriteInv
  <2>2. w' \in Writes
    <3>1. w' = [slot |-> w.slot, inode |-> inode, length |-> w.length,
                written |-> w.written, index |-> w.index,
                pointers |-> disk[block].kind]
      BY <1>1, <1>2, <1>5 DEF Writes
    <3> QED
      BY <1>2, <1>4, <1>6, <3>1 DEF Writes, Sound
  <2>3. DirectCovered(inode)
    BY <1>6, <2>1 DEF DirectCovered
  <2>4. w.inode.size > MaxDirect \/ w.inode.size = MaxDirect
    <3>1. w.index = POINTERS_PER_INODE
      BY <1>1, <1>2, Sizes
    <3>2. MaxDirect <= w.inode.size
      BY <2>1, <3>1 DEF MaxDirect
    <3> QED
      BY <1>2, <3>2, Sizes
  <2>5. Unwritten'
    BY <1>1, <1>5 DEF Unwritten
  <2>6. block # 0
    BY <1>3, Layout
  <2>7. SlotOf(copy.inumber)' = SlotOf(copy.inumber)
    BY <1>1 DEF SlotOf
  <2> QED
    BY <1>1, <1>5, <1>6, <2>1, <2>2, <2>3, <2>4, <2>5, <2>6, <2>7 DEF WriteInv
<1>10. MemoryInv'
  <2>1. bitmap \subseteq bitmap' /\ bitmap' \subseteq Blocks
    BY <1>1, <1>3, Layout DEF IInv, MemoryInv
  <2>2. \A b \in Blocks : b \in Pointers(w'.inode) =>
          (b \in Pointers(w.inode) /\ w'.slot = w.slot) \/ b \notin bitmap
    BY <1>3, <1>5, <1>6
  <2> QED
    BY <1>1, <1>7, <2>1, <2>2, OwnersKept DEF IInv, MemoryInv
<1> QED
  BY <1>7, <1>8, <1>9, <1>10 DEF IInv

\* One turn of the loop behind the direct blocks.
LEMMA WriteIndirectStep ==
  ASSUME IInv, WriteIndirect
  PROVE  IInv'
<1>1. PICK block \in (IF MayBeZero THEN {getNextBlock} ELSE {})
                       \cup (IF MayBeOther THEN {w.inode.indirect} ELSE {}) :
        /\ block # -1
        /\ disk' = [disk EXCEPT ![block] = Data]
        /\ w' = [w EXCEPT !.inode.indirect = block, !.inode.size = @ + section_size,
                          !.written = @ + section_size]
  BY DEF WriteIndirect
<1>2. /\ pc = "indirect" /\ pc' = "indirect" /\ copy' = copy /\ Unwritten
      /\ bitmap' = bitmap
      /\ mounted' = mounted /\ sizeBitmap' = sizeBitmap /\ owned' = owned
  BY DEF WriteIndirect, memory
<1> DEFINE size == w.inode.size + section_size
           inode == [w.inode EXCEPT !.indirect = block, !.size = size]
<1>3. /\ w \in Writes /\ w.inode \in Inodes /\ Sound(w.inode)
      /\ w.slot \in Slots /\ w.written \in Nat /\ w.length \in Nat
      /\ w.index \in 0..POINTERS_PER_INODE /\ w.inode.size \in Nat
  BY Sizes DEF IInv, WriteInv, Writes, Inodes
<1>4. /\ section_size \in Nat /\ section_size >= 1 /\ section_size <= BLOCK_SIZE
      /\ w.written + section_size <= w.length
      /\ size \in 0..MaxSize
  BY <1>2, Section
<1>5. block \in DataBlocks /\ (block \in Pointers(w.inode) \/ block \notin bitmap)
  <2>1. w.inode.indirect # 0 /\ w.inode.indirect \in Pointers(w.inode)
    BY <1>2, <1>3, PointerBlocks DEF IInv, WriteInv
  <2>2. block = getNextBlock \/ block = w.inode.indirect
    BY <1>1
  <2> HIDE DEF IInv
  <2> QED
    BY <1>1, <1>2, <2>1, <2>2, BlockOfTurn
<1>6. /\ w'.inode = inode /\ w'.written = w.written + section_size
      /\ w'.index = w.index /\ w'.slot = w.slot /\ w'.length = w.length
      /\ w'.pointers = w.pointers
  BY <1>1, <1>3 DEF Writes, Inodes
<1>7. /\ Sound(inode) /\ inode.size = size /\ inode.isvalid = w.inode.isvalid
      /\ inode.indirect = block /\ inode.direct = w.inode.direct
      /\ Pointers(inode) \subseteq Pointers(w.inode) \cup {block}
  <2> HIDE DEF size
  <2> QED
    BY <1>3, <1>4, <1>5, IndirectSet
<1> HIDE DEF inode
<1>8. DiskInv' /\ (\A s \in Slots : Inode(s)' = Inode(s)) /\ disk'[0] = disk[0]
  BY <1>1, <1>5, DataWritten DEF IInv
<1>9. FileInv'
  BY <1>8 DEF IInv, FileInv
<1>10. CopyInv'
  BY <1>2 DEF IInv, CopyInv
<1>11. WriteInv'
  <2>1. /\ disk[0] = Super /\ w.slot = SlotOf(copy.inumber)
        /\ w.inode.isvalid /\ Usable(w.slot)
        /\ w.length = (IF copy.left < BUFFER THEN copy.left ELSE BUFFER)
        /\ copy.offset + w.written <= w.inode.size
        /\ w.inode.size + (copy.left - w.written) <= MaxSize
        /\ DirectCovered(w.inode)
        /\ w.inode.size > MaxDirect \/ w.inode.size = MaxDirect
    BY <1>2 DEF IInv, WriteInv
  <2>2. /\ copy.offset \in Nat /\ copy.left \in Nat /\ MaxDirect \in Nat /\ BLOCK_SIZE \in Nat
    BY <1>2, Sizes DEF IInv, CopyInv, Copies
  <2>3. w' \in Writes
    <3>1. w.written + section_size \in Nat
      BY <1>3, <1>4
    <3>2. w' = [slot |-> w.slot, inode |-> inode, length |-> w.length,
                written |-> w.written + section_size, index |-> w.index,
                pointers |-> w.pointers]
      BY <1>1, <1>3, <1>6 DEF Writes
    <3>3. w.pointers \in {"zero", "super", "inodes", "data"} /\ inode \in Inodes
      BY <1>3, <1>7 DEF Writes, Sound
    <3> QED
      BY <1>3, <3>1, <3>2, <3>3 DEF Writes
  <2>4. /\ w'.written <= w'.length
        /\ copy.offset + w'.written <= inode.size
        /\ inode.size + (copy.left - w'.written) <= MaxSize
    BY <1>3, <1>4, <1>6, <1>7, <2>1, <2>2
  <2>5. DirectCovered(inode)
    <3> SUFFICES ASSUME NEW k \in 0..POINTERS_PER_INODE-1, w.inode.direct[k] # 0
                 PROVE  k * BLOCK_SIZE < inode.size
      BY <1>7 DEF DirectCovered
    <3>1. k * BLOCK_SIZE < w.inode.size
      BY <2>1 DEF DirectCovered
    <3>2. k * BLOCK_SIZE \in Nat
      BY <2>2
    <3> QED
      BY <1>3, <1>4, <1>7, <3>1, <3>2
  <2>6. inode.size > MaxDirect
    BY <1>3, <1>4, <1>7, <2>1, <2>2
  <2>7. SlotOf(copy.inumber)' = SlotOf(copy.inumber)
    BY <1>2 DEF SlotOf
  <2>8. block # 0
    BY <1>5, Layout
  <2> QED
    BY <1>2, <1>6, <1>7, <1>8, <2>1, <2>3, <2>4, <2>5, <2>6, <2>7, <2>8 DEF WriteInv
<1>12. MemoryInv'
  <2>1. \A b \in Blocks : b \in Pointers(w'.inode) =>
          (b \in Pointers(w.inode) /\ w'.slot = w.slot) \/ b \notin bitmap
    BY <1>5, <1>6, <1>7
  <2> QED
    BY <1>2, <1>8, <2>1, OwnersKept DEF IInv, MemoryInv
<1> QED
  BY <1>8, <1>9, <1>10, <1>11, <1>12 DEF IInv

\* The inode is stored; do_copyin goes on with the next buffer or is done.
LEMMA FinishWriteStep ==
  ASSUME IInv, FinishWrite
  PROVE  IInv'
<1>1. /\ pc \in {"direct", "indirect"} /\ ~Unwritten
      /\ StoreInode(w.slot, w.inode)
      /\ mounted' = mounted /\ sizeBitmap' = sizeBitmap /\ owned' = owned /\ bitmap' = bitmap
  BY DEF FinishWrite, memory
<1>2. /\ w \in Writes /\ w.inode \in Inodes /\ Sound(w.inode)
      /\ w.slot \in Slots /\ w.written \in Nat /\ w.length \in Nat
      /\ w.inode.size \in Nat
  BY Sizes DEF IInv, WriteInv, Writes, Inodes
<1>3. /\ w.inode.isvalid /\ Usable(w.slot) /\ w.slot = SlotOf(copy.inumber)
      /\ w.length = (IF copy.left < BUFFER THEN copy.left ELSE BUFFER)
      /\ w.written <= w.length
      /\ copy.offset + w.written <= w.inode.size
      /\ w.inode.size + (copy.left - w.written) <= MaxSize
      /\ DirectCovered(w.inode)
      /\ w.inode.indirect # 0 => w.inode.size > MaxDirect
  BY <1>1 DEF IInv, WriteInv
<1>4. w.written = w.length
  BY <1>1, <1>2, <1>3 DEF Unwritten
<1>5. /\ DiskInv'
      /\ \A s \in Slots : Inode(s)' = IF s = w.slot THEN w.inode ELSE Inode(s)
  BY <1>1, <1>2, InodeStored DEF IInv
<1>6. FileInv'
  BY <1>2, <1>3, <1>5, FilesKept DEF IInv, Covered
<1>7. ASSUME w' = NoWrite
      PROVE  MemoryInv'
  <2>1. \A b \in Blocks : b \notin Pointers(w'.inode)
    BY <1>7, NoWriteInv, NoInodeInv
  <2>2. \A s \in Slots, b \in Blocks : b \in Pointers(Inode(s)') =>
          \/ b \in Pointers(Inode(s))
          \/ s = w.slot /\ b \in Pointers(w.inode)
    BY <1>5
  <2> QED
    BY <1>1, <2>1, <2>2, OwnersKept DEF IInv, MemoryInv
<1>8. CASE copy.left = w.length
  <2>1. pc' = "command" /\ copy' \in Copies /\ w' = NoWrite
    BY <1>8, NoWriteInv DEF FinishWrite, GiveUp
  <2> QED
    BY <1>5, <1>6, <1>7, <2>1, AtCommand DEF IInv
<1>9. CASE copy.left # w.length
  <2>1. /\ copy' = [copy EXCEPT !.left = @ - w.length, !.offset = @ + w.length]
        /\ pc' = "fs_write" /\ w' = NoWrite
    BY <1>9 DEF FinishWrite
  <2>2. /\ copy \in Copies /\ copy.inumber \in inumbers /\ copy.left \in Nat /\ copy.offset \in Nat
        /\ BUFFER \in Nat \ {0}
    BY Sizes DEF IInv, CopyInv, Copies
  <2>3. w.length = BUFFER /\ copy.left >= BUFFER + 1
    BY <1>3, <1>9, <2>2
  <2>4. /\ copy'.inumber = copy.inumber /\ copy'.left = copy.left - BUFFER
        /\ copy'.offset = copy.offset + BUFFER
        /\ copy' = [inumber |-> copy.inumber, left |-> copy.left - BUFFER,
                    offset |-> copy.offset + BUFFER]
    BY <2>1, <2>2, <2>3 DEF Copies
  <2>5. copy' \in Copies /\ copy'.left >= 1
    BY <2>2, <2>3, <2>4 DEF Copies
  <2>6. copy.offset + copy.left <= BUFFER * (Q + 1)
    BY <1>1 DEF IInv, CopyInv
  <2>7. Q \in Nat
    <3>1. MaxDirect \in Nat
      BY Sizes
    <3> QED
      BY <2>2, <3>1, SMTT(30) DEF Q
  <2>8. copy'.offset \in { k * BUFFER : k \in 0..Q }
    <3>1. PICK k \in 0..Q : copy.offset = k * BUFFER
      BY <1>1 DEF IInv, CopyInv
    <3>2. copy'.offset = (k + 1) * BUFFER
      BY <2>2, <2>4, <3>1
    <3>3. BUFFER * (Q + 1) \in Nat
      BY <2>2, <2>7
    <3>4. (k + 1) * BUFFER < BUFFER * (Q + 1)
      BY <2>2, <2>3, <2>4, <2>6, <3>2, <3>3
    <3>5. k + 1 \in 0..Q
      BY <3>4, NextOffset
    <3> QED
      BY <3>2, <3>5
  <2>9. copy'.offset + copy'.left <= BUFFER * (Q + 1)
    BY <2>2, <2>4, <2>6
  <2>10. Inode(SlotOf(copy.inumber))' = w.inode
    <3>1. PICK s \in Slots : s = w.slot
      BY <1>2
    <3>2. SlotOf(copy'.inumber) = s
      BY <1>3, <2>4, <3>1 DEF SlotOf
    <3>3. Inode(s)' = w.inode
      BY <1>5, <3>1
    <3>4. SlotOf(copy.inumber)' = s
      BY <3>2 DEF SlotOf
    <3> QED
      BY <3>3, <3>4 DEF Inode
  <2>11. copy'.offset <= w.inode.size /\ w.inode.size + copy'.left <= MaxSize
    BY <1>2, <1>3, <1>4, <2>2, <2>3, <2>4, Sizes
  <2>12. CopyInv'
    BY <2>1, <2>5, <2>8, <2>9, <2>10, <2>11 DEF CopyInv
  <2>13. WriteInv'
    BY <2>1, NoWriteInv, NoInodeInv DEF WriteInv
  <2> QED
    BY <1>5, <1>6, <1>7, <2>1, <2>12, <2>13 DEF IInv
<1> QED
  BY <1>8, <1>9

LEMMA QuitStep ==
  ASSUME IInv, Quit \/ Killed \/ MountCrash \/ \E n \in inumbers : CopyOutAbort(n)
  PROVE  IInv'
<1>1. EndSession
  BY DEF Quit, Killed, MountCrash, CopyOutAbort
<1> QED
  BY <1>1, EndSessionStep

LEMMA Inductive ==
  IInv /\ [Next]_vars => IInv'
<1> SUFFICES ASSUME IInv, [Next]_vars PROVE IInv'
  OBVIOUS
<1>1. CASE fs_format
  BY <1>1, FormatStep
<1>2. CASE fs_mount
  BY <1>2, MountStep
<1>3. CASE Quit \/ Killed \/ MountCrash \/ \E n \in inumbers : CopyOutAbort(n)
  BY <1>3, QuitStep
<1>4. CASE fs_create
  BY <1>4, CreateStep
<1>5. ASSUME NEW n \in inumbers, fs_delete(n) PROVE IInv'
  BY <1>5, DeleteStep
<1>6. ASSUME NEW n \in inumbers, NEW length \in Lengths, do_copyin(n, length) PROVE IInv'
  BY <1>6, CopyinStep
<1>7. CASE RefuseWrite \/ NoSpace
  BY <1>7, GiveUpStep DEF RefuseWrite, NoSpace
<1>8. CASE fs_write
  BY <1>8, WriteStep
<1>9. CASE WriteDirect
  BY <1>9, WriteDirectStep
<1>10. CASE EnterIndirect
  BY <1>10, EnterIndirectStep
<1>11. CASE WriteIndirect
  BY <1>11, WriteIndirectStep
<1>12. CASE FinishWrite
  BY <1>12, FinishWriteStep
<1>13. CASE UNCHANGED vars
  <2>1. DiskInv' /\ FileInv' /\ super' = super
        /\ \A s \in Slots : Inode(s)' = Inode(s)
    BY <1>13, DiskKept DEF IInv, vars
  <2>2. CopyInv'
    BY <1>13 DEF IInv, CopyInv, vars, IsFile, Inode, super, SlotOf
  <2>3. WriteInv'
    BY <1>13 DEF IInv, WriteInv, vars, Unwritten, SlotOf
  <2>4. MemoryInv'
    BY <1>13, <2>1, OwnersKept DEF IInv, vars, memory, MemoryInv
  <2> QED
    BY <2>1, <2>2, <2>3, <2>4 DEF IInv
<1> QED
  BY <1>1, <1>2, <1>3, <1>4, <1>5, <1>6, <1>7, <1>8, <1>9, <1>10, <1>11, <1>12, <1>13
     DEF Next

LEMMA Invariance == Spec => []IInv
  BY InitIInv, Inductive, PTL DEF Spec

-----------------------------------------------------------------------------
(* Theorems.                                                               *)

\* The types of the variables of fs.c: no pointer of an inode, on the disk or in
\* fs_write, leads out of the disk.
THEOREM TypeCorrect == Spec => []TypeOK
<1>1. IInv => TypeOK
  <2> SUFFICES ASSUME IInv PROVE TypeOK
    OBVIOUS
  <2>1. \A inode \in Inodes : IsInode(inode)
    BY DEF Inodes, IsInode
  <2>2. ASSUME NEW b \in Blocks
        PROVE  disk[b].kind \in {"zero", "super", "inodes", "data"}
    <3>1. CASE b = 0
      BY <3>1, Kinds DEF IInv, DiskInv
    <3>2. CASE b \in 1..ninodeblocks
      BY <3>2, Kinds DEF IInv, DiskInv
    <3>3. CASE b \in DataBlocks
      BY <3>3, Kinds DEF IInv, DiskInv
    <3> QED
      BY <3>1, <3>2, <3>3, Layout
  <2>3. \A s \in Slots : IsInode(Inode(s))
    BY <2>1, InodeRead DEF IInv
  <2>4. copy.inumber \in inumbers /\ copy.left \in Nat /\ copy.offset \in Nat
    BY DEF IInv, CopyInv, Copies
  <2>5. w.slot \in Slots /\ IsInode(w.inode) /\ w.index \in 0..POINTERS_PER_INODE
    BY <2>1 DEF IInv, WriteInv, Writes
  <2> QED
    BY <2>2, <2>3, <2>4, <2>5 DEF TypeOK, IInv, DiskInv, CopyInv, MemoryInv
<1> QED
  BY <1>1, Invariance, PTL

\* Writing a file never touches the superblock, an inode block or somebody else's
\* inode: the blocks any inode of fs.c names are data blocks.
THEOREM NoPointerToInodes == Spec => []PointersAreToData
<1>1. IInv => PointersAreToData
  BY DEF IInv, FileInv, WriteInv, Sound, PointersAreToData
<1> QED
  BY <1>1, Invariance, PTL

\* No block that fs_write gives to a file lies beyond the size stored with it,
\* by which fs_mount finds the blocks of the file again.
THEOREM SizesCover == Spec => []SizeCoversPointers
<1>1. IInv => SizeCoversPointers
  BY DEF IInv, FileInv, Covered, DirectCovered, SizeCoversPointers
<1> QED
  BY <1>1, Invariance, PTL

\* What fs_mount found to belong to files, getNextBlock gives to no other file of
\* the session.
THEOREM MountedBlocksAreKept == Spec => []MountProtects
<1>1. IInv => MountProtects
  <2> SUFFICES ASSUME IInv, NEW b \in Blocks, owned[b] # {}
               PROVE  /\ disk[b].kind \in {"zero", "data"}
                      /\ { s \in Slots : b \in Refs(s) } \subseteq owned[b]
                      /\ b \in Pointers(w.inode) => w.slot \in owned[b]
    BY DEF MountProtects
  <2>1. disk[b].kind \in {"zero", "data"}
    BY Kinds DEF IInv, DiskInv, MemoryInv
  <2> QED
    BY <2>1 DEF IInv, MemoryInv
<1> QED
  BY <1>1, Invariance, PTL

\* SlotOf undoes getInodeNumber but for the first inode of a block, whose number
\* leads to the block before.
LEMMA NumberToSlot ==
  ASSUME NEW s \in Slots
  PROVE  SlotOf(getInodeNumber(s)) = IF s[2] = 0 THEN <<s[1] - 1, 0>> ELSE s
<1> DEFINE n == getInodeNumber(s)
           a == s[1] - 1
           r == s[2]
<1>1. /\ a \in Nat /\ r \in 0..INODES_PER_BLOCK-1
      /\ INODES_PER_BLOCK \in Nat \ {0}
      /\ s = <<a + 1, r>>
  BY Layout, Sizes
<1>2. ASSUME NEW c \in Nat, NEW d \in Nat, d < INODES_PER_BLOCK
      PROVE  /\ (c * INODES_PER_BLOCK + d) \div INODES_PER_BLOCK = c
             /\ (c * INODES_PER_BLOCK + d) % INODES_PER_BLOCK = d
  BY <1>1, <1>2, SMTT(30)
<1>3. n = a * INODES_PER_BLOCK + r
  BY DEF getInodeNumber
<1> HIDE DEF a, r, n
<1>4. n % INODES_PER_BLOCK = r
  BY <1>1, <1>2, <1>3
<1>5. getblock_num(n) = IF r = 0 THEN a ELSE a + 1
  <2>1. CASE r = 0
    <3>1. n + INODES_PER_BLOCK - 1 = a * INODES_PER_BLOCK + (INODES_PER_BLOCK - 1)
      BY <1>1, <1>3, <2>1
    <3>2. INODES_PER_BLOCK - 1 \in Nat /\ INODES_PER_BLOCK - 1 < INODES_PER_BLOCK
      BY <1>1
    <3>3. (a * INODES_PER_BLOCK + (INODES_PER_BLOCK - 1)) \div INODES_PER_BLOCK = a
      BY <1>1, <1>2, <3>2
    <3> QED
      BY <2>1, <3>1, <3>3 DEF getblock_num
  <2>2. CASE r # 0
    <3>1. n + INODES_PER_BLOCK - 1 = (a + 1) * INODES_PER_BLOCK + (r - 1)
      BY <1>1, <1>3
    <3>2. a + 1 \in Nat /\ r - 1 \in Nat /\ r - 1 < INODES_PER_BLOCK
      BY <1>1, <2>2
    <3>3. ((a + 1) * INODES_PER_BLOCK + (r - 1)) \div INODES_PER_BLOCK = a + 1
      BY <1>2, <3>2
    <3> QED
      BY <2>2, <3>1, <3>3 DEF getblock_num
  <2> QED
    BY <2>1, <2>2
<1>6. SlotOf(n) = IF r = 0 THEN <<a, 0>> ELSE s
  BY <1>1, <1>4, <1>5 DEF SlotOf
<1> QED
  BY <1>6 DEF n, a, r

\* Whatever is deleted, created and written, every file is found by the number that
\* fs_create printed for it.
THEOREM NumbersFindFiles == Spec => []FilesAreFound
<1>1. IInv => FilesAreFound
  <2> SUFFICES ASSUME IInv, NEW s \in Slots, Inode(s).isvalid
               PROVE  SlotOf(getInodeNumber(s)) = s
    BY DEF FilesAreFound
  <2>1. s[2] # 0
    BY DEF IInv, FileInv, Usable
  <2> QED
    BY <2>1, NumberToSlot
<1> QED
  BY <1>1, Invariance, PTL
=============================================================================
