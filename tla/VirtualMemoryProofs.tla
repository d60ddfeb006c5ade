------------------------ MODULE VirtualMemoryProofs -------------------------
(***************************************************************************)
(* For any number of pages and frames, the tables of main.c agree with     *)
(* each other after every page fault, the search for a victim has one to   *)
(* find, and programs see a flat memory.                                   *)
(***************************************************************************)
EXTENDS VirtualMemory, FiniteSetTheorems, SequenceTheorems, TLAPS

-----------------------------------------------------------------------------
(* The search for a free frame.                                            *)

\* A set of natural numbers that is not empty has a least one.
LEMMA LeastExists ==
  ASSUME NEW S \in SUBSET Nat, S # {}
  PROVE  \E m \in S : \A k \in S : m <= k
<1>1. PICK m \in S : \A k \in S : <<k, m>> \notin OpToRel(<, Nat)
  BY WFMin, NatLessThanWellFounded, Zenon
<1>2. \A k \in S : ~(k < m)
  BY <1>1, Zenon DEF OpToRel
<1> QED
  BY <1>2

\* The first loop of the handler stops at a frame that is not in use.
LEMMA FreeFrameIsFree ==
  ASSUME UsedFrames # Frames
  PROVE  FreeFrame \in Frames \ UsedFrames
<1>1. /\ Frames \ UsedFrames \in SUBSET Nat
      /\ Frames \ UsedFrames # {}
  BY ArgsAssumption DEF Frames, UsedFrames
<1>2. \E m \in Frames \ UsedFrames : \A k \in Frames \ UsedFrames : m <= k
  BY <1>1, LeastExists
<1> QED
  BY <1>2 DEF FreeFrame

-----------------------------------------------------------------------------
(* FIFO as a list of a set of pages, each once.                            *)

Lists(s, T) ==
  /\ { s[k] : k \in DOMAIN s } = T
  /\ \A k, l \in DOMAIN s : s[k] = s[l] => k = l

\* FIFO[PUSH_INDEX++] = page.
LEMMA AppendLists ==
  ASSUME NEW S, NEW s \in Seq(S), NEW T, Lists(s, T), NEW e \in S, e \notin T
  PROVE  Append(s, e) \in Seq(S) /\ Lists(Append(s, e), T \cup {e})
<1> DEFINE a == Append(s, e)
<1>1. /\ a \in Seq(S)
      /\ Len(a) = Len(s) + 1
      /\ \A k \in 1..Len(s) : a[k] = s[k]
      /\ a[Len(s) + 1] = e
  BY AppendProperties
<1>2. /\ Len(s) \in Nat
      /\ DOMAIN s = 1..Len(s)
  OBVIOUS
<1>3. DOMAIN a = 1..Len(s) + 1
  BY <1>1, <1>2
<1> HIDE DEF a
<1>4. { a[k] : k \in DOMAIN a } = T \cup {e}
  <2>1. \A k \in DOMAIN a : (k \in DOMAIN s /\ a[k] = s[k]) \/ (k = Len(s) + 1 /\ a[k] = e)
    BY <1>1, <1>2, <1>3
  <2>2. \A k \in DOMAIN s : k \in DOMAIN a /\ a[k] = s[k]
    BY <1>1, <1>2, <1>3
  <2>3. Len(s) + 1 \in DOMAIN a
    BY <1>2, <1>3
  <2>4. \A x : x \in T <=> \E k \in DOMAIN s : x = s[k]
    BY DEF Lists
  <2>5. \A k \in DOMAIN a : a[k] \in T \cup {e}
    BY <2>1, <2>4
  <2>6. \A x \in T \cup {e} : \E k \in DOMAIN a : x = a[k]
    BY <1>1, <2>2, <2>3, <2>4
  <2> QED
    BY <2>5, <2>6
<1>5. ASSUME NEW k \in DOMAIN a, NEW l \in DOMAIN a, a[k] = a[l]
      PROVE  k = l
  <2>1. \A i \in DOMAIN s : s[i] # e
    BY DEF Lists
  <2> QED
    BY <1>1, <1>2, <1>3, <1>5, <2>1 DEF Lists
<1> QED
  BY <1>1, <1>4, <1>5 DEF Lists, a

\* page = FIFO[POP_INDEX++].
LEMMA TailLists ==
  ASSUME NEW S, NEW s \in Seq(S), s # <<>>, NEW T, Lists(s, T)
  PROVE  /\ Head(s) \in T
         /\ Tail(s) \in Seq(S)
         /\ Lists(Tail(s), T \ {Head(s)})
<1> DEFINE t == Tail(s)
<1>1. /\ t \in Seq(S)
      /\ Len(t) = Len(s) - 1
      /\ \A k \in 1..Len(t) : t[k] = s[k + 1]
  BY HeadTailProperties
<1>2. /\ Len(s) \in Nat \ {0}
      /\ DOMAIN s = 1..Len(s)
      /\ Head(s) = s[1]
  BY EmptySeq
<1>3. DOMAIN t = 1..Len(s) - 1
  BY <1>1, <1>2
<1> HIDE DEF t
<1>4. \A k \in DOMAIN t : k + 1 \in DOMAIN s /\ t[k] = s[k + 1] /\ k + 1 # 1
  BY <1>1, <1>2, <1>3
<1>5. \A k \in DOMAIN s : k # 1 => k - 1 \in DOMAIN t /\ t[k - 1] = s[k]
  <2> TAKE k \in DOMAIN s
  <2> HAVE k # 1
  <2>1. k - 1 \in DOMAIN t /\ (k - 1) + 1 = k
    BY <1>2, <1>3
  <2> QED
    BY <2>1, <1>4
<1>6. 1 \in DOMAIN s
  BY <1>2
<1>7. { t[k] : k \in DOMAIN t } = T \ {Head(s)}
  BY <1>2, <1>4, <1>5, <1>6 DEF Lists
<1>8. ASSUME NEW k \in DOMAIN t, NEW l \in DOMAIN t, t[k] = t[l]
      PROVE  k = l
  <2>1. k + 1 = l + 1
    BY <1>4, <1>8 DEF Lists
  <2> QED
    BY <2>1, <1>2, <1>3
<1> QED
  BY <1>1, <1>2, <1>6, <1>7, <1>8 DEF Lists, t

\* CUSTOM stays shorter than nframes / BUFFSIZE.
LEMMA PushKeeps ==
  ASSUME TypeOK, NEW page \in Pages
  PROVE  Push(page) \in Seq(Pages) /\ Len(Push(page)) < nframes \div BUFFSIZE
<1> DEFINE pushed == Append(CUSTOM, page)
<1>1. /\ pushed \in Seq(Pages)
      /\ pushed # <<>>
      /\ Len(pushed) = Len(CUSTOM) + 1
  BY AppendProperties DEF TypeOK
<1>2. Len(CUSTOM) \in Nat /\ nframes \div BUFFSIZE \in Nat
  BY ArgsAssumption DEF TypeOK, BUFFSIZE
<1>3. Len(CUSTOM) < nframes \div BUFFSIZE
  BY DEF TypeOK
<1> HIDE DEF pushed
<1>4. Tail(pushed) \in Seq(Pages) /\ Len(Tail(pushed)) = Len(pushed) - 1
  BY <1>1, HeadTailProperties
<1> QED
  BY <1>1, <1>2, <1>3, <1>4 DEF Push, pushed

-----------------------------------------------------------------------------
(* The invariant.  TypeOK is not inductive: the victim that FIFO names must *)
(* be in memory, where its entry of the page table is a frame.              *)

IInv == TypeOK /\ FramesUnshared /\ CleanOnDisk /\ FifoListsResident

LEMMA InitIInv == Init => IInv
<1> SUFFICES ASSUME Init PROVE IInv
  OBVIOUS
<1>1. nframes \div BUFFSIZE > 0
  BY ArgsAssumption DEF BUFFSIZE
<1>2. <<>> \in Seq(Pages) /\ Len(<<>>) = 0
  BY EmptySeq
<1>3. TypeOK
  BY <1>1, <1>2, ArgsAssumption DEF Init, TypeOK
<1>4. Resident = {} /\ UsedFrames = {}
  BY DEF Init, Resident, Readable, UsedFrames
<1>5. FramesUnshared /\ CleanOnDisk
  BY <1>4 DEF FramesUnshared, CleanOnDisk
<1>6. { FIFO[k] : k \in DOMAIN FIFO } = {} /\ DOMAIN FIFO = {}
  BY DEF Init
<1> QED
  BY <1>3, <1>4, <1>5, <1>6 DEF IInv, FifoListsResident

\* The frame of a page in memory is in use, and each frame in use has its page.
LEMMA ResidentFrames ==
  ASSUME IInv
  PROVE  /\ Resident \subseteq Pages
         /\ \A p \in Resident : page_mapping[p] \in UsedFrames
         /\ \A f \in UsedFrames : \E p \in Resident : page_mapping[p] = f
         /\ UsedFrames \subseteq Frames
<1>1. Resident \subseteq Pages /\ UsedFrames \subseteq Frames
  BY DEF Resident, UsedFrames
<1>2. { page_mapping[p] : p \in Resident } = UsedFrames
  BY DEF IInv, FramesUnshared
<1> QED
  BY <1>1, <1>2

\* POP_INDEX has a page, which is in memory, when all frames are in use.
LEMMA FifoVictim ==
  ASSUME IInv, UsedFrames = Frames, replacement_alg = "fifo"
  PROVE  FIFO # <<>> /\ Head(FIFO) \in Resident
<1>1. 0 \in Frames
  BY ArgsAssumption DEF Frames
<1>2. PICK p \in Resident : page_mapping[p] = 0
  BY <1>1, ResidentFrames
<1>3. FIFO \in Seq(Pages) /\ Lists(FIFO, Resident)
  BY DEF IInv, TypeOK, FifoListsResident, Lists
<1>4. FIFO # <<>>
  <2>1. PICK k \in DOMAIN FIFO : FIFO[k] = p
    BY <1>2, <1>3 DEF Lists
  <2> QED
    BY <2>1
<1> QED
  BY <1>3, <1>4, TailLists

\* A page is loaded into a free frame.
LEMMA LoadKeeps ==
  ASSUME IInv, NEW page \in Pages, LoadIntoFree(page)
  PROVE  IInv'
<1> DEFINE f == FreeFrame
<1>1. f \in Frames /\ f \notin UsedFrames
  BY FreeFrameIsFree DEF LoadIntoFree
<1>2. /\ page_mapping' = [page_mapping EXCEPT ![page] = f]
      /\ page_bits' = [page_bits EXCEPT ![page] = {"READ"}]
      /\ physmem' = [physmem EXCEPT ![f] = disk[page]]
      /\ PHYS_FREE' = [PHYS_FREE EXCEPT ![f] = 1]
      /\ FIFO' = IF replacement_alg = "fifo" THEN Append(FIFO, page) ELSE FIFO
      /\ CUSTOM' = IF replacement_alg = "custom" THEN Push(page) ELSE CUSTOM
      /\ PAGE_FAULT_COUNT' = PAGE_FAULT_COUNT + 1 /\ PAGE_FAULT_COUNT < MaxFaults
      /\ DISK_READ_COUNT' = DISK_READ_COUNT + 1
      /\ UNCHANGED <<disk, DISK_WRITE_COUNT, replacement_alg, access, result>>
      /\ page \notin Resident
  BY DEF LoadIntoFree, Faults, Resident
<1> HIDE DEF f
<1>3. /\ page_mapping \in [Pages -> Frames \cup {Unset}]
      /\ page_bits \in [Pages -> {{}, {"READ"}, {"READ", "WRITE"}}]
      /\ physmem \in [Frames -> Data]
      /\ disk \in [Pages -> Data]
      /\ PHYS_FREE \in [Frames -> 0..1]
  BY DEF IInv, TypeOK
<1>4. /\ Resident' = Resident \cup {page}
      /\ UsedFrames' = UsedFrames \cup {f}
  BY <1>1, <1>2, <1>3 DEF Resident, Readable, UsedFrames
<1>5. /\ \A p \in Resident : page_mapping'[p] = page_mapping[p] /\ page_mapping[p] # f
      /\ page_mapping'[page] = f
      /\ Resident \subseteq Pages
  BY <1>1, <1>2, <1>3, ResidentFrames
<1>6. FramesUnshared'
  <2>1. \A p, q \in Resident' : page_mapping'[p] = page_mapping'[q] => p = q
    BY <1>4, <1>5 DEF IInv, FramesUnshared
  <2>2. { page_mapping'[p] : p \in Resident' } = UsedFrames'
    BY <1>4, <1>5, ResidentFrames
  <2> QED
    BY <2>1, <2>2 DEF FramesUnshared
<1>7. CleanOnDisk'
  <2>1. ASSUME NEW p \in Resident', ~Writable(p)'
        PROVE  physmem'[page_mapping'[p]] = disk'[p]
    <3>1. CASE p = page
      BY <3>1, <1>1, <1>2, <1>3, <1>5
    <3>2. CASE p # page
      <4>1. p \in Resident /\ ~Writable(p)
        BY <3>2, <2>1, <1>2, <1>3, <1>4 DEF Writable
      <4>2. page_mapping[p] \in Frames
        BY <4>1, ResidentFrames
      <4>3. physmem'[page_mapping'[p]] = physmem[page_mapping[p]]
        BY <4>1, <4>2, <1>2, <1>3, <1>5
      <4> QED
        BY <4>1, <4>3, <1>2 DEF IInv, CleanOnDisk
    <3> QED
      BY <3>1, <3>2
  <2> QED
    BY <2>1 DEF CleanOnDisk
<1>8. FIFO' \in Seq(Pages) /\ FifoListsResident'
  <2>1. CASE replacement_alg = "fifo"
    <3>1. FIFO \in Seq(Pages) /\ Lists(FIFO, Resident)
      BY <2>1 DEF IInv, TypeOK, FifoListsResident, Lists
    <3>2. FIFO' \in Seq(Pages) /\ Lists(FIFO', Resident')
      BY <2>1, <3>1, <1>2, <1>4, AppendLists
    <3> QED
      BY <3>2 DEF FifoListsResident, Lists
  <2>2. CASE replacement_alg # "fifo"
    BY <2>2, <1>2 DEF FifoListsResident, IInv, TypeOK
  <2> QED
    BY <2>1, <2>2
<1>9. CUSTOM' \in Seq(Pages) /\ Len(CUSTOM') < nframes \div BUFFSIZE
  BY <1>2, PushKeeps DEF IInv, TypeOK
<1>10. TypeOK'
  <2>1. /\ page_mapping' \in [Pages -> Frames \cup {Unset}]
        /\ page_bits' \in [Pages -> {{}, {"READ"}, {"READ", "WRITE"}}]
        /\ physmem' \in [Frames -> Data]
        /\ PHYS_FREE' \in [Frames -> 0..1]
    BY <1>1, <1>2, <1>3
  <2>2. /\ PAGE_FAULT_COUNT' \in 0..MaxFaults
        /\ DISK_READ_COUNT' \in Nat
    BY <1>2, ArgsAssumption, SMTT(20) DEF IInv, TypeOK
  <2> QED
    BY <1>2, <1>8, <1>9, <2>1, <2>2 DEF IInv, TypeOK
<1> QED
  BY <1>6, <1>7, <1>8, <1>10 DEF IInv

\* A page takes the frame of a victim: what all three algorithms share.
LEMMA ReplaceKeeps ==
  ASSUME IInv, NEW page \in Pages, NEW victim \in Resident, Replace(victim, page)
  PROVE  /\ page_mapping' \in [Pages -> Frames \cup {Unset}]
         /\ page_bits' \in [Pages -> {{}, {"READ"}, {"READ", "WRITE"}}]
         /\ physmem' \in [Frames -> Data]
         /\ disk' \in [Pages -> Data]
         /\ DISK_WRITE_COUNT' \in Nat
         /\ page \notin Resident
         /\ Resident' = (Resident \ {victim}) \cup {page}
         /\ FramesUnshared'
         /\ CleanOnDisk'
<1> DEFINE f == page_mapping[victim]
<1>1. /\ page_mapping \in [Pages -> Frames \cup {Unset}]
      /\ page_bits \in [Pages -> {{}, {"READ"}, {"READ", "WRITE"}}]
      /\ physmem \in [Frames -> Data]
      /\ disk \in [Pages -> Data]
      /\ DISK_WRITE_COUNT \in Nat
  BY DEF IInv, TypeOK
<1>2. /\ page_mapping' = [page_mapping EXCEPT ![victim] = 0, ![page] = f]
      /\ page_bits' = [page_bits EXCEPT ![victim] = {}, ![page] = {"READ"}]
      /\ physmem' = [physmem EXCEPT ![f] = disk'[page]]
      /\ PHYS_FREE' = PHYS_FREE
      /\ WriteBack(victim)
      /\ page \notin Resident
  BY DEF Replace, Remap, Resident
<1>3. /\ victim \in Pages /\ victim # page
      /\ f \in Frames /\ f \in UsedFrames
      /\ Resident \subseteq Pages
      /\ \A p \in Resident : page_mapping[p] \in Frames
      /\ \A p \in Resident : p # victim => page_mapping[p] # f
  BY <1>2, ResidentFrames DEF IInv, FramesUnshared
<1>4. 0 \in Frames
  BY ArgsAssumption DEF Frames
<1>5. /\ disk' \in [Pages -> Data]
      /\ DISK_WRITE_COUNT' \in Nat
      /\ \A p \in Pages : p # victim => disk'[p] = disk[p]
  BY <1>1, <1>2, <1>3 DEF WriteBack
<1> HIDE DEF f
<1>6. /\ page_mapping' \in [Pages -> Frames \cup {Unset}]
      /\ page_bits' \in [Pages -> {{}, {"READ"}, {"READ", "WRITE"}}]
      /\ physmem' \in [Frames -> Data]
  BY <1>1, <1>2, <1>3, <1>4, <1>5
<1>7. Resident' = (Resident \ {victim}) \cup {page} /\ UsedFrames' = UsedFrames
  BY <1>1, <1>2, <1>3 DEF Resident, Readable, UsedFrames
<1>8. /\ \A p \in Resident \ {victim} : page_mapping'[p] = page_mapping[p]
      /\ page_mapping'[page] = f
  BY <1>1, <1>2, <1>3
<1>9. FramesUnshared'
  <2>1. \A p, q \in Resident' : page_mapping'[p] = page_mapping'[q] => p = q
    BY <1>3, <1>7, <1>8 DEF IInv, FramesUnshared
  <2>2. ASSUME NEW g \in UsedFrames
        PROVE  \E p \in Resident' : page_mapping'[p] = g
    <3>1. PICK p \in Resident : page_mapping[p] = g
      BY ResidentFrames
    <3> QED
      BY <3>1, <1>7, <1>8 DEF f
  <2>3. \A p \in Resident' : page_mapping'[p] \in UsedFrames
    BY <1>3, <1>7, <1>8, ResidentFrames
  <2> QED
    BY <2>1, <2>2, <2>3, <1>7 DEF FramesUnshared
<1>10. CleanOnDisk'
  <2>1. ASSUME NEW p \in Resident', ~Writable(p)'
        PROVE  physmem'[page_mapping'[p]] = disk'[p]
    <3>1. CASE p = page
      BY <3>1, <1>1, <1>2, <1>3, <1>8
    <3>2. CASE p # page
      <4>1. p \in Resident \ {victim} /\ ~Writable(p)
        BY <3>2, <2>1, <1>1, <1>2, <1>3, <1>7 DEF Writable
      <4>2. physmem'[page_mapping'[p]] = physmem[page_mapping[p]]
        BY <4>1, <1>1, <1>2, <1>3, <1>8
      <4> QED
        BY <4>1, <4>2, <1>3, <1>5 DEF IInv, CleanOnDisk
    <3> QED
      BY <3>1, <3>2
  <2> QED
    BY <2>1 DEF CleanOnDisk
<1> QED
  BY <1>2, <1>5, <1>6, <1>7, <1>9, <1>10

\* The program's own steps, and the grant of PROT_WRITE.
LEMMA AccessKeeps ==
  ASSUME IInv, NEW page \in Pages,
         Request \/ Read \/ Write \/ UnknownApproach(page) \/ GrantWrite(page)
  PROVE  IInv'
<1>1. /\ page_mapping \in [Pages -> Frames \cup {Unset}]
      /\ page_bits \in [Pages -> {{}, {"READ"}, {"READ", "WRITE"}}]
      /\ physmem \in [Frames -> Data]
      /\ access \in Accesses \cup {Idle, Exited}
  BY DEF IInv, TypeOK
<1>2. ASSUME UNCHANGED <<page_mapping, PHYS_FREE, FIFO, replacement_alg>>,
             Resident' = Resident
      PROVE  FramesUnshared' /\ FifoListsResident'
  BY <1>2 DEF IInv, FramesUnshared, FifoListsResident, UsedFrames
<1>3. ASSUME UNCHANGED <<replacement_alg, tables>>
      PROVE  FramesUnshared' /\ FifoListsResident' /\ CleanOnDisk'
  <2>1. Resident' = Resident
    BY <1>3 DEF Resident, Readable, tables
  <2> QED
    BY <2>1, <1>2, <1>3 DEF IInv, CleanOnDisk, Writable, tables
<1>4. CASE Request
  BY <1>3, <1>4 DEF Request, IInv, TypeOK, tables, counts
<1>5. CASE Read
  <2>1. access.page \in Resident
    BY <1>1, <1>5 DEF Read, Accesses, Idle, Exited, Resident
  <2>2. page_mapping[access.page] \in Frames
    BY <2>1, ResidentFrames
  <2>3. result' \in Data
    BY <1>1, <1>5, <2>2 DEF Read
  <2> QED
    BY <1>3, <1>5, <2>3 DEF Read, IInv, TypeOK, tables, counts
<1>6. CASE Write
  <2>1. access.page \in Pages /\ access.data \in Data /\ Writable(access.page)
    BY <1>1, <1>6 DEF Write, Accesses, Idle, Exited
  <2>2. access.page \in Resident
    BY <2>1, <1>1 DEF Resident, Readable, Writable
  <2>3. page_mapping[access.page] \in Frames
    BY <2>2, ResidentFrames
  <2>4. physmem' = [physmem EXCEPT ![page_mapping[access.page]] = access.data]
    BY <1>6 DEF Write
  <2>5. physmem' \in [Frames -> Data]
    BY <1>1, <2>1, <2>3, <2>4
  <2>6. TypeOK'
    BY <1>6, <2>5 DEF Write, IInv, TypeOK, counts
  <2>7. /\ Resident' = Resident
        /\ UNCHANGED <<page_mapping, page_bits, disk, PHYS_FREE, FIFO, replacement_alg>>
    BY <1>6 DEF Write, Resident, Readable
  <2>8. CleanOnDisk'
    <3>1. ASSUME NEW p \in Resident, ~Writable(p)
          PROVE  physmem'[page_mapping[p]] = disk[p]
      <4>1. page_mapping[p] # page_mapping[access.page]
        BY <3>1, <2>1, <2>2 DEF IInv, FramesUnshared
      <4>2. page_mapping[p] \in Frames
        BY ResidentFrames
      <4> QED
        BY <3>1, <4>1, <4>2, <2>4, <1>1 DEF IInv, CleanOnDisk
    <3> QED
      BY <3>1, <2>7 DEF CleanOnDisk, Writable
  <2> QED
    BY <1>2, <2>6, <2>7, <2>8 DEF IInv
<1>7. CASE UnknownApproach(page)
  <2>1. PAGE_FAULT_COUNT' \in 0..MaxFaults
    BY <1>7, ArgsAssumption DEF UnknownApproach, IInv, TypeOK
  <2>2. TypeOK'
    BY <1>7, <2>1 DEF UnknownApproach, IInv, TypeOK, tables
  <2> QED
    BY <1>3, <1>7, <2>2 DEF UnknownApproach, IInv
<1>8. CASE GrantWrite(page)
  <2>1. /\ page_bits' = [page_bits EXCEPT ![page] = {"READ", "WRITE"}]
        /\ page \in Resident
        /\ UNCHANGED <<replacement_alg, page_mapping, physmem, disk, PHYS_FREE, FIFO>>
    BY <1>8 DEF GrantWrite, Faults, Resident
  <2>2. Resident' = Resident
    BY <1>1, <2>1 DEF Resident, Readable
  <2>3. TypeOK'
    <3>1. page_bits' \in [Pages -> {{}, {"READ"}, {"READ", "WRITE"}}]
      BY <1>1, <2>1
    <3>2. PAGE_FAULT_COUNT' \in 0..MaxFaults
      BY <1>8, ArgsAssumption, SMTT(20) DEF GrantWrite, Faults, IInv, TypeOK
    <3> QED
      BY <1>8, <3>1, <3>2 DEF GrantWrite, Faults, IInv, TypeOK
  <2>4. \A p \in Pages : Writable(p) => Writable(p)'
    BY <1>1, <2>1 DEF Writable
  <2>5. CleanOnDisk'
    BY <2>1, <2>2, <2>4 DEF IInv, CleanOnDisk, Resident
  <2> QED
    BY <1>2, <2>1, <2>2, <2>3, <2>5 DEF IInv
<1> QED
  BY <1>4, <1>5, <1>6, <1>7, <1>8

\* The three algorithms.
LEMMA ReplacementKeeps ==
  ASSUME IInv, NEW page \in Pages,
         ReplaceRand(page) \/ ReplaceFifo(page) \/ ReplaceCustom(page)
  PROVE  IInv'
<1>1. ASSUME NEW victim \in Resident, Replace(victim, page),
             FIFO' \in Seq(Pages), FifoListsResident',
             CUSTOM' \in Seq(Pages), Len(CUSTOM') < nframes \div BUFFSIZE
      PROVE  IInv'
  <2>1. TypeOK'
    <3>1. /\ PAGE_FAULT_COUNT' \in 0..MaxFaults
          /\ DISK_READ_COUNT' \in Nat
          /\ UNCHANGED <<replacement_alg, access, result, PHYS_FREE>>
      BY <1>1, ArgsAssumption, SMTT(20) DEF Replace, Faults, IInv, TypeOK
    <3>2. /\ page_mapping' \in [Pages -> Frames \cup {Unset}]
          /\ page_bits' \in [Pages -> {{}, {"READ"}, {"READ", "WRITE"}}]
          /\ physmem' \in [Frames -> Data]
          /\ disk' \in [Pages -> Data]
          /\ DISK_WRITE_COUNT' \in Nat
      BY <1>1, ReplaceKeeps
    <3> QED
      BY <1>1, <3>1, <3>2 DEF IInv, TypeOK
  <2> QED
    BY <2>1, <1>1, ReplaceKeeps DEF IInv
<1>2. /\ FIFO \in Seq(Pages)
      /\ CUSTOM \in Seq(Pages)
      /\ Len(CUSTOM) < nframes \div BUFFSIZE
  BY DEF IInv, TypeOK
<1>3. CASE ReplaceRand(page)
  <2>1. PICK victim \in Resident : Replace(victim, page)
    BY <1>3 DEF ReplaceRand
  <2>2. FifoListsResident'
    BY <1>3, <2>1 DEF ReplaceRand, Replace, Faults, FifoListsResident
  <2> QED
    BY <1>1, <1>2, <1>3, <2>1, <2>2 DEF ReplaceRand
<1>4. CASE ReplaceFifo(page)
  <2> DEFINE victim == Head(FIFO)
  <2>1. Replace(victim, page) /\ replacement_alg = "fifo" /\ replacement_alg' = "fifo"
    BY <1>4 DEF ReplaceFifo, Replace, Faults
  <2>2. FIFO # <<>> /\ victim \in Resident
    BY <2>1, FifoVictim DEF Replace
  <2>3. Lists(FIFO, Resident)
    BY <2>1 DEF IInv, FifoListsResident, Lists
  <2>4. Tail(FIFO) \in Seq(Pages) /\ Lists(Tail(FIFO), Resident \ {victim})
    BY <1>2, <2>2, <2>3, TailLists
  <2>5. page \notin Resident /\ Resident' = (Resident \ {victim}) \cup {page}
    BY <2>1, <2>2, ReplaceKeeps
  <2>6. FIFO' = Append(Tail(FIFO), page)
    BY <1>4 DEF ReplaceFifo
  <2>7. FIFO' \in Seq(Pages) /\ Lists(FIFO', Resident')
    BY <2>4, <2>5, <2>6, AppendLists
  <2>8. FifoListsResident'
    BY <2>7 DEF FifoListsResident, Lists
  <2>9. CUSTOM' = CUSTOM
    BY <1>4 DEF ReplaceFifo
  <2> QED
    BY <1>1, <1>2, <2>1, <2>2, <2>7, <2>8, <2>9
<1>5. CASE ReplaceCustom(page)
  <2>1. PICK victim \in Resident : Replace(victim, page)
    BY <1>5 DEF ReplaceCustom
  <2>2. FifoListsResident'
    BY <1>5, <2>1 DEF ReplaceCustom, Replace, Faults, FifoListsResident
  <2>3. CUSTOM' \in Seq(Pages) /\ Len(CUSTOM') < nframes \div BUFFSIZE
    BY <1>5, PushKeeps DEF ReplaceCustom, IInv
  <2> QED
    BY <1>1, <1>2, <1>5, <2>1, <2>2, <2>3 DEF ReplaceCustom
<1> QED
  BY <1>3, <1>4, <1>5

LEMMA Inductive == Spec => []IInv
<1>1. IInv /\ [Next]_vars => IInv'
  <2> SUFFICES ASSUME IInv, [Next]_vars PROVE IInv'
    OBVIOUS
  <2>1. CASE Request \/ Read \/ Write
    <3>1. 0 \in Pages
      BY ArgsAssumption, SMTT(20) DEF Pages
    <3> QED
      BY <2>1, <3>1, AccessKeeps
  <2>2. ASSUME NEW page \in Pages, page_fault_handler(page)
        PROVE  IInv'
    BY <2>2, LoadKeeps, ReplacementKeeps, AccessKeeps DEF page_fault_handler
  <2>3. CASE UNCHANGED vars
    BY <2>3 DEF vars, tables, counts, IInv, TypeOK, FramesUnshared, CleanOnDisk,
                FifoListsResident, Resident, Readable, Writable, UsedFrames
  <2> QED
    BY <2>1, <2>2, <2>3 DEF Next
<1> QED
  BY <1>1, InitIInv, PTL DEF Spec

-----------------------------------------------------------------------------
(* Theorems.                                                               *)

\* The types of the variables; CUSTOM keeps fewer than nframes/BUFFSIZE pages.
THEOREM TypeCorrect == Spec => []TypeOK
<1>1. IInv => TypeOK
  BY DEF IInv
<1> QED
  BY <1>1, Inductive, PTL

\* Evictions and loads never let two pages share a frame, and never lose one.
THEOREM FramesAreUnshared == Spec => []FramesUnshared
<1>1. IInv => FramesUnshared
  BY DEF IInv
<1> QED
  BY <1>1, Inductive, PTL

\* A page that was not written to may be evicted without being written.
THEOREM CleanPagesAreOnDisk == Spec => []CleanOnDisk
<1>1. IInv => CleanOnDisk
  BY DEF IInv
<1> QED
  BY <1>1, Inductive, PTL

\* With the FIFO algorithm, the list has the pages in memory, each once.
THEOREM FifoIsComplete == Spec => []FifoListsResident
<1>1. IInv => FifoListsResident
  BY DEF IInv
<1> QED
  BY <1>1, Inductive, PTL

\* When all frames are in use as many pages are in memory as there are frames, and
\* the custom algorithm spares fewer: page 0 and those in CUSTOM, of which there are
\* fewer than a third of the frames.
THEOREM VictimsExist == Spec => []VictimExists
<1>1. ASSUME IInv, UsedFrames = Frames
      PROVE  Resident \ Recent # {}
  <2> DEFINE spared == [k \in 0..Len(CUSTOM) |-> IF k = 0 THEN 0 ELSE CUSTOM[k]]
             held   == [p \in Resident |-> page_mapping[p]]
  <2>1. /\ CUSTOM \in Seq(Pages)
        /\ Len(CUSTOM) \in Nat
        /\ DOMAIN CUSTOM = 1..Len(CUSTOM)
        /\ Len(CUSTOM) < nframes \div BUFFSIZE
    BY <1>1 DEF IInv, TypeOK
  <2>2. IsFiniteSet(0..Len(CUSTOM)) /\ Cardinality(0..Len(CUSTOM)) = Len(CUSTOM) + 1
    BY <2>1, FS_Interval
  <2>3. Recent = { spared[k] : k \in 0..Len(CUSTOM) }
    BY <2>1 DEF Recent
  <2>4. spared \in Surjection(0..Len(CUSTOM), Recent)
    BY <2>3 DEF Surjection
  <2>5. IsFiniteSet(Recent) /\ Cardinality(Recent) <= Len(CUSTOM) + 1
    BY <2>2, <2>4, FS_Surjection
  <2>6. Resident \subseteq Pages /\ IsFiniteSet(Resident)
    <3>1. IsFiniteSet(Pages)
      BY ArgsAssumption, FS_Interval, SMTT(20) DEF Pages
    <3> QED
      BY <1>1, <3>1, ResidentFrames, FS_Subset
  <2>7. held \in Surjection(Resident, Frames)
    BY <1>1, ResidentFrames DEF Surjection
  <2>8. Cardinality(Frames) <= Cardinality(Resident)
    BY <2>6, <2>7, FS_Surjection
  <2>9. Cardinality(Frames) = nframes
    BY ArgsAssumption, FS_Interval DEF Frames
  <2>10. Len(CUSTOM) + 1 < nframes
    BY <2>1, ArgsAssumption DEF BUFFSIZE
  <2>11. Cardinality(Recent) \in Nat /\ Cardinality(Resident) \in Nat
    BY <2>5, <2>6, FS_CardinalityType
  <2>12. ~(Resident \subseteq Recent)
    <3>1. Resident \subseteq Recent => Cardinality(Resident) <= Cardinality(Recent)
      BY <2>5, FS_Subset
    <3> QED
      BY <3>1, <2>1, <2>5, <2>8, <2>9, <2>10, <2>11, ArgsAssumption
  <2> QED
    BY <2>12
<1>2. IInv => VictimExists
  BY <1>1 DEF VictimExists
<1> QED
  BY <1>2, Inductive, PTL

-----------------------------------------------------------------------------
(* The memory that programs see.                                           *)

Mem == [p \in Pages |-> IF Readable(p) THEN physmem[page_mapping[p]] ELSE disk[p]]

\* No page fault changes what is in any page.
LEMMA LoadIsInvisible ==
  ASSUME IInv, NEW page \in Pages, LoadIntoFree(page)
  PROVE  Mem' = Mem
<1> DEFINE f == FreeFrame
<1>1. f \in Frames /\ f \notin UsedFrames
  BY FreeFrameIsFree DEF LoadIntoFree
<1>2. /\ page_mapping' = [page_mapping EXCEPT ![page] = f]
      /\ page_bits' = [page_bits EXCEPT ![page] = {"READ"}]
      /\ physmem' = [physmem EXCEPT ![f] = disk[page]]
      /\ disk' = disk
      /\ ~Readable(page)
  BY DEF LoadIntoFree
<1> HIDE DEF f
<1>3. /\ page_mapping \in [Pages -> Frames \cup {Unset}]
      /\ page_bits \in [Pages -> {{}, {"READ"}, {"READ", "WRITE"}}]
      /\ physmem \in [Frames -> Data]
  BY DEF IInv, TypeOK
<1>4. ASSUME NEW p \in Pages
      PROVE  (IF Readable(p)' THEN physmem'[page_mapping'[p]] ELSE disk'[p])
              = IF Readable(p) THEN physmem[page_mapping[p]] ELSE disk[p]
  <2>1. CASE p = page
    BY <2>1, <1>1, <1>2, <1>3 DEF Readable
  <2>2. CASE p # page /\ Readable(p)
    <3>1. page_mapping[p] \in UsedFrames /\ page_mapping[p] \in Frames
      BY <2>2, ResidentFrames DEF Resident
    <3> QED
      BY <3>1, <2>2, <1>1, <1>2, <1>3 DEF Readable
  <2>3. CASE p # page /\ ~Readable(p)
    BY <2>3, <1>2, <1>3 DEF Readable
  <2> QED
    BY <2>1, <2>2, <2>3
<1> QED
  BY <1>4 DEF Mem

LEMMA ReplaceIsInvisible ==
  ASSUME IInv, NEW page \in Pages, NEW victim \in Resident, Replace(victim, page)
  PROVE  Mem' = Mem
<1> DEFINE f == page_mapping[victim]
<1>1. /\ page_mapping \in [Pages -> Frames \cup {Unset}]
      /\ page_bits \in [Pages -> {{}, {"READ"}, {"READ", "WRITE"}}]
      /\ physmem \in [Frames -> Data]
      /\ disk \in [Pages -> Data]
  BY DEF IInv, TypeOK
<1>2. /\ page_mapping' = [page_mapping EXCEPT ![victim] = 0, ![page] = f]
      /\ page_bits' = [page_bits EXCEPT ![victim] = {}, ![page] = {"READ"}]
      /\ physmem' = [physmem EXCEPT ![f] = disk'[page]]
      /\ WriteBack(victim)
      /\ ~Readable(page)
  BY DEF Replace, Remap
<1>3. /\ victim \in Pages /\ Readable(victim) /\ victim # page
      /\ f \in Frames
      /\ \A p \in Resident : page_mapping[p] \in Frames
      /\ \A p \in Resident : p # victim => page_mapping[p] # f
  BY <1>2, ResidentFrames DEF IInv, FramesUnshared, Resident
<1>4. disk'[victim] = physmem[f]
  <2>1. CASE Writable(victim)
    BY <2>1, <1>1, <1>2, <1>3 DEF WriteBack
  <2>2. CASE ~Writable(victim)
    BY <2>2, <1>2, <1>3 DEF WriteBack, IInv, CleanOnDisk
  <2> QED
    BY <2>1, <2>2
<1>5. \A p \in Pages : p # victim => disk'[p] = disk[p]
  BY <1>1, <1>2, <1>3 DEF WriteBack
<1> HIDE DEF f
<1>6. ASSUME NEW p \in Pages
      PROVE  (IF Readable(p)' THEN physmem'[page_mapping'[p]] ELSE disk'[p])
              = IF Readable(p) THEN physmem[page_mapping[p]] ELSE disk[p]
  <2>1. CASE p = page
    BY <2>1, <1>1, <1>2, <1>3, <1>5 DEF Readable
  <2>2. CASE p = victim
    BY <2>2, <1>1, <1>2, <1>3, <1>4 DEF Readable, f
  <2>3. CASE p \notin {page, victim} /\ Readable(p)
    <3>1. page_mapping[p] # f /\ page_mapping[p] \in Frames
      BY <2>3, <1>3 DEF Resident
    <3> QED
      BY <3>1, <2>3, <1>1, <1>2, <1>3 DEF Readable
  <2>4. CASE p \notin {page, victim} /\ ~Readable(p)
    BY <2>4, <1>1, <1>2, <1>3, <1>5 DEF Readable
  <2> QED
    BY <2>1, <2>2, <2>3, <2>4
<1> QED
  BY <1>6 DEF Mem

\* A program cannot tell the virtual memory from a flat one, with any of the
\* algorithms and however many pages compete for the frames.
THEOREM FaultsAreInvisible == Spec => ImplementsFlatMemory
<1>1. ASSUME Init PROVE Flat!Init
  <2>1. \A p \in Pages : ~Readable(p)
    BY <1>1 DEF Init, Readable
  <2> QED
    BY <1>1, <2>1 DEF Init, Flat!Init, Idle, Flat!Idle
<1>2. ASSUME IInv, [Next]_vars
      PROVE  [Flat!Next]_Flat!memVars
  <2>1. ASSUME Mem' = Mem, UNCHANGED <<access, result>>
        PROVE  UNCHANGED Flat!memVars
    BY <2>1 DEF Mem, Flat!memVars
  <2>2. ASSUME UNCHANGED tables PROVE Mem' = Mem
    BY <2>2 DEF Mem, tables, Readable
  <2>3. access \in Accesses \cup {Idle, Exited}
    BY <1>2 DEF IInv, TypeOK
  <2>4. CASE Request
    <3>1. Mem' = Mem
      BY <2>2, <2>4 DEF Request, tables
    <3>2. Flat!Request
      BY <2>4, <3>1 DEF Request, Flat!Request, Mem, Accesses, Flat!Accesses, Idle, Flat!Idle
    <3> QED
      BY <3>2 DEF Flat!Next
  <2>5. CASE Read
    <3>1. Mem' = Mem
      BY <2>2, <2>5 DEF Read, tables
    <3>2. access.page \in Pages /\ Readable(access.page)
      BY <2>3, <2>5 DEF Read, Accesses, Idle, Exited
    <3>3. result' = Mem[access.page]
      BY <2>5, <3>2 DEF Read, Mem
    <3>4. Flat!Read
      BY <2>5, <3>1, <3>3 DEF Read, Flat!Read, Mem, Idle, Flat!Idle
    <3> QED
      BY <3>4 DEF Flat!Next
  <2>6. CASE Write
    <3>1. access.page \in Pages /\ Writable(access.page)
      BY <2>3, <2>6 DEF Write, Accesses, Idle, Exited
    <3>2. access.page \in Resident
      <4>1. page_bits \in [Pages -> {{}, {"READ"}, {"READ", "WRITE"}}]
        BY <1>2 DEF IInv, TypeOK
      <4> QED
        BY <3>1, <4>1 DEF Resident, Readable, Writable
    <3>3. /\ physmem \in [Frames -> Data]
          /\ physmem' = [physmem EXCEPT ![page_mapping[access.page]] = access.data]
          /\ UNCHANGED <<page_mapping, page_bits, disk>>
      BY <1>2, <2>6 DEF Write, IInv, TypeOK
    <3>4. ASSUME NEW p \in Pages
          PROVE  Mem'[p] = [Mem EXCEPT ![access.page] = access.data][p]
      <4>1. CASE p = access.page
        <5>1. page_mapping[p] \in Frames
          BY <1>2, <3>2, <4>1, ResidentFrames
        <5> QED
          BY <4>1, <5>1, <3>2, <3>3 DEF Mem, Readable, Resident
      <4>2. CASE p # access.page /\ Readable(p)
        <5>1. p \in Resident /\ page_mapping[p] # page_mapping[access.page]
          BY <1>2, <3>2, <4>2 DEF IInv, FramesUnshared, Resident
        <5>2. page_mapping[p] \in Frames
          BY <1>2, <5>1, ResidentFrames
        <5> QED
          BY <4>2, <5>1, <5>2, <3>3 DEF Mem, Readable
      <4>3. CASE p # access.page /\ ~Readable(p)
        BY <4>3, <3>3 DEF Mem, Readable
      <4> QED
        BY <4>1, <4>2, <4>3
    <3>5. Mem' = [Mem EXCEPT ![access.page] = access.data]
      BY <3>4 DEF Mem
    <3>6. Flat!Write
      BY <2>6, <3>5 DEF Write, Flat!Write, Mem, Idle, Flat!Idle
    <3> QED
      BY <3>6 DEF Flat!Next
  <2>7. ASSUME NEW page \in Pages, page_fault_handler(page)
        PROVE  Flat!Next \/ UNCHANGED Flat!memVars
    <3>1. CASE LoadIntoFree(page)
      BY <1>2, <2>1, <3>1, LoadIsInvisible DEF LoadIntoFree, Faults
    <3>2. ASSUME NEW victim \in Resident, Replace(victim, page)
          PROVE  UNCHANGED Flat!memVars
      BY <1>2, <2>1, <3>2, ReplaceIsInvisible DEF Replace, Faults
    <3>3. CASE ReplaceRand(page) \/ ReplaceCustom(page)
      BY <3>2, <3>3 DEF ReplaceRand, ReplaceCustom
    <3>4. CASE ReplaceFifo(page)
      <4>1. Head(FIFO) \in Resident
        BY <1>2, <3>4, FifoVictim DEF ReplaceFifo, Replace
      <4> QED
        BY <3>2, <3>4, <4>1 DEF ReplaceFifo
    <3>5. CASE UnknownApproach(page)
      <4>1. Mem' = Mem
        BY <2>2, <3>5 DEF UnknownApproach
      <4>2. Flat!Exit
        BY <3>5, <4>1 DEF UnknownApproach, Flat!Exit, Mem, Exited, Flat!Exited
      <4> QED
        BY <4>2 DEF Flat!Next
    <3>6. CASE GrantWrite(page)
      <4>1. /\ page_bits' = [page_bits EXCEPT ![page] = {"READ", "WRITE"}]
            /\ Readable(page)
            /\ UNCHANGED <<page_mapping, physmem, disk, access, result>>
        BY <3>6 DEF GrantWrite, Faults
      <4>2. \A p \in Pages : Readable(p)' = Readable(p)
        BY <1>2, <4>1 DEF Readable, IInv, TypeOK
      <4>3. Mem' = Mem
        BY <4>1, <4>2 DEF Mem
      <4> QED
        BY <2>1, <4>1, <4>3
    <3> QED
      BY <2>7, <3>1, <3>3, <3>4, <3>5, <3>6 DEF page_fault_handler
  <2>8. CASE UNCHANGED vars
    BY <2>1, <2>2, <2>8 DEF vars, tables
  <2> QED
    BY <1>2, <2>4, <2>5, <2>6, <2>7, <2>8 DEF Next
<1> QED
  BY <1>1, <1>2, Inductive, PTL DEF Spec, ImplementsFlatMemory, Flat!Spec
=============================================================================
