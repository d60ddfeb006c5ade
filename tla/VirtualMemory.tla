--------------------------- MODULE VirtualMemory ----------------------------
(***************************************************************************)
(* "05. Virtual Memory": page_fault_handler of main.c, on the page table   *)
(* of page_table.c and the disk of disk.c.  A page holds one datum.  The   *)
(* handler runs to its end before the program goes on, with all signals    *)
(* blocked, so that a page fault is one step.                              *)
(***************************************************************************)
EXTENDS Integers, Sequences, FiniteSets

CONSTANTS
  npages, nframes,   \* the first two arguments of the program
  Algorithms,        \* values of the third that are followed
  Data,              \* contents of a page
  MaxFaults          \* bound: page faults that are followed

\* main refuses fewer than 3 pages or frames and fewer pages than frames.  The
\* arrays FIFO and CUSTOM have 4096 elements, used once each, PHYS_FREE has 1024.
ASSUME ArgsAssumption ==
  /\ nframes \in 3..1024
  /\ npages \in Nat
  /\ npages >= nframes
  /\ Algorithms \subseteq {"rand", "fifo", "custom", "other"}
  /\ Data # {}
  /\ MaxFaults \in 0..4096

Pages    == 0..npages-1
Frames   == 0..nframes-1
BUFFSIZE == IF nframes < 10 THEN 3 ELSE 10
Unset    == -1           \* page_mapping is not initialised

VARIABLES
  replacement_alg,  \* the third argument; "other" is any unknown word
  page_mapping,     \* the frame of each page
  page_bits,        \* its protection: PROT_READ, PROT_WRITE
  physmem,          \* the contents of the frames
  disk,             \* the contents of the blocks, one for each page
  PHYS_FREE,        \* 1 for a frame in use
  FIFO,             \* FIFO[POP_INDEX] to FIFO[PUSH_INDEX - 1]
  CUSTOM,           \* CUSTOM[CUSTOM_POP] to CUSTOM[CUSTOM_PUSH - 1]
  PAGE_FAULT_COUNT, DISK_READ_COUNT, DISK_WRITE_COUNT,
  access,           \* the access the program is at
  result            \* what its last read returned

tables == <<page_mapping, page_bits, physmem, disk, PHYS_FREE, FIFO, CUSTOM>>
counts == <<PAGE_FAULT_COUNT, DISK_READ_COUNT, DISK_WRITE_COUNT>>
vars   == <<replacement_alg, tables, counts, access, result>>

Accesses == [op : {"read"}, page : Pages] \cup [op : {"write"}, page : Pages, data : Data]
Idle     == [op |-> "idle"]
Exited   == [op |-> "exited"]

Readable(p) == "READ" \in page_bits[p]
Writable(p) == "WRITE" \in page_bits[p]
Resident    == { p \in Pages : Readable(p) }

\* The disk file may be left from an earlier run: its contents are arbitrary.
Init ==
  /\ replacement_alg \in Algorithms
  /\ page_mapping = [p \in Pages |-> Unset]
  /\ page_bits = [p \in Pages |-> {}]
  /\ physmem \in { [f \in Frames |-> d] : d \in Data }
  /\ disk \in [Pages -> Data]
  /\ PHYS_FREE = [f \in Frames |-> 0]
  /\ FIFO = <<>>
  /\ CUSTOM = <<>>
  /\ PAGE_FAULT_COUNT = 0
  /\ DISK_READ_COUNT = 0
  /\ DISK_WRITE_COUNT = 0
  /\ access = Idle
  /\ result \in Data

-----------------------------------------------------------------------------
(* The program: any sequence of reads and writes.                          *)

Request ==
  /\ access = Idle
  /\ access' \in Accesses
  /\ UNCHANGED <<replacement_alg, tables, counts, result>>

Read ==
  /\ access.op = "read"
  /\ Readable(access.page)
  /\ result' = physmem[page_mapping[access.page]]
  /\ access' = Idle
  /\ UNCHANGED <<replacement_alg, tables, counts>>

Write ==
  /\ access.op = "write"
  /\ Writable(access.page)
  /\ physmem' = [physmem EXCEPT ![page_mapping[access.page]] = access.data]
  /\ access' = Idle
  /\ UNCHANGED <<replacement_alg, page_mapping, page_bits, disk, PHYS_FREE, FIFO, CUSTOM,
                 counts, result>>

-----------------------------------------------------------------------------
(* page_fault_handler                                                      *)

\* The memory faults on the page of the access, which internal_fault_handler
\* finds from the address.
Faults(page) ==
  /\ access.op \in {"read", "write"}
  /\ page = access.page
  /\ PAGE_FAULT_COUNT < MaxFaults
  /\ PAGE_FAULT_COUNT' = PAGE_FAULT_COUNT + 1
  /\ UNCHANGED <<replacement_alg, access, result>>

UsedFrames == { f \in Frames : PHYS_FREE[f] = 1 }

\* for (i=0; i<nframes; i++) if (PHYS_FREE[i] == 0).  Slip: one too far.
FrameAfter == Cardinality(UsedFrames) + 1
FreeFrame  == CHOOSE f \in Frames \ UsedFrames : \A g \in Frames \ UsedFrames : f <= g

\* CUSTOM_PUSH++, and CUSTOM_POP++ when there are nframes/BUFFSIZE pages.
\* Slip: without the latter.
PushOnly(page) == Append(CUSTOM, page)
Push(page) ==
  LET pushed == Append(CUSTOM, page)
  IN  IF Len(pushed) = nframes \div BUFFSIZE THEN Tail(pushed) ELSE pushed

\* Slip: the page is mapped and not read from the disk.
LoadNothing(page) ==
  /\ Faults(page)
  /\ ~Readable(page)
  /\ UsedFrames # Frames
  /\ page_mapping' = [page_mapping EXCEPT ![page] = FreeFrame]
  /\ page_bits' = [page_bits EXCEPT ![page] = {"READ"}]
  /\ PHYS_FREE' = [PHYS_FREE EXCEPT ![FreeFrame] = 1]
  /\ FIFO' = IF replacement_alg = "fifo" THEN Append(FIFO, page) ELSE FIFO
  /\ CUSTOM' = IF replacement_alg = "custom" THEN Push(page) ELSE CUSTOM
  /\ DISK_READ_COUNT' = DISK_READ_COUNT + 1
  /\ UNCHANGED <<physmem, disk, DISK_WRITE_COUNT>>

\* A frame is free: the first one is taken.
LoadIntoFree(page) ==
  /\ Faults(page)
  /\ ~Readable(page)
  /\ UsedFrames # Frames
  /\ page_mapping' = [page_mapping EXCEPT ![page] = FreeFrame]
  /\ page_bits' = [page_bits EXCEPT ![page] = {"READ"}]
  /\ physmem' = [physmem EXCEPT ![FreeFrame] = disk[page]]
  /\ PHYS_FREE' = [PHYS_FREE EXCEPT ![FreeFrame] = 1]
  /\ FIFO' = IF replacement_alg = "fifo" THEN Append(FIFO, page) ELSE FIFO
  /\ CUSTOM' = IF replacement_alg = "custom" THEN Push(page) ELSE CUSTOM
  /\ DISK_READ_COUNT' = DISK_READ_COUNT + 1
  /\ UNCHANGED <<disk, DISK_WRITE_COUNT>>

\* A page that was written to goes back to its block.
\* Slip: never.
NoWriteBack(victim) == UNCHANGED <<disk, DISK_WRITE_COUNT>>
WriteBack(victim) ==
  IF Writable(victim)
  THEN /\ disk' = [disk EXCEPT ![victim] = physmem[page_mapping[victim]]]
       /\ DISK_WRITE_COUNT' = DISK_WRITE_COUNT + 1
  ELSE UNCHANGED <<disk, DISK_WRITE_COUNT>>

\* page_table_set_entry of both pages.  Slip: the frame is looked up in between.
RemapLate(victim, page) ==
  /\ page_mapping' = [page_mapping EXCEPT ![victim] = 0, ![page] = 0]
  /\ page_bits' = [page_bits EXCEPT ![victim] = {}, ![page] = {"READ"}]
Remap(victim, page) ==
  /\ page_mapping' = [page_mapping EXCEPT ![victim] = 0, ![page] = page_mapping[victim]]
  /\ page_bits' = [page_bits EXCEPT ![victim] = {}, ![page] = {"READ"}]

\* No frame is free: the page takes the frame of the victim.
Replace(victim, page) ==
  /\ Faults(page)
  /\ ~Readable(page)
  /\ UsedFrames = Frames
  /\ WriteBack(victim)
  /\ Remap(victim, page)
  /\ physmem' = [physmem EXCEPT ![page_mapping[victim]] = disk'[page]]
  /\ DISK_READ_COUNT' = DISK_READ_COUNT + 1
  /\ UNCHANGED PHYS_FREE

ReplaceRand(page) ==
  /\ replacement_alg = "rand"
  /\ \E victim \in Resident : Replace(victim, page)
  /\ UNCHANGED <<FIFO, CUSTOM>>

\* Slip: POP_INDEX is left alone.
ReplaceFirst(page) ==
  /\ replacement_alg = "fifo"
  /\ Replace(Head(FIFO), page)
  /\ FIFO' = Append(FIFO, page)
  /\ UNCHANGED CUSTOM

ReplaceFifo(page) ==
  /\ replacement_alg = "fifo"
  /\ Replace(Head(FIFO), page)
  /\ FIFO' = Append(Tail(FIFO), page)
  /\ UNCHANGED CUSTOM

\* The pages the custom algorithm spares: those in CUSTOM, and page 0, because
\* its loop goes on to CUSTOM[CUSTOM_PUSH], which nobody has written.
Recent == { CUSTOM[k] : k \in DOMAIN CUSTOM } \cup {0}

ReplaceCustom(page) ==
  /\ replacement_alg = "custom"
  /\ \E victim \in Resident \ Recent : Replace(victim, page)
  /\ CUSTOM' = Push(page)
  /\ UNCHANGED FIFO

\* An unknown algorithm is noticed when the first page has to go: exit(1), after
\* the fault has been counted.
UnknownApproach(page) ==
  /\ access.op \in {"read", "write"}
  /\ page = access.page
  /\ PAGE_FAULT_COUNT < MaxFaults
  /\ PAGE_FAULT_COUNT' = PAGE_FAULT_COUNT + 1
  /\ ~Readable(page)
  /\ UsedFrames = Frames
  /\ replacement_alg = "other"
  /\ access' = Exited
  /\ UNCHANGED <<replacement_alg, tables, DISK_READ_COUNT, DISK_WRITE_COUNT, result>>

\* A page that is there but was never written to.
GrantWrite(page) ==
  /\ Faults(page)
  /\ access.op = "write"
  /\ Readable(page)
  /\ ~Writable(page)
  /\ page_bits' = [page_bits EXCEPT ![page] = {"READ", "WRITE"}]
  /\ UNCHANGED <<page_mapping, physmem, disk, PHYS_FREE, FIFO, CUSTOM,
                 DISK_READ_COUNT, DISK_WRITE_COUNT>>

page_fault_handler(page) ==
  \/ LoadIntoFree(page)
  \/ ReplaceRand(page)
  \/ ReplaceFifo(page)
  \/ ReplaceCustom(page)
  \/ UnknownApproach(page)
  \/ GrantWrite(page)

-----------------------------------------------------------------------------
Next == Request \/ Read \/ Write \/ \E page \in Pages : page_fault_handler(page)

Spec == Init /\ [][Next]_vars

-----------------------------------------------------------------------------
(* Properties.                                                             *)

\* The types of the variables; CUSTOM keeps fewer than nframes/BUFFSIZE pages.
TypeOK ==
  /\ replacement_alg \in Algorithms
  /\ page_mapping \in [Pages -> Frames \cup {Unset}]
  /\ page_bits \in [Pages -> {{}, {"READ"}, {"READ", "WRITE"}}]
  /\ physmem \in [Frames -> Data]
  /\ disk \in [Pages -> Data]
  /\ PHYS_FREE \in [Frames -> 0..1]
  /\ FIFO \in Seq(Pages)
  /\ CUSTOM \in Seq(Pages) /\ Len(CUSTOM) < nframes \div BUFFSIZE
  /\ PAGE_FAULT_COUNT \in 0..MaxFaults
  /\ DISK_READ_COUNT \in Nat
  /\ DISK_WRITE_COUNT \in Nat
  /\ access \in Accesses \cup {Idle, Exited}
  /\ result \in Data

\* A frame in use is the frame of exactly one page: evictions and loads never let
\* two pages share a frame, and never lose one.
FramesUnshared ==
  /\ \A p, q \in Resident : page_mapping[p] = page_mapping[q] => p = q
  /\ { page_mapping[p] : p \in Resident } = UsedFrames

\* A page without PROT_WRITE is the same in memory and on the disk: it may be
\* evicted without being written.
CleanOnDisk ==
  \A p \in Resident : ~Writable(p) => physmem[page_mapping[p]] = disk[p]

\* FIFO lists the pages in memory, each once: the page it names is there to be
\* evicted, and none is forgotten.
FifoListsResident ==
  replacement_alg = "fifo" =>
    /\ { FIFO[k] : k \in DOMAIN FIFO } = Resident
    /\ \A k, l \in DOMAIN FIFO : FIFO[k] = FIFO[l] => k = l

\* The custom algorithm's search, which tries pages until it finds one that is in
\* memory and was not loaded recently, has one to find.
VictimExists ==
  UsedFrames = Frames => Resident \ Recent # {}

\* A program cannot tell the virtual memory from a flat one: a read returns what was
\* last written to the page, however often it was evicted in between.
Flat == INSTANCE FlatMemory
          WITH mem <- [p \in Pages |-> IF Readable(p) THEN physmem[page_mapping[p]]
                                       ELSE disk[p]]
ImplementsFlatMemory == Flat!Spec
=============================================================================
