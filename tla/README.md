# Verification of the operating-systems examples

The repository holds the programs of an operating-systems course: utilities over
system calls, a shell, parallel image programs, a job scheduler, a virtual memory
and a file system. They are independent programs. This directory specifies them
in TLA+, checks the specifications with TLC on small instances and proves the
most important theorems with TLAPS.

- `X.tla` models a component, with its properties at its end or in
  `XProperties.tla`.
- `MCX.tla` extends it for TLC; each `MCX_name.cfg` is one run.
- `XProofs.tla` holds the theorems about it.
- `PROJECT.json` lists components, runs, findings, hazards and theorems, maps
  every definition to the lines it models, and names, for each property, a slip
  in the code that the property catches. The slips are the operators whose comment
  says "slip"; no specification uses them.

## 1. Inventory

| Component | Code | State | Operations | What is hard | Model |
|---|---|---|---|---|---|
| Job scheduler | `04/jobs.h`, `04/jobsched.c` | list of jobs, limit, mutex, condition variable, child processes, pending SIGCHLD, output files | submit, status, wait, remove, njobs, drain, quit; select and fork; SIGCHLD handler | two threads and a signal handler that interrupts either; signals that coalesce; fork and children that fail | `JobSched`, `JobService` |
| Parallel images, task list | `03/fractaltask.c` | list of tasks, mutex, bitmap, threads | make tasks, start and join threads; take a task, compute rows; save | unlocked test of the list, early return | `FractalTask`, `ParallelImage` |
| Parallel images, bands | `03/fractalthread.c`, `03/mandel.c` | bitmap, threads | start, join, compute rows; save | no mutex at all; rows left over | `FractalThread`, `ImageBands` |
| Virtual memory | `05/*.c` | page table, frames, disk, FIFO and CUSTOM lists, counters | read and write faults, three replacement algorithms | several records of one fact; write-back; victim search | `VirtualMemory`, `FlatMemory` |
| SimpleFS | `06/*.c` | disk, inodes, free map | format, mount, create, delete, copyin, copyout, getsize, debug, quit | two records of which blocks are used, one of them for a session only; bounds; writes that stop half way | `SimpleFS` |
| Shell | `02/myshell.c` | child processes, a signal handler | start, wait, waitfor, run, watchdog | watchdog's race of sleep, exit and kill; forks that fail | `MyShell` |
| File and tree copy | `01/filecopy.c`, `silecopy.c`, `treecopy.c` | two descriptors, counts | copy loop, walk | short and failing writes; a recursive walk | `CopyLoop`, `TreeCopy`, `TreeMirror` |
| Bitmaps | `03/bitmap.c` | pixels | create, reset, get, set, save, read | row padding | `BitmapFile`, `SavedImage` |
| Job scheduler drafts | `04/2.c`, `5.c`, `6.c` | as the job scheduler | part of its commands | superseded | not modelled |
| Others | `01/list.c`, `02/t0.c`, `t1.c`, `03/t0.c`, `fractal.c`, `fractal2.c`, `fractaltask2.c` | none that lasts | | | not modelled |

The components interact only inside a program: main and the scheduler thread
share the job list; the threads of the image programs share bitmap and task list;
the programs of the virtual memory reach it through page faults; the SimpleFS
shell calls the file system, which calls the disk.

What makes each of them right:

- **Job scheduler**: at most njobs jobs run, in order of submission; each child
  that ends is recorded once, on its own job, with its exit status; wait, drain
  and submit return; remove never removes a running job.
- **Images**: every row is computed once; the image is saved, and only when it is
  complete.
- **Virtual memory**: reads return what was last written, and the program's
  tables agree with each other.
- **SimpleFS**: the blocks of a file are data blocks, its size covers them, and a
  block that belongs to a file is not given to another one.
- **Shell**: each command acts on its own process, whatever other processes do;
  limits of time hold; commands come back.
- **Copying**: a copy that is called a success has every byte of every file, each
  in a directory that was there before it, and the counts printed are true.

## 2. Job scheduler

### The model

`JobSched` has one action per step that other parties can observe. Threads are
`"main"` and `"sched"`; `pc` says where each is in its code, `hpc` where it is in
the signal handler that interrupted it. A thread that is interrupted does nothing
else until the handler returns, and keeps the mutex if it had it.

| Code | Actions |
|---|---|
| main's loop (jobsched.c:46-213) | `ReadCommand`, `CreateJob`, `Status`, `WaitCommand`, `Quit` |
| `queue_job`, `set_njobs`, `remove_job` (jobs.h) | `QueueJob`, `SetNjobs`, `RemoveJob`, `MainUnlock` |
| wait's spin loop | `SpinUntilDone` |
| drain | `DrainLock`, `DrainScan` |
| `schedThreadFunc`, `select_job_to_run`, `run_job` | `InstallHandler`, `SelectLock`, `AwaitSlot`, `SelectJob`, `SelectFromEmpty`, `Fork`, `ForkError`, `RecordPid`, `SelectUnlock` |
| `handler`, `job_complete` | `Deliver`, `Reap`, `JobComplete`, `HandlerReturn` |
| pthreads | `Lock`, `Unlock`, `Woken`, `SpuriousWakeup`, `Relock` |
| kernel | `ChildExits`, `ChildKilled`, `Available` |

Abstractions. A command's words are the number of its job. `job_complete` sets
state and exit in one step; nobody reads one of them without the mutex and
the other later, except wait, which reads only state. The loop in
wait reads state afresh each time, as the Makefile's unoptimised build does.
SIGCHLD for stopped children is left out. A section under the mutex in which
nothing else can happen but a signal is one step when the signal sees the same at
both of its ends.

`JobService` is the abstract service: jobs wait, run and are done; a start takes
the first waiting job and respects the limit; only jobs that do not run are removed.

### Runs

| Run | Bounds | Shows |
|---|---|---|
| `jobsched_safety` | 3 jobs, 3 pids, limit to 2, exit codes 0 and 1, killed children and failing forks | type invariant; `ProcessRecorded`, `CompletionFindsJob`, `DoneMeansReaped`, `ZombieForEachWait`, `DrainEndsDone`, `WaitFindsOutput`, `ImplementsService` |
| `jobsched_live` | 2 jobs | `RunningHasProcess`; `ExitIsRecorded`, `SlotIsUsed`, `DrainReturns` under fairness |
| `jobsched_submit`, `jobsched_emptied` | 1 or 2 jobs | a violation each: the findings below |

Two jobs are enough for a race of two children, of a completion with a submit or a
remove, and for a limit that is reached; three jobs and a limit of two let a job
wait behind others. Pids are symmetric in the runs of safety properties.

Fairness (`FairSpec`): a thread that can go on does (its own steps, its handler's),
and a pending signal is delivered. Strong fairness of the steps that take the
mutex says that a thread which keeps asking for it gets it in the end: that is an
assumption about the scheduling of the mutex, which POSIX does not promise for a
default mutex but which every system with preemption provides with probability
one. No fairness is assumed of the user or of the children.

The liveness properties say "unless": unless the handler waits for a mutex its
own thread holds (`Wedged`), a child was left behind by coalesced signals
(`Unclaimed`), or the program has ended. Those are what the findings are about.

### Findings

| Run | What the code does |
|---|---|
| `jobsched_submit` | the handler locks a mutex that the thread it interrupted holds, and everything stops |
| `jobsched_emptied` | the list is emptied during the scheduler's `pthread_cond_wait`: NULL is dereferenced |

The model also contains, without a run of their own: two children that end while
one SIGCHLD is pending, of which the handler, with one `wait()` to a signal, takes
one, so that the other's job stays in RUN and `wait` for it spins for ever
(`ChildExits`, `Deliver`; `ExitIsRecorded` excuses it as `Unclaimed`, and shows that
exits are lost in no other way); a job whose child is killed by
a signal, or whose fork fails, stays in RUN and counts against njobs
(`KillsHappen`, `ForkFails`: the properties of `jobsched_safety` hold in their
presence, but none of them can tell such a job; `RunningHasProcess` and
`ExitIsRecorded`, which would, are about runs without them);
`remove` deletes `./output.N` while the output is in `./outputs/output.N`
(`RemoveJob`), so that the output stays; `remove` of a running job at the head of
the list ends without the error message (`Removable` and `RemoveJob`). When the kernel
reuses a pid (`PidReuse`), `job_complete`, which does not look at the state, records a
completion on an earlier, DONE job that had the pid and is still listed: its exit
status changes, and the job that ended stays in RUN. All runs of safety properties have
`PidReuse = FALSE`, so that nothing here is evidence about that case but the theorems
below that name no such hypothesis.

### Proofs

`JobSchedProofs` proves, for any number of jobs, any limit, pids and exit codes:

- `TypeCorrect`: the type invariant. `TypeOK` is not inductive: which job a thread
  is at must be tied to where it is, which `TypeInv` does.
- `ProcessesAreRecorded`, `CompletionsFindTheirJob`, `DoneJobsAreReaped`,
  under `~PidReuse`, which they need. The inductive invariant `IInv` adds to the types that the mutex is held
  where the code holds it (`MutexInv`) and `JobInv`: a job not yet submitted is
  untouched; two jobs never have one pid; the scheduler's choice is a job in the
  list that runs; a pid in a handler is that of a child reaped for a job that is
  still in RUN; a live or ended child's job is in RUN and knows the pid, or
  `run_job` is just about to record it. Each is needed: a completion finds its job
  because the job stays in the list while it runs, which holds because `remove`
  looks at the state under the mutex, and because the pid is recorded before the
  mutex, which the handler needs too, is released.
- `DrainsToDone`: drain returns only when all jobs are DONE. Jobs DONE before the
  position of the walk stay so although drain gives up the mutex in its waits
  (`DrainInv`).
- `WaitsFindZombies`, without any hypothesis: a SIGCHLD that is pending or in a handler
  has a child left for its `wait()`. A step of the kernel adds a child with the
  signal, a handler takes one with the other; the proof counts both sets.
- `RunningJobsHaveProcesses`, if pids are not reused, no child dies of a signal and no
  fork fails (the model leaves such jobs in RUN, as the code does). `RunInv` follows
  the process from fork to `job_complete`.
- `WaitCommandFindsOutput`, under `~PidReuse`: `OutputInv` says that the file is there
  from the exit of the process on, and that `remove`, which looks elsewhere, leaves it.
- `SchedulerImplementsService`, under `~PidReuse`: every step of `JobSched` is a step of
  `JobService` or none. `ListInv` says that the list is in the order of the job numbers,
  so that the first waiting job in it is the one with the least number, which is the
  one `JobService` starts; `CodeInv` that a handler has a code a program can return.
- `NoWakeupIsLost`, without any hypothesis: the scheduler is in `pthread_cond_wait` only
  while no job can be started, and drain only while some job is not DONE. `SleepInv`
  keeps what each of them tested before it slept: whoever could make it false, by
  taking a job out of RUN, making one DONE or raising the limit, broadcasts in the same
  step; submitting adds a job that does not run, removing takes one that does not run.
- `OnlyWedgesDeadlock`, without any hypothesis: the owner of the mutex is in its own
  critical section (`PlaceInv`), at the end of a handler, or in a handler whose `wait()`
  finds a child (`ClaimInv`), and so can go on; the one exception is `Wedged`. Of the
  kernel it takes that `fork` returns.

Liveness itself is checked by TLC only. The last two theorems, with
`CompletionsFindTheirJob`, are what `SlotIsUsed`, `DrainReturns` and `ExitIsRecorded` come
down to when threads are scheduled fairly.

## 3. Parallel images

`ImageBands` divides rows into bands as all three programs do. `ParallelImage`
is what they promise: rows are computed once each in any order, then the image is
saved. The colour of a pixel, the options and the messages are left out; a row is
the unit because a thread owns whole rows.

`BitmapFile` has the functions of `bitmap.c` that compute: `bitmap_get`, which wraps
coordinates, the bytes `bitmap_save` writes, row by row with their padding, and the
pixels that the function `bitmap` reads. `BmpPixel` is the format itself, as a
viewer reads it. `SavedImage` puts them behind `FractalThread`: when the image is
saved, its file is made of the rows that the threads have computed. The fields of
the header are constants and left out, and so is alpha, which the file does not hold.

`FractalTask`: main's steps are `pthread_create`, `StartJoining`, `pthread_join`,
`bitmap_save`; a thread's steps are the unlocked test (`TestHead`), `LockList`
with the early return that keeps the mutex, `TakeTask`, `task_dequeue`,
`UnlockList`, one `ComputeRow` per row, `FinishTask`. `head` is the number of
the front task: task i is followed by task i-1. `FractalThread`: each thread has
its band. `program` says which of the two programs it is, because they differ when
`pthread_create` fails, which the constant `CreateFails` allows: mandel.c exits
(`CreateError`); fractalthread.c does not look at the result (fractalthread.c:228), and
goes on with the next thread (`CreateIgnored`). It then joins whatever `tid` held, which
returns or takes the program down (`JoinCrash`), and saves an image in which the band of
that thread is as blue as `bitmap_reset` left it. fractaltask.c does not look at the
result either; its calls of `pthread_create` are taken to succeed.

| Run | Bounds | Shows |
|---|---|---|
| `fractaltask` | 3 threads, 4 tasks, 6 rows | no row twice (`RowOnce`), `ImplementsImage`; all rows are computed in the end (`ImagePainted`) |
| `fractaltask_three` | 3 threads | finding: it may never be saved |
| `fractalthread` | both programs, 3 threads, 7 rows, widths 1 to 5, any of the calls of `pthread_create` may fail | `RowOnce`, `FileShowsImage`, `ImplementsImage` |

That fractalthread.c saves an image that is not complete is part of what these
properties say: `ImplementsImage` counts such a file as no image (`Short`), so that it
shows for mandel.c, and for fractalthread.c when every thread was created, that only
complete images are saved; `FileShowsImage` says what is in the file otherwise: the
bands of the threads that failed, whole, are blue, and every other pixel is right.

The widths have every length of the padding, and every pixel a colour of its own.
`FileShowsImage` also says that `bitmap`, which nothing calls (`bitmap.h` declares
`bitmap_load`, which does not exist), reads a complete image back exactly when no row follows
padding, that is, if the rows have none or the image has one row at most: otherwise it
takes the padding for pixels.

Three threads are the fewest of which two can wait for the mutex while the third
takes the last task. The heights leave a remainder, so that bands differ. Fairness
is weak, per thread and for main: nothing is assumed of who gets the mutex.

The finding: two threads wait for the mutex when the last task is taken. The
first returns without unlocking it, the second waits for ever, and main with it.
All rows have been computed by then or will be (`ImagePainted`): the image is
complete and lost.

Proofs. `ImageBandsProofs`: the bands are a partition of the rows, for every
height and number of bands (`BandsPartition`). `FractalTaskProofs` and
`FractalThreadProofs`: `RowsOnce`, `TaskListImplementsImage` and
`BandsImplementImage` for any number of threads, tasks and rows (at least one
thread and one task: `CountsAssumption`), the last for both programs and wherever
`pthread_create` fails. The invariant of the task list says who
owns the mutex and that the list is then not empty (`MutexInv`), that tasks in
threads are distinct and no longer in the list (`TaskInv`), and, for each row,
that it has been computed once or not at all, according to who has its task
(`BitmapInv`); the number of times a row was computed cannot be bounded without the
other parts. Refinement follows: a row computed was not computed before, and when
all threads have returned the list is empty and no thread has a task.

`StopsOnlyPainted` is what remains true of the finding for any number of threads and
tasks: where nobody can go on (`Stopped`, the guards of all actions false, written out
because ENABLED cannot be used), whether main has exited or joins for ever, each row has
been computed, once. `HolderInv` says who may have the mutex: somebody about to release it,
or somebody who has returned because the list was empty.

`FileIsTheImage` proves `FileShowsImage` for any number of threads, any height and any
width, whichever threads could not be created. `SavedInv` gives the pixels: when the
image is saved each row was computed or is in the band of a thread that failed. The
rest is about the bytes. Pixel x of row y is at y·w + x in the array, and / and % find
it again (`PixelPlace`, `PlaceOf`); padding makes a row the next multiple of four
(`Padding`); the byte for a colour of the pixel is at y·(3w + padding) + 3x + c in the
file (`ScanlineIs`, `SavedIs`, `FileHolds`); with padding and two rows, the first
pixel of the second row is read from the padding of the first (`LoadedDiffers`). The
file is made by `FlattenSeq`, whose definition is recursive. That the function exists
and what it returns for sequences of one length (`FlattensExists`, `FlattenRows`) is
proved by induction stated for a set of numbers instead of a predicate (`SetInduction`,
from the well-foundedness of < on the natural numbers), because an induction theorem
with an operator for parameter cannot be used with these provers.

## 4. Virtual memory

`VirtualMemory` has one action per branch of `page_fault_handler`. The handler runs
with all signals blocked in a program of one thread, so a page fault is one step;
the order of its assignments is kept within the step (the write-back before the
read, the victim's entry before the page's). An unknown algorithm ends the program
when the first page has to go, after the fault was counted (`UnknownApproach`). The programs alpha to delta are any
sequence of reads and writes of pages, one datum to a page. FIFO and CUSTOM are
the sequences between their indices. The arrays are never used again from the
start, so the model follows at most `MaxFaults` page faults, at most 4096;
`page_mapping` starts with a value that is no frame, because the code does not
initialise it. An error of the disk calls `abort()` and is left out. CUSTOM is
searched up to `CUSTOM[CUSTOM_PUSH]`, which still holds 0: page 0 is never evicted
by the custom algorithm (`Recent`).

`FlatMemory` is what programs should see.

| Run | Bounds | Shows |
|---|---|---|
| `vm` | 4 pages, 3 frames, 2 contents, 7 faults; rand, fifo and an unknown algorithm | `FramesUnshared`, `CleanOnDisk`, `FifoListsResident`, `ImplementsFlatMemory` |
| `vm_custom` | 7 pages, 6 frames, 8 faults | `VictimExists`: the search for a victim can end |

Three frames are the fewest that main accepts, six the fewest with which the
custom algorithm spares a page. Seven faults fill the memory, evict a page that was
written and bring it back. `rand()` is any choice, so that the searches' ending is
not a liveness property but `VictimExists`.

Proofs. `VirtualMemoryProofs` proves all of these, and `TypeOK`, for any number of pages
and frames (3 to 1024 frames, and no fewer pages: `ArgsAssumption`), any data and
all algorithms. The four state invariants are inductive together (`IInv`) and none is
alone: a load may take a frame without harm because the frame in use is that of one
page (`FramesUnshared`), the page to evict with FIFO is in memory because the list has
just the pages in memory (`FifoListsResident`), and what an eviction leaves out of a
write is on disk (`CleanOnDisk`). `VictimsExist` counts: as many pages are in memory as
there are frames, and `Recent` has page 0 and fewer than nframes / BUFFSIZE others. For
`FaultsAreInvisible` the contents of a page are those of its frame, or of the disk when it
has none; an eviction and a load change no contents, and a write changes one because
no other page has the frame.

## 5. SimpleFS

`SimpleFS` has the disk (`disk.c`), the commands of `shell.c` and the calls they make
in `fs.c`. The disk outlives a session, the free map (`bitmap`, `sizeBitmap`) does
not: `Quit`, end of input, the crashes, and a signal in the middle of a copyin
(`Killed`) end a session, and the next one starts on the disk as it is. Commands that
change one block are one step: `fs_format`, `fs_mount`, `fs_create`, `fs_delete`. `copyin` is many: `do_copyin` calls `fs_write` for each
buffer (`fs_write`, `RefuseWrite`), which writes a block at a time (`WriteDirect`,
`EnterIndirect`, `WriteIndirect`), may run out of space (`NoSpace`) and stores the
inode at the end (`FinishWrite`).

Abstractions. A block holds nothing, the superblock, inodes, or text. Text taken
for pointers may be any number, outside of the disk (`MountCrash`, `CopyOutAbort`) or,
when the text is short, within it (the blocks `listed` in `fs_mount`, the two choices
in `WriteIndirect`). `direct[5]`, which
`fs_write` uses for the blocks behind the direct ones, is the field `indirect`
that follows it. The loop of `fs_create` reads each inode block into the union that
holds the loop's own bound (fs.c:208-210): after the first block the bound is that
block's `inode[0].direct[0]`, which is 0, because the first inode of the first block
is passed over (`LoopBound`, `Reached`). So create makes 127 inodes at most and
says then that it is unable, whatever the size of the disk. Of a `disk_write` it is
assumed that it is done or not; the number of blocks is the same in all sessions, and
files are at most so long that the last call of
`fs_write` begins within the direct blocks or right behind them
(`SizesAssumption`). `owned` is a history variable: what belonged to whom at mount.

| Run | Bounds | Shows |
|---|---|---|
| `simplefs` | 6 blocks, 2 of them for inodes, 3 inodes to a block, 4 pointers to an inode, files of 7 and 12 bytes in blocks of 2, a size of at most 14 | `PointersAreToData`, `SizeCoversPointers`, `MountProtects`, `FilesAreFound` |

The run needs two inode blocks, because mount scans all but the last, and two
inodes in the first besides the one that is passed over, so that files can share
blocks and create can run out of inodes; a file that ends within the direct blocks in
a block it does not fill and can be written over within the bound of the size, and one
that goes beyond them in a second buffer; and an inode with more pointers than there
are inode blocks, so that the wrong mark `bitmap[overallIndex]` reaches data blocks.
Three data blocks are fewer than the files need: writes run out of space.

What the properties say is weaker than one would wish, and that is the point:
`getNextBlock` does not mark the block it returns, so two files of one session
share blocks, and so do the blocks of one file. What `MountProtects` shows is that a
file known at mount is safe from that: its blocks are marked and given to nobody else.
It holds because the size of a file, by which mount goes, covers its pointers, by
which `fs_write` goes (`SizeCoversPointers`). The files of a disk of up to 10 blocks
have no such protection: mount does not scan the last inode block, which is then the
only one. The text of files is not followed, only which blocks are whose: that a write
which ran out of space leaves new text under an old size, or that files share blocks
and spoil each other, is described here and violates no property.

`FilesAreFound` is about the numbers of inodes. `getblock_num` takes a multiple of 128
to the block before the one `getInodeNumber` took it from, so that the first inode of a
second block, number 128, would never be found again. It is never made: what saves the
program is the overwritten bound of `fs_create`. With the bound kept (the slip
`KeptBound`) the property is violated.

The model also contains, without a run of their own: format clears the blocks
before `ninodeblocks` only (fs.c:65), although its comment says that it destroys
"any data already present" and "clears the inode table" (fs.c:140-141): files on a
disk with one inode block outlive it (`fs_format`); a file written again grows by
what is written, although its blocks are used again (`WriteDirect`); `delete 0` zeroes
the superblock (`fs_delete`).

Proofs. `SimpleFSProofs` proves the four properties and `TypeOK` for any number of
blocks, inodes to a block, pointers to an inode and any lengths of files within
`SizesAssumption`. None is inductive. `IInv` adds: what kind of block each block is
(`DiskInv`); that the size of each inode on disk covers its pointers (`FileInv`);
where `do_copyin` is in the file, a multiple of the buffer (`CopyInv`); how the inode
that `fs_write` fills in relates to it (`WriteInv`): its pointers are covered, but for
the indirect one that has just been stored; its size and what is left to write fit; the
direct block that comes next is the one of the offset. `MemoryInv` says that a block
owned at mount is marked, is a data block, and that whoever refers to it, on the disk or
in `fs_write`, is an owner. `MountedBlocksAreKept` needs `SizesCover`: mount takes the
blocks of a file from its size, so that a block beyond it would not be marked.
`NumbersFindFiles`: a valid inode is in the first inode block and not the first in it
(`Usable`, in `FileInv`), because create reaches no other block (`OneBlockReached`), and
for such places the quotient and the remainder of the number lead back.

## 6. Shell

`MyShell` has the processes of the kernel (`proc`): each is live, or ended and not yet
waited for, and remembers the command that made it. `pc` says where in a command
the shell is; `cmd` has the command's local variables and, for the properties,
whether the sleep was cut short (`cut`); `said` is the last report, with the pid that
is printed (`Printed`): run and watchdog print the one they keep, which is -1 after a
failed fork, wait and waitfor the one that was returned.

| Code (myshell.c) | Actions |
|---|---|
| start, run (43-56, 88-110) | `Start`, `Run`, both with `Fork`, which may fail |
| wait, waitfor (58-86) | `Wait(n)`, then `Reap` or `NoChildren` |
| watchdog (112-147) | `Watchdog`, `InstallHandler`, `SleepEnds`, `Kill`, `Reap` |
| handler (15-17), kernel | `ChildEnds` |
| end of input | `Quit` |

A process may end at any point. Where a handler is installed its SIGCHLD cuts a
sleep short; sleep returns whole seconds, so that 0 may also come from a process
that ends in the last second, which is then said to have exceeded the limit
(`ChildEnds` goes to `"kill"`). The Makefile's `-std=gnu99` gives signal() the
meaning that waits and reads are restarted, so the handler, which stays for all later
commands, does not end them. Signals for stopped children are left out. After a
failed fork the code goes on with pid -1 (`Any`): run waits for any child and spins
for ever when there is none, watchdog kills all processes of the user.

Run `myshell`, 3 processes, exit codes 0 and 1, one signal, failing forks:

- `OwnPidIsCurrent`: the pid that run and watchdog keep is not given to another
  process before they have used it for the last time;
- `StartedAreKept`: run and watchdog never take a process that start left behind;
- `ReportTells`: whoever is waited for is reported, under its own pid or -1 after a
  failed fork; the report tells a normal end from others, and a kill from both;
- `CommandsEnd`: watchdog comes back although its process never ends, and waits come
  back when what they wait for has ended.

Three processes are one for a watchdog, one that start left behind and whose end cuts
the watchdog's sleep short, and one more. Fairness is weak and of the shell's own
steps within a command: nobody need type anything and no process need end. The
conditions in the properties are the code's gaps: the limit is not enforced when the
end of another process cut the sleep (the rest is not slept), and after a failed fork
only `ReportTells` says something: that kill(-1) ends everybody and waitpid(-1) takes
anybody is in the model, and excused by the other properties.

Proofs. `MyShellProofs` proves `TypeOK` and the first three properties for any
processes, exit codes and signals. `OwnPidIsCurrent` follows from who knows a process:
one made by run or watchdog is that of the command being executed (`OwnInv`), which is
also why nobody else reaps it; a free entry remembers nothing (`FreeInv`).
`StartedAreKept` follows, because run and watchdog wait for their own pid. `ReportsTell`
uses that only `Reap` takes a process from the table (`OnlyReapFrees`) and needs in addition that a watchdog's process died of SIGKILL only if the shell killed
it (`KillInv`); it assumes that `Signals`, of which other processes or the kernel
make processes die, does not have SIGKILL, as in the run: of a process that somebody
else kills with SIGKILL, watchdog cannot tell the difference. `WatchdogIsAnswered` is the
part of `CommandsEnd` that needs no fairness: when watchdog calls `waitpid` for its
process, it has killed it and the process has ended, unless its sleep was cut short.

## 7. Copying

`CopyLoop` is the loop of `filecopy.c`, which `silecopy.c` and `treecopy.c` repeat
line for line. Reads and writes may be short and may fail. A failing write is not
what the code takes it for: -1 is added to `nwritten`, the loop goes on, and the byte
before is written once more, or one from before the buffer when there is none
(`WriteFails`, `FromBuffer`). The test for `nwritten < 0` behind the loop is never
true. A byte is told by its place in the source, and a foreign one is 0.

`TreeCopy` is `treecopy.c` (`Accept`, `Refuse`, `walk`, `filecpy`, `Descend`, `CopyFile`,
`Skip`, `EndOfDir`, `ErrnoAtEnd`, `EndOfFile`, `Return`, `Fail`); its mode for a
single file is `filecopy.c`. The recursion is `stack`, the directories being walked
with the entries that readdir has still to return, in any order. Any call but write
ends the program where it fails (`Fail`). The walk looks at errno at the end of a
directory, so that a failing write is reported there as a failing readdir, unless a
nested walk has cleared errno. `TreeMirror` is what a copy promises.

Run `treecopy`, buffers of 2 bytes, at most 2 failing writes, and as source each node
of a tree of three directories, two files and a link, or a file copied onto one of up
to 5 bytes:

- `NothingLost`: a program that tells success has lost no byte; the copies are exact
  if no write failed (a longer file keeps its end, O_TRUNC being missing), or if the
  directory has no directories in it, where errno gives a failing write away;
- `CountsTrue`: the counts of files, directories and bytes are those of the source;
- `ImplementsMirror`: nothing is copied before its directory, and success is told only
  when everything is.

A buffer of two bytes gives short reads and writes and files of more than one buffer;
a file beside a directory lets a nested walk hide a failing write. Left out: a write
that fails for ever (`MaxFailures`), which the code tries for ever; a target inside
the source, which the walk would copy into itself until the path is too long; file
systems that do not tell the kind of an entry in readdir, whose entries are skipped.

Proofs. `TreeCopyProofs` proves the three properties and `TypeOK` for any tree, any sizes
of files, any buffer and any number of failing writes. The tree must be one: in each
set of nodes there is one whose directory is not in the set (`TreeAssumption`), which is
so because `walk` follows entries of kind DT_DIR only, no links.

- `IInv` has the stack of calls (`StackInv`: a directory is on it once, its entries to
  come are not made yet), what is made (`MadeInv`: parts of the source only, each in a
  directory that is made, and each entry of a directory that is made is made, skipped
  or still on the stack), the contents (`ContentInv`) and errno (`ErrnoInv`: with one
  directory, a failing write leaves errno set until the end of the directory).
- `CopyImplementsMirror`: when the stack is empty, what is made is closed under the
  entries of directories, and so is all that is below the source.
- `NothingIsLost`: the bytes known to be written are found in the target in order, at
  places that grow; a byte written twice or a foreign one only moves the later ones.
- `CountsAreTrue`: the counts are the cardinalities of the sets of what is done
  (`CountInv`), and the bytes are the sum over a set. The sum is the community modules'
  `MapThenSumSet`, defined by recursion on sets, which no cited theorem covers: that the
  function exists, does not depend on the order, and adds a new file's size
  (`SumsExist`, `SumsAgree`, `TotalAdd`) is proved by taking a counterexample with the
  fewest elements.

## 8. Plan

1. Job scheduler: model, runs, theorems, refinement of `JobService`. *Done.*
2. Parallel images and the BMP format. *Done, refinement and file proved.*
3. Virtual memory. *Done, refinement of `FlatMemory` proved.*
4. SimpleFS. *Done, every property proved.*
5. Shell. *Done, every safety property proved.*
6. Copying. *Done, refinement of `TreeMirror` proved.*

Left: nothing in the properties that can be proved with these tools. Every
invariant, every action property and every refinement that a passing run checks is
also the statement of a theorem; the proofs' hypotheses are named above. Of the liveness
properties the parts that need no fairness are theorems too: `NoWakeupIsLost`,
`OnlyWedgesDeadlock`, `StopsOnlyPainted`, `WatchdogIsAnswered`.

## 9. Not modelled

- `list.c` prints a directory; `02/t0.c`, `02/t1.c` and `03/t0.c` are demos of a few
  lines: they keep no state.
- `fractal.c` is one loop over the pixels, in floating-point arithmetic, which TLC does
  not have; with the arithmetic left out it is `FractalThread` with one thread.
- Drafts. `04/2.c` and `fractaltask2.c` do not compile; `04/5.c` and `04/6.c` leave
  remove, drain and quit unfinished; `fractal2.c` is `fractalthread.c` with room for
  one thread (`mythread[1]`). No Makefile builds any of them, and the program that
  replaces each is modelled.
- Text everywhere: the words of commands, paths, messages.

Liveness is model-checked, not proved: `ExitIsRecorded`, `SlotIsUsed`, `DrainReturns`,
`ImagePainted` and `CommandsEnd` rest on fairness, and so on ENABLED, which the proof
system does not handle. The properties of the three runs that find a violation are
false of the code and have no theorem.
