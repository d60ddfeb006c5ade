------------------------------ MODULE JobSched ------------------------------
(***************************************************************************)
(* The job scheduler: jobsched.c and jobs.h.  Two threads of one process   *)
(* share a list of jobs under one mutex and one condition variable: "main" *)
(* reads commands, "sched" picks waiting jobs and forks them.  The SIGCHLD *)
(* handler interrupts EITHER thread at ANY point, reaps one child and      *)
(* takes the same mutex.  The kernel (processes, zombies, the one pending  *)
(* bit SIGCHLD has) is the environment.                                    *)
(***************************************************************************)
EXTENDS Integers, FiniteSets, Sequences, SequencesExt

CONSTANTS
  MaxJobs,    \* bound: how many jobs are submitted
  MaxLimit,   \* bound: the largest argument of the njobs command
  Pids,       \* process ids
  NoPid,      \* the pid field before fork: -1
  ExitCodes,  \* exit statuses of the submitted programs
  NoExit,     \* the exit field before completion: -1
  KillsHappen,\* a child may die of a signal: WIFEXITED is false
  ForkFails,  \* fork may return -1
  PidReuse    \* the kernel may hand out the pid of a reaped child again

JobId   == 1..MaxJobs
Threads == {"main", "sched"}
Free    == "free"

ASSUME ConstantsAssumption ==
  /\ MaxJobs \in Nat
  /\ MaxLimit \in Nat
  /\ NoPid \notin Pids
  /\ NoExit \notin ExitCodes
  /\ KillsHappen \in BOOLEAN
  /\ ForkFails \in BOOLEAN
  /\ PidReuse \in BOOLEAN

VARIABLES
  mutex,    \* owner of job_queue->mutex
  queue,    \* the linked list from job_queue->head, as the job ids in order
  njobs,    \* job_queue->njobs
  jobid,    \* the static counter of create_job: the next id
  state,    \* Job.state ("none" before create_job)
  pid,      \* Job.pid
  exit,     \* Job.exit
  pc,       \* where each thread is in its own code
  arg,      \* main: the job, number or list position of the current command
  sel,      \* sched: wait_jobJob, the job select_job_to_run chose
  child,    \* sched: the pid fork returned, in run_job
  hpc,      \* where each thread is in the signal handler, "off" outside it
  hpid,     \* handler: the pid wait() returned
  hcode,    \* handler: WEXITSTATUS of the status wait() stored
  pending,  \* SIGCHLD is pending for the process
  proc,     \* the kernel's process table
  files,    \* output files that exist, as <<directory, job id>>
  run       \* "up", "exited" (main returned) or "crashed"

heap    == <<queue, njobs, jobid, state, pid, exit>>
threads == <<pc, arg, sel, child>>
handler == <<hpc, hpid, hcode>>
kernel  == <<pending, proc, files>>
vars    == <<mutex, heap, threads, handler, kernel, run>>

-----------------------------------------------------------------------------
(* Shared vocabulary.                                                      *)

\* Thread t is executing its own code: not interrupted by the handler.
Executes(t) == run = "up" /\ hpc[t] = "off"

Lock(t)   == mutex = Free /\ mutex' = t
Unlock(t) == mutex = t /\ mutex' = Free

\* Slips: no wakeup at all; pthread_cond_signal, which wakes one thread.
WokenNobody == pc
WokenOne == [t \in Threads |->
               IF pc[t] = "cond_wait" /\ (t = "sched" \/ pc["sched"] # "cond_wait")
               THEN "relock" ELSE pc[t]]

\* pthread_cond_broadcast: every thread in pthread_cond_wait must relock.
Woken == [t \in Threads |-> IF pc[t] = "cond_wait" THEN "relock" ELSE pc[t]]

Goto(t, label) == pc' = [pc EXCEPT ![t] = label]

\* numJobsRunning
RunningAt == { i \in DOMAIN queue : state[queue[i]] = "RUN" }
numJobsRunningAfterHead == Cardinality(RunningAt \ {1})     \* slip
numJobsRunning == Cardinality(RunningAt)

\* Position of a job in the list; 0 when a walk of the list ends at NULL.
NotDoneAt == { i \in DOMAIN queue : state[queue[i]] # "DONE" }     \* slip
WaitingAt == { i \in DOMAIN queue : state[queue[i]] = "WAIT" }
First(positions) == CHOOSE i \in positions : \A k \in positions : i <= k

Zombies == { p \in Pids : proc[p].st \in {"exited", "killed"} }

\* The status wait() stores holds the exit code in its second byte.
WaitStatus(p) == proc[p].code * 256                    \* slip: not decoded
WEXITSTATUS(p) == proc[p].code

Process == [st : {"unused", "live", "exited", "killed", "reaped"},
            job : JobId \cup {0}, code : ExitCodes \cup {NoExit}]

-----------------------------------------------------------------------------
Init ==
  /\ mutex = Free
  /\ queue = <<>>
  /\ njobs = 1
  /\ jobid = 1
  /\ state = [j \in JobId |-> "none"]
  /\ pid = [j \in JobId |-> NoPid]
  /\ exit = [j \in JobId |-> NoExit]
  /\ pc = [t \in Threads |-> IF t = "main" THEN "fgets" ELSE "install"]
  /\ arg = 0
  /\ sel = 0
  /\ child = NoPid
  /\ hpc = [t \in Threads |-> "off"]
  /\ hpid = [t \in Threads |-> NoPid]
  /\ hcode = [t \in Threads |-> NoExit]
  /\ pending = FALSE
  /\ proc = [p \in Pids |-> [st |-> "unused", job |-> 0, code |-> NoExit]]
  /\ files = {}
  /\ run = "up"

-----------------------------------------------------------------------------
(* main(): one command per turn of the fgets loop.                         *)

\* submit, first half: create_job fills in a new Job outside the lock.
CreateJob ==
  /\ Executes("main") /\ pc["main"] = "fgets"
  /\ jobid <= MaxJobs
  /\ state' = [state EXCEPT ![jobid] = "WAIT"]
  /\ arg' = jobid
  /\ jobid' = jobid + 1
  /\ Goto("main", "submit")
  /\ UNCHANGED <<mutex, queue, njobs, pid, exit, sel, child, handler, kernel, run>>

\* submit, second half: queue_job appends it to the list.
QueueJob ==
  /\ Executes("main") /\ pc["main"] = "submit"
  /\ Lock("main")
  /\ queue' = Append(queue, arg)
  /\ arg' = 0
  /\ Goto("main", "unlock")
  /\ UNCHANGED <<njobs, jobid, state, pid, exit, sel, child, handler, kernel, run>>

\* The commands that begin by taking the lock, with the number they parsed.
ReadCommand ==
  /\ Executes("main") /\ pc["main"] = "fgets"
  /\ \/ Goto("main", "status") /\ arg' = 0
     \/ Goto("main", "drain") /\ arg' = 0
     \/ Goto("main", "remove") /\ arg' \in JobId
     \/ Goto("main", "njobs") /\ arg' \in 0..MaxLimit
  /\ UNCHANGED <<mutex, heap, sel, child, handler, kernel, run>>

\* status prints the table under the lock and changes nothing.
Status ==
  /\ Executes("main") /\ pc["main"] = "status"
  /\ Lock("main")
  /\ Goto("main", "unlock")
  /\ UNCHANGED <<heap, arg, sel, child, handler, kernel, run>>

\* set_njobs: a positive limit is stored and announced to the scheduler.
SetNjobs ==
  /\ Executes("main") /\ pc["main"] = "njobs"
  /\ Lock("main")
  /\ \/ /\ arg > 0
        /\ njobs' = arg
        /\ pc' = [Woken EXCEPT !["main"] = "unlock"]
     \/ /\ arg <= 0
        /\ Goto("main", "unlock")
        /\ UNCHANGED njobs
  /\ arg' = 0
  /\ UNCHANGED <<queue, jobid, state, pid, exit, sel, child, handler, kernel, run>>

\* remove_job: where the job to unlink stands in the list.  The head is taken
\* when it is not running; otherwise the search begins BEHIND the head.
MatchesAt == { i \in DOMAIN queue : queue[i] = arg }
Removable ==
  IF 1 \in MatchesAt /\ state[arg] # "RUN" THEN {1} ELSE MatchesAt \ {1}

RemoveJob ==
  /\ Executes("main") /\ pc["main"] = "remove"
  /\ Lock("main")
  /\ \/ /\ Removable = {}                                        \* return 1
        /\ Goto("main", "unlock")
        /\ UNCHANGED <<queue, files>>
     \/ /\ Removable # {} /\ state[arg] = "RUN"                   \* return -1
        /\ Goto("main", "unlock_fail")
        /\ UNCHANGED <<queue, files>>
     \/ /\ Removable # {} /\ state[arg] # "RUN"                   \* return 0
        /\ queue' = RemoveAt(queue, First(Removable))
        /\ files' = files \ {<<".", arg>>}
        /\ Goto("main", "unlock")
  /\ arg' = IF pc'["main"] = "unlock_fail" THEN arg ELSE 0
  /\ UNCHANGED <<njobs, jobid, state, pid, exit, sel, child, handler,
                 pending, proc, run>>

\* wait: the list is searched without the lock.  An unknown id ends main.
WaitCommand ==
  /\ Executes("main") /\ pc["main"] = "fgets"
  /\ \E j \in JobId :
       \/ /\ j \in ToSet(queue)
          /\ Goto("main", "spin")
          /\ arg' = j
          /\ UNCHANGED run
       \/ /\ j \notin ToSet(queue)
          /\ run' = "exited"
          /\ UNCHANGED <<pc, arg>>
  /\ UNCHANGED <<mutex, heap, sel, child, handler, kernel>>

\* Slip: wait until the job has left WAIT.
SpinWhileWaiting ==
  /\ Executes("main") /\ pc["main"] = "spin"
  /\ state[arg] # "WAIT"
  /\ Goto("main", "fgets")
  /\ arg' = 0
  /\ UNCHANGED <<mutex, heap, sel, child, handler, kernel, run>>

\* ... and its state is read without the lock until it is DONE.
SpinUntilDone ==
  /\ Executes("main") /\ pc["main"] = "spin"
  /\ state[arg] = "DONE"
  /\ Goto("main", "fgets")
  /\ arg' = 0
  /\ UNCHANGED <<mutex, heap, sel, child, handler, kernel, run>>

\* drain walks the list with the lock held, from the head ...
DrainLock ==
  /\ Executes("main") /\ pc["main"] = "drain"
  /\ Lock("main")
  /\ arg' = 1
  /\ Goto("main", "drain_scan")
  /\ UNCHANGED <<heap, sel, child, handler, kernel, run>>

\* ... past each job that is DONE, giving the lock up at one that is not.
DrainScan ==
  /\ Executes("main") /\ pc["main"] = "drain_scan"
  /\ \/ /\ arg > Len(queue)
        /\ Goto("main", "unlock")
        /\ arg' = 0
        /\ UNCHANGED mutex
     \/ /\ arg <= Len(queue) /\ state[queue[arg]] = "DONE"
        /\ arg' = arg + 1
        /\ UNCHANGED <<mutex, pc>>
     \/ /\ arg <= Len(queue) /\ state[queue[arg]] # "DONE"
        /\ Unlock("main")
        /\ Goto("main", "cond_wait")
        /\ UNCHANGED arg
  /\ UNCHANGED <<heap, sel, child, handler, kernel, run>>

\* The end of every locked command; remove's error makes main return.
MainUnlock ==
  /\ Executes("main") /\ pc["main"] \in {"unlock", "unlock_fail"}
  /\ Unlock("main")
  /\ Goto("main", "fgets")
  /\ run' = IF pc["main"] = "unlock_fail" THEN "exited" ELSE run
  /\ arg' = 0
  /\ UNCHANGED <<heap, sel, child, handler, kernel>>

\* quit, end of input, and a command without its argument: main returns.
Quit ==
  /\ Executes("main") /\ pc["main"] = "fgets"
  /\ run' = "exited"
  /\ UNCHANGED <<mutex, heap, threads, handler, kernel>>

-----------------------------------------------------------------------------
(* Both threads: the end of pthread_cond_wait.                             *)

SpuriousWakeup(t) ==
  /\ Executes(t) /\ pc[t] = "cond_wait"
  /\ Goto(t, "relock")
  /\ UNCHANGED <<mutex, heap, arg, sel, child, handler, kernel, run>>

\* Slip: drain tests a job with "if" and passes on after one wakeup.
RelockIf(t) ==
  /\ Executes(t) /\ pc[t] = "relock"
  /\ Lock(t)
  /\ Goto(t, IF t = "main" THEN "drain_scan" ELSE "check")
  /\ arg' = IF t = "main" THEN arg + 1 ELSE arg
  /\ UNCHANGED <<heap, sel, child, handler, kernel, run>>

Relock(t) ==
  /\ Executes(t) /\ pc[t] = "relock"
  /\ Lock(t)
  /\ Goto(t, IF t = "main" THEN "drain_scan" ELSE "check")
  /\ UNCHANGED <<heap, arg, sel, child, handler, kernel, run>>

-----------------------------------------------------------------------------
(* schedThreadFunc(): select_job_to_run for ever.                          *)

InstallHandler ==
  /\ Executes("sched") /\ pc["sched"] = "install"
  /\ Goto("sched", "lock")
  /\ UNCHANGED <<mutex, heap, arg, sel, child, handler, kernel, run>>

SelectLock ==
  /\ Executes("sched") /\ pc["sched"] = "lock"
  /\ Lock("sched")
  /\ Goto("sched", IF queue = <<>> THEN "unlock" ELSE "check")
  /\ UNCHANGED <<heap, arg, sel, child, handler, kernel, run>>

AwaitSlot ==
  /\ Executes("sched") /\ pc["sched"] = "check"
  /\ numJobsRunning >= njobs
  /\ Unlock("sched")
  /\ Goto("sched", "cond_wait")
  /\ UNCHANGED <<heap, arg, sel, child, handler, kernel, run>>

\* The first job in WAIT becomes RUN: the first statement of run_job.
SelectJob ==
  /\ Executes("sched") /\ pc["sched"] = "check"
  /\ numJobsRunning < njobs
  /\ queue # <<>>
  /\ \/ /\ WaitingAt # {}
        /\ sel' = queue[First(WaitingAt)]
        /\ state' = [state EXCEPT ![sel'] = "RUN"]
        /\ Goto("sched", "fork")
     \/ /\ WaitingAt = {}
        /\ Goto("sched", "unlock")
        /\ UNCHANGED <<sel, state>>
  /\ UNCHANGED <<mutex, queue, njobs, jobid, pid, exit, arg, child, handler,
                 kernel, run>>

\* head was tested before pthread_cond_wait and is read again after it: when
\* the list was emptied meanwhile, head->state dereferences NULL.
SelectFromEmpty ==
  /\ Executes("sched") /\ pc["sched"] = "check"
  /\ numJobsRunning < njobs
  /\ queue = <<>>
  /\ run' = "crashed"
  /\ UNCHANGED <<mutex, heap, threads, handler, kernel>>

Available(p) == \/ proc[p].st = "unused"
                \/ PidReuse /\ proc[p].st = "reaped"

\* Slip: the mutex is given up before the fork.
ForkUnlocked ==
  /\ Executes("sched") /\ pc["sched"] = "fork"
  /\ Unlock("sched")
  /\ \E p \in Pids :
       /\ Available(p)
       /\ proc' = [proc EXCEPT ![p] = [st |-> "live", job |-> sel, code |-> NoExit]]
       /\ child' = p
  /\ Goto("sched", "record")
  /\ UNCHANGED <<heap, arg, sel, handler, pending, files, run>>

Fork ==
  /\ Executes("sched") /\ pc["sched"] = "fork"
  /\ \E p \in Pids :
       /\ Available(p)
       /\ proc' = [proc EXCEPT ![p] = [st |-> "live", job |-> sel, code |-> NoExit]]
       /\ child' = p
  /\ Goto("sched", "record")
  /\ UNCHANGED <<mutex, heap, arg, sel, handler, pending, files, run>>

\* fork failed: run_job returns and leaves the job in RUN.
ForkError ==
  /\ Executes("sched") /\ pc["sched"] = "fork"
  /\ ForkFails
  /\ sel' = 0
  /\ Goto("sched", "unlock")
  /\ UNCHANGED <<mutex, heap, arg, child, handler, kernel, run>>

RecordPid ==
  /\ Executes("sched") /\ pc["sched"] = "record"
  /\ pid' = [pid EXCEPT ![sel] = child]
  /\ sel' = 0
  /\ child' = NoPid
  /\ Goto("sched", "unlock")
  /\ UNCHANGED <<mutex, queue, njobs, jobid, state, exit, arg, handler, kernel, run>>

SelectUnlock ==
  /\ Executes("sched") /\ pc["sched"] = "unlock"
  /\ Unlock("sched")
  /\ Goto("sched", "lock")
  /\ UNCHANGED <<heap, arg, sel, child, handler, kernel, run>>

-----------------------------------------------------------------------------
(* The kernel: children end, and SIGCHLD, which does not queue, is raised. *)

\* A child that ends by itself has opened its output file and run.
ChildExits(p) ==
  /\ run = "up"
  /\ proc[p].st = "live"
  /\ \E e \in ExitCodes :
       proc' = [proc EXCEPT ![p] = [st |-> "exited", job |-> @.job, code |-> e]]
  /\ files' = files \cup {<<"./outputs", proc[p].job>>}
  /\ pending' = TRUE
  /\ UNCHANGED <<mutex, heap, threads, handler, run>>

ChildKilled(p) ==
  /\ run = "up"
  /\ KillsHappen
  /\ proc[p].st = "live"
  /\ proc' = [proc EXCEPT ![p].st = "killed"]
  /\ pending' = TRUE
  /\ UNCHANGED <<mutex, heap, threads, handler, files, run>>

-----------------------------------------------------------------------------
(* handler(): runs on whichever thread the kernel picks; SIGCHLD is masked *)
(* in that thread until it returns.                                        *)

Deliver(t) ==
  /\ Executes(t)
  /\ pending
  /\ pending' = FALSE
  /\ hpc' = [hpc EXCEPT ![t] = "wait"]
  /\ UNCHANGED <<mutex, heap, threads, hpid, hcode, proc, files, run>>

\* wait(&status) takes any zombie.  It finds one (ZombieForEachWait), so its
\* error return is not reached.
Reap(t) ==
  /\ run = "up" /\ hpc[t] = "wait"
  /\ \E p \in Zombies :
       /\ proc' = [proc EXCEPT ![p].st = "reaped"]
       /\ \/ /\ proc[p].st = "exited"
             /\ hpc' = [hpc EXCEPT ![t] = "lock"]
             /\ hpid' = [hpid EXCEPT ![t] = p]
             /\ hcode' = [hcode EXCEPT ![t] = WEXITSTATUS(p)]
          \/ /\ proc[p].st = "killed"
             /\ hpc' = [hpc EXCEPT ![t] = "off"]
             /\ UNCHANGED <<hpid, hcode>>
  /\ UNCHANGED <<mutex, heap, threads, pending, files, run>>

\* job_complete: the first job of the list with that pid is DONE.
PidAfterHead(p) == { i \in DOMAIN queue : i > 1 /\ pid[queue[i]] = p }    \* slip
PidAt(p) == { i \in DOMAIN queue : pid[queue[i]] = p }

JobComplete(t) ==
  /\ run = "up" /\ hpc[t] = "lock"
  /\ Lock(t)
  /\ IF PidAt(hpid[t]) # {}
     THEN LET j == queue[First(PidAt(hpid[t]))]
          IN  /\ state' = [state EXCEPT ![j] = "DONE"]
              /\ exit' = [exit EXCEPT ![j] = hcode[t]]
              /\ pc' = Woken
     ELSE UNCHANGED <<state, exit, pc>>
  /\ hpc' = [hpc EXCEPT ![t] = "unlock"]
  /\ UNCHANGED <<queue, njobs, jobid, pid, arg, sel, child, hpid, hcode, kernel, run>>

\* Slip: the handler loops, waiting for a child per turn rather than per signal.
HandlerLoops(t) ==
  /\ run = "up" /\ hpc[t] = "unlock"
  /\ Unlock(t)
  /\ hpc' = [hpc EXCEPT ![t] = "wait"]
  /\ UNCHANGED <<heap, threads, hpid, hcode, kernel, run>>

HandlerReturn(t) ==
  /\ run = "up" /\ hpc[t] = "unlock"
  /\ Unlock(t)
  /\ hpc' = [hpc EXCEPT ![t] = "off"]
  /\ hpid' = [hpid EXCEPT ![t] = NoPid]
  /\ hcode' = [hcode EXCEPT ![t] = NoExit]
  /\ UNCHANGED <<heap, threads, kernel, run>>

-----------------------------------------------------------------------------
MainStep ==
  \/ QueueJob \/ Status \/ SetNjobs \/ RemoveJob \/ SpinUntilDone
  \/ DrainLock \/ DrainScan \/ MainUnlock

Command == CreateJob \/ ReadCommand \/ WaitCommand \/ Quit

SchedStep ==
  \/ InstallHandler \/ SelectLock \/ AwaitSlot \/ SelectJob \/ SelectFromEmpty
  \/ Fork \/ ForkError \/ RecordPid \/ SelectUnlock

HandlerStep(t) == Reap(t) \/ JobComplete(t) \/ HandlerReturn(t)

Next ==
  \/ Command
  \/ MainStep
  \/ SchedStep
  \/ \E t \in Threads : SpuriousWakeup(t) \/ Relock(t) \/ Deliver(t) \/ HandlerStep(t)
  \/ \E p \in Pids : ChildExits(p) \/ ChildKilled(p)

Spec == Init /\ [][Next]_vars

\* A thread that can go on does, and one that keeps asking for the mutex gets
\* it.  Nobody is obliged to type a command, and no child is obliged to end.
Fairness ==
  /\ SF_vars(MainStep)
  /\ SF_vars(SchedStep)
  /\ \A t \in Threads : SF_vars(Relock(t)) /\ SF_vars(HandlerStep(t))
  /\ WF_vars(\E t \in Threads : Deliver(t))

FairSpec == Spec /\ Fairness
=============================================================================
