------------------------- MODULE JobSchedProperties -------------------------
(***************************************************************************)
(* What must be true of the job scheduler of module JobSched: invariants,  *)
(* properties of its steps, progress, and that it implements JobService.   *)
(* The last section states what its comments promise and it does not do.   *)
(***************************************************************************)
EXTENDS JobSched

TypeOK ==
  /\ mutex \in Threads \cup {Free}
  /\ queue \in Seq(JobId)
  /\ njobs \in Nat
  /\ jobid \in 1..MaxJobs + 1
  /\ state \in [JobId -> {"none", "WAIT", "RUN", "DONE"}]
  /\ pid \in [JobId -> Pids \cup {NoPid}]
  /\ exit \in [JobId -> ExitCodes \cup {NoExit}]
  /\ pc \in [Threads -> {"fgets", "submit", "status", "drain", "remove", "njobs",
                         "spin", "drain_scan", "cond_wait", "relock", "unlock",
                         "unlock_fail", "install", "lock", "check", "fork", "record"}]
  /\ arg \in Nat
  /\ sel \in 0..MaxJobs
  /\ child \in Pids \cup {NoPid}
  /\ hpc \in [Threads -> {"off", "wait", "lock", "unlock"}]
  /\ hpid \in [Threads -> Pids \cup {NoPid}]
  /\ hcode \in [Threads -> ExitCodes \cup {NoExit}]
  /\ pending \in BOOLEAN
  /\ proc \in [Pids -> Process]
  /\ files \in SUBSET ({".", "./outputs"} \X JobId)
  /\ run \in {"up", "exited", "crashed"}

-----------------------------------------------------------------------------
(* Invariants.                                                             *)

\* A child not yet reaped belongs to a job that is in the list, in RUN, and
\* carries its pid, except between fork's return in run_job and the assignment
\* to job->pid.  So neither remove nor a second start can orphan a process.
ProcessRecorded ==
  \A p \in Pids : proc[p].st \in {"live", "exited", "killed"} =>
    LET j == proc[p].job
    IN  /\ j \in ToSet(queue) /\ state[j] = "RUN"
        /\ \/ pid[j] = p
           \/ pc["sched"] = "record" /\ sel = j /\ child = p

\* When the handler gets the mutex for the pid that wait() returned, the job of
\* that process is still in the list and is the one job_complete finds: the
\* search that follows the unlocked gap between wait() and the lock never ends
\* in "return 2" and never marks another job.
CompletionFindsJob ==
  \A t \in Threads : hpc[t] = "lock" /\ mutex = Free =>
    /\ PidAt(hpid[t]) # {}
    /\ queue[First(PidAt(hpid[t]))] = proc[hpid[t]].job

\* A job that is DONE carries the exit status of a process that ran it, has
\* ended and was waited for: the unlocked state read of the wait command, and
\* a removal of a DONE job, never get ahead of the process.
DoneMeansReaped ==
  \A j \in JobId : state[j] = "DONE" =>
    \E p \in Pids : proc[p] = [st |-> "reaped", job |-> j, code |-> exit[j]]

\* Each SIGCHLD that is pending or being handled has a zombie left for its
\* wait(), although the signal is raised and delivered long after one another
\* and a handler on either thread takes any child: wait() never blocks with the
\* interrupted thread's lock held and never fails with an unset status.
Claims == Cardinality({ t \in Threads : hpc[t] = "wait" }) + (IF pending THEN 1 ELSE 0)
ZombieForEachWait == Claims <= Cardinality(Zombies)

\* A job in RUN has a process whose end is still to be reported, or fork is
\* about to give it one: it does not count against njobs for ever.
RunningHasProcess ==
  \A j \in JobId : state[j] = "RUN" =>
    \/ sel = j /\ pc["sched"] = "fork"
    \/ \E p \in Pids :
         /\ proc[p].job = j
         /\ \/ proc[p].st # "reaped"
            \/ \E t \in Threads : hpc[t] = "lock" /\ hpid[t] = p

-----------------------------------------------------------------------------
(* Steps.                                                                  *)

\* drain lets go of the mutex while it waits and never goes back in the list,
\* and yet when its walk ends every job of the list is DONE.
DrainEndsDone ==
  [][ pc["main"] = "drain_scan" /\ pc'["main"] = "unlock"
      => \A j \in ToSet(queue) : state[j] = "DONE" ]_vars

\* When the wait command stops spinning, the job's process has ended and its
\* output file is there to be shown: remove_job cannot have taken it.
WaitFindsOutput ==
  [][ pc["main"] = "spin" /\ pc'["main"] = "fgets"
      => <<"./outputs", arg>> \in files ]_vars

-----------------------------------------------------------------------------
(* The scheduler implements the service.                                   *)

ServiceStatus(j) ==
  IF j \in ToSet(queue) THEN state[j]
  ELSE IF j < jobid /\ ~(pc["main"] = "submit" /\ arg = j) THEN "gone"
  ELSE "none"

Service == INSTANCE JobService WITH
             Limits <- 1..MaxLimit,
             status <- [j \in JobId |-> ServiceStatus(j)],
             result <- exit,
             limit  <- njobs,
             up     <- (run = "up")

\* Seen through the list, the scheduler numbers jobs in order, starts them in
\* that order and within njobs, finishes each once and removes none that runs:
\* every step of a thread, a handler or the kernel is a step of JobService.
ImplementsService == Service!Spec

-----------------------------------------------------------------------------
(* Progress, under FairSpec.  Two things stop the program for good, and the *)
(* properties say which of them excuses what.                               *)

\* The handler interrupted a thread inside a critical section: it waits for a
\* mutex only the code below it can release.
Wedged == \E t \in Threads : hpc[t] = "lock" /\ mutex = t

\* A child ended while SIGCHLD was still pending: one zombie too many.
Unclaimed == Cardinality(Zombies) > Claims

Down == run # "up"

\* A child that exits is recorded: unless a signal was lost or the handler has
\* locked the program up, its job becomes DONE.
ExitIsRecorded ==
  \A j \in JobId :
    (\E p \in Zombies : proc[p].st = "exited" /\ proc[p].job = j)
      ~> (state[j] = "DONE" \/ Unclaimed \/ Wedged \/ Down)

\* The scheduler never sleeps on a job it could start: no wakeup is lost
\* between job_complete or njobs and its pthread_cond_wait.
Startable(j) == /\ j \in ToSet(queue) /\ state[j] = "WAIT"
                /\ numJobsRunning < njobs
SlotIsUsed == \A j \in JobId : Startable(j) ~> (~Startable(j) \/ Wedged \/ Down)

\* drain returns once all jobs of the list are DONE, whichever of them it was
\* asleep on.
Draining == pc["main"] \in {"drain_scan", "cond_wait", "relock"}
DrainReturns ==
  Draining /\ (\A j \in ToSet(queue) : state[j] = "DONE")
    ~> (pc["main"] = "fgets" \/ Wedged \/ Down)

-----------------------------------------------------------------------------
(* What comments of jobsched.c promise, and the code does not do.          *)

\* jobsched.c:76-77: submit "should return immediately".
SubmitReturns == pc["main"] = "submit" ~> (pc["main"] = "fgets" \/ Down)

\* jobsched.c:155-157: removing a job "in the WAIT or DONE states" is a legal
\* command: no sequence of legal commands brings the scheduler down.
NeverCrashes == run # "crashed"
=============================================================================
