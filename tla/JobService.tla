----------------------------- MODULE JobService -----------------------------
(***************************************************************************)
(* What the job scheduler of "04. Job Scheduler" promises to the person    *)
(* typing commands, independent of threads, locks, signals and processes:  *)
(* jobs are numbered in the order they are submitted, wait, run at most    *)
(* `limit' at a time in that order, finish once with one exit status, and  *)
(* leave the table only when they are not running.                         *)
(***************************************************************************)
EXTENDS Integers, FiniteSets

CONSTANTS
  JobId,      \* the numbers create_job can give to a job
  ExitCodes,  \* the exit statuses a program can return
  NoExit,     \* the exit field of a job that has not finished
  Limits      \* the numbers of jobs that may be allowed to run at once

VARIABLES
  status,     \* status[j]: "none" (not submitted), WAIT, RUN, DONE or "gone"
  result,     \* result[j]: exit status of a finished job
  limit,      \* how many jobs may run at once
  up          \* the scheduler program is running

serviceVars == <<status, result, limit, up>>

Running == { j \in JobId : status[j] = "RUN" }

Init ==
  /\ status = [j \in JobId |-> "none"]
  /\ result = [j \in JobId |-> NoExit]
  /\ limit = 1
  /\ up = TRUE

Submit(j) ==
  /\ status[j] = "none"
  /\ \A i \in JobId : i < j => status[i] # "none"
  /\ status' = [status EXCEPT ![j] = "WAIT"]
  /\ UNCHANGED <<result, limit, up>>

Start(j) ==
  /\ status[j] = "WAIT"
  /\ \A i \in JobId : i < j => status[i] # "WAIT"
  /\ Cardinality(Running) < limit
  /\ status' = [status EXCEPT ![j] = "RUN"]
  /\ UNCHANGED <<result, limit, up>>

Finish(j, code) ==
  /\ status[j] = "RUN"
  /\ status' = [status EXCEPT ![j] = "DONE"]
  /\ result' = [result EXCEPT ![j] = code]
  /\ UNCHANGED <<limit, up>>

Remove(j) ==
  /\ status[j] \in {"WAIT", "DONE"}
  /\ status' = [status EXCEPT ![j] = "gone"]
  /\ UNCHANGED <<result, limit, up>>

SetLimit(n) ==
  /\ limit' = n
  /\ UNCHANGED <<status, result, up>>

Stop ==
  /\ up' = FALSE
  /\ UNCHANGED <<status, result, limit>>

Next ==
  /\ up
  /\ \/ \E j \in JobId :
          \/ Submit(j)
          \/ Start(j)
          \/ \E code \in ExitCodes : Finish(j, code)
          \/ Remove(j)
     \/ \E n \in Limits : SetLimit(n)
     \/ Stop

Spec == Init /\ [][Next]_serviceVars
=============================================================================
