------------------------------ MODULE MyShell -------------------------------
(***************************************************************************)
(* "02. Processes and the Shell": myshell.c, the processes it starts, and  *)
(* what the kernel does for them.  Commands are read one at a time; start  *)
(* leaves a process behind, run and watchdog stay with theirs to its end,  *)
(* watchdog with a limit of time.                                          *)
(***************************************************************************)
EXTENDS Integers

CONSTANTS
  Pids,        \* what the kernel numbers processes with
  Any,         \* -1: what a failed fork returns; waitpid takes it for any child
  ExitCodes,   \* with which processes end on their own
  Signals,     \* of which processes die that the shell did not kill
  ForkFails    \* the kernel may refuse a process

SIGKILL == 9

ASSUME KernelAssumption ==
  /\ Any \notin Pids
  /\ ExitCodes \subseteq 0..255
  /\ Signals \subseteq 1..64
  /\ ForkFails \in BOOLEAN

VARIABLES
  pc,       \* "prompt", a place in a command, or "gone"
  cmd,      \* locals of the command: pid, kill_issued, and whether sleep was cut short
  proc,     \* for each pid: free, live or ended, its status, the command that made it
  handled,  \* SIGCHLD has a handler
  said      \* the last report

vars == <<pc, cmd, proc, handled, said>>

\* The status wait() fills in: an exit code, or the number of a signal.
Exited(code) == [exit |-> code, sig |-> 0]
Died(signal) == [exit |-> 0, sig |-> signal]
Ends         == { Exited(code) : code \in ExitCodes } \cup { Died(signal) : signal \in Signals }

Free     == [st |-> "free", status |-> Exited(0), by |-> "none"]
Child(c) == [st |-> "live", status |-> Exited(0), by |-> c]
Unsaid   == [text |-> "none", pid |-> Any, number |-> 0]
NoCmd    == [pid |-> Any, killed |-> FALSE, cut |-> FALSE]

Children == { p \in Pids : proc[p].st # "free" }
Ended    == { p \in Pids : proc[p].st = "ended" }

Init ==
  /\ pc = "prompt"
  /\ cmd = NoCmd
  /\ proc = [p \in Pids |-> Free]
  /\ handled = FALSE
  /\ said = Unsaid

-----------------------------------------------------------------------------
(* Commands.                                                               *)

\* fork() in command c, then the next place in it.  The child that cannot execute
\* the program ends with EXIT_FAILURE.
Fork(c, next) ==
  \/ \E p \in Pids \ Children :
       /\ proc' = [proc EXCEPT ![p] = Child(c)]
       /\ cmd' = IF next = "prompt" THEN NoCmd ELSE [NoCmd EXCEPT !.pid = p]
       /\ pc' = next
  \/ /\ ForkFails
     /\ cmd' = NoCmd
     /\ pc' = next
     /\ UNCHANGED proc

Start ==
  /\ pc = "prompt"
  /\ Fork("start", "prompt")
  /\ UNCHANGED <<handled, said>>

\* wait, and waitfor with a number.
Wait(n) ==
  /\ pc = "prompt"
  /\ cmd' = [NoCmd EXCEPT !.pid = n]
  /\ pc' = "wait"
  /\ UNCHANGED <<proc, handled, said>>

Run ==
  /\ pc = "prompt"
  /\ Fork("run", "reap")
  /\ UNCHANGED <<handled, said>>

Watchdog ==
  /\ pc = "prompt"
  /\ Fork("watchdog", "watch")
  /\ UNCHANGED <<handled, said>>

\* End of input.  So does a command that needs a word and has none: atoi(NULL).
Quit ==
  /\ pc = "prompt"
  /\ pc' = "gone"
  /\ UNCHANGED <<cmd, proc, handled, said>>

-----------------------------------------------------------------------------
(* watchdog                                                                *)

InstallHandler ==
  /\ pc = "watch"
  /\ handled' = TRUE
  /\ pc' = "sleep"
  /\ UNCHANGED <<cmd, proc, said>>

\* sleep returns 0: the time is over.  Slip: the kill is forgotten.
NoKill ==
  /\ pc = "sleep"
  /\ pc' = "reap"
  /\ UNCHANGED <<cmd, proc, handled, said>>

SleepEnds ==
  /\ pc = "sleep"
  /\ pc' = "kill"
  /\ UNCHANGED <<cmd, proc, handled, said>>

\* The pid -1 of a failed fork is everybody.  Nothing happens to ended processes.
Kill ==
  /\ pc = "kill"
  /\ proc' = [p \in Pids |->
                IF proc[p].st = "live" /\ cmd.pid \in {p, Any}
                THEN [proc[p] EXCEPT !.st = "ended", !.status = Died(SIGKILL)]
                ELSE proc[p]]
  /\ cmd' = [cmd EXCEPT !.killed = TRUE]
  /\ pc' = "reap"
  /\ UNCHANGED <<handled, said>>

-----------------------------------------------------------------------------
(* Waiting.                                                                *)

\* Slip: the status itself is taken for the exit code.
Status(status)      == 256 * status.exit + status.sig
WEXITSTATUS(status) == status.exit
WTERMSIG(status)    == status.sig

\* Slip: any child will do.
AnyAwaited == Children
Awaited    == { p \in Children : cmd.pid \in {p, Any} }

\* The pid that is printed: run and watchdog print the one they keep, -1 after a
\* failed fork, wait and waitfor the one that was returned.
Printed(p) == IF pc = "reap" THEN cmd.pid ELSE p

\* What is printed about a process that has ended.  Slip: only the exit code is
\* looked at, not the whole status.
CodeReport(p) ==
  LET status == proc[p].status
  IN  CASE cmd.killed ->
             [text |-> "killed", pid |-> Printed(p), number |-> WTERMSIG(status)]
        [] ~cmd.killed /\ status.exit # 0 ->
             [text |-> "abnormally", pid |-> Printed(p), number |-> WEXITSTATUS(status)]
        [] OTHER ->
             [text |-> "normally", pid |-> Printed(p), number |-> WEXITSTATUS(status)]
Report(p) ==
  LET status == proc[p].status
  IN  CASE cmd.killed ->
             [text |-> "killed", pid |-> Printed(p), number |-> WTERMSIG(status)]
        [] ~cmd.killed /\ status # Exited(0) ->
             [text |-> "abnormally", pid |-> Printed(p), number |-> WEXITSTATUS(status)]
        [] OTHER ->
             [text |-> "normally", pid |-> Printed(p), number |-> WEXITSTATUS(status)]

\* wait() or waitpid() returns.  The handler does not end them: signal() has the
\* call restarted.
Reap ==
  /\ pc \in {"wait", "reap"}
  /\ \E p \in Awaited \cap Ended :
       /\ said' = Report(p)
       /\ proc' = [proc EXCEPT ![p] = Free]
  /\ cmd' = NoCmd
  /\ pc' = "prompt"
  /\ UNCHANGED handled

\* ECHILD.  run and watchdog call waitpid again, for ever.
NoChildren ==
  /\ pc = "wait"
  /\ Awaited = {}
  /\ said' = Unsaid
  /\ cmd' = NoCmd
  /\ pc' = "prompt"
  /\ UNCHANGED <<proc, handled>>

-----------------------------------------------------------------------------
(* Processes.                                                              *)

\* A process ends; SIGCHLD, which is ignored where there is no handler, cuts a
\* sleep short.  What is left of the time is returned in seconds, rounded down.
\* Slip: the handler waits for the process, as that of the job scheduler does.
ReapedByHandler(p) ==
  /\ pc # "gone"
  /\ proc[p].st = "live"
  /\ \E status \in Ends :
       proc' = [proc EXCEPT ![p] = IF handled THEN Free
                                   ELSE [@ EXCEPT !.st = "ended", !.status = status]]
  /\ IF pc = "sleep"
     THEN \/ pc' = "reap" /\ cmd' = [cmd EXCEPT !.cut = TRUE]
          \/ pc' = "kill" /\ UNCHANGED cmd
     ELSE UNCHANGED <<pc, cmd>>
  /\ UNCHANGED <<handled, said>>

ChildEnds(p) ==
  /\ pc # "gone"
  /\ proc[p].st = "live"
  /\ \E status \in Ends :
       proc' = [proc EXCEPT ![p].st = "ended", ![p].status = status]
  /\ IF pc = "sleep"
     THEN \/ pc' = "reap" /\ cmd' = [cmd EXCEPT !.cut = TRUE]
          \/ pc' = "kill" /\ UNCHANGED cmd
     ELSE UNCHANGED <<pc, cmd>>
  /\ UNCHANGED <<handled, said>>

-----------------------------------------------------------------------------
Shell ==
  \/ Start \/ (\E n \in Pids \cup {Any} : Wait(n)) \/ Run \/ Watchdog \/ Quit
  \/ InstallHandler \/ SleepEnds \/ Kill \/ Reap \/ NoChildren

Next == Shell \/ \E p \in Pids : ChildEnds(p)

Spec == Init /\ [][Next]_vars

\* The shell goes on within a command, and time passes.  Nobody need type a
\* command, and no process need ever end.
Fairness == WF_vars(InstallHandler \/ SleepEnds \/ Kill \/ Reap \/ NoChildren)

FairSpec == Spec /\ Fairness

-----------------------------------------------------------------------------
(* Properties.                                                             *)

Statuses == Ends \cup {Exited(0), Died(SIGKILL)}

\* The types of the variables.
TypeOK ==
  /\ pc \in {"prompt", "wait", "watch", "sleep", "kill", "reap", "gone"}
  /\ cmd \in [pid : Pids \cup {Any}, killed : BOOLEAN, cut : BOOLEAN]
  /\ proc \in [Pids -> [st : {"free", "live", "ended"}, status : Statuses,
                        by : {"none", "start", "run", "watchdog"}]]
  /\ handled \in BOOLEAN
  /\ said \in [text : {"none", "normally", "abnormally", "killed"},
               pid : Pids \cup {Any}, number : 0..255]

\* The pid that run and watchdog keep, for kill and for waitpid, names their own
\* process as long as they need it: nobody reaps it before they do, so that the
\* kernel cannot have given its number to another one.
OwnPidIsCurrent ==
  pc \in {"watch", "sleep", "kill", "reap"} /\ cmd.pid # Any
    => proc[cmd.pid].st # "free" /\ proc[cmd.pid].by \in {"run", "watchdog"}

\* A process left behind by start stays until wait or waitfor reports it, through
\* any run and watchdog in between, unless the fork of one of these failed.
StartedAreKept ==
  [][ \A p \in Pids :
        proc[p].by = "start" /\ proc'[p].by # "start" => pc = "wait" \/ cmd.pid = Any ]_vars

\* Whichever process is waited for had ended and is reported: under its own pid, or
\* -1 in run and watchdog when their fork had failed.  The report tells a normal end
\* from others.  Of a process that was killed at the limit it tells the kill; of one
\* that ended by itself when the time was over it may tell anything.
ReportTells ==
  [][ \A p \in Pids : proc[p].st # "free" /\ proc'[p].st = "free" =>
        /\ proc[p].st = "ended"
        /\ said'.pid = IF pc = "reap" /\ cmd.pid = Any THEN Any ELSE p
        /\ ~cmd.killed => (said'.text = "normally") = (proc[p].status = Exited(0))
        /\ proc[p].by = "watchdog" /\ proc[p].status = Died(SIGKILL)
             => said'.text = "killed" /\ said'.number = SIGKILL ]_vars

\* Commands come back.  watchdog does although its process never ends, unless the
\* end of another process has cut its sleep short, or its fork failed; run, wait and
\* waitfor do once a process they wait for has ended, and wait and waitfor when
\* there is none.
CommandsEnd ==
  /\ (pc = "watch" /\ cmd.pid # Any) ~> (pc = "prompt" \/ cmd.cut)
  /\ (pc \in {"wait", "reap"} /\ (Awaited \cap Ended # {} \/ (pc = "wait" /\ Awaited = {})))
       ~> (pc = "prompt")
=============================================================================
