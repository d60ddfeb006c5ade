--------------------------- MODULE MyShellProofs ----------------------------
(***************************************************************************)
(* For any processes, exit codes and signals, and wherever a fork fails:   *)
(* the commands of myshell.c act on the processes they mean to act on, and *)
(* what they report is true.                                               *)
(***************************************************************************)
EXTENDS MyShell, TLAPS

-----------------------------------------------------------------------------
(* Types.                                                                  *)

\* What is printed about a process.
LEMMA ReportType ==
  ASSUME TypeOK, NEW p \in Pids
  PROVE  /\ Report(p) \in [text : {"none", "normally", "abnormally", "killed"},
                           pid : Pids \cup {Any}, number : 0..255]
         /\ Report(p).pid = Printed(p)
<1> DEFINE status == proc[p].status
<1>1. status \in Statuses
  BY DEF TypeOK
<1>2. \A s \in Statuses : s.exit \in 0..255 /\ s.sig \in 0..255
  BY KernelAssumption DEF Statuses, Ends, Exited, Died, SIGKILL
<1>3. WTERMSIG(status) \in 0..255 /\ WEXITSTATUS(status) \in 0..255
  BY <1>1, <1>2 DEF WTERMSIG, WEXITSTATUS
<1>7. Printed(p) \in Pids \cup {Any}
  BY DEF Printed, TypeOK
<1> HIDE DEF status
<1>4. CASE cmd.killed
  BY <1>3, <1>4, <1>7 DEF Report, status
<1>5. CASE ~cmd.killed /\ status # Exited(0)
  BY <1>3, <1>5, <1>7 DEF Report, status
<1>6. CASE ~cmd.killed /\ status = Exited(0)
  BY <1>3, <1>6, <1>7 DEF Report, status
<1> QED
  BY <1>4, <1>5, <1>6

\* fork() in any of the three commands.
LEMMA ForkType ==
  ASSUME TypeOK, NEW c \in {"start", "run", "watchdog"},
         NEW next \in {"prompt", "reap", "watch"}, Fork(c, next),
         UNCHANGED <<handled, said>>
  PROVE  TypeOK'
<1>1. Child(c) \in [st : {"free", "live", "ended"}, status : Statuses,
                    by : {"none", "start", "run", "watchdog"}]
  BY DEF Child, Statuses
<1>2. NoCmd \in [pid : Pids \cup {Any}, killed : BOOLEAN, cut : BOOLEAN]
  BY DEF NoCmd
<1>3. ASSUME NEW p \in Pids
      PROVE  [NoCmd EXCEPT !.pid = p] \in [pid : Pids \cup {Any}, killed : BOOLEAN, cut : BOOLEAN]
  BY <1>2
<1> QED
  BY <1>1, <1>2, <1>3 DEF Fork, TypeOK, Children

Processes == [st : {"free", "live", "ended"}, status : Statuses,
              by : {"none", "start", "run", "watchdog"}]

\* A process in the table ends.
LEMMA EndedType ==
  ASSUME NEW r \in Processes, NEW s \in Statuses
  PROVE  /\ [r EXCEPT !.st = "ended", !.status = s] \in Processes
         /\ [r EXCEPT !.st = "ended", !.status = s].st = "ended"
         /\ [r EXCEPT !.st = "ended", !.status = s].status = s
         /\ [r EXCEPT !.st = "ended", !.status = s].by = r.by
  BY DEF Processes

LEMMA InitType == Init => TypeOK
<1> SUFFICES ASSUME Init PROVE TypeOK
  OBVIOUS
<1>1. Free \in [st : {"free", "live", "ended"}, status : Statuses,
                by : {"none", "start", "run", "watchdog"}]
  BY DEF Free, Statuses
<1>2. Unsaid \in [text : {"none", "normally", "abnormally", "killed"},
                  pid : Pids \cup {Any}, number : 0..255]
  BY DEF Unsaid
<1>3. NoCmd \in [pid : Pids \cup {Any}, killed : BOOLEAN, cut : BOOLEAN]
  BY DEF NoCmd
<1> QED
  BY <1>1, <1>2, <1>3 DEF Init, TypeOK

LEMMA NextType == TypeOK /\ [Next]_vars => TypeOK'
<1> SUFFICES ASSUME TypeOK, [Next]_vars PROVE TypeOK'
  OBVIOUS
<1> DEFINE Commands == [pid : Pids \cup {Any}, killed : BOOLEAN, cut : BOOLEAN]
<1>1. CASE Start \/ Run \/ Watchdog
  BY <1>1, ForkType DEF Start, Run, Watchdog
<1>2. ASSUME NEW n \in Pids \cup {Any}, Wait(n) PROVE TypeOK'
  <2>1. cmd' \in Commands
    BY <1>2 DEF Wait, NoCmd
  <2>2. pc' = "wait" /\ UNCHANGED <<proc, handled, said>>
    BY <1>2 DEF Wait
  <2> QED
    BY <2>1, <2>2, Zenon DEF TypeOK
<1>3. CASE Quit \/ InstallHandler \/ SleepEnds
  BY <1>3 DEF Quit, InstallHandler, SleepEnds, TypeOK
<1>4. CASE Kill
  <2>1. Died(SIGKILL) \in Statuses
    BY DEF Statuses
  <2>2. \A p \in Pids : [proc[p] EXCEPT !.st = "ended", !.status = Died(SIGKILL)] \in Processes
    BY <2>1, EndedType DEF TypeOK, Processes
  <2>3. proc' \in [Pids -> Processes]
    BY <1>4, <2>2 DEF Kill, TypeOK, Processes
  <2> QED
    BY <1>4, <2>3 DEF Kill, TypeOK, Processes
<1>5. CASE Reap
  <2>1. PICK p \in Pids : said' = Report(p) /\ proc' = [proc EXCEPT ![p] = Free]
    BY <1>5 DEF Reap, Ended
  <2>2. Free \in Processes /\ NoCmd \in Commands
    BY DEF Free, Statuses, NoCmd, Processes
  <2> QED
    BY <1>5, <2>1, <2>2, ReportType DEF Reap, TypeOK, Processes
<1>6. CASE NoChildren
  BY <1>6 DEF NoChildren, TypeOK, Unsaid, NoCmd
<1>7. ASSUME NEW p \in Pids, ChildEnds(p) PROVE TypeOK'
  <2>1. PICK status \in Ends :
          proc' = [proc EXCEPT ![p].st = "ended", ![p].status = status]
    BY <1>7 DEF ChildEnds
  <2>2. status \in Statuses
    BY DEF Statuses
  <2>3. proc' = [proc EXCEPT ![p] = [@ EXCEPT !.st = "ended", !.status = status]]
    BY <2>1
  <2>4. [proc[p] EXCEPT !.st = "ended", !.status = status] \in Processes
    BY <2>2, EndedType DEF TypeOK, Processes
  <2>5. proc' \in [Pids -> Processes]
    BY <2>3, <2>4 DEF TypeOK, Processes
  <2>6. pc' \in {pc, "reap", "kill"} /\ UNCHANGED <<handled, said>>
        /\ (cmd' = cmd \/ cmd' = [cmd EXCEPT !.cut = TRUE])
    BY <1>7 DEF ChildEnds
  <2>7. cmd' \in Commands
    BY <2>6 DEF TypeOK
  <2> QED
    BY <2>5, <2>6, <2>7 DEF TypeOK, Processes
<1>8. CASE UNCHANGED vars
  BY <1>8 DEF vars, TypeOK
<1> QED
  BY <1>1, <1>2, <1>3, <1>4, <1>5, <1>6, <1>7, <1>8 DEF Next, Shell

\* The types of the variables; what is printed as a code or a signal fits a byte.
THEOREM TypeCorrect == Spec => []TypeOK
  BY InitType, NextType, PTL DEF Spec

-----------------------------------------------------------------------------
(* Whose process is whose.                                                 *)

Watching == pc \in {"watch", "sleep", "kill", "reap"}

\* A pid that is not in use has no status and no command.
FreeInv == \A p \in Pids : proc[p].st = "free" => proc[p] = Free

\* run and watchdog are the only ones to know their process, and know no other.
OwnInv ==
  \A p \in Pids : proc[p].by \in {"run", "watchdog"} => Watching /\ cmd.pid = p

IInv == TypeOK /\ FreeInv /\ OwnInv /\ OwnPidIsCurrent

LEMMA InitIInv == Init => IInv
<1> SUFFICES ASSUME Init PROVE IInv
  OBVIOUS
<1>1. \A p \in Pids : proc[p] = Free /\ Free.by = "none"
  BY DEF Init, Free
<1>2. pc = "prompt"
  BY DEF Init
<1> QED
  BY <1>1, <1>2, InitType DEF IInv, FreeInv, OwnInv, OwnPidIsCurrent

\* fork() gives out a pid that is not in use, to the command that keeps it, if any
\* does.
LEMMA ForkKeeps ==
  ASSUME IInv, pc = "prompt",
         \/ Fork("start", "prompt") \/ Fork("run", "reap") \/ Fork("watchdog", "watch")
  PROVE  FreeInv' /\ OwnInv' /\ OwnPidIsCurrent'
<1>1. /\ proc \in [Pids -> Processes]
      /\ NoCmd.pid = Any
  BY DEF IInv, TypeOK, Processes, NoCmd
<1>2. \A p \in Pids : proc[p].by \notin {"run", "watchdog"}
  BY DEF IInv, OwnInv, Watching
<1>3. CASE proc' = proc /\ cmd' = NoCmd
  BY <1>1, <1>2, <1>3 DEF IInv, FreeInv, OwnInv, OwnPidIsCurrent
<1>4. ASSUME NEW c \in {"start", "run", "watchdog"}, NEW p \in Pids \ Children,
             proc' = [proc EXCEPT ![p] = Child(c)],
             \/ c = "start" /\ pc' = "prompt"
             \/ c # "start" /\ pc' \in {"reap", "watch"} /\ cmd' = [NoCmd EXCEPT !.pid = p]
      PROVE  FreeInv' /\ OwnInv' /\ OwnPidIsCurrent'
  <2>1. Child(c).st = "live" /\ Child(c).by = c
    BY DEF Child
  <2>2. FreeInv'
    BY <1>1, <1>4, <2>1 DEF IInv, FreeInv
  <2>3. c # "start" => cmd'.pid = p
    BY <1>4 DEF NoCmd
  <2>4. OwnInv'
    BY <1>1, <1>2, <1>4, <2>1, <2>3 DEF OwnInv, Watching
  <2>5. OwnPidIsCurrent'
    BY <1>1, <1>4, <2>1, <2>3 DEF OwnPidIsCurrent
  <2> QED
    BY <2>2, <2>4, <2>5
<1> QED
  BY <1>3, <1>4 DEF Fork

LEMMA NextIInv == IInv /\ [Next]_vars => IInv'
<1> SUFFICES ASSUME IInv, [Next]_vars PROVE IInv'
  OBVIOUS
<1>1. TypeOK'
  BY NextType DEF IInv
<1>2. FreeInv' /\ OwnInv' /\ OwnPidIsCurrent'
  <2>1. /\ proc \in [Pids -> Processes]
        /\ cmd \in [pid : Pids \cup {Any}, killed : BOOLEAN, cut : BOOLEAN]
    BY DEF IInv, TypeOK, Processes
  <2>2. CASE Start \/ Run \/ Watchdog
    BY <2>2, ForkKeeps DEF Start, Run, Watchdog
  <2>3. ASSUME UNCHANGED proc, ~Watching, pc' \in {"prompt", "wait", "gone"}
        PROVE  FreeInv' /\ OwnInv' /\ OwnPidIsCurrent'
    BY <2>3 DEF IInv, FreeInv, OwnInv, OwnPidIsCurrent, Watching
  <2>4. ASSUME NEW n \in Pids \cup {Any}, Wait(n)
        PROVE  FreeInv' /\ OwnInv' /\ OwnPidIsCurrent'
    BY <2>3, <2>4 DEF Wait, Watching
  <2>5. CASE Quit \/ NoChildren
    BY <2>3, <2>5 DEF Quit, NoChildren, Watching
  <2>6. CASE InstallHandler \/ SleepEnds
    BY <2>6 DEF InstallHandler, SleepEnds, IInv, FreeInv, OwnInv, OwnPidIsCurrent, Watching
  <2>7. ASSUME Watching, Watching', cmd'.pid = cmd.pid, DOMAIN proc' = Pids,
               \A p \in Pids : \/ proc'[p] = proc[p]
                               \/ /\ proc[p].st = "live" /\ proc'[p].st = "ended"
                                  /\ proc'[p].by = proc[p].by
        PROVE  FreeInv' /\ OwnInv' /\ OwnPidIsCurrent'
    <3>1. \A p \in Pids : /\ proc'[p].by = proc[p].by
                          /\ proc'[p].st = "free" => proc'[p] = proc[p]
                          /\ proc'[p].st = "free" <=> proc[p].st = "free"
      BY <2>7
    <3>2. FreeInv'
      BY <3>1 DEF IInv, FreeInv
    <3>3. OwnInv'
      BY <3>1, <2>7 DEF IInv, OwnInv
    <3>4. OwnPidIsCurrent'
      BY <2>1, <3>1, <2>7 DEF IInv, OwnPidIsCurrent, Watching
    <3> QED
      BY <3>2, <3>3, <3>4
  <2>8. CASE Kill
    <3>1. cmd'.pid = cmd.pid /\ Watching /\ Watching'
      BY <2>1, <2>8 DEF Kill, Watching
    <3>2. Died(SIGKILL) \in Statuses
      BY DEF Statuses
    <3>3. ASSUME NEW p \in Pids
          PROVE  \/ proc'[p] = proc[p]
                 \/ /\ proc[p].st = "live" /\ proc'[p].st = "ended"
                    /\ proc'[p].by = proc[p].by
      <4> DEFINE e == [proc[p] EXCEPT !.st = "ended", !.status = Died(SIGKILL)]
      <4>0. proc[p] \in Processes
        BY <2>1
      <4>1. e.st = "ended" /\ e.by = proc[p].by
        BY <4>0, <3>2, EndedType, Zenon
      <4>2. proc'[p] = proc[p] \/ (proc[p].st = "live" /\ proc'[p] = e)
        BY <2>8 DEF Kill
      <4> HIDE DEF e
      <4> QED
        BY <4>1, <4>2
    <3>4. DOMAIN proc' = Pids
      BY <2>8 DEF Kill
    <3> QED
      BY <2>7, <3>1, <3>3, <3>4
  <2>9. CASE Reap
    <3>1. PICK p \in Awaited \cap Ended : proc' = [proc EXCEPT ![p] = Free]
      BY <2>9 DEF Reap
    <3>2. p \in Pids /\ cmd.pid \in {p, Any} /\ pc' = "prompt"
      BY <2>9, <3>1 DEF Reap, Awaited, Ended
    <3>3. Free.by = "none"
      BY DEF Free
    <3>4. \A q \in Pids : proc'[q].by \notin {"run", "watchdog"}
      <4> SUFFICES ASSUME NEW q \in Pids, q # p
                   PROVE  proc[q].by \notin {"run", "watchdog"}
        BY <2>1, <3>1, <3>2, <3>3
      <4>1. CASE cmd.pid = p
        BY <4>1 DEF IInv, OwnInv
      <4>2. CASE cmd.pid = Any
        BY <4>2, KernelAssumption DEF IInv, OwnInv
      <4> QED
        BY <4>1, <4>2, <3>2
    <3> QED
      BY <2>1, <3>1, <3>2, <3>4 DEF IInv, FreeInv, OwnInv, OwnPidIsCurrent
  <2>10. ASSUME NEW p \in Pids, ChildEnds(p)
         PROVE  FreeInv' /\ OwnInv' /\ OwnPidIsCurrent'
    <3>1. PICK status \in Ends :
            proc' = [proc EXCEPT ![p].st = "ended", ![p].status = status]
      BY <2>10 DEF ChildEnds
    <3> DEFINE e == [proc[p] EXCEPT !.st = "ended", !.status = status]
    <3>2. proc' = [proc EXCEPT ![p] = e]
      BY <3>1
    <3>3. status \in Statuses /\ proc[p].st = "live"
      BY <2>10 DEF Statuses, ChildEnds
    <3>4. /\ \A q \in Pids : q # p => proc'[q] = proc[q]
          /\ proc'[p].st = "ended" /\ proc'[p].by = proc[p].by
          /\ DOMAIN proc' = Pids
      <4>0. proc[p] \in Processes
        BY <2>1
      <4>1. e.st = "ended" /\ e.by = proc[p].by
        BY <4>0, <3>3, EndedType, Zenon
      <4> HIDE DEF e
      <4> QED
        BY <2>1, <3>2, <4>1
    <3>5. /\ cmd'.pid = cmd.pid
          /\ \/ Watching /\ Watching'
             \/ ~Watching /\ pc' = pc
             \/ Watching /\ pc' = pc
      BY <2>1, <2>10 DEF ChildEnds, Watching
    <3>6. CASE Watching /\ Watching'
      BY <2>7, <3>3, <3>4, <3>5, <3>6
    <3>7. CASE ~Watching /\ pc' = pc
      BY <3>3, <3>4, <3>7 DEF IInv, FreeInv, OwnInv, OwnPidIsCurrent, Watching
    <3> QED
      BY <3>5, <3>6, <3>7 DEF Watching
  <2>11. CASE UNCHANGED vars
    BY <2>11 DEF vars, IInv, FreeInv, OwnInv, OwnPidIsCurrent, Watching
  <2> QED
    BY <2>2, <2>4, <2>5, <2>6, <2>8, <2>9, <2>10, <2>11 DEF Next, Shell
<1> QED
  BY <1>1, <1>2 DEF IInv

LEMMA Inductive == Spec => []IInv
  BY InitIInv, NextIInv, PTL DEF Spec

\* While run and watchdog need the pid they keep, the kernel cannot have given it to
\* another process.
THEOREM OwnPidsAreCurrent == Spec => []OwnPidIsCurrent
<1>1. IInv => OwnPidIsCurrent
  BY DEF IInv
<1> QED
  BY <1>1, Inductive, PTL

\* A process left behind by start is reaped by wait and waitfor only, unless the
\* fork of a run or watchdog failed.
THEOREM StartedStay == Spec => StartedAreKept
<1>1. ASSUME IInv, [Next]_vars, NEW p \in Pids,
             proc[p].by = "start", proc'[p].by # "start"
      PROVE  pc = "wait" \/ cmd.pid = Any
  <2>1. proc \in [Pids -> Processes]
    BY <1>1 DEF IInv, TypeOK, Processes
  <2>2. proc[p].st # "free"
    BY <1>1 DEF IInv, FreeInv, Free
  <2>3. ASSUME NEW c \in {"start", "run", "watchdog"}, NEW next, Fork(c, next)
        PROVE  FALSE
    BY <1>1, <2>1, <2>2, <2>3 DEF Fork, Children
  <2>4. CASE Reap
    <3>1. PICK q \in Awaited \cap Ended : proc' = [proc EXCEPT ![q] = Free]
      BY <2>4 DEF Reap
    <3>2. q = p /\ cmd.pid \in {p, Any}
      BY <1>1, <2>1, <3>1 DEF Awaited
    <3>3. CASE pc = "reap" /\ cmd.pid # Any
      BY <1>1, <3>2, <3>3 DEF IInv, OwnPidIsCurrent
    <3> QED
      BY <2>4, <3>3 DEF Reap
  <2>5. CASE Kill
    <3>1. Died(SIGKILL) \in Statuses
      BY DEF Statuses
    <3> DEFINE e == [proc[p] EXCEPT !.st = "ended", !.status = Died(SIGKILL)]
    <3>2. e.by = proc[p].by
      BY <2>1, <3>1, EndedType
    <3>3. proc'[p] = proc[p] \/ proc'[p] = e
      BY <2>5 DEF Kill
    <3> QED
      BY <1>1, <3>2, <3>3
  <2>6. ASSUME NEW q \in Pids, ChildEnds(q) PROVE FALSE
    <3>1. PICK status \in Ends :
            proc' = [proc EXCEPT ![q].st = "ended", ![q].status = status]
      BY <2>6 DEF ChildEnds
    <3> DEFINE e == [proc[q] EXCEPT !.st = "ended", !.status = status]
    <3>2. proc' = [proc EXCEPT ![q] = e]
      BY <3>1
    <3>3. status \in Statuses
      BY DEF Statuses
    <3>4. e.by = proc[q].by
      BY <2>1, <3>3, EndedType
    <3> HIDE DEF e
    <3> QED
      BY <1>1, <2>1, <3>2, <3>4
  <2>7. CASE UNCHANGED proc
    BY <1>1, <2>7
  <2>8. ASSUME NEW n \in Pids \cup {Any}, Wait(n) PROVE FALSE
    BY <2>7, <2>8, <1>1 DEF Wait
  <2> QED
    BY <1>1, <2>3, <2>4, <2>5, <2>6, <2>7, <2>8
       DEF Next, Shell, Start, Run, Watchdog, Quit, InstallHandler, SleepEnds,
           NoChildren, vars
<1>2. IInv /\ [Next]_vars
      => [\A p \in Pids : proc[p].by = "start" /\ proc'[p].by # "start"
                            => pc = "wait" \/ cmd.pid = Any]_vars
  BY <1>1
<1> QED
  BY <1>2, Inductive, PTL DEF Spec, StartedAreKept

-----------------------------------------------------------------------------
(* Reports.  That a process was killed at the limit is known from kill_issued *)
(* of the command that is still at it.                                     *)

KillInv ==
  \A p \in Pids : proc[p].by = "watchdog" /\ proc[p].status = Died(SIGKILL) => cmd.killed

\* Only the shell kills: processes do not die of SIGKILL for other reasons.
LEMMA KillsAreIssued ==
  ASSUME SIGKILL \notin Signals
  PROVE  Spec => []KillInv
<1>1. \A status \in Ends \cup {Exited(0)} : status # Died(SIGKILL)
  BY DEF Ends, Exited, Died, SIGKILL
<1>2. Init => KillInv
  BY DEF Init, KillInv, Free
<1>3. ASSUME IInv, KillInv, [Next]_vars, IInv' PROVE KillInv'
  <2>1. /\ proc \in [Pids -> Processes]
        /\ cmd \in [pid : Pids \cup {Any}, killed : BOOLEAN, cut : BOOLEAN]
    BY <1>3 DEF IInv, TypeOK, Processes
  <2>2. ASSUME ~Watching' PROVE KillInv'
    BY <1>3, <2>2 DEF IInv, OwnInv, KillInv
  <2>3. ASSUME UNCHANGED <<proc, cmd>> PROVE KillInv'
    BY <1>3, <2>3 DEF KillInv
  <2>4. CASE Start \/ Run \/ Watchdog
    <3>1. \A p \in Pids : proc[p].by # "watchdog"
      BY <1>3, <2>4 DEF Start, Run, Watchdog, IInv, OwnInv, Watching
    <3>2. \A c \in {"start", "run", "watchdog"} : Child(c).status # Died(SIGKILL)
      BY <1>1 DEF Child
    <3>3. \A p \in Pids : \/ proc'[p] = proc[p]
                          \/ \E c \in {"start", "run", "watchdog"} : proc'[p] = Child(c)
      BY <2>1, <2>4 DEF Start, Run, Watchdog, Fork
    <3> QED
      BY <3>1, <3>2, <3>3 DEF KillInv
  <2>5. ASSUME NEW n \in Pids \cup {Any}, Wait(n) PROVE KillInv'
    BY <2>2, <2>5 DEF Wait, Watching
  <2>6. CASE Quit \/ NoChildren \/ Reap
    BY <2>2, <2>6 DEF Quit, NoChildren, Reap, Watching
  <2>7. CASE InstallHandler \/ SleepEnds
    BY <2>3, <2>7 DEF InstallHandler, SleepEnds
  <2>8. CASE Kill
    BY <2>1, <2>8 DEF Kill, KillInv
  <2>9. ASSUME NEW p \in Pids, ChildEnds(p) PROVE KillInv'
    <3>1. PICK status \in Ends :
            proc' = [proc EXCEPT ![p].st = "ended", ![p].status = status]
      BY <2>9 DEF ChildEnds
    <3> DEFINE e == [proc[p] EXCEPT !.st = "ended", !.status = status]
    <3>2. proc' = [proc EXCEPT ![p] = e]
      BY <3>1
    <3>3. status \in Statuses /\ proc[p] \in Processes
      BY <2>1 DEF Statuses
    <3>4. e.status = status
      BY <3>3, EndedType, Zenon
    <3>5. cmd'.killed = cmd.killed
      BY <2>1, <2>9 DEF ChildEnds
    <3> HIDE DEF e
    <3> QED
      BY <1>1, <1>3, <2>1, <3>1, <3>2, <3>4, <3>5 DEF KillInv
  <2>10. CASE UNCHANGED vars
    BY <2>3, <2>10 DEF vars
  <2> QED
    BY <1>3, <2>4, <2>5, <2>6, <2>7, <2>8, <2>9, <2>10 DEF Next, Shell
<1> QED
  BY <1>2, <1>3, Inductive, PTL DEF Spec

\* Whoever leaves the table of processes was waited for, after it had ended.
LEMMA OnlyReapFrees ==
  ASSUME IInv, [Next]_vars, NEW p \in Pids, proc[p].st # "free", proc'[p].st = "free"
  PROVE  Reap /\ p \in Awaited \cap Ended /\ said' = Report(p)
<1>1. proc \in [Pids -> Processes]
  BY DEF IInv, TypeOK, Processes
<1>2. CASE UNCHANGED proc
  BY <1>2
<1>3. ASSUME NEW c \in {"start", "run", "watchdog"}, NEW next, Fork(c, next) PROVE FALSE
  <2>1. PICK q \in Pids \ Children : proc' = [proc EXCEPT ![q] = Child(c)]
    BY <1>2, <1>3 DEF Fork
  <2>2. Child(c).st = "live"
    BY DEF Child
  <2> QED
    BY <1>1, <2>1, <2>2
<1>4. CASE Kill
  <2>1. \/ proc'[p] = proc[p]
        \/ proc'[p] = [proc[p] EXCEPT !.st = "ended", !.status = Died(SIGKILL)]
    BY <1>4 DEF Kill
  <2>2. Died(SIGKILL) \in Statuses
    BY DEF Statuses
  <2>3. [proc[p] EXCEPT !.st = "ended", !.status = Died(SIGKILL)].st = "ended"
    BY <1>1, <2>2, EndedType
  <2> QED
    BY <2>1, <2>3, Zenon
<1>5. ASSUME NEW q \in Pids, ChildEnds(q) PROVE FALSE
  <2>1. PICK status \in Ends :
          proc' = [proc EXCEPT ![q] = [proc[q] EXCEPT !.st = "ended", !.status = status]]
    BY <1>5 DEF ChildEnds
  <2>2. [proc[q] EXCEPT !.st = "ended", !.status = status].st = "ended"
    BY <1>1, <2>1, EndedType DEF Statuses
  <2> QED
    BY <1>1, <2>1, <2>2
<1>6. CASE Reap
  <2>1. PICK q \in Awaited \cap Ended : said' = Report(q) /\ proc' = [proc EXCEPT ![q] = Free]
    BY <1>6 DEF Reap
  <2>2. q = p
    BY <1>1, <2>1
  <2> QED
    BY <1>6, <2>1, <2>2
<1>7. CASE Start \/ Run \/ Watchdog
  BY <1>3, <1>7 DEF Start, Run, Watchdog
<1>8. CASE \/ \E n \in Pids \cup {Any} : Wait(n)
           \/ Quit \/ InstallHandler \/ SleepEnds \/ NoChildren \/ UNCHANGED vars
  BY <1>2, <1>8 DEF Wait, Quit, InstallHandler, SleepEnds, NoChildren, vars
<1> QED
  BY <1>4, <1>5, <1>6, <1>7, <1>8 DEF Next, Shell

\* Whoever is waited for had ended, and its report is true: under its own pid, but
\* after a failed fork, of a normal end, of another, and of the kill at the limit.
THEOREM ReportsTell ==
  ASSUME SIGKILL \notin Signals
  PROVE  Spec => ReportTells
<1>1. ASSUME IInv, KillInv, [Next]_vars, NEW p \in Pids,
             proc[p].st # "free", proc'[p].st = "free"
      PROVE  /\ proc[p].st = "ended"
             /\ said'.pid = IF pc = "reap" /\ cmd.pid = Any THEN Any ELSE p
             /\ ~cmd.killed => (said'.text = "normally") = (proc[p].status = Exited(0))
             /\ proc[p].by = "watchdog" /\ proc[p].status = Died(SIGKILL)
                  => said'.text = "killed" /\ said'.number = SIGKILL
  <2>1. Reap /\ p \in Awaited \cap Ended
    BY <1>1, OnlyReapFrees
  <2>2. said' = Report(p)
    BY <1>1, OnlyReapFrees
  <2>3. proc[p].st = "ended"
    BY <2>1 DEF Ended
  <2>4. said'.pid = IF pc = "reap" /\ cmd.pid = Any THEN Any ELSE p
    <3>1. said'.pid = Printed(p)
      BY <1>1, <2>2, ReportType DEF IInv
    <3>2. cmd.pid \in {p, Any}
      BY <2>1 DEF Awaited
    <3> QED
      BY <3>1, <3>2 DEF Printed
  <2>5. ASSUME ~cmd.killed
        PROVE  (said'.text = "normally") = (proc[p].status = Exited(0))
    <3>1. CASE proc[p].status = Exited(0)
      BY <2>2, <2>5, <3>1 DEF Report
    <3>2. CASE proc[p].status # Exited(0)
      BY <2>2, <2>5, <3>2 DEF Report
    <3> QED
      BY <3>1, <3>2
  <2>6. ASSUME proc[p].by = "watchdog", proc[p].status = Died(SIGKILL)
        PROVE  said'.text = "killed" /\ said'.number = SIGKILL
    <3>1. cmd.killed
      BY <1>1, <2>6 DEF KillInv
    <3>2. WTERMSIG(proc[p].status) = SIGKILL
      BY <2>6 DEF WTERMSIG, Died
    <3> QED
      BY <2>2, <3>1, <3>2 DEF Report
  <2> QED
    BY <2>3, <2>4, <2>5, <2>6
<1>2. IInv /\ KillInv /\ [Next]_vars
      => [\A p \in Pids : proc[p].st # "free" /\ proc'[p].st = "free" =>
            /\ proc[p].st = "ended"
            /\ said'.pid = IF pc = "reap" /\ cmd.pid = Any THEN Any ELSE p
            /\ ~cmd.killed => (said'.text = "normally") = (proc[p].status = Exited(0))
            /\ proc[p].by = "watchdog" /\ proc[p].status = Died(SIGKILL)
                 => said'.text = "killed" /\ said'.number = SIGKILL]_vars
  BY <1>1
<1> QED
  BY <1>2, Inductive, KillsAreIssued, PTL DEF Spec, ReportTells

-----------------------------------------------------------------------------
(* The limit.  That watchdog comes back needs fairness; this is the part of  *)
(* CommandsEnd that is a matter of states.                                   *)

\* watchdog calls waitpid for its process only when that has been killed and has
\* ended, so that the call returns at once, or when SIGCHLD has cut its sleep short.
WatchdogAnswered ==
  pc = "reap" /\ cmd.pid # Any /\ proc[cmd.pid].by = "watchdog"
    => cmd.cut \/ (cmd.killed /\ proc[cmd.pid].st = "ended")

LEMMA NextWatchdogAnswered ==
  ASSUME IInv, WatchdogAnswered, [Next]_vars
  PROVE  WatchdogAnswered'
<1>0. /\ proc \in [Pids -> Processes]
      /\ cmd \in [pid : Pids \cup {Any}, killed : BOOLEAN, cut : BOOLEAN]
  BY DEF IInv, TypeOK, Processes
<1>1. ASSUME pc' # "reap" PROVE WatchdogAnswered'
  BY <1>1 DEF WatchdogAnswered
<1>2. CASE Run
  <2>1. CASE cmd' = NoCmd
    BY <2>1 DEF WatchdogAnswered, NoCmd
  <2>2. CASE \E p \in Pids \ Children : /\ proc' = [proc EXCEPT ![p] = Child("run")]
                                        /\ cmd' = [NoCmd EXCEPT !.pid = p]
    <3>1. PICK p \in Pids : /\ proc' = [proc EXCEPT ![p] = Child("run")]
                            /\ cmd' = [NoCmd EXCEPT !.pid = p]
      BY <2>2
    <3>2. cmd'.pid = p
      BY <3>1 DEF NoCmd
    <3>3. proc'[p].by = "run"
      BY <1>0, <3>1 DEF Child
    <3> QED
      BY <3>2, <3>3 DEF WatchdogAnswered
  <2> QED
    BY <1>2, <2>1, <2>2 DEF Run, Fork
<1>3. CASE Start \/ Watchdog
  BY <1>1, <1>3 DEF Start, Watchdog, Fork
<1>4. ASSUME NEW n \in Pids \cup {Any}, Wait(n) PROVE WatchdogAnswered'
  BY <1>1, <1>4 DEF Wait
<1>5. CASE Quit \/ InstallHandler \/ SleepEnds \/ Reap \/ NoChildren
  BY <1>1, <1>5 DEF Quit, InstallHandler, SleepEnds, Reap, NoChildren
<1>6. CASE Kill
  <2>1. pc = "kill" /\ cmd' = [cmd EXCEPT !.killed = TRUE]
    BY <1>6, Zenon DEF Kill
  <2>2. cmd'.killed /\ cmd'.pid = cmd.pid
    BY <1>0, <2>1
  <2>3. ASSUME NEW p \in Pids, cmd.pid = p PROVE proc'[p].st = "ended"
    <3> DEFINE e == [proc[p] EXCEPT !.st = "ended", !.status = Died(SIGKILL)]
    <3>1. proc[p] \in Processes /\ Died(SIGKILL) \in Statuses
      BY <1>0 DEF Statuses
    <3>2. e.st = "ended"
      BY <3>1, EndedType, Zenon
    <3>3. proc[p].st \in {"live", "ended"}
      BY <2>1, <2>3, <3>1, KernelAssumption DEF IInv, OwnPidIsCurrent, Processes
    <3>4. proc'[p] = IF proc[p].st = "live" /\ cmd.pid \in {p, Any} THEN e ELSE proc[p]
      BY <1>6, Zenon DEF Kill
    <3> HIDE DEF e
    <3> QED
      BY <2>3, <3>2, <3>3, <3>4
  <2>4. cmd.pid # Any => cmd.pid \in Pids
    BY <1>0
  <2> QED
    BY <2>2, <2>3, <2>4 DEF WatchdogAnswered
<1>7. ASSUME NEW p \in Pids, ChildEnds(p) PROVE WatchdogAnswered'
  <2>1. PICK status \in Ends :
          proc' = [proc EXCEPT ![p].st = "ended", ![p].status = status]
    BY <1>7 DEF ChildEnds
  <2> DEFINE e == [proc[p] EXCEPT !.st = "ended", !.status = status]
  <2>2. proc' = [proc EXCEPT ![p] = e]
    BY <2>1
  <2>3. e.st = "ended" /\ e.by = proc[p].by
    <3>1. proc[p] \in Processes /\ status \in Statuses
      BY <1>0 DEF Statuses
    <3> QED
      BY <3>1, EndedType, Zenon
  <2> HIDE DEF e
  <2>4. \A q \in Pids : /\ proc'[q].by = proc[q].by
                        /\ proc[q].st = "ended" => proc'[q].st = "ended"
    BY <1>0, <2>2, <2>3
  <2>5. CASE pc = "sleep"
    <3>1. pc' = "kill" \/ cmd'.cut
      BY <1>0, <1>7, <2>5 DEF ChildEnds
    <3> QED
      BY <3>1 DEF WatchdogAnswered
  <2>6. CASE pc # "sleep"
    <3>1. UNCHANGED <<pc, cmd>>
      BY <1>7, <2>6 DEF ChildEnds
    <3>2. cmd.pid # Any => cmd.pid \in Pids
      BY <1>0
    <3> QED
      BY <2>4, <3>1, <3>2 DEF WatchdogAnswered
  <2> QED
    BY <2>5, <2>6
<1>8. CASE UNCHANGED vars
  BY <1>8 DEF vars, WatchdogAnswered
<1> QED
  BY <1>2, <1>3, <1>4, <1>5, <1>6, <1>7, <1>8 DEF Next, Shell

\* At the limit of time, watchdog never settles down to wait for a process that
\* may run on: it has killed it, unless another process's end woke it too early.
THEOREM WatchdogIsAnswered == Spec => []WatchdogAnswered
<1>1. Init => WatchdogAnswered
  BY DEF Init, WatchdogAnswered
<1>2. IInv /\ WatchdogAnswered /\ [Next]_vars => WatchdogAnswered'
  BY NextWatchdogAnswered
<1> QED
  BY <1>1, <1>2, Inductive, PTL DEF Spec
=============================================================================
