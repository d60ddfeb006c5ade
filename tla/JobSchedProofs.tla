--------------------------- MODULE JobSchedProofs ---------------------------
(***************************************************************************)
(* Proofs about JobSched, for any number of jobs, process ids and exit     *)
(* codes: type correctness, and that processes, jobs and completions stay  *)
(* together whatever the handler interrupts.                               *)
(***************************************************************************)
EXTENDS JobSchedProperties, SequenceTheorems, FiniteSetTheorems, TLAPS

-----------------------------------------------------------------------------
(* The list: what Append and RemoveAt do to its members, and First.        *)

\* The members of a list are its values at 1..Len.
LEMMA Members ==
  ASSUME NEW S, NEW s \in Seq(S)
  PROVE  /\ DOMAIN s = 1..Len(s)
         /\ Len(s) \in Nat
         /\ \A x : x \in ToSet(s) <=> \E i \in 1..Len(s) : s[i] = x
         /\ ToSet(s) \subseteq S
<1>1. DOMAIN s = 1..Len(s) /\ Len(s) \in Nat
  OBVIOUS
<1>2. \A x : x \in ToSet(s) <=> \E i \in 1..Len(s) : s[i] = x
  BY <1>1 DEF ToSet
<1>3. \A i \in 1..Len(s) : s[i] \in S
  OBVIOUS
<1> QED
  BY <1>1, <1>2, <1>3

\* queue_job's Append adds one member.
LEMMA AppendMembers ==
  ASSUME NEW S, NEW s \in Seq(S), NEW e \in S
  PROVE  /\ Append(s, e) \in Seq(S)
         /\ ToSet(Append(s, e)) = ToSet(s) \cup {e}
<1> DEFINE a == Append(s, e)
<1>1. /\ a \in Seq(S)
      /\ Len(a) = Len(s) + 1
      /\ \A i \in 1..Len(s) : a[i] = s[i]
      /\ a[Len(s) + 1] = e
  BY AppendProperties
<1>2. Len(s) \in Nat
  OBVIOUS
<1>3. \A x : x \in ToSet(a) <=> \E i \in 1..Len(a) : a[i] = x
  BY <1>1, Members
<1>4. \A x : x \in ToSet(s) <=> \E i \in 1..Len(s) : s[i] = x
  BY Members
<1> HIDE DEF a
<1>5. \A x : x \in ToSet(a) <=> x \in ToSet(s) \/ x = e
  <2> TAKE x
  <2>1. ASSUME x \in ToSet(a) PROVE x \in ToSet(s) \/ x = e
    <3>1. PICK i \in 1..Len(a) : a[i] = x
      BY <2>1, <1>3
    <3>2. i \in 1..Len(s) \/ i = Len(s) + 1
      BY <1>1, <1>2
    <3> QED
      BY <3>1, <3>2, <1>1, <1>4
  <2>2. ASSUME x \in ToSet(s) PROVE x \in ToSet(a)
    <3>1. PICK i \in 1..Len(s) : s[i] = x
      BY <2>2, <1>4
    <3>2. i \in 1..Len(a) /\ a[i] = x
      BY <3>1, <1>1, <1>2
    <3> QED
      BY <3>2, <1>3
  <2>3. e \in ToSet(a)
    <3>1. Len(s) + 1 \in 1..Len(a)
      BY <1>1, <1>2
    <3> QED
      BY <3>1, <1>1, <1>3
  <2> QED
    BY <2>1, <2>2, <2>3
<1> QED
  BY <1>1, <1>5 DEF a

\* Unlinking position k moves what is behind it up by one.
LEMMA RemoveElements ==
  ASSUME NEW S, NEW s \in Seq(S), NEW k \in 1..Len(s)
  PROVE  /\ RemoveAt(s, k) \in Seq(S)
         /\ Len(RemoveAt(s, k)) = Len(s) - 1
         /\ \A i \in 1..Len(s)-1 : RemoveAt(s, k)[i] = IF i < k THEN s[i] ELSE s[i + 1]
<1> DEFINE a == SubSeq(s, 1, k - 1)
           b == SubSeq(s, k + 1, Len(s))
           r == a \o b
<1>0. RemoveAt(s, k) = r
  BY DEF RemoveAt
<1>1. /\ Len(s) \in Nat /\ k \in Int /\ 1 <= k /\ k <= Len(s)
      /\ \A i \in 1..Len(s) : s[i] \in S
  OBVIOUS
<1>2. /\ a \in Seq(S)
      /\ Len(a) = k - 1
      /\ \A i \in 1..k-1 : a[i] = s[i]
  <2>1. \A i \in 1..k-1 : s[i] \in S
    BY <1>1
  <2>2. 1 \in Int /\ k - 1 \in Int
    BY <1>1
  <2>3. /\ a \in Seq(S)
        /\ Len(a) = IF 1 <= k - 1 THEN (k - 1) - 1 + 1 ELSE 0
        /\ \A i \in 1 .. (k-1) - 1 + 1 : a[i] = s[1 + i - 1]
    BY <2>1, <2>2, SubSeqProperties
  <2> HIDE DEF a
  <2> QED
    BY <2>3, <1>1
<1>3. /\ b \in Seq(S)
      /\ Len(b) = Len(s) - k
      /\ \A i \in 1..Len(s)-k : b[i] = s[k + i]
  <2>1. \A i \in k+1..Len(s) : s[i] \in S
    BY <1>1
  <2>2. k + 1 \in Int /\ Len(s) \in Int
    BY <1>1
  <2>3. /\ b \in Seq(S)
        /\ Len(b) = IF k + 1 <= Len(s) THEN Len(s) - (k + 1) + 1 ELSE 0
        /\ \A i \in 1 .. Len(s) - (k + 1) + 1 : b[i] = s[k + 1 + i - 1]
    BY <2>1, <2>2, SubSeqProperties
  <2> HIDE DEF b
  <2> QED
    BY <2>3, <1>1
<1> HIDE DEF a, b
<1>4. /\ r \in Seq(S)
      /\ Len(r) = Len(s) - 1
      /\ \A i \in 1..Len(s)-1 : r[i] = IF i < k THEN s[i] ELSE s[i + 1]
  <2>1. /\ r \in Seq(S)
        /\ Len(r) = Len(a) + Len(b)
        /\ \A i \in 1 .. Len(a) + Len(b) :
             r[i] = IF i <= Len(a) THEN a[i] ELSE b[i - Len(a)]
    BY <1>2, <1>3, ConcatProperties
  <2> HIDE DEF r
  <2>2. Len(r) = Len(s) - 1
    BY <2>1, <1>1, <1>2, <1>3
  <2>3. ASSUME NEW i \in 1..Len(s)-1
        PROVE  r[i] = IF i < k THEN s[i] ELSE s[i + 1]
    <3>0. /\ i \in Int /\ 1 <= i /\ i <= Len(s) - 1
          /\ i \in 1 .. Len(a) + Len(b)
      BY <1>1, <1>2, <1>3
    <3>1. CASE i < k
      <4>1. i <= Len(a) /\ i \in 1..k-1
        BY <3>0, <3>1, <1>1, <1>2
      <4>2. r[i] = a[i]
        BY <3>0, <4>1, <2>1
      <4>3. a[i] = s[i]
        BY <4>1, <1>2
      <4> QED
        BY <4>2, <4>3, <3>1
    <3>2. CASE ~(i < k)
      <4>1. ~(i <= Len(a)) /\ i - Len(a) = i - (k - 1) /\ i - (k - 1) \in 1..Len(s)-k
        BY <3>0, <3>2, <1>1, <1>2
      <4>2. r[i] = b[i - (k - 1)]
        BY <3>0, <4>1, <2>1
      <4>3. b[i - (k - 1)] = s[k + (i - (k - 1))]
        BY <4>1, <1>3
      <4>4. k + (i - (k - 1)) = i + 1
        BY <3>0, <1>1
      <4> QED
        BY <4>2, <4>3, <4>4, <3>2
    <3> QED
      BY <3>1, <3>2
  <2> QED
    BY <2>1, <2>2, <2>3
<1> HIDE DEF r
<1> QED
  BY <1>0, <1>4

\* It loses no member but the one at k.
LEMMA RemoveMembers ==
  ASSUME NEW S, NEW s \in Seq(S), NEW k \in 1..Len(s)
  PROVE  /\ RemoveAt(s, k) \in Seq(S)
         /\ ToSet(RemoveAt(s, k)) \subseteq ToSet(s)
         /\ ToSet(s) \subseteq ToSet(RemoveAt(s, k)) \cup {s[k]}
<1> DEFINE r == RemoveAt(s, k)
<1>0. RemoveAt(s, k) = r
  OBVIOUS
<1>1. /\ Len(s) \in Nat /\ k \in Int /\ 1 <= k /\ k <= Len(s)
      /\ \A i \in 1..Len(s) : s[i] \in S
  OBVIOUS
<1>4. /\ r \in Seq(S)
      /\ Len(r) = Len(s) - 1
      /\ \A i \in 1..Len(s)-1 : r[i] = IF i < k THEN s[i] ELSE s[i + 1]
  BY RemoveElements
<1> HIDE DEF r
<1>5. \A x : x \in ToSet(r) <=> \E i \in 1..Len(r) : r[i] = x
  BY <1>4, Members
<1>6. \A x : x \in ToSet(s) <=> \E i \in 1..Len(s) : s[i] = x
  BY Members
<1>7. ASSUME NEW x \in ToSet(r) PROVE x \in ToSet(s)
  <2>1. PICK i \in 1..Len(r) : r[i] = x
    BY <1>5
  <2>2. i \in 1..Len(s) /\ i + 1 \in 1..Len(s) /\ (x = s[i] \/ x = s[i + 1])
    BY <2>1, <1>4, <1>1
  <2> QED
    BY <2>2, <1>6
<1>8. ASSUME NEW x \in ToSet(s), x # s[k] PROVE x \in ToSet(r)
  <2>1. PICK i \in 1..Len(s) : s[i] = x
    BY <1>6
  <2>2. CASE i < k
    <3>1. i \in 1..Len(r) /\ r[i] = x
      BY <2>1, <2>2, <1>4, <1>1
    <3> QED
      BY <3>1, <1>5
  <2>3. CASE i > k
    <3>1. i - 1 \in 1..Len(r) /\ i - 1 \in 1..Len(s)-1
      BY <2>3, <1>4, <1>1
    <3>2. r[i - 1] = s[i - 1 + 1]
      BY <3>1, <2>3, <1>4, <1>1
    <3>3. r[i - 1] = x
      BY <3>2, <2>1, <1>1
    <3> QED
      BY <3>1, <3>3, <1>5
  <2> QED
    BY <1>8, <2>1, <2>2, <2>3, <1>1
<1> QED
  BY <1>0, <1>4, <1>7, <1>8

\* A walk from the head stops at the first position that qualifies.
LEMMA FirstIsLeast ==
  ASSUME NEW n \in Nat, NEW P \in SUBSET (1..n), P # {}
  PROVE  First(P) \in P /\ \A k \in P : First(P) <= k
<1> DEFINE UpTo(k) == P \cap 1..k
           Shorter == { UpTo(k) : k \in P }
<1>1. IsFiniteSet(P)
  <2>1. IsFiniteSet(1..n)
    BY FS_Interval
  <2> QED
    BY <2>1, FS_Subset
<1>2. IsWellFoundedOn(StrictSubsetOrdering(P), FiniteSubsetsOf(P))
  BY FS_StrictSubsetOrderingWellFounded
<1>3. Shorter \subseteq FiniteSubsetsOf(P) /\ Shorter # {}
  <2>1. FiniteSubsetsOf(P) = SUBSET P
    BY <1>1, FS_FiniteSubsetsOfFinite
  <2>2. Shorter \subseteq SUBSET P
    OBVIOUS
  <2>3. PICK k : k \in P
    OBVIOUS
  <2>4. UpTo(k) \in Shorter
    BY <2>3
  <2> QED
    BY <2>1, <2>2, <2>4
<1>4. PICK X \in Shorter : \A Y \in Shorter : <<Y, X>> \notin StrictSubsetOrdering(P)
  <2> HIDE DEF Shorter
  <2> QED
    BY <1>2, <1>3, WFMin
<1>5. PICK m \in P : X = UpTo(m)
  OBVIOUS
<1>6. ASSUME NEW k \in P PROVE m <= k
  <2>1. SUFFICES ASSUME k < m PROVE FALSE
    BY <1>6
  <2>2. UpTo(k) \in Shorter
    OBVIOUS
  <2>3. UpTo(k) \subseteq UpTo(m) /\ m \in UpTo(m) /\ m \notin UpTo(k)
    BY <2>1
  <2>4. <<UpTo(k), X>> \in StrictSubsetOrdering(P)
    BY <2>3, <1>5 DEF StrictSubsetOrdering
  <2> QED
    BY <2>2, <2>4, <1>4
<1> QED
  BY <1>6 DEF First

-----------------------------------------------------------------------------
(* Types.  TypeOK alone is not inductive: queue_job appends arg, and a     *)
(* child's output file is named after its job, so these must be job ids.   *)

TypeInv ==
  /\ TypeOK
  /\ pc["main"] = "submit" => arg \in JobId
  /\ pc["sched"] \in {"fork", "record"} => sel \in JobId
  /\ \A p \in Pids : proc[p].st # "unused" => proc[p].job \in JobId

LEMMA InitTypeInv == Init => TypeInv
<1> SUFFICES ASSUME Init PROVE TypeInv
  OBVIOUS
<1> USE ConstantsAssumption DEF Init, JobId, Threads, Free
<1>1. queue \in Seq(JobId)
  BY EmptySeq
<1>2. proc \in [Pids -> Process]
  BY DEF Process
<1>3. TypeOK
  <2>1. /\ mutex \in Threads \cup {Free}
        /\ njobs \in Nat
        /\ jobid \in 1..MaxJobs + 1
        /\ arg \in Nat
        /\ sel \in 0..MaxJobs
        /\ run \in {"up", "exited", "crashed"}
    OBVIOUS
  <2>4. pending \in BOOLEAN
    OBVIOUS
  <2>2. /\ state \in [JobId -> {"none", "WAIT", "RUN", "DONE"}]
        /\ pid \in [JobId -> Pids \cup {NoPid}]
        /\ exit \in [JobId -> ExitCodes \cup {NoExit}]
        /\ child \in Pids \cup {NoPid}
        /\ files \in SUBSET ({".", "./outputs"} \X JobId)
    OBVIOUS
  <2>3. /\ hpc \in [Threads -> {"off", "wait", "lock", "unlock"}]
        /\ hpid \in [Threads -> Pids \cup {NoPid}]
        /\ hcode \in [Threads -> ExitCodes \cup {NoExit}]
    OBVIOUS
  <2> QED
    BY <1>1, <1>2, <2>1, <2>2, <2>3, <2>4 DEF TypeOK
<1>4. /\ pc["main"] # "submit"
      /\ pc["sched"] \notin {"fork", "record"}
      /\ \A p \in Pids : proc[p].st = "unused"
  OBVIOUS
<1> QED
  BY <1>3, <1>4 DEF TypeInv

\* main's commands.
LEMMA MainTypeInv ==
  ASSUME TypeInv, MainStep \/ Command
  PROVE  TypeInv'
<1> USE ConstantsAssumption
    DEF TypeInv, TypeOK, JobId, Threads, Free, Executes, Lock, Unlock, Goto,
        Woken, vars, heap, threads, handler, kernel
<1>1. CASE CreateJob
  BY <1>1 DEF CreateJob
<1>2. CASE QueueJob
  <2>1. queue' \in Seq(JobId)
    BY <1>2, AppendMembers DEF QueueJob
  <2>2. /\ pc' = [pc EXCEPT !["main"] = "unlock"] /\ mutex' \in Threads \cup {Free} /\ arg' = 0
        /\ UNCHANGED <<njobs, jobid, state, pid, exit, sel, child, handler, kernel, run>>
    BY <1>2 DEF QueueJob
  <2>3. TypeOK'
    <3>1. pc' \in [Threads -> {"fgets", "submit", "status", "drain", "remove", "njobs",
                               "spin", "drain_scan", "cond_wait", "relock", "unlock",
                               "unlock_fail", "install", "lock", "check", "fork", "record"}]
      BY <2>2
    <3>2. /\ njobs' \in Nat /\ jobid' \in 1..MaxJobs + 1 /\ arg' \in Nat /\ sel' \in 0..MaxJobs
          /\ state' \in [JobId -> {"none", "WAIT", "RUN", "DONE"}]
          /\ pid' \in [JobId -> Pids \cup {NoPid}]
          /\ exit' \in [JobId -> ExitCodes \cup {NoExit}]
          /\ child' \in Pids \cup {NoPid} /\ run' \in {"up", "exited", "crashed"}
      BY <2>2
    <3>3. /\ hpc' \in [Threads -> {"off", "wait", "lock", "unlock"}]
          /\ hpid' \in [Threads -> Pids \cup {NoPid}]
          /\ hcode' \in [Threads -> ExitCodes \cup {NoExit}]
          /\ pending' \in BOOLEAN /\ proc' \in [Pids -> Process]
          /\ files' \in SUBSET ({".", "./outputs"} \X JobId)
      BY <2>2
    <3> QED
      BY <2>1, <2>2, <3>1, <3>2, <3>3
  <2>4. /\ pc'["main"] # "submit"
        /\ pc'["sched"] \in {"fork", "record"} => sel' \in JobId
        /\ \A p \in Pids : proc'[p].st # "unused" => proc'[p].job \in JobId
    BY <2>2
  <2> QED
    BY <2>3, <2>4, Zenon DEF TypeInv
<1>3. CASE Status
  BY <1>3 DEF Status
<1>4. CASE SetNjobs
  <2>1. /\ njobs' \in Nat /\ mutex' \in Threads \cup {Free} /\ arg' = 0
        /\ UNCHANGED <<queue, jobid, state, pid, exit, sel, child, handler, kernel, run>>
    BY <1>4 DEF SetNjobs
  <2>2. pc' \in {[pc EXCEPT !["main"] = "unlock"], [Woken EXCEPT !["main"] = "unlock"]}
    BY <1>4 DEF SetNjobs
  <2>3. /\ DOMAIN pc' = Threads /\ pc'["main"] = "unlock"
        /\ \A t \in Threads : pc'[t] \in {pc[t], "relock", "unlock"}
    BY <2>2
  <2>4. pc' \in [Threads -> {"fgets", "submit", "status", "drain", "remove", "njobs",
                             "spin", "drain_scan", "cond_wait", "relock", "unlock",
                             "unlock_fail", "install", "lock", "check", "fork", "record"}]
    <3> HIDE DEF Woken
    <3> QED
      BY <2>2, <2>3
  <2>5. TypeOK'
    BY <2>1, <2>4
  <2>6. /\ pc'["main"] # "submit"
        /\ pc'["sched"] \in {"fork", "record"} => sel' \in JobId
        /\ \A p \in Pids : proc'[p].st # "unused" => proc'[p].job \in JobId
    BY <2>1, <2>3
  <2> QED
    BY <2>5, <2>6, Zenon DEF TypeInv
<1>5. CASE RemoveJob
  <2>1. queue' \in Seq(JobId)
    <3>1. CASE queue' = queue
      BY <3>1
    <3>2. CASE Removable # {} /\ queue' = RemoveAt(queue, First(Removable))
      <4>1. Removable \in SUBSET (1..Len(queue))
        BY DEF Removable, MatchesAt
      <4>0. Len(queue) \in Nat
        OBVIOUS
      <4>2. First(Removable) \in Removable
        <5> HIDE DEF TypeInv, TypeOK
        <5> QED
          BY <3>2, <4>0, <4>1, FirstIsLeast
      <4> QED
        BY <3>2, <4>1, <4>2, RemoveMembers
    <3> QED
      BY <1>5, <3>1, <3>2 DEF RemoveJob
  <2>2. files' \in SUBSET ({".", "./outputs"} \X JobId)
    BY <1>5 DEF RemoveJob
  <2> QED
    BY <1>5, <2>1, <2>2, SMTT(20) DEF RemoveJob
<1>6. CASE SpinUntilDone
  BY <1>6 DEF SpinUntilDone
<1>7. CASE DrainLock
  BY <1>7 DEF DrainLock
<1>8. CASE DrainScan
  BY <1>8, SMTT(20) DEF DrainScan
<1>9. CASE MainUnlock
  BY <1>9 DEF MainUnlock
<1>10. CASE ReadCommand
  BY <1>10 DEF ReadCommand
<1>11. CASE WaitCommand
  BY <1>11 DEF WaitCommand
<1>12. CASE Quit
  BY <1>12 DEF Quit
<1> QED
  BY <1>1, <1>2, <1>3, <1>4, <1>5, <1>6, <1>7, <1>8, <1>9, <1>10, <1>11, <1>12
  DEF MainStep, Command

\* A non-empty set of list positions has a first one, and it holds a job.
LEMMA FirstJob ==
  ASSUME queue \in Seq(JobId), NEW P \in SUBSET DOMAIN queue, P # {}
  PROVE  /\ First(P) \in P
         /\ \A k \in P : First(P) <= k
         /\ queue[First(P)] \in JobId
         /\ queue[First(P)] \in ToSet(queue)
<1>1. DOMAIN queue = 1..Len(queue) /\ Len(queue) \in Nat
  BY Members
<1>2. First(P) \in P /\ \A k \in P : First(P) <= k
  BY <1>1, FirstIsLeast
<1>3. First(P) \in 1..Len(queue)
  BY <1>1, <1>2
<1>4. queue[First(P)] \in JobId
  BY <1>3, ElementOfSeq
<1>5. queue[First(P)] \in ToSet(queue)
  BY <1>3, Members
<1> QED
  BY <1>2, <1>4, <1>5

\* The scheduler thread.
LEMMA SchedTypeInv ==
  ASSUME TypeInv, SchedStep
  PROVE  TypeInv'
<1> USE ConstantsAssumption
    DEF TypeInv, TypeOK, JobId, Threads, Free, Executes, Lock, Unlock, Goto,
        Woken, vars, heap, threads, handler, kernel
<1>1. CASE InstallHandler
  BY <1>1 DEF InstallHandler
<1>2. CASE SelectLock
  BY <1>2 DEF SelectLock
<1>3. CASE AwaitSlot
  BY <1>3 DEF AwaitSlot
<1>4. CASE SelectJob
  <2>1. CASE WaitingAt = {}
    BY <1>4, <2>1 DEF SelectJob
  <2>2. CASE WaitingAt # {}
    <3>1. sel' \in JobId
      <4> HIDE DEF TypeInv, TypeOK, JobId
      <4>1. queue \in Seq(JobId) /\ WaitingAt \in SUBSET DOMAIN queue
        BY DEF TypeInv, TypeOK, WaitingAt
      <4> QED
        BY <1>4, <2>2, <4>1, FirstJob DEF SelectJob
    <3> QED
      BY <1>4, <2>2, <3>1 DEF SelectJob
  <2> QED
    BY <2>1, <2>2
<1>5. CASE SelectFromEmpty
  BY <1>5 DEF SelectFromEmpty
<1>6. CASE Fork
  <2>1. sel \in JobId
    BY <1>6 DEF Fork
  <2>2. proc' \in [Pids -> Process]
    BY <1>6, <2>1 DEF Fork, Process
  <2>3. \A p \in Pids : proc'[p].st # "unused" => proc'[p].job \in JobId
    BY <1>6, <2>1 DEF Fork, Process
  <2> QED
    BY <1>6, <2>1, <2>2, <2>3 DEF Fork
<1>7. CASE ForkError
  BY <1>7 DEF ForkError
<1>8. CASE RecordPid
  BY <1>8 DEF RecordPid
<1>9. CASE SelectUnlock
  BY <1>9 DEF SelectUnlock
<1> QED
  BY <1>1, <1>2, <1>3, <1>4, <1>5, <1>6, <1>7, <1>8, <1>9 DEF SchedStep

\* Both threads, the handler and the kernel.
LEMMA HandlerTypeInv ==
  ASSUME TypeInv, NEW t \in Threads,
         SpuriousWakeup(t) \/ Relock(t) \/ Deliver(t) \/ HandlerStep(t)
  PROVE  TypeInv'
<1> USE ConstantsAssumption
    DEF TypeInv, TypeOK, JobId, Threads, Free, Executes, Lock, Unlock, Goto,
        Woken, vars, heap, threads, handler, kernel
<1>1. CASE SpuriousWakeup(t)
  BY <1>1 DEF SpuriousWakeup
<1>2. CASE Relock(t)
  BY <1>2 DEF Relock
<1>3. CASE Deliver(t)
  BY <1>3 DEF Deliver
<1>4. CASE Reap(t)
  <2>1. PICK p \in Zombies :
          /\ proc' = [proc EXCEPT ![p].st = "reaped"]
          /\ hpc' \in {[hpc EXCEPT ![t] = "lock"], [hpc EXCEPT ![t] = "off"]}
          /\ hpid' \in {hpid, [hpid EXCEPT ![t] = p]}
          /\ hcode' \in {hcode, [hcode EXCEPT ![t] = proc[p].code]}
    BY <1>4 DEF Reap, WEXITSTATUS
  <2>2. p \in Pids /\ proc[p].st # "unused" /\ proc[p] \in Process
    BY DEF Zombies
  <2>3. proc' \in [Pids -> Process]
    BY <2>1, <2>2 DEF Process
  <2>4. \A q \in Pids : proc'[q].st # "unused" => proc'[q].job \in JobId
    BY <2>1, <2>2
  <2>5. hcode' \in [Threads -> ExitCodes \cup {NoExit}]
    BY <2>1, <2>2 DEF Process
  <2> QED
    BY <1>4, <2>1, <2>2, <2>3, <2>4, <2>5, SMTT(20) DEF Reap
<1>5. CASE JobComplete(t)
  <2>1. CASE PidAt(hpid[t]) = {}
    BY <1>5, <2>1 DEF JobComplete
  <2>2. CASE PidAt(hpid[t]) # {}
    <3> DEFINE j == queue[First(PidAt(hpid[t]))]
    <3>1. j \in JobId
      <4> HIDE DEF TypeInv, TypeOK, JobId
      <4>1. queue \in Seq(JobId) /\ PidAt(hpid[t]) \in SUBSET DOMAIN queue
        BY DEF TypeInv, TypeOK, PidAt
      <4> QED
        BY <2>2, <4>1, FirstJob
    <3>2. /\ state' = [state EXCEPT ![j] = "DONE"]
          /\ exit' = [exit EXCEPT ![j] = hcode[t]]
      BY <1>5, <2>2 DEF JobComplete
    <3> HIDE DEF j
    <3> QED
      BY <1>5, <2>2, <3>1, <3>2 DEF JobComplete
  <2> QED
    BY <2>1, <2>2
<1>6. CASE HandlerReturn(t)
  BY <1>6 DEF HandlerReturn
<1> QED
  BY <1>1, <1>2, <1>3, <1>4, <1>5, <1>6 DEF HandlerStep

LEMMA KernelTypeInv ==
  ASSUME TypeInv, NEW p \in Pids, ChildExits(p) \/ ChildKilled(p)
  PROVE  TypeInv'
<1> USE ConstantsAssumption
    DEF TypeInv, TypeOK, JobId, Threads, Free,
        vars, heap, threads, handler, kernel
<1>1. CASE ChildExits(p)
  <2>1. PICK e \in ExitCodes :
          proc' = [proc EXCEPT ![p] = [st |-> "exited", job |-> @.job, code |-> e]]
    BY <1>1 DEF ChildExits
  <2>2. proc' \in [Pids -> Process]
    BY <1>1, <2>1 DEF Process
  <2>3. \A q \in Pids : proc'[q].st # "unused" => proc'[q].job \in JobId
    BY <1>1, <2>1 DEF ChildExits, Process
  <2>4. proc[p].job \in JobId
    BY <1>1 DEF ChildExits
  <2>5. files' \in SUBSET ({".", "./outputs"} \X JobId)
    BY <1>1, <2>4 DEF ChildExits
  <2>6. pending' \in BOOLEAN
    BY <1>1 DEF ChildExits
  <2> QED
    BY <1>1, <2>2, <2>3, <2>5, <2>6 DEF ChildExits
<1>2. CASE ChildKilled(p)
  <2>1. proc' \in [Pids -> Process]
    <3>1. proc \in [Pids -> Process] /\ proc' = [proc EXCEPT ![p] = [@ EXCEPT !.st = "killed"]]
      BY <1>2 DEF ChildKilled
    <3> HIDE DEF TypeInv, TypeOK
    <3>2. [proc[p] EXCEPT !.st = "killed"] \in Process
      BY <3>1 DEF Process
    <3> QED
      BY <3>1, <3>2
  <2>2. \A q \in Pids : proc'[q].st # "unused" => proc'[q].job \in JobId
    BY <1>2 DEF ChildKilled, Process
  <2>3. pending' \in BOOLEAN
    BY <1>2 DEF ChildKilled
  <2> QED
    BY <1>2, <2>1, <2>2, <2>3 DEF ChildKilled
<1> QED
  BY <1>1, <1>2

LEMMA NextTypeInv ==
  ASSUME TypeInv, [Next]_vars
  PROVE  TypeInv'
<1>1. CASE UNCHANGED vars
  BY <1>1 DEF TypeInv, TypeOK, vars, heap, threads, handler, kernel
<1>2. CASE Next
  BY <1>2, MainTypeInv, SchedTypeInv, HandlerTypeInv, KernelTypeInv DEF Next
<1> QED
  BY <1>1, <1>2

\* Every variable of the scheduler keeps to the values its code can give it,
\* in every interleaving and for every number of jobs and processes.
THEOREM TypeCorrect == Spec => []TypeOK
<1>1. TypeInv /\ [Next]_vars => TypeInv'
  BY NextTypeInv
<1>2. TypeInv => TypeOK
  BY DEF TypeInv
<1> QED
  BY <1>1, <1>2, InitTypeInv, PTL DEF Spec

-----------------------------------------------------------------------------
(* The mutex.  A thread owns it exactly in the code between lock and       *)
(* unlock, its own or the handler's: this is what lets one thread's steps  *)
(* inside a critical section ignore the other thread, and the handler.     *)

Critical == {"unlock", "unlock_fail", "drain_scan", "check", "fork", "record"}
Holds(t) == pc[t] \in Critical
MutexInv ==
  \A t \in Threads :
    /\ mutex = t <=> Holds(t) \/ hpc[t] = "unlock"
    /\ ~(Holds(t) /\ hpc[t] = "unlock")

LEMMA InitMutexInv == Init => MutexInv
  BY DEF Init, MutexInv, Holds, Critical, Threads, Free

LEMMA NextMutexInv ==
  ASSUME TypeInv, MutexInv, Next
  PROVE  MutexInv'
<1> USE DEF MutexInv, Holds, Critical, TypeInv, TypeOK, Threads, Free, Executes,
            Lock, Unlock, Goto, Woken, vars, heap, threads, handler, kernel
<1>1. CASE Command
  BY <1>1 DEF Command, CreateJob, ReadCommand, WaitCommand, Quit
<1>2. CASE MainStep
  <2>1. CASE QueueJob
    BY <2>1 DEF QueueJob
  <2>2. CASE Status
    BY <2>2 DEF Status
  <2>3. CASE SetNjobs
    BY <2>3 DEF SetNjobs
  <2>4. CASE RemoveJob
    BY <2>4 DEF RemoveJob
  <2>5. CASE SpinUntilDone
    BY <2>5 DEF SpinUntilDone
  <2>6. CASE DrainLock
    BY <2>6 DEF DrainLock
  <2>7. CASE DrainScan
    BY <2>7 DEF DrainScan
  <2>8. CASE MainUnlock
    BY <2>8 DEF MainUnlock
  <2> QED
    BY <1>2, <2>1, <2>2, <2>3, <2>4, <2>5, <2>6, <2>7, <2>8 DEF MainStep
<1>3. CASE SchedStep
  <2>1. CASE InstallHandler
    BY <2>1 DEF InstallHandler
  <2>2. CASE SelectLock
    BY <2>2 DEF SelectLock
  <2>3. CASE AwaitSlot
    BY <2>3 DEF AwaitSlot
  <2>4. CASE SelectJob
    BY <2>4 DEF SelectJob
  <2>5. CASE SelectFromEmpty
    BY <2>5 DEF SelectFromEmpty
  <2>6. CASE Fork
    BY <2>6 DEF Fork
  <2>7. CASE ForkError
    BY <2>7 DEF ForkError
  <2>8. CASE RecordPid
    BY <2>8 DEF RecordPid
  <2>9. CASE SelectUnlock
    BY <2>9 DEF SelectUnlock
  <2> QED
    BY <1>3, <2>1, <2>2, <2>3, <2>4, <2>5, <2>6, <2>7, <2>8, <2>9 DEF SchedStep
<1>4. ASSUME NEW t \in Threads,
             SpuriousWakeup(t) \/ Relock(t) \/ Deliver(t) \/ HandlerStep(t)
      PROVE  MutexInv'
  <2>1. CASE SpuriousWakeup(t)
    BY <2>1 DEF SpuriousWakeup
  <2>2. CASE Relock(t)
    BY <2>2 DEF Relock
  <2>3. CASE Deliver(t)
    BY <2>3 DEF Deliver
  <2>4. CASE Reap(t)
    BY <2>4 DEF Reap
  <2>5. CASE JobComplete(t)
    BY <2>5 DEF JobComplete
  <2>6. CASE HandlerReturn(t)
    BY <2>6 DEF HandlerReturn
  <2> QED
    BY <1>4, <2>1, <2>2, <2>3, <2>4, <2>5, <2>6 DEF HandlerStep
<1>5. ASSUME NEW p \in Pids, ChildExits(p) \/ ChildKilled(p)
      PROVE  MutexInv'
  BY <1>5 DEF ChildExits, ChildKilled
<1> QED
  BY <1>1, <1>2, <1>3, <1>4, <1>5 DEF Next

-----------------------------------------------------------------------------
(* Jobs, processes and completions.  ProcessRecorded says nothing of a     *)
(* child that was reaped but whose completion still waits for the mutex;   *)
(* the invariant follows a child until its job is DONE.                    *)

Completing(p) == \E t \in Threads : hpc[t] = "lock" /\ hpid[t] = p
Tracked(p)    == proc[p].st \in {"live", "exited", "killed"} \/ Completing(p)
Recording(p)  == pc["sched"] = "record" /\ sel = proc[p].job /\ child = p

\* Numbers not handed out are unused; a job that was not started has no pid.
FreshInv ==
  /\ \A j \in JobId : j >= jobid => state[j] = "none"
  /\ \A j \in JobId : state[j] \in {"none", "WAIT"} => pid[j] = NoPid

\* A pid in a job names the process forked for that job.
PidInv ==
  \A j \in JobId : pid[j] # NoPid =>
    proc[pid[j]].st # "unused" /\ proc[pid[j]].job = j

\* The job being started is listed, in RUN and has no pid yet.
SelInv ==
  /\ pc["sched"] \in {"fork", "record"} =>
       sel \in ToSet(queue) /\ state[sel] = "RUN" /\ pid[sel] = NoPid
  /\ pc["sched"] = "record" =>
       child \in Pids /\ proc[child].st # "unused" /\ proc[child].job = sel

\* A handler on its way to job_complete carries one reaped child, its own.
HandlerInv ==
  /\ \A t \in Threads : hpc[t] = "lock" =>
       /\ hpid[t] \in Pids
       /\ proc[hpid[t]].st = "reaped" /\ proc[hpid[t]].code = hcode[t]
  /\ \A t, u \in Threads :
       hpc[t] = "lock" /\ hpc[u] = "lock" /\ hpid[t] = hpid[u] => t = u

\* ProcessRecorded, carried on to the completion.
TrackedInv ==
  \A p \in Pids : Tracked(p) =>
    /\ proc[p].job \in ToSet(queue)
    /\ state[proc[p].job] = "RUN"
    /\ pid[proc[p].job] = p \/ Recording(p)

JobInv == FreshInv /\ PidInv /\ SelInv /\ HandlerInv /\ TrackedInv /\ DoneMeansReaped
IInv   == TypeInv /\ MutexInv /\ JobInv

LEMMA InitJobInv == Init => JobInv
<1> SUFFICES ASSUME Init PROVE JobInv
  OBVIOUS
<1>1. FreshInv /\ PidInv /\ SelInv
  BY DEF Init, FreshInv, PidInv, SelInv, JobId, Threads
<1>2. HandlerInv /\ TrackedInv /\ DoneMeansReaped
  BY DEF Init, HandlerInv, TrackedInv, Tracked, Completing, DoneMeansReaped,
         JobId, Threads
<1> QED
  BY <1>1, <1>2 DEF JobInv

\* Steps that touch no job, no process and no handler, and neither enter nor
\* leave the start of a job, keep JobInv; the list may grow.
LEMMA FrameJobInv ==
  ASSUME JobInv,
         UNCHANGED <<jobid, state, pid, exit, sel, child, hpc, hpid, hcode, proc>>,
         ToSet(queue) \subseteq ToSet(queue'),
         \/ pc'["sched"] = pc["sched"]
         \/ pc'["sched"] \notin {"fork", "record"} /\ pc["sched"] \notin {"fork", "record"}
  PROVE  JobInv'
<1>1. FreshInv' /\ PidInv' /\ SelInv'
  BY DEF JobInv, FreshInv, PidInv, SelInv
<1>2. HandlerInv' /\ DoneMeansReaped'
  BY DEF JobInv, HandlerInv, DoneMeansReaped
<1>3. TrackedInv'
  BY DEF JobInv, TrackedInv, Tracked, Completing, Recording
<1> QED
  BY <1>1, <1>2, <1>3 DEF JobInv

\* Two tracked processes never belong to the same job.
LEMMA TrackedDistinct ==
  ASSUME IInv, NEW p \in Pids, NEW q \in Pids, Tracked(p), Tracked(q),
         proc[p].job = proc[q].job
  PROVE  p = q
  BY ConstantsAssumption DEF IInv, JobInv, TrackedInv, SelInv, Recording

LEMMA MainJobInv ==
  ASSUME IInv, MainStep \/ Command
  PROVE  JobInv'
<1>0. JobInv /\ TypeInv /\ MutexInv
  BY DEF IInv
<1>1. CASE CreateJob
  <2>1. /\ jobid \in JobId /\ state[jobid] = "none"
        /\ state' = [state EXCEPT ![jobid] = "WAIT"]
        /\ jobid' = jobid + 1
        /\ pc'["sched"] = pc["sched"]
        /\ UNCHANGED <<queue, pid, exit, sel, child, hpc, hpid, hcode, proc>>
    BY <1>0, <1>1 DEF CreateJob, Goto, JobInv, FreshInv, TypeInv, TypeOK, JobId, Threads,
                      handler, kernel
  <2>2. \A j \in JobId : state[j] \notin {"none", "WAIT"} => state'[j] = state[j]
    BY <1>0, <2>1 DEF TypeInv, TypeOK
  <2>3. FreshInv'
    BY <1>0, <2>1 DEF JobInv, FreshInv, TypeInv, TypeOK, JobId
  <2>4. PidInv' /\ HandlerInv'
    BY <1>0, <2>1 DEF JobInv, PidInv, HandlerInv
  <2>5. SelInv'
    BY <1>0, <2>1, <2>2 DEF JobInv, SelInv, TypeInv
  <2>6. TrackedInv'
    <3>1. \A p \in Pids : Tracked(p)' => Tracked(p)
      BY <2>1 DEF Tracked, Completing
    <3>2. \A p \in Pids : Tracked(p) => proc[p].job \in JobId
      BY <1>0 DEF Tracked, Completing, JobInv, HandlerInv, TypeInv
    <3> QED
      BY <1>0, <2>1, <2>2, <3>1, <3>2 DEF JobInv, TrackedInv, Recording
  <2>7. DoneMeansReaped'
    BY <1>0, <2>1 DEF JobInv, DoneMeansReaped, TypeInv, TypeOK
  <2> QED
    BY <2>3, <2>4, <2>5, <2>6, <2>7 DEF JobInv
<1>2. CASE QueueJob
  <2>1. arg \in JobId /\ queue \in Seq(JobId) /\ queue' = Append(queue, arg)
    BY <1>0, <1>2 DEF QueueJob, TypeInv, TypeOK
  <2>2. ToSet(queue) \subseteq ToSet(queue')
    BY <2>1, AppendMembers
  <2> QED
    BY <1>0, <1>2, <2>2, FrameJobInv
    DEF QueueJob, Goto, handler, kernel, TypeInv, TypeOK, Threads
<1>3. CASE RemoveJob
  <2>1. /\ pc'["sched"] = pc["sched"]
        /\ UNCHANGED <<jobid, state, pid, exit, sel, child, hpc, hpid, hcode, proc>>
    BY <1>0, <1>3 DEF RemoveJob, Goto, handler, TypeInv, TypeOK, Threads
  <2>2. CASE queue' = queue
    BY <1>0, <2>1, <2>2, FrameJobInv
  <2>3. CASE Removable # {} /\ state[arg] # "RUN" /\ queue' = RemoveAt(queue, First(Removable))
    <3>1. queue \in Seq(JobId) /\ Removable \in SUBSET DOMAIN queue
      BY <1>0 DEF TypeInv, TypeOK, Removable, MatchesAt
    <3>2. First(Removable) \in Removable
      BY <2>3, <3>1, FirstJob
    <3>3. queue[First(Removable)] = arg
      BY <3>2 DEF Removable, MatchesAt
    <3>4. First(Removable) \in 1..Len(queue)
      BY <3>1, <3>2, Members
    <3>5. ToSet(queue) \subseteq ToSet(queue') \cup {arg}
      BY <2>3, <3>1, <3>3, <3>4, RemoveMembers
    <3>6. \A j \in ToSet(queue) : state[j] = "RUN" => j \in ToSet(queue')
      BY <2>3, <3>5
    <3>7. FreshInv' /\ PidInv' /\ HandlerInv' /\ DoneMeansReaped'
      BY <1>0, <2>1 DEF JobInv, FreshInv, PidInv, HandlerInv, DoneMeansReaped
    <3>8. SelInv'
      BY <1>0, <2>1, <3>6 DEF JobInv, SelInv
    <3>9. TrackedInv'
      BY <1>0, <2>1, <3>6 DEF JobInv, TrackedInv, Tracked, Completing, Recording
    <3> QED
      BY <3>7, <3>8, <3>9 DEF JobInv
  <2> QED
    BY <1>3, <2>2, <2>3 DEF RemoveJob
<1>4. CASE Status \/ SetNjobs \/ SpinUntilDone \/ DrainLock \/ DrainScan \/ MainUnlock
  <2>1. /\ UNCHANGED <<queue, jobid, state, pid, exit, sel, child, hpc, hpid, hcode, proc>>
        /\ \/ pc'["sched"] = pc["sched"]
           \/ /\ pc'["sched"] \notin {"fork", "record"}
              /\ pc["sched"] \notin {"fork", "record"}
    BY <1>0, <1>4
    DEF Status, SetNjobs, SpinUntilDone, DrainLock, DrainScan, MainUnlock, Goto, Woken,
        heap, handler, kernel, TypeInv, TypeOK, Threads
  <2> QED
    BY <1>0, <2>1, FrameJobInv
<1>5. CASE ReadCommand \/ WaitCommand \/ Quit
  <2>1. /\ UNCHANGED <<queue, jobid, state, pid, exit, sel, child, hpc, hpid, hcode, proc>>
        /\ pc'["sched"] = pc["sched"]
    BY <1>0, <1>5
    DEF ReadCommand, WaitCommand, Quit, Goto, heap, threads, handler, kernel,
        TypeInv, TypeOK, Threads
  <2> QED
    BY <1>0, <2>1, FrameJobInv
<1> QED
  BY <1>1, <1>2, <1>3, <1>4, <1>5 DEF MainStep, Command

LEMMA SchedJobInv ==
  ASSUME ~PidReuse, IInv, SchedStep
  PROVE  JobInv'
<1>0. JobInv /\ TypeInv /\ MutexInv
  BY DEF IInv
<1>1. CASE InstallHandler \/ SelectLock \/ AwaitSlot \/ SelectFromEmpty \/ SelectUnlock
  <2>1. /\ UNCHANGED <<queue, jobid, state, pid, exit, sel, child, hpc, hpid, hcode, proc>>
        /\ \/ pc'["sched"] = pc["sched"]
           \/ /\ pc'["sched"] \notin {"fork", "record"}
              /\ pc["sched"] \notin {"fork", "record"}
    BY <1>0, <1>1
    DEF InstallHandler, SelectLock, AwaitSlot, SelectFromEmpty, SelectUnlock, Goto,
        heap, threads, handler, kernel, TypeInv, TypeOK, Threads
  <2> QED
    BY <1>0, <2>1, FrameJobInv
<1>2. CASE SelectJob
  <2>1. CASE WaitingAt = {}
    <3>1. /\ UNCHANGED <<queue, jobid, state, pid, exit, sel, child, hpc, hpid, hcode, proc>>
          /\ pc'["sched"] = "unlock" /\ pc["sched"] = "check"
      BY <1>0, <1>2, <2>1
      DEF SelectJob, Goto, handler, kernel, TypeInv, TypeOK, Threads
    <3> QED
      BY <1>0, <3>1, FrameJobInv
  <2>2. CASE WaitingAt # {}
    <3>1. /\ sel' = queue[First(WaitingAt)]
          /\ state' = [state EXCEPT ![sel'] = "RUN"]
          /\ pc["sched"] = "check" /\ pc'["sched"] = "fork"
          /\ UNCHANGED <<queue, jobid, pid, exit, child, hpc, hpid, hcode, proc>>
      BY <1>0, <1>2, <2>2
      DEF SelectJob, Goto, handler, kernel, TypeInv, TypeOK, Threads
    <3>2. queue \in Seq(JobId) /\ WaitingAt \in SUBSET DOMAIN queue
      BY <1>0 DEF TypeInv, TypeOK, WaitingAt
    <3>3. sel' \in JobId /\ sel' \in ToSet(queue) /\ state[sel'] = "WAIT"
      BY <2>2, <3>1, <3>2, FirstJob DEF WaitingAt
    <3>4. pid[sel'] = NoPid
      BY <1>0, <3>3 DEF JobInv, FreshInv
    <3>5. state'[sel'] = "RUN" /\ \A j \in JobId : j # sel' => state'[j] = state[j]
      BY <1>0, <3>1, <3>3 DEF TypeInv, TypeOK
    <3>6. FreshInv' /\ PidInv' /\ HandlerInv'
      <4>1. jobid \in Nat /\ sel' < jobid
        BY <1>0, <3>3 DEF JobInv, FreshInv, TypeInv, TypeOK, JobId
      <4> QED
        BY <1>0, <3>1, <3>3, <3>5, <4>1 DEF JobInv, FreshInv, PidInv, HandlerInv, JobId
    <3>7. SelInv'
      BY <3>1, <3>3, <3>4, <3>5 DEF SelInv
    <3>8. TrackedInv'
      <4>1. \A p \in Pids : Tracked(p)' => Tracked(p)
        BY <3>1 DEF Tracked, Completing
      <4>2. \A p \in Pids : Tracked(p) => proc[p].job \in JobId
        BY <1>0 DEF Tracked, Completing, JobInv, HandlerInv, TypeInv
      <4> QED
        BY <1>0, <3>1, <3>5, <4>1, <4>2 DEF JobInv, TrackedInv, Recording
    <3>9. DoneMeansReaped'
      BY <1>0, <3>1, <3>5 DEF JobInv, DoneMeansReaped
    <3> QED
      BY <3>6, <3>7, <3>8, <3>9 DEF JobInv
  <2> QED
    BY <2>1, <2>2
<1>3. CASE Fork
  <2>1. PICK p \in Pids :
          /\ proc[p].st = "unused"
          /\ proc' = [proc EXCEPT ![p] = [st |-> "live", job |-> sel, code |-> NoExit]]
          /\ child' = p
    BY <1>3 DEF Fork, Available
  <2>2. /\ pc["sched"] = "fork" /\ pc'["sched"] = "record"
        /\ UNCHANGED <<queue, jobid, state, pid, exit, sel, hpc, hpid, hcode>>
    BY <1>0, <1>3 DEF Fork, Goto, heap, handler, TypeInv, TypeOK, Threads
  <2>3. /\ proc'[p] = [st |-> "live", job |-> sel, code |-> NoExit]
        /\ \A q \in Pids : q # p => proc'[q] = proc[q]
    BY <1>0, <2>1 DEF TypeInv, TypeOK
  <2>4. \A t \in Threads : hpc[t] = "lock" => hpid[t] # p
    BY <1>0, <2>1 DEF JobInv, HandlerInv
  <2>5. FreshInv' /\ SelInv'
    BY <1>0, <2>1, <2>2, <2>3 DEF JobInv, FreshInv, SelInv
  <2>6. PidInv'
    BY <1>0, <2>1, <2>2, <2>3 DEF JobInv, PidInv, TypeInv, TypeOK
  <2>7. HandlerInv'
    BY <1>0, <2>2, <2>3, <2>4 DEF JobInv, HandlerInv
  <2>8. TrackedInv'
    <3>1. \A q \in Pids : q # p /\ Tracked(q)' => Tracked(q)
      BY <2>2, <2>3 DEF Tracked, Completing
    <3>2. \A q \in Pids : q # p => ~Recording(q)
      BY <2>2 DEF Recording
    <3>3. Recording(p)'
      BY <2>1, <2>2, <2>3 DEF Recording
    <3> QED
      BY <1>0, <2>2, <2>3, <3>1, <3>2, <3>3 DEF JobInv, TrackedInv, SelInv
  <2>9. DoneMeansReaped'
    BY <1>0, <2>1, <2>2, <2>3 DEF JobInv, DoneMeansReaped
  <2> QED
    BY <2>5, <2>6, <2>7, <2>8, <2>9 DEF JobInv
<1>4. CASE ForkError
  <2>1. /\ pc["sched"] = "fork" /\ pc'["sched"] = "unlock"
        /\ UNCHANGED <<queue, jobid, state, pid, exit, child, hpc, hpid, hcode, proc>>
    BY <1>0, <1>4 DEF ForkError, Goto, heap, handler, kernel, TypeInv, TypeOK, Threads
  <2>2. FreshInv' /\ PidInv' /\ HandlerInv' /\ DoneMeansReaped' /\ SelInv'
    BY <1>0, <2>1 DEF JobInv, FreshInv, PidInv, HandlerInv, DoneMeansReaped, SelInv
  <2>3. TrackedInv'
    BY <1>0, <2>1 DEF JobInv, TrackedInv, Tracked, Completing, Recording
  <2> QED
    BY <2>2, <2>3 DEF JobInv
<1>5. CASE RecordPid
  <2>1. /\ pc["sched"] = "record" /\ pc'["sched"] = "unlock"
        /\ pid' = [pid EXCEPT ![sel] = child]
        /\ UNCHANGED <<queue, jobid, state, exit, hpc, hpid, hcode, proc>>
    BY <1>0, <1>5 DEF RecordPid, Goto, handler, kernel, TypeInv, TypeOK, Threads
  <2>2. /\ sel \in JobId /\ state[sel] = "RUN" /\ pid[sel] = NoPid
        /\ child \in Pids /\ proc[child].st # "unused" /\ proc[child].job = sel
    BY <1>0, <2>1 DEF JobInv, SelInv, TypeInv
  <2>3. pid'[sel] = child /\ \A j \in JobId : j # sel => pid'[j] = pid[j]
    BY <1>0, <2>1, <2>2 DEF TypeInv, TypeOK
  <2>4. FreshInv' /\ PidInv'
    BY <1>0, <2>1, <2>2, <2>3 DEF JobInv, FreshInv, PidInv
  <2>5. SelInv' /\ HandlerInv' /\ DoneMeansReaped'
    BY <1>0, <2>1 DEF JobInv, SelInv, HandlerInv, DoneMeansReaped
  <2>6. TrackedInv'
    <3>1. \A p \in Pids : Tracked(p)' => Tracked(p)
      BY <2>1 DEF Tracked, Completing
    <3>2. \A p \in Pids : Tracked(p) => proc[p].job \in JobId
      BY <1>0 DEF Tracked, Completing, JobInv, HandlerInv, TypeInv
    <3>3. ASSUME NEW p \in Pids, Tracked(p) PROVE pid'[proc[p].job] = p
      <4>1. CASE Recording(p)
        BY <4>1, <2>2, <2>3 DEF Recording
      <4>2. CASE pid[proc[p].job] = p
        BY <4>2, <2>2, <2>3, <3>2, <3>3, ConstantsAssumption
      <4> QED
        BY <1>0, <3>3, <4>1, <4>2 DEF JobInv, TrackedInv
    <3> QED
      BY <1>0, <2>1, <3>1, <3>3 DEF JobInv, TrackedInv
  <2> QED
    BY <2>4, <2>5, <2>6 DEF JobInv
<1> QED
  BY <1>1, <1>2, <1>3, <1>4, <1>5 DEF SchedStep

LEMMA HandlerJobInv ==
  ASSUME IInv, NEW t \in Threads,
         SpuriousWakeup(t) \/ Relock(t) \/ Deliver(t) \/ HandlerStep(t)
  PROVE  JobInv'
<1>0. JobInv /\ TypeInv /\ MutexInv
  BY DEF IInv
<1>1. CASE SpuriousWakeup(t) \/ Relock(t)
  <2>1. /\ UNCHANGED <<queue, jobid, state, pid, exit, sel, child, hpc, hpid, hcode, proc>>
        /\ \/ pc'["sched"] = pc["sched"]
           \/ /\ pc'["sched"] \notin {"fork", "record"}
              /\ pc["sched"] \notin {"fork", "record"}
    BY <1>0, <1>1
    DEF SpuriousWakeup, Relock, Goto, heap, handler, kernel, TypeInv, TypeOK, Threads
  <2> QED
    BY <1>0, <2>1, FrameJobInv
<1>2. CASE Deliver(t) \/ HandlerReturn(t)
  <2>1. /\ UNCHANGED <<queue, jobid, state, pid, exit, pc, sel, child, proc>>
        /\ \A u \in Threads : hpc'[u] = "lock" <=> hpc[u] = "lock"
        /\ \A u \in Threads : hpc[u] = "lock" => hpid'[u] = hpid[u] /\ hcode'[u] = hcode[u]
    BY <1>0, <1>2
    DEF Deliver, HandlerReturn, Executes, heap, threads, kernel, TypeInv, TypeOK
  <2>2. FreshInv' /\ PidInv' /\ SelInv' /\ DoneMeansReaped'
    BY <1>0, <2>1 DEF JobInv, FreshInv, PidInv, SelInv, DoneMeansReaped
  <2>3. HandlerInv'
    BY <1>0, <2>1 DEF JobInv, HandlerInv
  <2>4. \A p \in Pids : Tracked(p)' => Tracked(p)
    BY <2>1 DEF Tracked, Completing
  <2>5. TrackedInv'
    BY <1>0, <2>1, <2>4 DEF JobInv, TrackedInv, Recording
  <2> QED
    BY <2>2, <2>3, <2>5 DEF JobInv
<1>3. CASE Reap(t)
  <2>1. PICK p \in Zombies :
          /\ proc' = [proc EXCEPT ![p].st = "reaped"]
          /\ \/ /\ hpc' = [hpc EXCEPT ![t] = "lock"]
                /\ hpid' = [hpid EXCEPT ![t] = p]
                /\ hcode' = [hcode EXCEPT ![t] = proc[p].code]
             \/ /\ hpc' = [hpc EXCEPT ![t] = "off"]
                /\ UNCHANGED <<hpid, hcode>>
    BY <1>3 DEF Reap, WEXITSTATUS
  <2>2. /\ p \in Pids /\ proc[p].st \in {"exited", "killed"} /\ hpc[t] = "wait"
        /\ UNCHANGED <<queue, jobid, state, pid, exit, pc, sel, child>>
    BY <1>3 DEF Zombies, Reap, heap, threads
  <2>3. /\ proc'[p].st = "reaped" /\ proc'[p].job = proc[p].job
        /\ proc'[p].code = proc[p].code
        /\ \A q \in Pids : q # p => proc'[q] = proc[q]
    BY <1>0, <2>1, <2>2 DEF TypeInv, TypeOK, Process
  <2>4. FreshInv' /\ PidInv' /\ SelInv'
    BY <1>0, <2>2, <2>3, ConstantsAssumption
    DEF JobInv, FreshInv, PidInv, SelInv, TypeInv, TypeOK
  <2>5. \A u \in Threads : u # t =>
          /\ hpc'[u] = hpc[u] /\ hpid'[u] = hpid[u] /\ hcode'[u] = hcode[u]
          /\ hpc[u] = "lock" => hpid[u] # p
    BY <1>0, <2>1, <2>2 DEF JobInv, HandlerInv, TypeInv, TypeOK
  <2>6. hpc'[t] = "lock" => hpid'[t] = p /\ hcode'[t] = proc[p].code
    BY <1>0, <2>1 DEF TypeInv, TypeOK
  <2>7. HandlerInv'
    BY <1>0, <2>2, <2>3, <2>5, <2>6 DEF JobInv, HandlerInv
  <2>8. TrackedInv'
    <3>1. \A q \in Pids : Tracked(q)' => Tracked(q)
      BY <2>2, <2>3, <2>5, <2>6 DEF Tracked, Completing
    <3>2. \A q \in Pids : proc'[q].job = proc[q].job
      BY <2>3
    <3> QED
      BY <1>0, <2>2, <3>1, <3>2 DEF JobInv, TrackedInv, Recording
  <2>9. DoneMeansReaped'
    BY <1>0, <2>2, <2>3 DEF JobInv, DoneMeansReaped
  <2> QED
    BY <2>4, <2>7, <2>8, <2>9 DEF JobInv
<1>4. CASE JobComplete(t)
  <2> DEFINE p == hpid[t]
             j == proc[p].job
  <2>1. /\ p \in Pids /\ proc[p].st = "reaped" /\ proc[p].code = hcode[t]
        /\ Tracked(p) /\ hpc[t] = "lock"
    BY <1>0, <1>4 DEF JobComplete, JobInv, HandlerInv, Tracked, Completing
  <2>2. mutex = Free /\ pc["sched"] \notin {"fork", "record"}
    BY <1>0, <1>4 DEF JobComplete, Lock, MutexInv, Holds, Critical, Free, Threads
  <2>3. j \in ToSet(queue) /\ j \in JobId /\ state[j] = "RUN" /\ pid[j] = p
    BY <1>0, <2>1, <2>2 DEF JobInv, TrackedInv, Recording, TypeInv
  <2>4. queue \in Seq(JobId) /\ PidAt(p) \in SUBSET DOMAIN queue
    BY <1>0 DEF TypeInv, TypeOK, PidAt
  <2>5. PidAt(p) # {}
    <3>1. PICK i \in 1..Len(queue) : queue[i] = j
      BY <2>3, <2>4, Members
    <3>2. i \in DOMAIN queue
      BY <2>4, <3>1, Members
    <3> QED
      BY <2>3, <3>1, <3>2 DEF PidAt
  <2>6. queue[First(PidAt(p))] = j
    <3>1. /\ First(PidAt(p)) \in PidAt(p)
          /\ queue[First(PidAt(p))] \in JobId
      BY <2>4, <2>5, FirstJob
    <3>2. pid[queue[First(PidAt(p))]] = p
      BY <3>1 DEF PidAt
    <3> QED
      BY <1>0, <2>1, <3>1, <3>2, ConstantsAssumption DEF JobInv, PidInv
  <2>7. /\ state' = [state EXCEPT ![j] = "DONE"]
        /\ exit' = [exit EXCEPT ![j] = hcode[t]]
        /\ pc' = Woken
        /\ hpc' = [hpc EXCEPT ![t] = "unlock"]
        /\ UNCHANGED <<queue, jobid, pid, sel, child, hpid, hcode, proc>>
    BY <1>4, <2>5, <2>6 DEF JobComplete, kernel
  <2> HIDE DEF p, j
  <2>8. /\ state'[j] = "DONE" /\ exit'[j] = proc[p].code
        /\ \A k \in JobId : k # j => state'[k] = state[k] /\ exit'[k] = exit[k]
        /\ hpc'[t] = "unlock" /\ \A u \in Threads : u # t => hpc'[u] = hpc[u]
        /\ pc'["sched"] \notin {"fork", "record"}
    BY <1>0, <2>1, <2>2, <2>3, <2>7 DEF TypeInv, TypeOK, Woken, Threads
  <2>9. FreshInv' /\ PidInv' /\ SelInv' /\ HandlerInv'
    BY <1>0, <2>3, <2>7, <2>8 DEF JobInv, FreshInv, PidInv, SelInv, HandlerInv
  <2>10. TrackedInv'
    <3>1. \A q \in Pids : Tracked(q)' => Tracked(q) /\ q # p
      BY <1>0, <2>1, <2>7, <2>8 DEF Tracked, Completing, JobInv, HandlerInv, p
    <3>2. \A q \in Pids : Tracked(q)' => proc[q].job # j
      BY <2>1, <3>1, TrackedDistinct DEF j
    <3>3. \A q \in Pids : Tracked(q) => proc[q].job \in JobId
      BY <1>0 DEF Tracked, Completing, JobInv, HandlerInv, TypeInv
    <3>4. \A q \in Pids : ~Recording(q)
      BY <2>2 DEF Recording
    <3> QED
      BY <1>0, <2>7, <2>8, <3>1, <3>2, <3>3, <3>4 DEF JobInv, TrackedInv
  <2>11. DoneMeansReaped'
    <3>1. proc[p] = [st |-> "reaped", job |-> j, code |-> exit'[j]]
      BY <1>0, <2>1, <2>8 DEF TypeInv, TypeOK, Process, j
    <3> QED
      BY <1>0, <2>1, <2>7, <2>8, <3>1 DEF JobInv, DoneMeansReaped
  <2> QED
    BY <2>9, <2>10, <2>11 DEF JobInv
<1> QED
  BY <1>1, <1>2, <1>3, <1>4 DEF HandlerStep

LEMMA KernelJobInv ==
  ASSUME IInv, NEW p \in Pids, ChildExits(p) \/ ChildKilled(p)
  PROVE  JobInv'
<1>0. JobInv /\ TypeInv
  BY DEF IInv
<1>1. /\ proc[p].st = "live"
      /\ proc'[p].st \in {"exited", "killed"} /\ proc'[p].job = proc[p].job
      /\ \A q \in Pids : q # p => proc'[q] = proc[q]
      /\ UNCHANGED <<queue, jobid, state, pid, exit, pc, sel, child, hpc, hpid, hcode>>
  BY <1>0 DEF ChildExits, ChildKilled, heap, threads, handler, TypeInv, TypeOK, Process
<1>2. FreshInv' /\ PidInv' /\ SelInv'
  BY <1>0, <1>1, ConstantsAssumption
  DEF JobInv, FreshInv, PidInv, SelInv, TypeInv, TypeOK
<1>3. HandlerInv' /\ DoneMeansReaped'
  BY <1>0, <1>1 DEF JobInv, HandlerInv, DoneMeansReaped
<1>4. TrackedInv'
  <2>1. \A q \in Pids : Tracked(q)' => Tracked(q)
    BY <1>1 DEF Tracked, Completing
  <2>2. \A q \in Pids : proc'[q].job = proc[q].job
    BY <1>1
  <2> QED
    BY <1>0, <1>1, <2>1, <2>2 DEF JobInv, TrackedInv, Recording
<1> QED
  BY <1>2, <1>3, <1>4 DEF JobInv

LEMMA InitIInv == Init => IInv
  BY InitTypeInv, InitMutexInv, InitJobInv DEF IInv

LEMMA NextIInv ==
  ASSUME ~PidReuse, IInv, [Next]_vars
  PROVE  IInv'
<1>0. TypeInv /\ MutexInv /\ JobInv
  BY DEF IInv
<1>1. CASE UNCHANGED vars
  <2>1. TypeInv'
    BY <1>0, <1>1, NextTypeInv
  <2>2. MutexInv'
    BY <1>0, <1>1 DEF MutexInv, Holds, Critical, vars, threads, handler
  <2>3. JobInv'
    BY <1>0, <1>1, FrameJobInv DEF vars, heap, threads, handler, kernel
  <2> QED
    BY <2>1, <2>2, <2>3 DEF IInv
<1>2. CASE Next
  <2>1. TypeInv'
    BY <1>0, <1>2, NextTypeInv
  <2>2. MutexInv'
    BY <1>0, <1>2, NextMutexInv
  <2>3. JobInv'
    BY <1>2, MainJobInv, SchedJobInv, HandlerJobInv, KernelJobInv DEF Next
  <2> QED
    BY <2>1, <2>2, <2>3 DEF IInv
<1> QED
  BY <1>1, <1>2

LEMMA Inductive == ASSUME ~PidReuse PROVE Spec => []IInv
<1>1. IInv /\ [Next]_vars => IInv'
  BY NextIInv
<1> QED
  BY <1>1, InitIInv, PTL DEF Spec

\* Unless the kernel reuses pids, no unreaped child is ever without its job:
\* the job is in the list and in RUN, so neither remove nor a second start can
\* orphan the process (remove_job's test of RUN, select_job_to_run's of WAIT).
THEOREM ProcessesAreRecorded ==
  ASSUME ~PidReuse PROVE Spec => []ProcessRecorded
<1>1. IInv => ProcessRecorded
  BY DEF IInv, JobInv, TrackedInv, Tracked, Recording, ProcessRecorded
<1> QED
  BY <1>1, Inductive, PTL

\* The invariant puts a completion's job where job_complete looks for it.
LEMMA CompletionLemma == ASSUME IInv PROVE CompletionFindsJob
<1>0. JobInv /\ TypeInv /\ MutexInv
  BY DEF IInv
<1> SUFFICES ASSUME NEW t \in Threads, hpc[t] = "lock", mutex = Free
             PROVE  /\ PidAt(hpid[t]) # {}
                    /\ queue[First(PidAt(hpid[t]))] = proc[hpid[t]].job
  BY DEF CompletionFindsJob
<1> DEFINE p == hpid[t]
<1>1. p \in Pids /\ Tracked(p) /\ ~Recording(p)
  BY <1>0 DEF JobInv, HandlerInv, Tracked, Completing, Recording, MutexInv, Holds,
              Critical, Free, Threads
<1>2. /\ proc[p].job \in ToSet(queue) /\ pid[proc[p].job] = p
      /\ queue \in Seq(JobId) /\ PidAt(p) \in SUBSET DOMAIN queue
  BY <1>0, <1>1 DEF JobInv, TrackedInv, TypeInv, TypeOK, PidAt
<1>3. PidAt(p) # {}
  <2>1. PICK i \in 1..Len(queue) : queue[i] = proc[p].job
    BY <1>2, Members
  <2>2. i \in DOMAIN queue
    BY <1>2, <2>1, Members
  <2> QED
    BY <1>2, <2>1, <2>2 DEF PidAt
<1>4. /\ First(PidAt(p)) \in PidAt(p)
      /\ queue[First(PidAt(p))] \in JobId
  BY <1>2, <1>3, FirstJob
<1>5. pid[queue[First(PidAt(p))]] = p
  BY <1>4 DEF PidAt
<1>6. proc[p].job = queue[First(PidAt(p))]
  BY <1>0, <1>1, <1>4, <1>5, ConstantsAssumption DEF JobInv, PidInv
<1> QED
  BY <1>3, <1>6

\* Unless the kernel reuses pids, job_complete never fails to find the job of
\* the child its handler waited for, whatever ran in between.
THEOREM CompletionsFindTheirJob ==
  ASSUME ~PidReuse PROVE Spec => []CompletionFindsJob
<1>1. IInv => CompletionFindsJob
  BY CompletionLemma
<1> QED
  BY <1>1, Inductive, PTL

\* Unless the kernel reuses pids, a DONE job shows the exit status of a process
\* of its own that has ended and was reaped.
THEOREM DoneJobsAreReaped ==
  ASSUME ~PidReuse PROVE Spec => []DoneMeansReaped
<1>1. IInv => DoneMeansReaped
  BY DEF IInv, JobInv
<1> QED
  BY <1>1, Inductive, PTL

-----------------------------------------------------------------------------
(* drain.  The walk leaves only DONE jobs behind it; others may finish or  *)
(* start meanwhile, but a DONE job stays DONE and only main changes the    *)
(* list.  Nothing here depends on what the kernel does with pids.          *)

DrainInv ==
  Draining => \A i \in 1..arg-1 : i \in DOMAIN queue => state[queue[i]] = "DONE"

\* What other steps than main's own can do to the jobs drain has passed.
LEMMA DoneStays ==
  ASSUME TypeInv, SchedStep \/ \E t \in Threads : HandlerStep(t)
  PROVE  /\ \A j \in JobId : state[j] = "DONE" => state'[j] = "DONE"
         /\ UNCHANGED <<queue, arg>>
<1>1. UNCHANGED <<queue, arg>>
  BY DEF SchedStep, HandlerStep, InstallHandler, SelectLock, AwaitSlot, SelectJob,
         SelectFromEmpty, Fork, ForkError, RecordPid, SelectUnlock, Reap, JobComplete,
         HandlerReturn, heap, threads
<1>2. CASE SelectJob /\ WaitingAt # {}
  <2>1. queue \in Seq(JobId) /\ WaitingAt \in SUBSET DOMAIN queue
    BY DEF TypeInv, TypeOK, WaitingAt
  <2>2. /\ queue[First(WaitingAt)] \in JobId
        /\ state[queue[First(WaitingAt)]] = "WAIT"
    BY <1>2, <2>1, FirstJob DEF WaitingAt
  <2> QED
    BY <1>1, <1>2, <2>2 DEF SelectJob, TypeInv, TypeOK
<1>3. ASSUME NEW t \in Threads, JobComplete(t)
      PROVE  \A j \in JobId : state[j] = "DONE" => state'[j] = "DONE"
  BY <1>3 DEF JobComplete, TypeInv, TypeOK
<1>4. CASE UNCHANGED state
  BY <1>1, <1>4
<1>5. UNCHANGED state \/ (SelectJob /\ WaitingAt # {}) \/ \E t \in Threads : JobComplete(t)
  BY DEF SchedStep, HandlerStep, InstallHandler, SelectLock, AwaitSlot, SelectJob,
         SelectFromEmpty, Fork, ForkError, RecordPid, SelectUnlock, Reap,
         HandlerReturn, heap
<1> QED
  BY <1>1, <1>2, <1>3, <1>4, <1>5

LEMMA NextDrainInv ==
  ASSUME TypeInv, DrainInv, [Next]_vars
  PROVE  DrainInv'
<1>1. CASE UNCHANGED <<queue, state, arg>> /\ (Draining' => Draining)
  BY <1>1 DEF DrainInv
<1>2. CASE DrainLock
  BY <1>2 DEF DrainLock, DrainInv
<1>3. CASE DrainScan
  <2>1. /\ Draining /\ arg \in Nat /\ UNCHANGED <<queue, state>>
        /\ \/ arg' = arg /\ Draining'
           \/ arg' = arg + 1 /\ state[queue[arg]] = "DONE"
           \/ ~Draining'
    BY <1>3 DEF DrainScan, Draining, Goto, heap, TypeInv, TypeOK, Threads
  <2> QED
    BY <2>1 DEF DrainInv
<1>4. CASE SchedStep \/ \E t \in Threads : HandlerStep(t)
  <2>1. Draining' => Draining
    BY <1>4 DEF SchedStep, HandlerStep, InstallHandler, SelectLock, AwaitSlot, SelectJob,
         SelectFromEmpty, Fork, ForkError, RecordPid, SelectUnlock, Reap, JobComplete,
         HandlerReturn, heap, threads, Draining, Goto, Woken, TypeInv, TypeOK, Threads
  <2>2. /\ \A j \in JobId : state[j] = "DONE" => state'[j] = "DONE"
        /\ UNCHANGED <<queue, arg>>
    BY <1>4, DoneStays
  <2>3. \A i \in DOMAIN queue : queue[i] \in JobId
    BY DEF TypeInv, TypeOK
  <2> QED
    BY <2>1, <2>2, <2>3 DEF DrainInv
<1>5. CASE \/ QueueJob \/ Status \/ SetNjobs \/ RemoveJob \/ SpinUntilDone \/ MainUnlock
           \/ Command
  <2>1. ~Draining'
    BY <1>5 DEF QueueJob, Status, SetNjobs, RemoveJob, SpinUntilDone, MainUnlock, Command,
                CreateJob, ReadCommand, WaitCommand, Quit, Draining, Goto, Woken, threads,
                TypeInv, TypeOK, Threads
  <2> QED
    BY <2>1 DEF DrainInv
<1>6. ASSUME NEW t \in Threads, SpuriousWakeup(t) \/ Relock(t) \/ Deliver(t)
      PROVE  UNCHANGED <<queue, state, arg>> /\ (Draining' => Draining)
  BY <1>6 DEF SpuriousWakeup, Relock, Deliver, Draining, Goto, heap, threads,
              TypeInv, TypeOK, Threads
<1>7. ASSUME NEW p \in Pids, ChildExits(p) \/ ChildKilled(p)
      PROVE  UNCHANGED <<queue, state, arg>> /\ (Draining' => Draining)
  BY <1>7 DEF ChildExits, ChildKilled, Draining, heap, threads
<1>8. ASSUME UNCHANGED vars
      PROVE  UNCHANGED <<queue, state, arg>> /\ (Draining' => Draining)
  BY <1>8 DEF vars, Draining, heap, threads
<1> QED
  BY <1>1, <1>2, <1>3, <1>4, <1>5, <1>6, <1>7, <1>8 DEF Next, MainStep

\* Whenever drain stops walking the list, every job in it is DONE, although it
\* released the mutex at any number of jobs on the way.
THEOREM DrainsToDone == Spec => DrainEndsDone
<1> DEFINE Ends == pc["main"] = "drain_scan" /\ pc'["main"] = "unlock"
                   => \A j \in ToSet(queue) : state[j] = "DONE"
<1>1. ASSUME TypeInv, DrainInv, [Next]_vars PROVE Ends
  <2> SUFFICES ASSUME pc["main"] = "drain_scan", pc'["main"] = "unlock"
               PROVE  \A j \in ToSet(queue) : state[j] = "DONE"
    OBVIOUS
  <2>1. DrainScan
    <3>1. CASE SchedStep \/ \E t \in Threads : SpuriousWakeup(t) \/ Relock(t) \/ Deliver(t)
                                               \/ HandlerStep(t)
      BY <1>1, <3>1 DEF SchedStep, HandlerStep, InstallHandler, SelectLock, AwaitSlot,
         SelectJob, SelectFromEmpty, Fork, ForkError, RecordPid, SelectUnlock, Reap,
         JobComplete, HandlerReturn, SpuriousWakeup, Relock, Deliver, threads, Goto, Woken,
         TypeInv, TypeOK, Threads
    <3>2. CASE UNCHANGED vars \/ \E p \in Pids : ChildExits(p) \/ ChildKilled(p)
      BY <1>1, <3>2 DEF vars, threads, ChildExits, ChildKilled
    <3>3. CASE Command \/ MainStep
      BY <1>1, <3>3 DEF Command, MainStep, CreateJob, ReadCommand, WaitCommand, Quit,
         QueueJob, Status, SetNjobs, RemoveJob, SpinUntilDone, DrainLock, MainUnlock, threads
    <3> QED
      BY <1>1, <3>1, <3>2, <3>3 DEF Next
  <2>2. arg > Len(queue) /\ arg \in Nat /\ queue \in Seq(JobId)
    BY <1>1, <2>1 DEF DrainScan, Goto, TypeInv, TypeOK, Threads
  <2>3. \A i \in 1..Len(queue) : state[queue[i]] = "DONE"
    BY <1>1, <2>2 DEF DrainInv, Draining
  <2> QED
    BY <2>2, <2>3, Members
<1>2. TypeInv /\ [Next]_vars => TypeInv'
  BY NextTypeInv
<1>3. TypeInv /\ DrainInv /\ [Next]_vars => DrainInv'
  BY NextDrainInv
<1>4. Init => TypeInv /\ DrainInv
  BY InitTypeInv DEF Init, DrainInv, Draining, Threads
<1> QED
  BY <1>1, <1>2, <1>3, <1>4, PTL DEF Spec, DrainEndsDone
-----------------------------------------------------------------------------
(* Signals.  ZombieForEachWait is inductive once the zombies are known to  *)
(* be finitely many: a pending signal becomes a handler's wait, and a      *)
(* handler that is done waiting takes a zombie with it.                    *)

Waits    == { t \in Threads : hpc[t] = "wait" }
ClaimInv == IsFiniteSet(Zombies) /\ ZombieForEachWait

LEMMA WaitsFinite == IsFiniteSet(Waits) /\ Cardinality(Waits) \in Nat
<1>1. IsFiniteSet({"main"} \cup {"sched"})
  BY FS_Singleton, FS_AddElement
<1>2. Waits \in SUBSET ({"main"} \cup {"sched"})
  BY DEF Waits, Threads
<1>3. IsFiniteSet(Waits)
  BY <1>1, <1>2, FS_Subset
<1> QED
  BY <1>3, FS_CardinalityType

LEMMA InitClaimInv == Init => ClaimInv
<1> SUFFICES ASSUME Init PROVE ClaimInv
  OBVIOUS
<1>1. Zombies = {} /\ Waits = {} /\ ~pending
  BY DEF Init, Zombies, Waits
<1> QED
  BY <1>1, FS_EmptySet DEF ClaimInv, ZombieForEachWait, Claims, Waits

LEMMA NextClaimInv ==
  ASSUME TypeInv, ClaimInv, [Next]_vars
  PROVE  ClaimInv'
<1>0. /\ IsFiniteSet(Zombies) /\ Cardinality(Zombies) \in Nat
      /\ Cardinality(Waits) + (IF pending THEN 1 ELSE 0) <= Cardinality(Zombies)
      /\ proc \in [Pids -> Process] /\ hpc \in [Threads -> {"off", "wait", "lock", "unlock"}]
  BY FS_CardinalityType DEF ClaimInv, ZombieForEachWait, Claims, Waits, TypeInv, TypeOK
<1>1. SUFFICES /\ IsFiniteSet(Zombies')
               /\ Cardinality(Waits') + (IF pending' THEN 1 ELSE 0) <= Cardinality(Zombies')
  BY DEF ClaimInv, ZombieForEachWait, Claims, Waits
<1>2. CASE pending' = pending /\ Waits' = Waits /\ Zombies' = Zombies
  BY <1>0, <1>2
<1>3. CASE \E t \in Threads : Deliver(t)
  <2>1. PICK t \in Threads : Deliver(t)
    BY <1>3
  <2>2. Waits' = Waits \cup {t} /\ t \notin Waits /\ pending /\ ~pending' /\ Zombies' = Zombies
    BY <1>0, <2>1 DEF Deliver, Executes, Waits, Zombies
  <2>3. Cardinality(Waits') = Cardinality(Waits) + 1
    BY <2>2, WaitsFinite, FS_AddElement
  <2> QED
    BY <1>0, <2>2, <2>3, WaitsFinite
<1>4. CASE \E t \in Threads : Reap(t)
  <2>1. PICK t \in Threads : Reap(t)
    BY <1>4
  <2>2. PICK p \in Zombies : /\ proc' = [proc EXCEPT ![p].st = "reaped"]
                             /\ hpc[t] = "wait"
                             /\ \/ hpc' = [hpc EXCEPT ![t] = "lock"]
                                \/ hpc' = [hpc EXCEPT ![t] = "off"]
                             /\ pending' = pending
    BY <2>1 DEF Reap
  <2>3. Waits' = Waits \ {t} /\ t \in Waits
    BY <1>0, <2>2 DEF Waits
  <2>4. Zombies' = Zombies \ {p}
    BY <1>0, <2>2 DEF Zombies, Process
  <2>5. /\ Cardinality(Waits') = Cardinality(Waits) - 1
        /\ IsFiniteSet(Zombies') /\ Cardinality(Zombies') = Cardinality(Zombies) - 1
    BY <1>0, <2>2, <2>3, <2>4, WaitsFinite, FS_RemoveElement
  <2> QED
    BY <1>0, <2>2, <2>5, WaitsFinite
<1>5. CASE \E p \in Pids : ChildExits(p) \/ ChildKilled(p)
  <2>1. PICK p \in Pids : ChildExits(p) \/ ChildKilled(p)
    BY <1>5
  <2>2. /\ proc[p].st = "live" /\ pending' /\ hpc' = hpc
        /\ \/ \E e \in ExitCodes :
                proc' = [proc EXCEPT ![p] = [st |-> "exited", job |-> @.job, code |-> e]]
           \/ proc' = [proc EXCEPT ![p].st = "killed"]
    BY <2>1 DEF ChildExits, ChildKilled, handler
  <2>3. Zombies' = Zombies \cup {p} /\ p \notin Zombies
    BY <1>0, <2>2 DEF Zombies, Process
  <2>4. Waits' = Waits
    BY <2>2 DEF Waits
  <2>5. IsFiniteSet(Zombies') /\ Cardinality(Zombies') = Cardinality(Zombies) + 1
    BY <1>0, <2>3, FS_AddElement
  <2> QED
    BY <1>0, <2>2, <2>4, <2>5, WaitsFinite
<1>6. CASE Command \/ MainStep \/ UNCHANGED vars
  BY <1>2, <1>6 DEF Command, MainStep, CreateJob, ReadCommand, WaitCommand, Quit,
     QueueJob, Status, SetNjobs, RemoveJob, SpinUntilDone, DrainLock, DrainScan, MainUnlock,
     vars, handler, kernel, Waits, Zombies
<1>7. CASE SchedStep
  <2>1. CASE Fork
    <3>1. PICK p \in Pids : /\ proc[p].st \in {"unused", "reaped"}
                            /\ proc' = [proc EXCEPT ![p] =
                                          [st |-> "live", job |-> sel, code |-> NoExit]]
      BY <2>1 DEF Fork, Available
    <3>2. Zombies' = Zombies
      BY <1>0, <3>1 DEF Zombies, Process
    <3> QED
      BY <1>2, <2>1, <3>2 DEF Fork, handler, Waits
  <2>2. CASE ~Fork
    BY <1>2, <1>7, <2>2 DEF SchedStep, InstallHandler, SelectLock, AwaitSlot, SelectJob,
       SelectFromEmpty, ForkError, RecordPid, SelectUnlock, handler, kernel, Waits, Zombies
  <2> QED
    BY <2>1, <2>2
<1>8. CASE \E t \in Threads : SpuriousWakeup(t) \/ Relock(t)
  BY <1>2, <1>8 DEF SpuriousWakeup, Relock, handler, kernel, Waits, Zombies
<1>9. CASE \E t \in Threads : JobComplete(t) \/ HandlerReturn(t)
  <2>1. PICK t \in Threads : JobComplete(t) \/ HandlerReturn(t)
    BY <1>9
  <2>2. /\ hpc[t] # "wait" /\ proc' = proc /\ pending' = pending
        /\ hpc' = [hpc EXCEPT ![t] = "unlock"] \/ hpc' = [hpc EXCEPT ![t] = "off"]
    BY <2>1 DEF JobComplete, HandlerReturn, kernel
  <2>3. Waits' = Waits /\ Zombies' = Zombies
    BY <1>0, <2>2 DEF Waits, Zombies
  <2> QED
    BY <1>2, <2>2, <2>3
<1> QED
  BY <1>3, <1>4, <1>5, <1>6, <1>7, <1>8, <1>9 DEF Next, HandlerStep

\* Every SIGCHLD that is pending or being handled has a child left for its wait(),
\* for any number of children and in whatever order they end and handlers run.
THEOREM WaitsFindZombies == Spec => []ZombieForEachWait
<1>1. TypeInv /\ [Next]_vars => TypeInv'
  BY NextTypeInv
<1>2. TypeInv /\ ClaimInv /\ [Next]_vars => ClaimInv'
  BY NextClaimInv
<1>3. Init => TypeInv /\ ClaimInv
  BY InitTypeInv, InitClaimInv
<1>4. ClaimInv => ZombieForEachWait
  BY DEF ClaimInv
<1> QED
  BY <1>1, <1>2, <1>3, <1>4, PTL DEF Spec
-----------------------------------------------------------------------------
(* Running jobs and their output.                                          *)

\* A job in RUN has a process that can still report its end.
RunInv ==
  /\ \A p \in Pids : proc[p].st # "killed"
  /\ \A j \in JobId : state[j] = "RUN" =>
       \/ sel = j /\ pc["sched"] = "fork"
       \/ \E p \in Pids : proc[p].job = j /\ Tracked(p)

\* The output file is there from the exit of the process on.
OutputInv ==
  /\ pc["main"] = "spin" => arg \in JobId
  /\ \A p \in Pids : proc[p].st = "exited" \/ Completing(p) =>
       <<"./outputs", proc[p].job>> \in files
  /\ \A j \in JobId : state[j] = "DONE" => <<"./outputs", j>> \in files

\* Steps that touch no state of a job, no process and no handler.
LEMMA QuietSteps ==
  ASSUME TypeInv,
         \/ ReadCommand \/ WaitCommand \/ Quit \/ MainStep
         \/ InstallHandler \/ SelectLock \/ AwaitSlot \/ (SelectJob /\ WaitingAt = {})
         \/ SelectFromEmpty \/ ForkError \/ RecordPid \/ SelectUnlock
         \/ \E t \in Threads : SpuriousWakeup(t) \/ Relock(t)
         \/ UNCHANGED vars
  PROVE  /\ UNCHANGED <<state, exit, proc, hpc, hpid, hcode>>
         /\ \A j \in JobId : <<"./outputs", j>> \in files => <<"./outputs", j>> \in files'
         /\ pc["sched"] = "fork" => ForkError \/ (pc'["sched"] = "fork" /\ sel' = sel)
         /\ pc["sched"] # "fork" => pc'["sched"] # "fork"
<1> USE DEF heap, threads, handler, kernel, Goto, Woken, TypeInv, TypeOK, Threads
<1>1. CASE ReadCommand \/ WaitCommand \/ Quit
  BY <1>1 DEF ReadCommand, WaitCommand, Quit
<1>2. CASE QueueJob \/ Status \/ SetNjobs \/ SpinUntilDone \/ DrainLock \/ DrainScan \/ MainUnlock
  BY <1>2 DEF QueueJob, Status, SetNjobs, SpinUntilDone, DrainLock, DrainScan, MainUnlock
<1>3. CASE RemoveJob
  BY <1>3 DEF RemoveJob
<1>4. CASE InstallHandler \/ SelectLock \/ AwaitSlot
  BY <1>4 DEF InstallHandler, SelectLock, AwaitSlot
<1>5. CASE (SelectJob /\ WaitingAt = {})
  BY <1>5 DEF SelectJob
<1>6. CASE SelectFromEmpty \/ ForkError \/ RecordPid \/ SelectUnlock
  BY <1>6 DEF SelectFromEmpty, ForkError, RecordPid, SelectUnlock
<1>7. CASE \E t \in Threads : SpuriousWakeup(t) \/ Relock(t)
  BY <1>7 DEF SpuriousWakeup, Relock
<1>8. CASE UNCHANGED vars
  BY <1>8 DEF vars
<1> QED
  BY <1>1, <1>2, <1>3, <1>4, <1>5, <1>6, <1>7, <1>8 DEF MainStep

\* What job_complete does: the process of the handler's pid has its job done.
LEMMA CompleteStep ==
  ASSUME IInv, NEW t \in Threads, JobComplete(t)
  PROVE  LET p == hpid[t]
             j == proc[p].job
         IN  /\ p \in Pids /\ j \in JobId /\ j \in ToSet(queue) /\ state[j] = "RUN"
             /\ hpc[t] = "lock"
             /\ state' = [state EXCEPT ![j] = "DONE"]
             /\ exit' = [exit EXCEPT ![j] = hcode[t]]
             /\ pc' = Woken
             /\ hpc' = [hpc EXCEPT ![t] = "unlock"]
             /\ UNCHANGED <<queue, njobs, jobid, arg, sel, child, hpid, hcode, proc, files, run>>
<1>0. JobInv /\ TypeInv
  BY DEF IInv
<1>1. PidAt(hpid[t]) # {} /\ queue[First(PidAt(hpid[t]))] = proc[hpid[t]].job
  BY CompletionLemma DEF CompletionFindsJob, JobComplete, Lock
<1>2. hpid[t] \in Pids /\ proc[hpid[t]].st = "reaped" /\ hpc[t] = "lock"
  BY <1>0 DEF JobComplete, JobInv, HandlerInv
<1>3. Tracked(hpid[t])
  BY <1>2 DEF Tracked, Completing
<1>4. proc[hpid[t]].job \in JobId
  BY <1>0, <1>2 DEF TypeInv
<1>5. proc[hpid[t]].job \in ToSet(queue) /\ state[proc[hpid[t]].job] = "RUN"
  BY <1>0, <1>2, <1>3 DEF JobInv, TrackedInv
<1> QED
  BY <1>1, <1>2, <1>4, <1>5 DEF JobComplete, kernel

LEMMA InitRunInv == Init => RunInv
  BY DEF Init, RunInv, JobId

\* Children that exit and forks that succeed: no job stays in RUN without a
\* process that is yet to report.
LEMMA NextRunInv ==
  ASSUME ~PidReuse, ~KillsHappen, ~ForkFails, IInv, RunInv, [Next]_vars
  PROVE  RunInv'
<1>0. /\ TypeInv /\ JobInv
      /\ proc \in [Pids -> Process] /\ hpc \in [Threads -> {"off", "wait", "lock", "unlock"}]
      /\ hpid \in [Threads -> Pids \cup {NoPid}]
      /\ state \in [JobId -> {"none", "WAIT", "RUN", "DONE"}]
  BY DEF IInv, TypeInv, TypeOK
<1>1. ASSUME UNCHANGED <<state, proc>>,
             \A p \in Pids : Completing(p) => Completing(p)',
             (pc["sched"] = "fork" => pc'["sched"] = "fork" /\ sel' = sel)
      PROVE  RunInv'
  <2>1. \A p \in Pids : Tracked(p) => Tracked(p)'
    BY <1>1 DEF Tracked
  <2> QED
    BY <1>1, <2>1 DEF RunInv
<1>2. CASE \/ ReadCommand \/ WaitCommand \/ Quit \/ MainStep
           \/ InstallHandler \/ SelectLock \/ AwaitSlot \/ (SelectJob /\ WaitingAt = {})
           \/ SelectFromEmpty \/ ForkError \/ RecordPid \/ SelectUnlock
           \/ \E t \in Threads : SpuriousWakeup(t) \/ Relock(t)
           \/ UNCHANGED vars
  <2>1. UNCHANGED <<state, proc, hpc, hpid>>
    BY <1>0, <1>2, QuietSteps
  <2>2. ~ForkError
    BY DEF ForkError
  <2>3. pc["sched"] = "fork" => pc'["sched"] = "fork" /\ sel' = sel
    BY <1>0, <1>2, <2>2, QuietSteps
  <2>4. \A p \in Pids : Completing(p) => Completing(p)'
    BY <2>1 DEF Completing
  <2> QED
    BY <1>1, <2>1, <2>3, <2>4
<1>3. CASE CreateJob
  <2>1. /\ UNCHANGED <<proc, hpc, hpid, sel>> /\ pc'["sched"] = pc["sched"]
        /\ state' = [state EXCEPT ![jobid] = "WAIT"]
    BY <1>0, <1>3 DEF CreateJob, Goto, handler, kernel, TypeInv, TypeOK, Threads
  <2>2. \A j \in JobId : state'[j] = "RUN" => state[j] = "RUN"
    BY <1>0, <2>1
  <2>3. \A p \in Pids : Tracked(p) => Tracked(p)'
    BY <2>1 DEF Tracked, Completing
  <2> QED
    BY <2>1, <2>2, <2>3 DEF RunInv
<1>4. CASE SelectJob /\ WaitingAt # {}
  <2>1. /\ UNCHANGED <<proc, hpc, hpid>> /\ pc["sched"] = "check" /\ pc'["sched"] = "fork"
        /\ state' = [state EXCEPT ![sel'] = "RUN"]
    BY <1>0, <1>4 DEF SelectJob, Goto, handler, kernel, TypeInv, TypeOK, Threads
  <2>2. \A j \in JobId : state'[j] = "RUN" => state[j] = "RUN" \/ j = sel'
    BY <1>0, <2>1
  <2>3. \A p \in Pids : Tracked(p) => Tracked(p)'
    BY <2>1 DEF Tracked, Completing
  <2> QED
    BY <2>1, <2>2, <2>3 DEF RunInv
<1>5. CASE Fork
  <2>1. PICK p \in Pids : /\ proc[p].st = "unused"
                          /\ proc' = [proc EXCEPT ![p] =
                                        [st |-> "live", job |-> sel, code |-> NoExit]]
    BY <1>5 DEF Fork, Available
  <2>2. UNCHANGED <<state, hpc, hpid, sel>> /\ pc["sched"] = "fork"
    BY <1>5 DEF Fork, heap, handler
  <2>3. ~Tracked(p)
    BY <1>0, <2>1 DEF Tracked, Completing, JobInv, HandlerInv
  <2>4. \A q \in Pids : Tracked(q) => Tracked(q)' /\ proc'[q] = proc[q]
    BY <1>0, <2>1, <2>2, <2>3 DEF Tracked, Completing
  <2>5. proc'[p].job = sel /\ Tracked(p)' /\ proc'[p].st # "killed"
    BY <1>0, <2>1 DEF Tracked
  <2>6. \A q \in Pids : proc'[q].st # "killed"
    BY <1>0, <2>1, <2>5 DEF RunInv
  <2>7. \A j \in JobId : state[j] = "RUN" => \E q \in Pids : proc'[q].job = j /\ Tracked(q)'
    BY <2>4, <2>5 DEF RunInv
  <2> QED
    BY <2>2, <2>6, <2>7 DEF RunInv
<1>6. CASE \E t \in Threads : Deliver(t)
  <2>1. PICK t \in Threads : Deliver(t)
    BY <1>6
  <2>2. /\ UNCHANGED <<state, proc, hpid, sel, pc>>
        /\ hpc[t] = "off" /\ hpc' = [hpc EXCEPT ![t] = "wait"]
    BY <2>1 DEF Deliver, Executes, heap, threads
  <2>3. \A p \in Pids : Completing(p) => Completing(p)'
    BY <1>0, <2>2 DEF Completing
  <2> QED
    BY <1>1, <2>2, <2>3
<1>7. CASE \E t \in Threads : Reap(t)
  <2>1. PICK t \in Threads : Reap(t)
    BY <1>7
  <2>2. PICK p \in Zombies :
          /\ hpc[t] = "wait"
          /\ proc' = [proc EXCEPT ![p].st = "reaped"]
          /\ \/ /\ hpc' = [hpc EXCEPT ![t] = "lock"]
                /\ hpid' = [hpid EXCEPT ![t] = p]
             \/ proc[p].st = "killed"
          /\ UNCHANGED <<state, sel, pc>>
    BY <2>1 DEF Reap, heap, threads
  <2>3. p \in Pids /\ proc[p].st # "killed"
    BY <2>2 DEF Zombies, RunInv
  <2>4. hpc' = [hpc EXCEPT ![t] = "lock"] /\ hpid' = [hpid EXCEPT ![t] = p]
    BY <2>2, <2>3
  <2>5. /\ proc'[p].st = "reaped" /\ proc'[p].job = proc[p].job
        /\ \A q \in Pids : q # p => proc'[q] = proc[q]
    BY <1>0, <2>2, <2>3 DEF Process
  <2>6. Completing(p)' /\ \A q \in Pids : Completing(q) => Completing(q)'
    BY <1>0, <2>2, <2>4 DEF Completing
  <2>7. \A q \in Pids : Tracked(q) => Tracked(q)' /\ proc'[q].job = proc[q].job
    BY <2>5, <2>6 DEF Tracked
  <2>8. \A q \in Pids : proc'[q].st # "killed"
    BY <2>5 DEF RunInv
  <2> QED
    BY <2>2, <2>7, <2>8 DEF RunInv
<1>8. CASE \E t \in Threads : JobComplete(t)
  <2>1. PICK t \in Threads : JobComplete(t)
    BY <1>8
  <2> DEFINE p == hpid[t]
             j == proc[p].job
  <2>2. /\ p \in Pids /\ j \in JobId /\ hpc[t] = "lock"
        /\ state' = [state EXCEPT ![j] = "DONE"]
        /\ pc' = Woken /\ hpc' = [hpc EXCEPT ![t] = "unlock"]
        /\ UNCHANGED <<sel, hpid, proc>>
    BY <2>1, CompleteStep
  <2>3. pc["sched"] = "fork" => pc'["sched"] = "fork"
    BY <2>2 DEF Woken, Threads
  <2> HIDE DEF p, j
  <2>4. \A q \in Pids : q # p /\ Completing(q) => Completing(q)'
    BY <1>0, <2>2 DEF Completing, p
  <2>5. \A q \in Pids : q # p /\ Tracked(q) => Tracked(q)'
    BY <2>2, <2>4 DEF Tracked
  <2>6. \A i \in JobId : state'[i] = "RUN" => i # j /\ state[i] = "RUN"
    BY <1>0, <2>2
  <2>7. \A q \in Pids : proc[q].job # j => q # p
    BY DEF j
  <2> QED
    BY <2>2, <2>3, <2>5, <2>6, <2>7 DEF RunInv
<1>9. CASE \E t \in Threads : HandlerReturn(t)
  <2>1. PICK t \in Threads : HandlerReturn(t)
    BY <1>9
  <2>2. /\ UNCHANGED <<state, proc, sel, pc>>
        /\ hpc[t] = "unlock" /\ hpc' = [hpc EXCEPT ![t] = "off"]
        /\ hpid' = [hpid EXCEPT ![t] = NoPid]
    BY <2>1 DEF HandlerReturn, heap, threads, kernel
  <2>3. \A p \in Pids : Completing(p) => Completing(p)'
    BY <1>0, <2>2 DEF Completing
  <2> QED
    BY <1>1, <2>2, <2>3
<1>10. CASE \E p \in Pids : ChildExits(p) \/ ChildKilled(p)
  <2>1. PICK p \in Pids : ChildExits(p)
    BY <1>10 DEF ChildKilled
  <2>2. /\ UNCHANGED <<state, sel, pc, hpc, hpid>>
        /\ \E e \in ExitCodes :
             proc' = [proc EXCEPT ![p] = [st |-> "exited", job |-> @.job, code |-> e]]
    BY <2>1 DEF ChildExits, heap, threads, handler
  <2>3. /\ proc'[p].st = "exited" /\ proc'[p].job = proc[p].job
        /\ \A q \in Pids : q # p => proc'[q] = proc[q]
    BY <1>0, <2>2
  <2>4. \A q \in Pids : Tracked(q) => Tracked(q)' /\ proc'[q].job = proc[q].job
    BY <2>2, <2>3 DEF Tracked, Completing
  <2>5. \A q \in Pids : proc'[q].st # "killed"
    BY <2>3 DEF RunInv
  <2> QED
    BY <2>2, <2>4, <2>5 DEF RunInv
<1>11. CASE Command \/ MainStep \/ SchedStep \/ UNCHANGED vars
  BY <1>2, <1>3, <1>4, <1>5, <1>11 DEF Command, SchedStep
<1>12. CASE \E t \in Threads : SpuriousWakeup(t) \/ Relock(t) \/ Deliver(t) \/ HandlerStep(t)
  BY <1>2, <1>6, <1>7, <1>8, <1>9, <1>12 DEF HandlerStep
<1> QED
  BY <1>10, <1>11, <1>12 DEF Next

\* When children do not die of signals and forks succeed, every job in RUN has a
\* process whose end run_job's child is still to report: none counts against njobs
\* for ever.
THEOREM RunningJobsHaveProcesses ==
  ASSUME ~PidReuse, ~KillsHappen, ~ForkFails PROVE Spec => []RunningHasProcess
<1>1. IInv /\ RunInv /\ [Next]_vars => RunInv'
  BY NextRunInv
<1>2. Init => RunInv
  BY InitRunInv
<1>3. RunInv => RunningHasProcess
  BY DEF RunInv, RunningHasProcess, Tracked, Completing
<1> QED
  BY <1>1, <1>2, <1>3, Inductive, PTL DEF Spec
\* main enters its wait command with the number of a job.
LEMMA SpinArg ==
  ASSUME TypeInv, [Next]_vars, pc'["main"] = "spin"
  PROVE  (pc["main"] = "spin" /\ arg' = arg) \/ arg' \in JobId
<1> USE DEF heap, threads, handler, kernel, Goto, Woken, TypeInv, TypeOK, Threads
<1>1. CASE WaitCommand
  BY <1>1 DEF WaitCommand
<1>2. CASE CreateJob \/ ReadCommand \/ Quit
  BY <1>2 DEF CreateJob, ReadCommand, Quit
<1>3. CASE MainStep
  BY <1>3 DEF MainStep, QueueJob, Status, SetNjobs, RemoveJob, SpinUntilDone, DrainLock,
              DrainScan, MainUnlock
<1>4. CASE SchedStep
  BY <1>4 DEF SchedStep, InstallHandler, SelectLock, AwaitSlot, SelectJob, SelectFromEmpty,
              Fork, ForkError, RecordPid, SelectUnlock
<1>5. ASSUME NEW t \in Threads, SpuriousWakeup(t) \/ Relock(t) \/ Deliver(t) \/ HandlerStep(t)
      PROVE  pc["main"] = "spin" /\ arg' = arg
  BY <1>5 DEF SpuriousWakeup, Relock, Deliver, HandlerStep, Reap, JobComplete, HandlerReturn
<1>6. ASSUME NEW p \in Pids, ChildExits(p) \/ ChildKilled(p)
      PROVE  pc["main"] = "spin" /\ arg' = arg
  BY <1>6 DEF ChildExits, ChildKilled
<1>7. CASE UNCHANGED vars
  BY <1>7 DEF vars
<1> QED
  BY <1>1, <1>2, <1>3, <1>4, <1>5, <1>6, <1>7 DEF Next, Command

LEMMA InitOutputInv == Init => OutputInv
  BY DEF Init, OutputInv, Completing, Threads, JobId

LEMMA NextOutputInv ==
  ASSUME ~PidReuse, IInv, OutputInv, [Next]_vars
  PROVE  OutputInv'
<1> DEFINE Shown(j) == <<"./outputs", j>> \in files
           ProcOut  == \A p \in Pids : proc[p].st = "exited" \/ Completing(p) => Shown(proc[p].job)
           DoneOut  == \A j \in JobId : state[j] = "DONE" => Shown(j)
<1>0. /\ TypeInv /\ JobInv
      /\ proc \in [Pids -> Process] /\ hpc \in [Threads -> {"off", "wait", "lock", "unlock"}]
      /\ hpid \in [Threads -> Pids \cup {NoPid}]
      /\ state \in [JobId -> {"none", "WAIT", "RUN", "DONE"}]
      /\ \A p \in Pids : Completing(p) => proc[p].job \in JobId
  BY DEF IInv, TypeInv, TypeOK, JobInv, HandlerInv, Completing
<1>1. pc'["main"] = "spin" => arg' \in JobId
  BY <1>0, SpinArg DEF OutputInv
<1>2. SUFFICES (ProcOut /\ DoneOut)'
  BY <1>1 DEF OutputInv
<1>3. ProcOut /\ DoneOut
  BY DEF OutputInv
<1>4. \A p \in Pids : proc[p].st = "exited" => proc[p].job \in JobId
  BY <1>0 DEF TypeInv
<1>5. CASE \/ ReadCommand \/ WaitCommand \/ Quit \/ MainStep
           \/ InstallHandler \/ SelectLock \/ AwaitSlot \/ (SelectJob /\ WaitingAt = {})
           \/ SelectFromEmpty \/ ForkError \/ RecordPid \/ SelectUnlock
           \/ \E t \in Threads : SpuriousWakeup(t) \/ Relock(t)
           \/ UNCHANGED vars
  <2>1. UNCHANGED <<state, proc, hpc, hpid>>
        /\ \A j \in JobId : <<"./outputs", j>> \in files => <<"./outputs", j>> \in files'
    BY <1>0, <1>5, QuietSteps
  <2> QED
    BY <1>0, <1>3, <1>4, <2>1 DEF Completing
<1>6. CASE CreateJob
  <2>1. UNCHANGED <<proc, hpc, hpid, files>> /\ state' = [state EXCEPT ![jobid] = "WAIT"]
    BY <1>6 DEF CreateJob, handler, kernel
  <2> QED
    BY <1>0, <1>3, <2>1 DEF Completing
<1>7. CASE SelectJob /\ WaitingAt # {}
  <2>1. UNCHANGED <<proc, hpc, hpid, files>> /\ state' = [state EXCEPT ![sel'] = "RUN"]
    BY <1>7 DEF SelectJob, handler, kernel
  <2> QED
    BY <1>0, <1>3, <2>1 DEF Completing
<1>8. CASE Fork
  <2>1. PICK p \in Pids : /\ proc[p].st = "unused"
                          /\ proc' = [proc EXCEPT ![p] =
                                        [st |-> "live", job |-> sel, code |-> NoExit]]
    BY <1>8 DEF Fork, Available
  <2>2. UNCHANGED <<state, hpc, hpid, files>>
    BY <1>8 DEF Fork, heap, handler
  <2>3. ~Completing(p)
    BY <1>0, <2>1 DEF Completing, JobInv, HandlerInv
  <2>4. proc'[p].st = "live" /\ \A q \in Pids : q # p => proc'[q] = proc[q]
    BY <1>0, <2>1
  <2> QED
    BY <1>0, <1>3, <2>2, <2>3, <2>4 DEF Completing
<1>9. CASE \E t \in Threads : Deliver(t) \/ HandlerReturn(t)
  <2>1. PICK t \in Threads : Deliver(t) \/ HandlerReturn(t)
    BY <1>9
  <2>2. /\ UNCHANGED <<state, proc, files>>
        /\ hpc[t] # "lock"
        /\ hpc' = [hpc EXCEPT ![t] = "wait"] \/ hpc' = [hpc EXCEPT ![t] = "off"]
        /\ \A u \in Threads : u # t => hpid'[u] = hpid[u]
    BY <1>0, <2>1 DEF Deliver, HandlerReturn, Executes, heap, kernel
  <2>3. \A p \in Pids : Completing(p)' => Completing(p)
    BY <1>0, <2>2 DEF Completing
  <2> QED
    BY <1>3, <2>2, <2>3
<1>10. CASE \E t \in Threads : Reap(t)
  <2>1. PICK t \in Threads : Reap(t)
    BY <1>10
  <2>2. PICK p \in Zombies :
          /\ proc' = [proc EXCEPT ![p].st = "reaped"]
          /\ \/ /\ proc[p].st = "exited"
                /\ hpc' = [hpc EXCEPT ![t] = "lock"]
                /\ hpid' = [hpid EXCEPT ![t] = p]
             \/ /\ hpc' = [hpc EXCEPT ![t] = "off"]
                /\ UNCHANGED hpid
          /\ UNCHANGED <<state, files>>
    BY <2>1 DEF Reap, heap
  <2>3. p \in Pids
    BY <2>2 DEF Zombies
  <2>4. /\ proc'[p].st = "reaped" /\ proc'[p].job = proc[p].job
        /\ \A q \in Pids : q # p => proc'[q] = proc[q]
    BY <1>0, <2>2, <2>3 DEF Process
  <2>5. \A q \in Pids : Completing(q)' => Completing(q) \/ (q = p /\ proc[p].st = "exited")
    BY <1>0, <2>2 DEF Completing
  <2> QED
    BY <1>3, <2>2, <2>3, <2>4, <2>5
<1>11. CASE \E t \in Threads : JobComplete(t)
  <2>1. PICK t \in Threads : JobComplete(t)
    BY <1>11
  <2> DEFINE p == hpid[t]
             j == proc[p].job
  <2>2. /\ p \in Pids /\ j \in JobId /\ hpc[t] = "lock"
        /\ state' = [state EXCEPT ![j] = "DONE"]
        /\ hpc' = [hpc EXCEPT ![t] = "unlock"]
        /\ UNCHANGED <<hpid, proc, files>>
    BY <2>1, CompleteStep
  <2>3. Completing(p)
    BY <2>2 DEF Completing
  <2> HIDE DEF p, j
  <2>4. \A q \in Pids : Completing(q)' => Completing(q)
    BY <1>0, <2>2 DEF Completing
  <2>5. Shown(j)
    BY <1>3, <2>2, <2>3 DEF j
  <2>6. \A i \in JobId : state'[i] = "DONE" => i = j \/ state[i] = "DONE"
    BY <1>0, <2>2
  <2> QED
    BY <1>3, <2>2, <2>4, <2>5, <2>6
<1>12. CASE \E p \in Pids : ChildExits(p)
  <2>1. PICK p \in Pids : ChildExits(p)
    BY <1>12
  <2>2. /\ UNCHANGED <<state, hpc, hpid>>
        /\ files' = files \cup {<<"./outputs", proc[p].job>>}
        /\ \E e \in ExitCodes :
             proc' = [proc EXCEPT ![p] = [st |-> "exited", job |-> @.job, code |-> e]]
    BY <2>1 DEF ChildExits, heap, handler
  <2>3. /\ proc'[p].job = proc[p].job
        /\ \A q \in Pids : q # p => proc'[q] = proc[q]
    BY <1>0, <2>2
  <2> QED
    BY <1>3, <2>2, <2>3 DEF Completing
<1>13. CASE \E p \in Pids : ChildKilled(p)
  <2>1. PICK p \in Pids : ChildKilled(p)
    BY <1>13
  <2>2. /\ UNCHANGED <<state, hpc, hpid, files>>
        /\ proc' = [proc EXCEPT ![p].st = "killed"]
    BY <2>1 DEF ChildKilled, heap, handler
  <2>3. /\ proc'[p].st = "killed" /\ proc'[p].job = proc[p].job
        /\ \A q \in Pids : q # p => proc'[q] = proc[q]
    BY <1>0, <2>2 DEF Process
  <2> QED
    BY <1>3, <2>2, <2>3 DEF Completing
<1>14. CASE Command \/ MainStep \/ SchedStep \/ UNCHANGED vars
  BY <1>5, <1>6, <1>7, <1>8, <1>14 DEF Command, SchedStep
<1>15. CASE \E t \in Threads : SpuriousWakeup(t) \/ Relock(t) \/ Deliver(t) \/ HandlerStep(t)
  BY <1>5, <1>9, <1>10, <1>11, <1>15 DEF HandlerStep
<1> QED
  BY <1>12, <1>13, <1>14, <1>15 DEF Next

\* When main's wait command stops spinning, the output file it opens next is there,
\* whatever is removed meanwhile.
THEOREM WaitCommandFindsOutput ==
  ASSUME ~PidReuse PROVE Spec => WaitFindsOutput
<1> DEFINE Found == pc["main"] = "spin" /\ pc'["main"] = "fgets"
                      => <<"./outputs", arg>> \in files
<1>1. ASSUME IInv, OutputInv, [Next]_vars PROVE Found
  <2> SUFFICES ASSUME pc["main"] = "spin", pc'["main"] = "fgets"
               PROVE  <<"./outputs", arg>> \in files
    OBVIOUS
  <2>0. TypeInv
    BY <1>1 DEF IInv
  <2>1. SpinUntilDone
    <3>1. CASE SchedStep \/ \E t \in Threads : SpuriousWakeup(t) \/ Relock(t) \/ Deliver(t)
                                               \/ HandlerStep(t)
      BY <2>0, <3>1 DEF SchedStep, HandlerStep, InstallHandler, SelectLock, AwaitSlot,
         SelectJob, SelectFromEmpty, Fork, ForkError, RecordPid, SelectUnlock, Reap,
         JobComplete, HandlerReturn, SpuriousWakeup, Relock, Deliver, threads, Goto, Woken,
         TypeInv, TypeOK, Threads
    <3>2. CASE UNCHANGED vars \/ \E p \in Pids : ChildExits(p) \/ ChildKilled(p)
      BY <3>2 DEF vars, threads, ChildExits, ChildKilled
    <3>3. CASE Command \/ MainStep
      BY <3>3 DEF Command, MainStep, CreateJob, ReadCommand, WaitCommand, Quit,
         QueueJob, Status, SetNjobs, RemoveJob, DrainScan, DrainLock, MainUnlock, threads
    <3> QED
      BY <1>1, <3>1, <3>2, <3>3 DEF Next
  <2>2. arg \in JobId /\ state[arg] = "DONE"
    BY <1>1, <2>1 DEF SpinUntilDone, OutputInv
  <2> QED
    BY <1>1, <2>2 DEF OutputInv
<1>2. IInv /\ OutputInv /\ [Next]_vars => OutputInv'
  BY NextOutputInv
<1>3. Init => OutputInv
  BY InitOutputInv
<1>4. IInv /\ OutputInv /\ [Next]_vars => [Found]_vars
  BY <1>1
<1> QED
  BY <1>2, <1>3, <1>4, Inductive, PTL DEF Spec, WaitFindsOutput
-----------------------------------------------------------------------------
(* The list in the order of submission.                                    *)

\* The jobs of the list are in the order of their numbers, each once; the job
\* that submit has created and not yet appended is not among them.
ListInv ==
  /\ \A i \in DOMAIN queue : queue[i] < jobid
  /\ \A i, k \in DOMAIN queue : i < k => queue[i] < queue[k]
  /\ \A j \in JobId : j < jobid => state[j] # "none"
  /\ pc["main"] = "submit" =>
       arg = jobid - 1 /\ arg \notin ToSet(queue) /\ state[arg] = "WAIT"
  /\ pc["main"] = "remove" => arg \in JobId
  /\ pc["main"] = "njobs" => arg \in 0..MaxLimit

\* The exit code that wait() has stored is one of a program.
CodeInv ==
  /\ \A p \in Pids : proc[p].st = "exited" => proc[p].code \in ExitCodes
  /\ \A t \in Threads : hpc[t] = "lock" => hcode[t] \in ExitCodes

LEMMA InitListInv == Init => ListInv /\ CodeInv
<1> SUFFICES ASSUME Init PROVE ListInv /\ CodeInv
  OBVIOUS
<1>1. DOMAIN queue = {} /\ pc["main"] = "fgets" /\ jobid = 1
  BY DEF Init, Threads
<1> QED
  BY <1>1 DEF Init, ListInv, CodeInv, JobId, Threads

\* Steps that leave the list and the numbers alone keep ListInv.
LEMMA ListKept ==
  ASSUME TypeInv, ListInv, UNCHANGED <<queue, jobid>>,
         \A j \in JobId : state[j] # "none" => state'[j] # "none",
         \A j \in JobId : j \notin ToSet(queue) => state'[j] = state[j],
         pc'["main"] = "submit" => pc["main"] = "submit" /\ arg' = arg,
         pc'["main"] = "remove" => arg' \in JobId,
         pc'["main"] = "njobs" => arg' \in 0..MaxLimit
  PROVE  ListInv'
<1>1. pc["main"] = "submit" => arg \in JobId
  BY DEF TypeInv
<1> QED
  BY <1>1 DEF ListInv

LEMMA NextListInv ==
  ASSUME TypeInv, ListInv, [Next]_vars
  PROVE  ListInv'
<1>0. /\ queue \in Seq(JobId) /\ jobid \in 1..MaxJobs + 1 /\ MaxJobs \in Nat
      /\ state \in [JobId -> {"none", "WAIT", "RUN", "DONE"}]
      /\ JobId \subseteq Nat /\ DOMAIN queue = 1..Len(queue) /\ Len(queue) \in Nat
      /\ \A i \in DOMAIN queue : queue[i] \in JobId /\ queue[i] \in ToSet(queue)
      /\ \A x \in ToSet(queue) : \E i \in DOMAIN queue : queue[i] = x
      /\ DOMAIN pc = Threads /\ "main" \in Threads
  <2>1. /\ queue \in Seq(JobId) /\ jobid \in 1..MaxJobs + 1 /\ MaxJobs \in Nat
        /\ state \in [JobId -> {"none", "WAIT", "RUN", "DONE"}]
        /\ DOMAIN pc = Threads
    BY ConstantsAssumption DEF TypeInv, TypeOK
  <2>2. /\ DOMAIN queue = 1..Len(queue) /\ Len(queue) \in Nat
        /\ \A x : x \in ToSet(queue) <=> \E i \in 1..Len(queue) : queue[i] = x
        /\ ToSet(queue) \subseteq JobId
    BY <2>1, Members
  <2>3. \A i \in DOMAIN queue : queue[i] \in JobId /\ queue[i] \in ToSet(queue)
    BY <2>2
  <2>4. JobId \subseteq Nat /\ "main" \in Threads
    BY <2>1 DEF JobId, Threads
  <2> QED
    BY <2>1, <2>2, <2>3, <2>4
<1>1. CASE CreateJob
  <2>1. /\ jobid \in JobId /\ state' = [state EXCEPT ![jobid] = "WAIT"]
        /\ arg' = jobid /\ jobid' = jobid + 1 /\ pc'["main"] = "submit" /\ queue' = queue
    BY <1>0, <1>1 DEF CreateJob, Goto, JobId
  <2>2. jobid \notin ToSet(queue)
    BY <1>0 DEF ListInv
  <2>3. ASSUME NEW i \in DOMAIN queue
        PROVE  queue[i] < jobid'
    <3>1. queue[i] < jobid
      BY DEF ListInv
    <3>2. queue[i] \in Nat /\ jobid \in Nat
      BY <1>0
    <3> QED
      BY <2>1, <3>1, <3>2
  <2>4. \A j \in JobId : j < jobid' => state'[j] # "none"
    BY <1>0, <2>1 DEF ListInv
  <2>5. arg' = jobid' - 1 /\ arg' \notin ToSet(queue') /\ state'[arg'] = "WAIT"
    BY <1>0, <2>1, <2>2
  <2> QED
    BY <2>1, <2>3, <2>4, <2>5 DEF ListInv
<1>2. CASE ReadCommand
  <2>1. UNCHANGED <<queue, jobid, state>>
    BY <1>2 DEF ReadCommand, heap
  <2>2. /\ pc'["main"] # "submit"
        /\ pc'["main"] = "remove" => arg' \in JobId
        /\ pc'["main"] = "njobs" => arg' \in 0..MaxLimit
    BY <1>0, <1>2 DEF ReadCommand, Goto
  <2> QED
    BY <2>1, <2>2, ListKept
<1>3. CASE QueueJob
  <2>1. /\ arg \in JobId /\ arg = jobid - 1 /\ arg \notin ToSet(queue)
        /\ queue' = Append(queue, arg)
        /\ UNCHANGED <<jobid, state>> /\ pc'["main"] = "unlock"
    BY <1>0, <1>3 DEF QueueJob, Goto, TypeInv, ListInv
  <2>2. /\ Len(queue') = Len(queue) + 1 /\ DOMAIN queue' = 1..Len(queue)+1
        /\ \A i \in 1..Len(queue) : queue'[i] = queue[i]
        /\ queue'[Len(queue) + 1] = arg
    BY <1>0, <2>1
  <2>3. \A i \in 1..Len(queue) : queue[i] < arg
    <3> SUFFICES ASSUME NEW i \in 1..Len(queue) PROVE queue[i] < arg
      OBVIOUS
    <3>1. i \in DOMAIN queue
      BY <1>0
    <3>2. queue[i] < jobid
      BY <3>1 DEF ListInv
    <3>3. queue[i] # arg
      BY <1>0, <2>1, <3>1
    <3>4. queue[i] \in Nat /\ jobid \in Nat
      BY <1>0, <3>1
    <3> QED
      BY <2>1, <3>2, <3>3, <3>4
  <2>4. \A i \in DOMAIN queue' : queue'[i] < jobid
    BY <1>0, <2>1, <2>2 DEF ListInv
  <2>5. \A i, k \in DOMAIN queue' : i < k => queue'[i] < queue'[k]
    <3> SUFFICES ASSUME NEW i \in 1..Len(queue)+1, NEW k \in 1..Len(queue)+1, i < k
                 PROVE  queue'[i] < queue'[k]
      BY <2>2
    <3>1. i \in 1..Len(queue)
      BY <1>0
    <3>2. CASE k \in 1..Len(queue)
      BY <1>0, <2>2, <3>1, <3>2 DEF ListInv
    <3>3. CASE k = Len(queue) + 1
      BY <2>2, <2>3, <3>1, <3>3
    <3> QED
      BY <1>0, <3>2, <3>3
  <2> QED
    BY <2>1, <2>4, <2>5 DEF ListInv
<1>4. CASE RemoveJob
  <2>1. /\ UNCHANGED <<jobid, state>> /\ pc'["main"] \in {"unlock", "unlock_fail"}
        /\ \/ queue' = queue
           \/ queue' = RemoveAt(queue, First(Removable)) /\ Removable # {}
    BY <1>0, <1>4 DEF RemoveJob, Goto
  <2>2. CASE queue' = queue
    BY <2>1, <2>2, ListKept
  <2>3. CASE queue' = RemoveAt(queue, First(Removable)) /\ Removable # {}
    <3> DEFINE k == First(Removable)
    <3>1. k \in 1..Len(queue)
      <4>1. Removable \in SUBSET DOMAIN queue
        BY DEF Removable, MatchesAt
      <4> QED
        BY <1>0, <2>3, <4>1, FirstJob
    <3> HIDE DEF k
    <3>2. /\ DOMAIN queue' = 1..Len(queue)-1
          /\ \A i \in 1..Len(queue)-1 : queue'[i] = IF i < k THEN queue[i] ELSE queue[i + 1]
      <4>1. queue' = RemoveAt(queue, k)
        BY <2>3 DEF k
      <4>2. /\ queue' \in Seq(JobId) /\ Len(queue') = Len(queue) - 1
            /\ \A i \in 1..Len(queue)-1 : queue'[i] = IF i < k THEN queue[i] ELSE queue[i + 1]
        BY <1>0, <3>1, <4>1, RemoveElements
      <4> QED
        BY <4>2
    <3>3. \A i \in 1..Len(queue)-1 : i \in DOMAIN queue /\ i + 1 \in DOMAIN queue
      BY <1>0
    <3>4. \A i \in DOMAIN queue' : queue'[i] < jobid
      BY <3>2, <3>3 DEF ListInv
    <3>5. \A i, m \in DOMAIN queue' : i < m => queue'[i] < queue'[m]
      <4> SUFFICES ASSUME NEW i \in 1..Len(queue)-1, NEW m \in 1..Len(queue)-1, i < m
                   PROVE  queue'[i] < queue'[m]
        BY <3>2
      <4> DEFINE a == IF i < k THEN i ELSE i + 1
                 b == IF m < k THEN m ELSE m + 1
      <4>1. a \in DOMAIN queue /\ b \in DOMAIN queue /\ a < b
        BY <1>0, <3>1
      <4>2. queue'[i] = queue[a] /\ queue'[m] = queue[b]
        BY <3>2
      <4> QED
        BY <4>1, <4>2 DEF ListInv
    <3> QED
      BY <2>1, <3>4, <3>5 DEF ListInv
  <2> QED
    BY <2>1, <2>2, <2>3
<1>5. CASE \/ WaitCommand \/ Quit \/ Status \/ SetNjobs \/ SpinUntilDone
           \/ DrainLock \/ DrainScan \/ MainUnlock
           \/ InstallHandler \/ SelectLock \/ AwaitSlot \/ (SelectJob /\ WaitingAt = {})
           \/ SelectFromEmpty \/ Fork \/ ForkError \/ RecordPid \/ SelectUnlock
           \/ \E t \in Threads : \/ SpuriousWakeup(t) \/ Relock(t) \/ Deliver(t)
                                 \/ Reap(t) \/ HandlerReturn(t)
           \/ \E p \in Pids : ChildExits(p) \/ ChildKilled(p)
           \/ UNCHANGED vars
  <2>1. /\ UNCHANGED <<queue, jobid, state>>
        /\ pc'["main"] \in {"submit", "remove", "njobs"} =>
             pc'["main"] = pc["main"] /\ arg' = arg
    <3> USE DEF heap, threads, handler, kernel, Goto, Woken, TypeInv, TypeOK, Threads
    <3>1. CASE \/ WaitCommand \/ Quit \/ Status \/ SetNjobs \/ SpinUntilDone
               \/ DrainLock \/ DrainScan \/ MainUnlock
      BY <3>1 DEF WaitCommand, Quit, Status, SetNjobs, SpinUntilDone, DrainLock, DrainScan,
                  MainUnlock
    <3>2. CASE \/ InstallHandler \/ SelectLock \/ AwaitSlot \/ (SelectJob /\ WaitingAt = {})
               \/ SelectFromEmpty \/ Fork \/ ForkError \/ RecordPid \/ SelectUnlock
      BY <3>2 DEF InstallHandler, SelectLock, AwaitSlot, SelectJob, SelectFromEmpty, Fork,
                  ForkError, RecordPid, SelectUnlock
    <3>3. CASE \E t \in Threads : \/ SpuriousWakeup(t) \/ Relock(t) \/ Deliver(t)
                                  \/ Reap(t) \/ HandlerReturn(t)
      BY <3>3 DEF SpuriousWakeup, Relock, Deliver, Reap, HandlerReturn
    <3>4. CASE \E p \in Pids : ChildExits(p) \/ ChildKilled(p)
      BY <3>4 DEF ChildExits, ChildKilled
    <3>5. CASE UNCHANGED vars
      BY <3>5 DEF vars
    <3> QED
      BY <1>5, <3>1, <3>2, <3>3, <3>4, <3>5
  <2>2. /\ pc'["main"] = "submit" => pc["main"] = "submit" /\ arg' = arg
        /\ pc'["main"] = "remove" => arg' \in JobId
        /\ pc'["main"] = "njobs" => arg' \in 0..MaxLimit
    BY <2>1 DEF ListInv
  <2> QED
    BY <2>1, <2>2, ListKept
<1>6. CASE SelectJob /\ WaitingAt # {}
  <2>1. WaitingAt \in SUBSET DOMAIN queue
    BY DEF WaitingAt
  <2>2. First(WaitingAt) \in DOMAIN queue
    BY <1>0, <1>6, <2>1, FirstJob
  <2>3. /\ sel' \in JobId /\ sel' \in ToSet(queue)
        /\ state' = [state EXCEPT ![sel'] = "RUN"]
        /\ UNCHANGED <<queue, jobid, arg>> /\ pc'["main"] = pc["main"]
    BY <1>0, <1>6, <2>2 DEF SelectJob, Goto, Threads
  <2>4. /\ pc'["main"] = "remove" => arg' \in JobId
        /\ pc'["main"] = "njobs" => arg' \in 0..MaxLimit
    BY <2>3 DEF ListInv
  <2> QED
    BY <1>0, <2>3, <2>4, ListKept
<1>7. CASE \E t \in Threads : JobComplete(t)
  <2>1. PICK t \in Threads : JobComplete(t)
    BY <1>7
  <2>2. /\ UNCHANGED <<queue, jobid, arg>>
        /\ pc'["main"] \in {"submit", "remove", "njobs"} => pc'["main"] = pc["main"]
    BY <1>0, <2>1 DEF JobComplete, Woken
  <2>3. \/ state' = state
        \/ \E j \in JobId : j \in ToSet(queue) /\ state' = [state EXCEPT ![j] = "DONE"]
    <3>1. CASE PidAt(hpid[t]) = {}
      BY <2>1, <3>1 DEF JobComplete
    <3>2. CASE PidAt(hpid[t]) # {}
      <4>1. PidAt(hpid[t]) \in SUBSET DOMAIN queue
        BY DEF PidAt
      <4>2. First(PidAt(hpid[t])) \in DOMAIN queue
        BY <1>0, <3>2, <4>1, FirstJob
      <4> QED
        BY <1>0, <2>1, <3>2, <4>2 DEF JobComplete
    <3> QED
      BY <3>1, <3>2
  <2>4. /\ \A j \in JobId : state[j] # "none" => state'[j] # "none"
        /\ \A j \in JobId : j \notin ToSet(queue) => state'[j] = state[j]
    BY <1>0, <2>3
  <2>5. /\ pc'["main"] = "submit" => pc["main"] = "submit" /\ arg' = arg
        /\ pc'["main"] = "remove" => arg' \in JobId
        /\ pc'["main"] = "njobs" => arg' \in 0..MaxLimit
    BY <2>2 DEF ListInv
  <2> QED
    BY <2>2, <2>4, <2>5, ListKept
<1>8. CASE Command \/ MainStep \/ SchedStep \/ UNCHANGED vars
  BY <1>1, <1>2, <1>3, <1>4, <1>5, <1>6, <1>8 DEF Command, MainStep, SchedStep
<1>9. CASE \E t \in Threads : SpuriousWakeup(t) \/ Relock(t) \/ Deliver(t) \/ HandlerStep(t)
  BY <1>5, <1>7, <1>9 DEF HandlerStep
<1> QED
  BY <1>5, <1>8, <1>9 DEF Next

LEMMA NextCodeInv ==
  ASSUME TypeInv, CodeInv, [Next]_vars
  PROVE  CodeInv'
<1>0. /\ proc \in [Pids -> Process] /\ hpc \in [Threads -> {"off", "wait", "lock", "unlock"}]
      /\ hcode \in [Threads -> ExitCodes \cup {NoExit}]
  BY DEF TypeInv, TypeOK
<1>1. CASE UNCHANGED <<proc, hpc, hcode>>
  BY <1>1 DEF CodeInv
<1>2. CASE Fork
  <2>1. PICK p \in Pids : proc' = [proc EXCEPT ![p] =
                                     [st |-> "live", job |-> sel, code |-> NoExit]]
    BY <1>2 DEF Fork
  <2>2. UNCHANGED <<hpc, hcode>>
    BY <1>2 DEF Fork, handler
  <2> QED
    BY <1>0, <2>1, <2>2 DEF CodeInv
<1>3. CASE \E t \in Threads : Deliver(t) \/ JobComplete(t) \/ HandlerReturn(t)
  <2>1. PICK t \in Threads : Deliver(t) \/ JobComplete(t) \/ HandlerReturn(t)
    BY <1>3
  <2>2. /\ proc' = proc
        /\ \A u \in Threads : u # t => hpc'[u] = hpc[u] /\ hcode'[u] = hcode[u]
        /\ hpc'[t] # "lock"
    BY <1>0, <2>1 DEF Deliver, JobComplete, HandlerReturn, kernel
  <2> QED
    BY <2>2 DEF CodeInv
<1>4. CASE \E t \in Threads : Reap(t)
  <2>1. PICK t \in Threads : Reap(t)
    BY <1>4
  <2>2. PICK p \in Zombies :
          /\ proc' = [proc EXCEPT ![p].st = "reaped"]
          /\ \/ /\ proc[p].st = "exited"
                /\ hpc' = [hpc EXCEPT ![t] = "lock"]
                /\ hcode' = [hcode EXCEPT ![t] = WEXITSTATUS(p)]
             \/ /\ hpc' = [hpc EXCEPT ![t] = "off"]
                /\ UNCHANGED hcode
    BY <2>1 DEF Reap
  <2>3. \A q \in Pids : proc'[q].st = "exited" => proc'[q] = proc[q]
    BY <1>0, <2>2 DEF Zombies, Process
  <2>4. proc[p].st = "exited" => WEXITSTATUS(p) \in ExitCodes
    BY <2>2 DEF Zombies, WEXITSTATUS, CodeInv
  <2> QED
    BY <1>0, <2>2, <2>3, <2>4 DEF CodeInv
<1>5. CASE \E p \in Pids : ChildExits(p) \/ ChildKilled(p)
  <2>1. PICK p \in Pids : ChildExits(p) \/ ChildKilled(p)
    BY <1>5
  <2>2. /\ UNCHANGED <<hpc, hcode>>
        /\ \/ \E e \in ExitCodes :
                proc' = [proc EXCEPT ![p] = [st |-> "exited", job |-> @.job, code |-> e]]
           \/ proc' = [proc EXCEPT ![p].st = "killed"]
    BY <2>1 DEF ChildExits, ChildKilled, handler
  <2>3. \A q \in Pids : proc'[q].st = "exited" =>
          proc'[q].code \in ExitCodes \/ proc'[q] = proc[q]
    BY <1>0, <2>2 DEF Process
  <2> QED
    BY <2>2, <2>3 DEF CodeInv
<1>6. CASE Command \/ MainStep \/ UNCHANGED vars
  BY <1>1, <1>6 DEF Command, MainStep, CreateJob, ReadCommand, WaitCommand, Quit,
     QueueJob, Status, SetNjobs, RemoveJob, SpinUntilDone, DrainLock, DrainScan, MainUnlock,
     vars, handler, kernel
<1>7. CASE SchedStep
  BY <1>1, <1>2, <1>7 DEF SchedStep, InstallHandler, SelectLock, AwaitSlot, SelectJob,
     SelectFromEmpty, ForkError, RecordPid, SelectUnlock, handler, kernel
<1>8. CASE \E t \in Threads : SpuriousWakeup(t) \/ Relock(t)
  BY <1>1, <1>8 DEF SpuriousWakeup, Relock, handler, kernel
<1> QED
  BY <1>3, <1>4, <1>5, <1>6, <1>7, <1>8 DEF Next, HandlerStep
-----------------------------------------------------------------------------
(* The service.  JobService's table is the list, with the jobs that left it *)
(* gone and the one not yet appended to it absent.                         *)

ServiceTable == [j \in JobId |-> ServiceStatus(j)]

LEMMA TableKept ==
  ASSUME UNCHANGED <<queue, state, jobid>>,
         pc'["main"] = "submit" <=> pc["main"] = "submit",
         pc["main"] = "submit" => arg' = arg
  PROVE  ServiceTable' = ServiceTable
  BY DEF ServiceTable, ServiceStatus

LEMMA TableChanged ==
  ASSUME NEW j \in JobId, ServiceStatus(j)' = state'[j],
         \A i \in JobId : i # j => ServiceStatus(i)' = ServiceStatus(i)
  PROVE  ServiceTable' = [ServiceTable EXCEPT ![j] = state'[j]]
  BY DEF ServiceTable

\* Most steps are not seen by the user, or end the program.
LEMMA UnseenSteps ==
  ASSUME TypeInv,
         \/ ReadCommand \/ WaitCommand \/ Quit \/ Status \/ SpinUntilDone
         \/ DrainLock \/ DrainScan \/ MainUnlock
         \/ InstallHandler \/ SelectLock \/ AwaitSlot \/ (SelectJob /\ WaitingAt = {})
         \/ SelectFromEmpty \/ Fork \/ ForkError \/ RecordPid \/ SelectUnlock
         \/ \E t \in Threads : \/ SpuriousWakeup(t) \/ Relock(t) \/ Deliver(t)
                               \/ Reap(t) \/ HandlerReturn(t)
         \/ \E p \in Pids : ChildExits(p) \/ ChildKilled(p)
         \/ UNCHANGED vars
  PROVE  Service!Stop \/ UNCHANGED Service!serviceVars
<1>1. /\ UNCHANGED <<queue, state, jobid, exit, njobs>>
      /\ pc'["main"] = "submit" <=> pc["main"] = "submit"
      /\ pc["main"] = "submit" => arg' = arg
      /\ run' = run \/ (run = "up" /\ run' # "up")
  <2> USE DEF heap, threads, handler, kernel, Goto, Woken, Executes,
              TypeInv, TypeOK, Threads
  <2>1. CASE \/ ReadCommand \/ WaitCommand \/ Quit \/ Status \/ SpinUntilDone
             \/ DrainLock \/ DrainScan \/ MainUnlock
    BY <2>1 DEF ReadCommand, WaitCommand, Quit, Status, SpinUntilDone, DrainLock, DrainScan,
                MainUnlock
  <2>2. CASE \/ InstallHandler \/ SelectLock \/ AwaitSlot \/ (SelectJob /\ WaitingAt = {})
             \/ SelectFromEmpty \/ Fork \/ ForkError \/ RecordPid \/ SelectUnlock
    BY <2>2 DEF InstallHandler, SelectLock, AwaitSlot, SelectJob, SelectFromEmpty, Fork,
                ForkError, RecordPid, SelectUnlock
  <2>3. CASE \E t \in Threads : \/ SpuriousWakeup(t) \/ Relock(t) \/ Deliver(t)
                                \/ Reap(t) \/ HandlerReturn(t)
    BY <2>3 DEF SpuriousWakeup, Relock, Deliver, Reap, HandlerReturn
  <2>4. CASE \E p \in Pids : ChildExits(p) \/ ChildKilled(p)
    BY <2>4 DEF ChildExits, ChildKilled
  <2>5. CASE UNCHANGED vars
    BY <2>5 DEF vars
  <2> QED
    BY <2>1, <2>2, <2>3, <2>4, <2>5
<1>2. ServiceTable' = ServiceTable
  BY <1>1, TableKept
<1> QED
  BY <1>1, <1>2 DEF Service!Stop, Service!serviceVars, ServiceTable

\* create_job's new job is not in the table before queue_job has appended it.
LEMMA CreateIsUnseen ==
  ASSUME TypeInv, ListInv, CreateJob
  PROVE  UNCHANGED Service!serviceVars
<1>1. /\ jobid \in JobId /\ state' = [state EXCEPT ![jobid] = "WAIT"]
      /\ arg' = jobid /\ jobid' = jobid + 1 /\ pc'["main"] = "submit" /\ pc["main"] = "fgets"
      /\ UNCHANGED <<queue, exit, njobs, run>>
  BY ConstantsAssumption DEF CreateJob, Goto, JobId, TypeInv, TypeOK, Threads
<1>2. queue \in Seq(JobId) /\ state \in [JobId -> {"none", "WAIT", "RUN", "DONE"}]
  BY DEF TypeInv, TypeOK
<1>3. jobid \notin ToSet(queue)
  BY <1>1, <1>2, Members DEF ListInv, JobId
<1>4. ASSUME NEW j \in JobId
      PROVE  ServiceStatus(j)' = ServiceStatus(j)
  <2>1. j \in Int /\ jobid \in Int
    BY <1>1 DEF JobId
  <2>2. CASE j = jobid
    BY <1>1, <1>3, <2>1, <2>2 DEF ServiceStatus
  <2>3. CASE j # jobid
    <3>1. state'[j] = state[j] /\ (j < jobid' <=> j < jobid)
      BY <1>1, <1>2, <2>1, <2>3
    <3> QED
      BY <1>1, <2>3, <3>1 DEF ServiceStatus
  <2> QED
    BY <2>2, <2>3
<1>5. ServiceTable' = ServiceTable
  BY <1>4 DEF ServiceTable
<1> QED
  BY <1>1, <1>5 DEF Service!serviceVars, ServiceTable

LEMMA QueueIsSubmit ==
  ASSUME TypeInv, ListInv, QueueJob
  PROVE  Service!Next
<1>1. /\ arg \in JobId /\ arg = jobid - 1 /\ arg \notin ToSet(queue) /\ state[arg] = "WAIT"
      /\ queue' = Append(queue, arg)
      /\ UNCHANGED <<jobid, state, exit, njobs, run>>
      /\ pc["main"] = "submit" /\ pc'["main"] = "unlock" /\ run = "up"
  BY DEF QueueJob, Goto, Executes, TypeInv, TypeOK, ListInv, Threads
<1>2. queue \in Seq(JobId) /\ state \in [JobId -> {"none", "WAIT", "RUN", "DONE"}] /\ jobid \in Int
  BY DEF TypeInv, TypeOK
<1>3. ToSet(queue') = ToSet(queue) \cup {arg}
  BY <1>1, <1>2, AppendMembers
<1>4. ServiceStatus(arg) = "none"
  BY <1>1 DEF ServiceStatus
<1>5. PICK j \in JobId : j = arg
  BY <1>1
<1>6. ServiceStatus(j)' = state'[j] /\ state'[j] = "WAIT"
  BY <1>1, <1>3, <1>5 DEF ServiceStatus
<1>7. \A i \in JobId : i # j => ServiceStatus(i)' = ServiceStatus(i)
  BY <1>1, <1>3, <1>5 DEF ServiceStatus
<1>8. ServiceTable' = [ServiceTable EXCEPT ![j] = "WAIT"]
  BY <1>6, <1>7, TableChanged
<1>9. ASSUME NEW i \in JobId, i < j
      PROVE  ServiceTable[i] # "none"
  <2>1. i < jobid /\ i # arg
    BY <1>1, <1>2, <1>5, <1>9 DEF JobId
  <2> QED
    BY <2>1 DEF ServiceTable, ServiceStatus, ListInv
<1>10. Service!Submit(j)
  BY <1>1, <1>4, <1>5, <1>8, <1>9 DEF Service!Submit, ServiceTable
<1> QED
  BY <1>1, <1>10 DEF Service!Next

LEMMA SetIsSetLimit ==
  ASSUME TypeInv, ListInv, SetNjobs
  PROVE  Service!Next \/ UNCHANGED Service!serviceVars
<1>1. /\ UNCHANGED <<queue, state, jobid, exit, run>> /\ run = "up"
      /\ pc["main"] = "njobs" /\ pc'["main"] # "submit"
      /\ njobs' = njobs \/ (njobs' = arg /\ arg > 0)
      /\ arg \in 0..MaxLimit
  BY DEF SetNjobs, Goto, Woken, Executes, TypeInv, TypeOK, ListInv, Threads
<1>2. ServiceTable' = ServiceTable
  BY <1>1, TableKept
<1>3. CASE njobs' = njobs
  BY <1>1, <1>2, <1>3 DEF Service!serviceVars, ServiceTable
<1>4. CASE njobs' = arg /\ arg > 0
  <2>1. arg \in 1..MaxLimit
    BY <1>1, <1>4
  <2>2. PICK n \in 1..MaxLimit : njobs' = n
    BY <1>4, <2>1
  <2>3. Service!SetLimit(n)
    BY <1>1, <1>2, <2>2 DEF Service!SetLimit, ServiceTable
  <2> QED
    BY <1>1, <2>3 DEF Service!Next
<1> QED
  BY <1>1, <1>3, <1>4

LEMMA RemoveIsRemove ==
  ASSUME TypeInv, ListInv, RemoveJob
  PROVE  Service!Next \/ UNCHANGED Service!serviceVars
<1>1. /\ UNCHANGED <<jobid, state, exit, njobs, run>> /\ run = "up"
      /\ pc["main"] = "remove" /\ pc'["main"] # "submit"
      /\ arg \in JobId
      /\ \/ queue' = queue
         \/ /\ queue' = RemoveAt(queue, First(Removable))
            /\ Removable # {} /\ state[arg] # "RUN"
  BY DEF RemoveJob, Goto, Executes, TypeInv, TypeOK, ListInv, Threads
<1>2. /\ queue \in Seq(JobId) /\ state \in [JobId -> {"none", "WAIT", "RUN", "DONE"}]
      /\ DOMAIN queue = 1..Len(queue) /\ Len(queue) \in Nat /\ jobid \in Int
      /\ \A x : x \in ToSet(queue) <=> \E i \in 1..Len(queue) : queue[i] = x
  BY Members DEF TypeInv, TypeOK
<1>3. CASE queue' = queue
  <2>1. ServiceTable' = ServiceTable
    BY <1>1, <1>3, TableKept
  <2> QED
    BY <1>1, <2>1 DEF Service!serviceVars, ServiceTable
<1>4. CASE queue' = RemoveAt(queue, First(Removable)) /\ Removable # {} /\ state[arg] # "RUN"
  <2> DEFINE k == First(Removable)
  <2>1. k \in 1..Len(queue) /\ queue[k] = arg
    <3>1. Removable \in SUBSET DOMAIN queue /\ Removable \subseteq MatchesAt
      BY DEF Removable, MatchesAt
    <3>2. k \in Removable
      BY <1>2, <1>4, <3>1, FirstJob
    <3> QED
      BY <1>2, <3>1, <3>2 DEF MatchesAt
  <2> HIDE DEF k
  <2>2. queue' = RemoveAt(queue, k)
    BY <1>4 DEF k
  <2>3. /\ ToSet(queue') \subseteq ToSet(queue)
        /\ ToSet(queue) \subseteq ToSet(queue') \cup {arg}
        /\ queue' \in Seq(JobId) /\ Len(queue') = Len(queue) - 1
        /\ \A i \in 1..Len(queue)-1 : queue'[i] = IF i < k THEN queue[i] ELSE queue[i + 1]
    <3>1. /\ ToSet(queue') \subseteq ToSet(queue)
          /\ ToSet(queue) \subseteq ToSet(queue') \cup {queue[k]}
          /\ queue' \in Seq(JobId)
      BY <1>2, <2>1, <2>2, RemoveMembers
    <3>2. /\ Len(queue') = Len(queue) - 1
          /\ \A i \in 1..Len(queue)-1 : queue'[i] = IF i < k THEN queue[i] ELSE queue[i + 1]
      BY <1>2, <2>1, <2>2, RemoveElements
    <3> QED
      BY <2>1, <3>1, <3>2
  <2>4. arg \notin ToSet(queue')
    <3> SUFFICES ASSUME arg \in ToSet(queue') PROVE FALSE
      OBVIOUS
    <3>1. PICK i \in 1..Len(queue') : queue'[i] = arg
      BY <2>3, Members
    <3>2. PICK m \in 1..Len(queue) : m # k /\ queue[m] = arg
      <4>1. CASE i < k
        BY <1>2, <2>1, <2>3, <3>1, <4>1
      <4>2. CASE ~(i < k)
        BY <1>2, <2>1, <2>3, <3>1, <4>2
      <4> QED
        BY <4>1, <4>2
    <3>3. queue[m] < queue[k] \/ queue[k] < queue[m]
      BY <1>2, <2>1, <3>2 DEF ListInv
    <3> QED
      BY <1>1, <2>1, <3>2, <3>3 DEF JobId
  <2>5. PICK j \in JobId : j = arg
    BY <1>1
  <2>6. j \in ToSet(queue) /\ j < jobid
    BY <1>2, <2>1, <2>5 DEF ListInv
  <2>7. ServiceStatus(j) = state[j] /\ state[j] \in {"WAIT", "DONE"}
    BY <1>2, <1>4, <2>5, <2>6 DEF ServiceStatus, ListInv
  <2>8. ServiceStatus(j)' = "gone"
    BY <1>1, <2>4, <2>5, <2>6 DEF ServiceStatus
  <2>9. \A i \in JobId : i # j => ServiceStatus(i)' = ServiceStatus(i)
    BY <1>1, <2>3, <2>5 DEF ServiceStatus
  <2>10. ServiceTable' = [ServiceTable EXCEPT ![j] = "gone"]
    BY <2>8, <2>9 DEF ServiceTable
  <2>11. Service!Remove(j)
    BY <1>1, <2>7, <2>10 DEF Service!Remove, ServiceTable
  <2> QED
    BY <1>1, <2>11 DEF Service!Next
<1> QED
  BY <1>1, <1>3, <1>4

LEMMA SelectIsStart ==
  ASSUME TypeInv, ListInv, SelectJob, WaitingAt # {}
  PROVE  Service!Next
<1> DEFINE k == First(WaitingAt)
<1>1. /\ queue \in Seq(JobId) /\ state \in [JobId -> {"none", "WAIT", "RUN", "DONE"}]
      /\ DOMAIN queue = 1..Len(queue) /\ Len(queue) \in Nat /\ jobid \in Int /\ njobs \in Nat
      /\ \A x : x \in ToSet(queue) <=> \E i \in 1..Len(queue) : queue[i] = x
      /\ \A i \in DOMAIN queue : queue[i] \in JobId
  BY Members DEF TypeInv, TypeOK
<1>2. /\ k \in DOMAIN queue /\ state[queue[k]] = "WAIT"
      /\ \A i \in WaitingAt : k <= i
  <2>1. WaitingAt \in SUBSET DOMAIN queue
    BY DEF WaitingAt
  <2>2. k \in WaitingAt /\ \A i \in WaitingAt : k <= i
    BY <1>1, <2>1, FirstJob
  <2> QED
    BY <2>1, <2>2 DEF WaitingAt
<1>3. /\ sel' = queue[k] /\ state' = [state EXCEPT ![sel'] = "RUN"]
      /\ UNCHANGED <<queue, jobid, exit, njobs, run, arg>> /\ run = "up"
      /\ pc'["main"] = pc["main"] /\ numJobsRunning < njobs
  BY DEF SelectJob, Goto, Executes, TypeInv, TypeOK, Threads
<1> HIDE DEF k
<1>4. PICK j \in JobId : j = queue[k]
  BY <1>1, <1>2
<1>5. j \in ToSet(queue)
  BY <1>1, <1>2, <1>4
<1>6. ServiceStatus(j) = "WAIT" /\ ServiceStatus(j)' = state'[j] /\ state'[j] = "RUN"
  BY <1>1, <1>2, <1>3, <1>4, <1>5 DEF ServiceStatus
<1>7. \A i \in JobId : i # j => ServiceStatus(i)' = ServiceStatus(i)
  BY <1>1, <1>3, <1>4 DEF ServiceStatus
<1>8. ServiceTable' = [ServiceTable EXCEPT ![j] = "RUN"]
  BY <1>6, <1>7, TableChanged
<1>9. ASSUME NEW i \in JobId, i < j
      PROVE  ServiceTable[i] # "WAIT"
  <2> SUFFICES ASSUME ServiceStatus(i) = "WAIT" PROVE FALSE
    BY DEF ServiceTable
  <2>1. i \in ToSet(queue) /\ state[i] = "WAIT"
    BY DEF ServiceStatus
  <2>2. PICK m \in DOMAIN queue : queue[m] = i
    BY <1>1, <2>1
  <2>3. k <= m
    BY <1>2, <2>1, <2>2 DEF WaitingAt
  <2>4. k = m \/ queue[k] < queue[m]
    BY <1>1, <1>2, <2>2, <2>3 DEF ListInv
  <2> QED
    BY <1>4, <1>9, <2>2, <2>4 DEF JobId
<1>10. Cardinality({ i \in JobId : ServiceTable[i] = "RUN" }) < njobs
  <2> DEFINE running == { i \in JobId : ServiceTable[i] = "RUN" }
             f == [i \in RunningAt |-> queue[i]]
  <2>1. IsFiniteSet(RunningAt)
    <3>1. IsFiniteSet(1..Len(queue))
      BY <1>1, FS_Interval
    <3>2. RunningAt \in SUBSET (1..Len(queue))
      BY <1>1 DEF RunningAt
    <3> QED
      BY <3>1, <3>2, FS_Subset
  <2>2. \A i \in JobId : ServiceTable[i] = "RUN" <=> i \in ToSet(queue) /\ state[i] = "RUN"
    BY DEF ServiceTable, ServiceStatus
  <2>3. \A i \in RunningAt : queue[i] \in running
    BY <1>1, <2>2 DEF RunningAt
  <2>4. \A x \in running : \E i \in RunningAt : queue[i] = x
    BY <1>1, <2>2 DEF RunningAt
  <2>5. f \in Surjection(RunningAt, running)
    BY <2>3, <2>4 DEF Surjection
  <2> HIDE DEF running, f
  <2>6. /\ IsFiniteSet(running) /\ Cardinality(running) <= Cardinality(RunningAt)
    BY <2>1, <2>5, FS_Surjection
  <2>7. Cardinality(running) \in Nat /\ Cardinality(RunningAt) \in Nat
    BY <2>1, <2>6, FS_CardinalityType
  <2>8. Cardinality(RunningAt) < njobs
    BY <1>3 DEF numJobsRunning
  <2>9. Cardinality(running) < njobs
    BY <1>1, <2>6, <2>7, <2>8
  <2> QED
    BY <2>9 DEF running
<1>11. Service!Start(j)
  <2>1. ServiceTable[j] = "WAIT"
    BY <1>6 DEF ServiceTable
  <2>2. \A i \in JobId : i < j => ServiceTable[i] # "WAIT"
    BY <1>9
  <2>3. Service!Cardinality(Service!Running) < njobs
    <3>1. Cardinality(Service!Running) < njobs
      BY <1>10 DEF Service!Running, ServiceTable
    <3>2. Service!Cardinality(Service!Running) = Cardinality(Service!Running)
      BY DEF Service!Cardinality, Cardinality
    <3> QED
      BY <3>1, <3>2
  <2>4. UNCHANGED <<exit, njobs, (run = "up")>>
    BY <1>3
  <2> QED
    BY <1>8, <2>1, <2>2, <2>3, <2>4 DEF Service!Start, ServiceTable
<1> QED
  BY <1>3, <1>11 DEF Service!Next

LEMMA CompleteIsFinish ==
  ASSUME IInv, CodeInv, NEW t \in Threads, JobComplete(t)
  PROVE  Service!Next
<1> DEFINE p == hpid[t]
<1>1. /\ p \in Pids /\ proc[p].job \in JobId /\ proc[p].job \in ToSet(queue)
      /\ state[proc[p].job] = "RUN" /\ hpc[t] = "lock"
      /\ state' = [state EXCEPT ![proc[p].job] = "DONE"]
      /\ exit' = [exit EXCEPT ![proc[p].job] = hcode[t]]
      /\ pc' = Woken
      /\ UNCHANGED <<queue, njobs, jobid, arg, run>>
  BY CompleteStep
<1>2. /\ state \in [JobId -> {"none", "WAIT", "RUN", "DONE"}]
      /\ hcode[t] \in ExitCodes /\ run = "up"
  BY <1>1 DEF IInv, TypeInv, TypeOK, CodeInv, JobComplete
<1>3. PICK j \in JobId : j = proc[p].job
  BY <1>1
<1> HIDE DEF p
<1>4. pc'["main"] = "submit" <=> pc["main"] = "submit"
  BY <1>1 DEF Woken, Threads
<1>5. ServiceStatus(j) = "RUN" /\ ServiceStatus(j)' = state'[j] /\ state'[j] = "DONE"
  BY <1>1, <1>2, <1>3 DEF ServiceStatus
<1>6. \A i \in JobId : i # j => ServiceStatus(i)' = ServiceStatus(i)
  BY <1>1, <1>2, <1>3, <1>4 DEF ServiceStatus
<1>7. ServiceTable' = [ServiceTable EXCEPT ![j] = "DONE"]
  BY <1>5, <1>6, TableChanged
<1>8. PICK code \in ExitCodes : code = hcode[t]
  BY <1>2
<1>9. Service!Finish(j, code)
  BY <1>1, <1>2, <1>3, <1>5, <1>7, <1>8 DEF Service!Finish, ServiceTable
<1> QED
  BY <1>2, <1>8, <1>9 DEF Service!Next

LEMMA StepsOfTheService ==
  ASSUME IInv, ListInv, CodeInv, [Next]_vars
  PROVE  Service!Next \/ UNCHANGED Service!serviceVars
<1>0. TypeInv
  BY DEF IInv
<1>1. ASSUME Service!Stop
      PROVE  Service!Next \/ UNCHANGED Service!serviceVars
  <2>1. CASE run = "up"
    BY <1>1, <2>1 DEF Service!Next
  <2>2. CASE run # "up"
    BY <1>1, <2>2 DEF Service!Stop, Service!serviceVars
  <2> QED
    BY <2>1, <2>2
<1>2. CASE Command \/ MainStep
  BY <1>0, <1>1, <1>2, UnseenSteps, CreateIsUnseen, QueueIsSubmit, SetIsSetLimit,
     RemoveIsRemove DEF Command, MainStep
<1>3. CASE SchedStep \/ UNCHANGED vars
  BY <1>0, <1>1, <1>3, UnseenSteps, SelectIsStart DEF SchedStep
<1>4. CASE \E t \in Threads : SpuriousWakeup(t) \/ Relock(t) \/ Deliver(t) \/ HandlerStep(t)
  BY <1>0, <1>1, <1>4, UnseenSteps, CompleteIsFinish DEF HandlerStep
<1>5. CASE \E p \in Pids : ChildExits(p) \/ ChildKilled(p)
  BY <1>0, <1>1, <1>5, UnseenSteps
<1> QED
  BY <1>2, <1>3, <1>4, <1>5 DEF Next

\* Seen through the list, jobsched.c numbers jobs in order, starts them in that
\* order and within njobs, finishes each once and removes none that runs, for any
\* number of jobs and whatever the handler interrupts: it implements JobService.
THEOREM SchedulerImplementsService ==
  ASSUME ~PidReuse PROVE Spec => ImplementsService
<1>1. Init => Service!Init
  <2> SUFFICES ASSUME Init PROVE Service!Init
    OBVIOUS
  <2>1. \A j \in JobId : ServiceStatus(j) = "none"
    <3>1. ToSet(queue) = {} /\ jobid = 1
      BY DEF Init, ToSet
    <3> QED
      BY <3>1 DEF ServiceStatus, JobId
  <2> QED
    BY <2>1 DEF Init, Service!Init
<1>2. IInv /\ ListInv /\ CodeInv /\ [Next]_vars => [Service!Next]_Service!serviceVars
  BY StepsOfTheService
<1>3. IInv /\ ListInv /\ [Next]_vars => ListInv'
  BY NextListInv DEF IInv
<1>4. IInv /\ CodeInv /\ [Next]_vars => CodeInv'
  BY NextCodeInv DEF IInv
<1>5. Init => ListInv /\ CodeInv
  BY InitListInv
<1> QED
  BY <1>1, <1>2, <1>3, <1>4, <1>5, Inductive, PTL DEF Spec, ImplementsService, Service!Spec
-----------------------------------------------------------------------------
(* Nobody sleeps through a wakeup.  SlotIsUsed and DrainReturns need         *)
(* fairness; this is the part of them that is a matter of states: a thread   *)
(* in pthread_cond_wait has nothing to do yet.                               *)

\* What each thread tested before it went to sleep still holds: the scheduler
\* found no slot, and drain a job that is not DONE.
SleepInv ==
  /\ pc["sched"] = "cond_wait" => numJobsRunning >= njobs
  /\ Draining => arg >= 1
  /\ pc["main"] = "cond_wait" => arg <= Len(queue) /\ state[queue[arg]] # "DONE"

\* The scheduler sleeps only while no job can be started, and drain only while
\* some job of the list is not DONE.
NoWakeupLost ==
  /\ pc["sched"] = "cond_wait" => \A j \in JobId : ~Startable(j)
  /\ pc["main"] = "cond_wait" => ~(\A j \in ToSet(queue) : state[j] = "DONE")

LEMMA RunningFinite ==
  ASSUME TypeInv
  PROVE  IsFiniteSet(RunningAt) /\ numJobsRunning \in Nat
<1>1. Len(queue) \in Nat /\ RunningAt \subseteq 1..Len(queue)
  BY DEF RunningAt, TypeInv, TypeOK
<1>2. IsFiniteSet(1..Len(queue))
  BY <1>1, FS_Interval
<1>3. IsFiniteSet(RunningAt)
  BY <1>1, <1>2, FS_Subset
<1> QED
  BY <1>3, FS_CardinalityType DEF numJobsRunning

\* Steps after which no fewer jobs of the list run keep a sleeper asleep.
LEMMA SleepKept ==
  ASSUME TypeInv, SleepInv, njobs' = njobs,
         numJobsRunning' \in Nat, numJobsRunning' >= numJobsRunning,
         pc'["sched"] = "cond_wait" => pc["sched"] = "cond_wait",
         ~ Draining'
  PROVE  SleepInv'
<1>1. pc'["sched"] = "cond_wait" => numJobsRunning >= njobs
  BY DEF SleepInv
<1>2. numJobsRunning \in Nat /\ njobs \in Nat
  BY RunningFinite DEF TypeInv, TypeOK
<1>3. pc'["sched"] = "cond_wait" => numJobsRunning' >= njobs'
  BY <1>1, <1>2
<1>4. pc'["main"] # "cond_wait"
  BY DEF Draining
<1> QED
  BY <1>3, <1>4 DEF SleepInv

\* queue_job puts a job behind the others: those that run still run.
LEMMA QueueKeepsRunning ==
  ASSUME TypeInv, QueueJob
  PROVE  numJobsRunning' \in Nat /\ numJobsRunning' >= numJobsRunning
<1>1. /\ queue \in Seq(JobId) /\ arg \in JobId /\ Len(queue) \in Nat
      /\ queue' = Append(queue, arg) /\ state' = state
  BY DEF QueueJob, TypeInv, TypeOK, Goto, Threads
<1>2. /\ DOMAIN queue = 1..Len(queue) /\ DOMAIN queue' = 1..Len(queue)+1
      /\ \A i \in 1..Len(queue) : queue'[i] = queue[i]
  BY <1>1
<1>3. RunningAt \subseteq RunningAt' /\ RunningAt' \subseteq 1..Len(queue)+1
  BY <1>1, <1>2 DEF RunningAt
<1>4. Len(queue) + 1 \in Nat
  BY <1>1
<1>5. IsFiniteSet(RunningAt')
  <2>1. IsFiniteSet(1..Len(queue)+1)
    BY <1>4, FS_Interval
  <2> QED
    BY <1>3, <2>1, FS_Subset
<1> QED
  BY <1>3, <1>5, FS_Subset, FS_CardinalityType DEF numJobsRunning

\* remove_job takes out a job that does not run: the count is what it was.
LEMMA RemoveKeepsRunning ==
  ASSUME TypeInv, RemoveJob
  PROVE  numJobsRunning' \in Nat /\ numJobsRunning' >= numJobsRunning
<1>0. /\ queue \in Seq(JobId) /\ Len(queue) \in Nat /\ DOMAIN queue = 1..Len(queue)
      /\ state' = state
  BY DEF RemoveJob, TypeInv, TypeOK
<1>1. numJobsRunning \in Nat /\ IsFiniteSet(RunningAt)
  BY RunningFinite
<1>2. CASE queue' = queue
  <2>1. numJobsRunning' = numJobsRunning
    BY <1>0, <1>2 DEF numJobsRunning, RunningAt
  <2> QED
    BY <1>1, <2>1
<1>3. CASE Removable # {} /\ state[arg] # "RUN" /\ queue' = RemoveAt(queue, First(Removable))
  <2> DEFINE k == First(Removable)
             Old(i) == IF i < k THEN i ELSE i + 1
             f == [i \in RunningAt' |-> Old(i)]
  <2>1. Removable \in SUBSET MatchesAt /\ MatchesAt \in SUBSET DOMAIN queue
    BY DEF Removable, MatchesAt
  <2>2. k \in Removable /\ k \in DOMAIN queue
    BY <1>0, <1>3, <2>1, FirstJob
  <2>3. queue[k] = arg
    BY <2>1, <2>2 DEF MatchesAt
  <2>4. k \notin RunningAt
    BY <1>3, <2>3 DEF RunningAt
  <2>5. queue' = RemoveAt(queue, k)
    BY <1>3
  <2> HIDE DEF k
  <2>6. /\ DOMAIN queue' = 1..Len(queue)-1
        /\ \A i \in 1..Len(queue)-1 : queue'[i] = queue[Old(i)]
    <3>1. k \in 1..Len(queue)
      BY <1>0, <2>2
    <3>2. /\ RemoveAt(queue, k) \in Seq(JobId)
          /\ Len(RemoveAt(queue, k)) = Len(queue) - 1
          /\ \A i \in 1..Len(queue)-1 :
               RemoveAt(queue, k)[i] = IF i < k THEN queue[i] ELSE queue[i + 1]
      BY <1>0, <3>1, RemoveElements
    <3>3. DOMAIN queue' = 1..Len(queue') /\ Len(queue') = Len(queue) - 1
      BY <2>5, <3>2, Members
    <3>4. \A i \in 1..Len(queue)-1 : queue'[i] = queue[Old(i)]
      <4> SUFFICES ASSUME NEW i \in 1..Len(queue)-1 PROVE queue'[i] = queue[Old(i)]
        OBVIOUS
      <4>1. queue'[i] = IF i < k THEN queue[i] ELSE queue[i + 1]
        BY <2>5, <3>2
      <4> QED
        BY <4>1, Zenon
    <3> QED
      BY <3>3, <3>4
  <2>7. ASSUME NEW i \in RunningAt' PROVE Old(i) \in RunningAt
    <3>1. i \in 1..Len(queue)-1 /\ state[queue'[i]] = "RUN"
      BY <1>0, <2>6 DEF RunningAt
    <3>2. Old(i) \in DOMAIN queue
      BY <1>0, <2>2, <3>1
    <3>3. state[queue[Old(i)]] = "RUN"
      BY <2>6, <3>1
    <3> QED
      BY <3>2, <3>3 DEF RunningAt
  <2>8. ASSUME NEW n \in RunningAt PROVE \E i \in RunningAt' : Old(i) = n
    <3>1. n \in 1..Len(queue) /\ n # k /\ state[queue[n]] = "RUN"
      BY <1>0, <2>4 DEF RunningAt
    <3>2. PICK i \in 1..Len(queue)-1 : Old(i) = n
      <4>1. CASE n < k
        <5>1. n \in 1..Len(queue)-1 /\ Old(n) = n
          BY <1>0, <2>2, <3>1, <4>1
        <5> QED
          BY <5>1
      <4>2. CASE ~(n < k)
        <5>1. n - 1 \in 1..Len(queue)-1 /\ Old(n - 1) = n
          BY <1>0, <2>2, <3>1, <4>2
        <5> QED
          BY <5>1
      <4> QED
        BY <4>1, <4>2
    <3>3. state[queue'[i]] = "RUN"
      BY <2>6, <3>1, <3>2
    <3>4. i \in RunningAt'
      BY <1>0, <2>6, <3>2, <3>3 DEF RunningAt
    <3> QED
      BY <3>2, <3>4
  <2>9. f \in Surjection(RunningAt', RunningAt)
    <3>1. f \in [RunningAt' -> RunningAt]
      BY <2>7
    <3>2. \A n \in RunningAt : \E i \in RunningAt' : f[i] = n
      BY <2>8
    <3> HIDE DEF f
    <3> QED
      BY <3>1, <3>2 DEF Surjection
  <2>10. IsFiniteSet(RunningAt')
    <3>1. RunningAt' \subseteq 1..Len(queue)
      BY <1>0, <2>6 DEF RunningAt
    <3>2. IsFiniteSet(1..Len(queue))
      BY <1>0, FS_Interval
    <3> QED
      BY <3>1, <3>2, FS_Subset
  <2>11. Cardinality(RunningAt) <= Cardinality(RunningAt')
    <3> HIDE DEF f
    <3> QED
      BY <2>9, <2>10, FS_Surjection
  <2>12. Cardinality(RunningAt') \in Nat /\ Cardinality(RunningAt) \in Nat
    BY <1>1, <2>10, FS_CardinalityType
  <2> QED
    BY <2>11, <2>12 DEF numJobsRunning
<1> QED
  BY <1>2, <1>3 DEF RemoveJob

\* create_job fills in a job that is not in the list yet.
LEMMA CreateKeepsRunning ==
  ASSUME TypeInv, ListInv, CreateJob
  PROVE  numJobsRunning' = numJobsRunning
<1>1. /\ queue \in Seq(JobId) /\ queue' = queue
      /\ state \in [JobId -> {"none", "WAIT", "RUN", "DONE"}]
      /\ state' = [state EXCEPT ![jobid] = "WAIT"]
  BY DEF CreateJob, TypeInv, TypeOK
<1>2. \A i \in DOMAIN queue : queue[i] \in JobId /\ queue[i] # jobid
  <2>1. \A i \in DOMAIN queue : queue[i] \in JobId
    BY <1>1
  <2>2. \A i \in DOMAIN queue : queue[i] < jobid
    BY DEF ListInv
  <2>3. jobid \in Nat /\ JobId \subseteq Nat
    BY ConstantsAssumption DEF TypeInv, TypeOK, JobId
  <2> QED
    BY <2>1, <2>2, <2>3
<1>3. \A i \in DOMAIN queue : state'[queue[i]] = state[queue[i]]
  BY <1>1, <1>2
<1>4. RunningAt' = RunningAt
  BY <1>1, <1>3 DEF RunningAt
<1> QED
  BY <1>4 DEF numJobsRunning

LEMMA InitSleepInv == Init => SleepInv
<1> SUFFICES ASSUME Init PROVE SleepInv
  OBVIOUS
<1>1. pc["main"] = "fgets" /\ pc["sched"] = "install"
  BY DEF Init, Threads
<1> QED
  BY <1>1 DEF SleepInv, Draining

LEMMA NextSleepInv ==
  ASSUME TypeInv, ListInv, SleepInv, [Next]_vars
  PROVE  SleepInv'
<1>0. /\ numJobsRunning \in Nat /\ njobs \in Nat /\ arg \in Nat
      /\ DOMAIN pc = Threads /\ "main" \in Threads /\ "sched" \in Threads
      /\ queue \in Seq(JobId)
      /\ state \in [JobId -> {"none", "WAIT", "RUN", "DONE"}]
  BY RunningFinite DEF TypeInv, TypeOK, Threads
<1>1. CASE CreateJob
  <2>1. njobs' = njobs /\ pc'["sched"] = pc["sched"] /\ pc'["main"] = "submit"
    BY <1>0, <1>1 DEF CreateJob, Goto
  <2>2. numJobsRunning' = numJobsRunning
    BY <1>1, CreateKeepsRunning
  <2>3. numJobsRunning' \in Nat /\ numJobsRunning' >= numJobsRunning
    BY <1>0, <2>2
  <2> QED
    BY <2>1, <2>3, SleepKept DEF Draining
<1>2. CASE QueueJob
  <2>1. njobs' = njobs /\ pc'["sched"] = pc["sched"] /\ pc'["main"] = "unlock"
    BY <1>0, <1>2 DEF QueueJob, Goto
  <2> QED
    BY <1>2, <2>1, QueueKeepsRunning, SleepKept DEF Draining
<1>3. CASE RemoveJob
  <2>1. njobs' = njobs /\ pc'["sched"] = pc["sched"] /\ pc'["main"] \in {"unlock", "unlock_fail"}
    BY <1>0, <1>3 DEF RemoveJob, Goto
  <2> QED
    BY <1>3, <2>1, RemoveKeepsRunning, SleepKept DEF Draining
<1>4. CASE SetNjobs
  <2>1. /\ pc'["main"] = "unlock"
        /\ \/ pc'["sched"] # "cond_wait"
           \/ pc'["sched"] = pc["sched"] /\ njobs' = njobs
    BY <1>0, <1>4 DEF SetNjobs, Goto, Woken
  <2>2. numJobsRunning' = numJobsRunning
    BY <1>4 DEF SetNjobs, numJobsRunning, RunningAt
  <2> QED
    BY <2>1, <2>2 DEF SleepInv, Draining
<1>5. CASE DrainLock
  <2>1. /\ arg' = 1 /\ pc'["main"] = "drain_scan" /\ pc'["sched"] = pc["sched"]
        /\ njobs' = njobs /\ numJobsRunning' = numJobsRunning
    BY <1>0, <1>5 DEF DrainLock, Goto, heap, numJobsRunning, RunningAt
  <2> QED
    BY <2>1 DEF SleepInv
<1>6. CASE DrainScan
  <2>1. /\ pc["main"] = "drain_scan" /\ pc'["sched"] = pc["sched"]
        /\ UNCHANGED <<queue, state, njobs>>
    BY <1>0, <1>6 DEF DrainScan, Goto, heap
  <2>2. arg >= 1
    BY <2>1 DEF SleepInv, Draining
  <2>3. numJobsRunning' = numJobsRunning
    BY <2>1 DEF numJobsRunning, RunningAt
  <2>4. \/ arg' = 0 /\ pc'["main"] = "unlock"
        \/ arg' = arg + 1 /\ pc'["main"] = "drain_scan"
        \/ /\ arg' = arg /\ pc'["main"] = "cond_wait"
           /\ arg <= Len(queue) /\ state[queue[arg]] # "DONE"
    BY <1>0, <1>6, <2>1 DEF DrainScan, Goto
  <2>5. pc'["sched"] = "cond_wait" => numJobsRunning' >= njobs'
    BY <2>1, <2>3 DEF SleepInv
  <2>6. Draining' => arg' >= 1
    BY <1>0, <2>2, <2>4 DEF Draining
  <2>7. pc'["main"] = "cond_wait" => arg' <= Len(queue') /\ state'[queue'[arg']] # "DONE"
    BY <2>1, <2>4
  <2> QED
    BY <2>5, <2>6, <2>7 DEF SleepInv
<1>7. CASE \/ Status \/ SpinUntilDone \/ MainUnlock
           \/ ReadCommand \/ WaitCommand \/ Quit
  <2>1. /\ ~Draining' /\ pc'["sched"] = pc["sched"] /\ UNCHANGED <<queue, state, njobs>>
    BY <1>0, <1>7 DEF Status, SpinUntilDone, MainUnlock, ReadCommand, WaitCommand, Quit,
                Draining, Goto, heap, threads
  <2>2. numJobsRunning' = numJobsRunning
    BY <2>1 DEF numJobsRunning, RunningAt
  <2>3. numJobsRunning' \in Nat /\ numJobsRunning' >= numJobsRunning
    BY <1>0, <2>2
  <2> QED
    BY <2>1, <2>3, SleepKept
<1>8. CASE AwaitSlot
  <2>1. /\ pc'["main"] = pc["main"] /\ UNCHANGED <<queue, state, njobs, arg>>
        /\ numJobsRunning >= njobs
    BY <1>0, <1>8 DEF AwaitSlot, Goto, heap
  <2>2. numJobsRunning' = numJobsRunning
    BY <2>1 DEF numJobsRunning, RunningAt
  <2> QED
    BY <2>1, <2>2 DEF SleepInv, Draining
<1>9. CASE SelectJob /\ WaitingAt # {}
  <2>1. /\ pc'["sched"] = "fork" /\ pc'["main"] = pc["main"] /\ UNCHANGED <<queue, arg>>
        /\ state' = [state EXCEPT ![queue[First(WaitingAt)]] = "RUN"]
    BY <1>0, <1>9 DEF SelectJob, Goto
  <2>2. pc["main"] = "cond_wait" =>
          arg >= 1 /\ arg <= Len(queue) /\ state[queue[arg]] # "DONE"
    BY DEF SleepInv, Draining
  <2>3. pc["main"] = "cond_wait" => queue[arg] \in JobId
    BY <1>0, <2>2
  <2>4. pc["main"] = "cond_wait" => state'[queue[arg]] # "DONE"
    BY <1>0, <2>1, <2>2, <2>3
  <2> QED
    BY <2>1, <2>4 DEF SleepInv, Draining
<1>10. CASE \E t \in Threads : JobComplete(t)
  <2>1. PICK t \in Threads : JobComplete(t)
    BY <1>10
  <2>2. CASE PidAt(hpid[t]) = {}
    <3>1. UNCHANGED <<queue, state, njobs, arg, pc>>
      BY <2>1, <2>2 DEF JobComplete
    <3>2. numJobsRunning' = numJobsRunning
      BY <3>1 DEF numJobsRunning, RunningAt
    <3> QED
      BY <3>1, <3>2 DEF SleepInv, Draining
  <2>3. CASE PidAt(hpid[t]) # {}
    <3>1. pc' = Woken /\ arg' = arg
      BY <2>1, <2>3 DEF JobComplete
    <3>2. pc'["sched"] # "cond_wait" /\ pc'["main"] # "cond_wait"
      BY <1>0, <3>1 DEF Woken
    <3>3. Draining' => Draining
      BY <1>0, <3>1 DEF Woken, Draining
    <3> QED
      BY <3>1, <3>2, <3>3 DEF SleepInv
  <2> QED
    BY <2>2, <2>3
<1>11. CASE \/ InstallHandler \/ SelectLock \/ (SelectJob /\ WaitingAt = {})
            \/ SelectFromEmpty \/ Fork \/ ForkError \/ RecordPid \/ SelectUnlock
            \/ \E t \in Threads : SpuriousWakeup(t) \/ Deliver(t) \/ Reap(t) \/ HandlerReturn(t)
            \/ \E t \in Threads : Relock(t)
            \/ \E p \in Pids : ChildExits(p) \/ ChildKilled(p)
            \/ UNCHANGED vars
  <2>1. /\ UNCHANGED <<queue, state, njobs, arg>>
        /\ \A t \in Threads : pc'[t] = "cond_wait" => pc[t] = "cond_wait"
        /\ Draining' => Draining
    <3> USE <1>0 DEF Goto, heap, threads, handler, kernel, Draining, Threads
    <3>1. CASE \/ InstallHandler \/ SelectLock \/ (SelectJob /\ WaitingAt = {})
               \/ SelectFromEmpty \/ Fork \/ ForkError \/ RecordPid \/ SelectUnlock
      BY <3>1 DEF InstallHandler, SelectLock, SelectJob, SelectFromEmpty, Fork, ForkError,
                  RecordPid, SelectUnlock
    <3>2. CASE \E t \in Threads : SpuriousWakeup(t) \/ Deliver(t) \/ Reap(t) \/ HandlerReturn(t)
      BY <3>2 DEF SpuriousWakeup, Deliver, Reap, HandlerReturn
    <3>3. CASE \E t \in Threads : Relock(t)
      BY <3>3 DEF Relock
    <3>4. CASE \E p \in Pids : ChildExits(p) \/ ChildKilled(p)
      BY <3>4 DEF ChildExits, ChildKilled
    <3>5. CASE UNCHANGED vars
      BY <3>5 DEF vars
    <3> QED
      BY <1>11, <3>1, <3>2, <3>3, <3>4, <3>5
  <2>2. numJobsRunning' = numJobsRunning
    BY <2>1 DEF numJobsRunning, RunningAt
  <2>3. pc'["sched"] = "cond_wait" => numJobsRunning' >= njobs'
    BY <1>0, <2>1, <2>2 DEF SleepInv
  <2>4. Draining' => arg' >= 1
    BY <2>1 DEF SleepInv
  <2>5. pc'["main"] = "cond_wait" => arg' <= Len(queue') /\ state'[queue'[arg']] # "DONE"
    BY <1>0, <2>1 DEF SleepInv
  <2> QED
    BY <2>3, <2>4, <2>5 DEF SleepInv
<1>12. CASE Command \/ MainStep
  BY <1>1, <1>2, <1>3, <1>4, <1>5, <1>6, <1>7, <1>12 DEF Command, MainStep
<1>13. CASE SchedStep
  BY <1>8, <1>9, <1>11, <1>13 DEF SchedStep
<1>14. CASE \E t \in Threads : SpuriousWakeup(t) \/ Relock(t) \/ Deliver(t) \/ HandlerStep(t)
  BY <1>10, <1>11, <1>14 DEF HandlerStep
<1> QED
  BY <1>11, <1>12, <1>13, <1>14 DEF Next

\* What the sleepers tested says that neither has anything to do.
LEMMA SleepIsIdle == ASSUME TypeInv, SleepInv PROVE NoWakeupLost
<1>1. /\ numJobsRunning \in Nat /\ njobs \in Nat /\ arg \in Nat
      /\ queue \in Seq(JobId) /\ Len(queue) \in Nat
  BY RunningFinite DEF TypeInv, TypeOK
<1>2. pc["sched"] = "cond_wait" => ~(numJobsRunning < njobs)
  BY <1>1 DEF SleepInv
<1>3. ASSUME pc["main"] = "cond_wait"
      PROVE  ~(\A j \in ToSet(queue) : state[j] = "DONE")
  <2>1. arg >= 1 /\ arg <= Len(queue) /\ state[queue[arg]] # "DONE"
    BY <1>3 DEF SleepInv, Draining
  <2>2. arg \in 1..Len(queue)
    BY <1>1, <2>1
  <2>3. queue[arg] \in ToSet(queue)
    BY <1>1, <2>2, Members
  <2> QED
    BY <2>1, <2>3
<1> QED
  BY <1>2, <1>3 DEF NoWakeupLost, Startable

\* A thread in pthread_cond_wait never sleeps on work it could do: the broadcasts
\* of job_complete and set_njobs are all that are needed, and select_job_to_run
\* and drain, which release the mutex only inside pthread_cond_wait, miss none.
\* This is for any interleaving with the signal handler, reused pids included.
THEOREM NoWakeupIsLost == Spec => []NoWakeupLost
<1>1. Init => TypeInv /\ ListInv /\ SleepInv
  BY InitTypeInv, InitListInv, InitSleepInv
<1>2. TypeInv /\ ListInv /\ SleepInv /\ [Next]_vars => (TypeInv /\ ListInv /\ SleepInv)'
  BY NextTypeInv, NextListInv, NextSleepInv
<1>3. TypeInv /\ SleepInv => NoWakeupLost
  BY SleepIsIdle
<1> QED
  BY <1>1, <1>2, <1>3, PTL DEF Spec

-----------------------------------------------------------------------------
(* Deadlock.  There is one mutex, and wait() is the only other call in which *)
(* its owner could be stuck.                                                 *)

\* The critical sections of each thread: main's in its commands, the scheduler's
\* in select_job_to_run.
CriticalOf(t) == IF t = "main" THEN {"unlock", "unlock_fail", "drain_scan"}
                               ELSE {"unlock", "check", "fork", "record"}

PlaceInv ==
  /\ pc["main"] \in {"fgets", "submit", "status", "drain", "remove", "njobs", "spin",
                     "cond_wait", "relock"} \cup CriticalOf("main")
  /\ pc["sched"] \in {"install", "lock", "cond_wait", "relock"} \cup CriticalOf("sched")

\* Who has the mutex is in its own critical section, uninterrupted, or in a handler
\* that has completed a job, or in one whose wait() finds a child: the owner never
\* waits for anything, unless the handler asks for the mutex of the code below it.
OwnerGoesOn ==
  \A t \in Threads : mutex = t =>
    \/ hpc[t] = "off" /\ pc[t] \in CriticalOf(t)
    \/ hpc[t] = "unlock"
    \/ hpc[t] = "wait" /\ Zombies # {}
    \/ Wedged

LEMMA InitPlaceInv == Init => PlaceInv
  BY DEF Init, PlaceInv, Threads

LEMMA NextPlaceInv ==
  ASSUME TypeInv, PlaceInv, [Next]_vars
  PROVE  PlaceInv'
<1>0. DOMAIN pc = Threads /\ "main" \in Threads /\ "sched" \in Threads
  BY DEF TypeInv, TypeOK, Threads
<1> USE <1>0 DEF PlaceInv, CriticalOf, Goto, threads
<1>1. CASE Command
  BY <1>1 DEF Command, CreateJob, ReadCommand, WaitCommand, Quit
<1>2. CASE MainStep
  BY <1>2 DEF MainStep, QueueJob, Status, SetNjobs, RemoveJob, SpinUntilDone, DrainLock,
              DrainScan, MainUnlock, Woken
<1>3. CASE SchedStep
  BY <1>3 DEF SchedStep, InstallHandler, SelectLock, AwaitSlot, SelectJob, SelectFromEmpty,
              Fork, ForkError, RecordPid, SelectUnlock
<1>4. ASSUME NEW t \in Threads, SpuriousWakeup(t) \/ Relock(t) \/ Deliver(t) \/ HandlerStep(t)
      PROVE  PlaceInv'
  <2>1. CASE SpuriousWakeup(t)
    BY <2>1 DEF SpuriousWakeup, Threads
  <2>2. CASE Relock(t)
    BY <2>2 DEF Relock, Threads
  <2>3. CASE Deliver(t) \/ Reap(t) \/ HandlerReturn(t)
    BY <2>3 DEF Deliver, Reap, HandlerReturn
  <2>4. CASE JobComplete(t)
    <3>1. pc' = pc \/ pc' = Woken
      BY <2>4 DEF JobComplete
    <3> QED
      BY <3>1 DEF Woken
  <2> QED
    BY <1>4, <2>1, <2>2, <2>3, <2>4 DEF HandlerStep
<1>5. CASE \E p \in Pids : ChildExits(p) \/ ChildKilled(p)
  BY <1>5 DEF ChildExits, ChildKilled
<1>6. CASE UNCHANGED vars
  BY <1>6 DEF vars
<1> QED
  BY <1>1, <1>2, <1>3, <1>4, <1>5, <1>6 DEF Next

\* A handler in wait() has a zombie to take.
LEMMA WaitFinds ==
  ASSUME ClaimInv, NEW t \in Threads, hpc[t] = "wait"
  PROVE  Zombies # {}
<1>1. Claims <= Cardinality(Zombies) /\ IsFiniteSet(Zombies)
  BY DEF ClaimInv, ZombieForEachWait
<1>2. IsFiniteSet(Waits) /\ Cardinality(Waits) \in Nat
  BY WaitsFinite
<1>3. Cardinality(Waits) # 0
  <2>1. t \in Waits
    BY DEF Waits
  <2> QED
    BY <1>2, <2>1, FS_EmptySet
<1>4. Claims = Cardinality(Waits) + (IF pending THEN 1 ELSE 0)
  BY DEF Claims, Waits
<1>5. Claims >= 1
  BY <1>2, <1>3, <1>4
<1>6. Cardinality(Zombies) \in Nat
  BY <1>1, FS_CardinalityType
<1>7. Cardinality(Zombies) # 0
  <2>1. Claims \in Nat
    BY <1>2, <1>4
  <2> QED
    BY <1>1, <1>5, <1>6, <2>1
<1> QED
  BY <1>7, FS_EmptySet

\* The handler that interrupts a critical section is the only deadlock of the
\* program: in any other state, whoever has the mutex can go on and give it back,
\* whatever the other thread does and however many signals have been lost.  (Of
\* the kernel this takes that fork returns.)
THEOREM OnlyWedgesDeadlock == Spec => []OwnerGoesOn
<1>1. ASSUME TypeInv, MutexInv, PlaceInv, ClaimInv PROVE OwnerGoesOn
  <2> SUFFICES ASSUME NEW t \in Threads, mutex = t
               PROVE  \/ hpc[t] = "off" /\ pc[t] \in CriticalOf(t)
                      \/ hpc[t] = "unlock"
                      \/ hpc[t] = "wait" /\ Zombies # {}
                      \/ Wedged
    BY DEF OwnerGoesOn
  <2>1. hpc[t] \in {"off", "wait", "lock", "unlock"}
    BY <1>1 DEF TypeInv, TypeOK
  <2>2. CASE hpc[t] = "off"
    <3>1. pc[t] \in Critical
      BY <1>1, <2>2 DEF MutexInv, Holds
    <3>2. pc[t] \in CriticalOf(t)
      BY <1>1, <3>1 DEF Critical, CriticalOf, PlaceInv, Threads
    <3> QED
      BY <2>2, <3>2
  <2>3. CASE hpc[t] = "wait"
    BY <1>1, <2>3, WaitFinds
  <2>4. CASE hpc[t] = "lock"
    BY <2>4 DEF Wedged
  <2> QED
    BY <2>1, <2>2, <2>3, <2>4
<1>2. Init => TypeInv /\ MutexInv /\ PlaceInv /\ ClaimInv
  BY InitTypeInv, InitMutexInv, InitPlaceInv, InitClaimInv
<1>3. TypeInv /\ MutexInv /\ PlaceInv /\ ClaimInv /\ [Next]_vars
      => (TypeInv /\ MutexInv /\ PlaceInv /\ ClaimInv)'
  <2>1. MutexInv /\ UNCHANGED vars => MutexInv'
    BY DEF MutexInv, Holds, vars, threads, handler
  <2>2. TypeInv /\ MutexInv /\ [Next]_vars => MutexInv'
    BY <2>1, NextMutexInv
  <2> QED
    BY <2>2, NextTypeInv, NextPlaceInv, NextClaimInv
<1>4. TypeInv /\ MutexInv /\ PlaceInv /\ ClaimInv => OwnerGoesOn
  BY <1>1
<1> QED
  BY <1>2, <1>3, <1>4, PTL DEF Spec
=============================================================================
