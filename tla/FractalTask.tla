---------------------------- MODULE FractalTask -----------------------------
(***************************************************************************)
(* fractaltask.c: main makes a list of tasks, each a band of rows, and     *)
(* starts threads that take tasks from the list under a mutex until it is  *)
(* empty.  The list is also looked at without the mutex.                   *)
(***************************************************************************)
EXTENDS Integers, FiniteSets, ImageBands

CONSTANTS
  ThreadCount,  \* option -n
  TaskCount,    \* option -k
  Height        \* option -H

ASSUME CountsAssumption ==
  /\ ThreadCount \in Nat \ {0}
  /\ TaskCount \in Nat \ {0}
  /\ Height \in Nat

Workers == 0..ThreadCount-1
Rows    == 0..Height-1
Free    == -1           \* nobody has the mutex
NULL    == -1           \* end of the task list, and no task

VARIABLES
  head,      \* a->head: the front task; task i is followed by task i-1
  TASK_NUM,  \* the label of the next task taken
  lock,      \* owner of the mutex
  main,      \* what main does: "create" or "join" threads, or "exit"
  i,         \* main's loop counter
  pc,        \* where each thread is in compute_image
  a1,        \* the task each thread has taken
  j,         \* its next row
  bm,        \* how many times each row of the bitmap was computed
  saved      \* the image file has been written

vars == <<head, TASK_NUM, lock, main, i, pc, a1, j, bm, saved>>

\* main has linked the tasks; the last one made is at the front.
Init ==
  /\ head = TaskCount - 1
  /\ TASK_NUM = 1
  /\ lock = Free
  /\ main = "create"
  /\ i = 0
  /\ pc = [t \in Workers |-> "none"]
  /\ a1 = [t \in Workers |-> NULL]
  /\ j = [t \in Workers |-> 0]
  /\ bm = [row \in Rows |-> 0]
  /\ saved = FALSE

-----------------------------------------------------------------------------
(* main: the rest of it.                                                   *)

pthread_create ==
  /\ main = "create"
  /\ i < ThreadCount
  /\ pc' = [pc EXCEPT ![i] = "while"]
  /\ i' = i + 1
  /\ UNCHANGED <<head, TASK_NUM, lock, main, a1, j, bm, saved>>

StartJoining ==
  /\ main = "create"
  /\ i = ThreadCount
  /\ main' = "join"
  /\ i' = 0
  /\ UNCHANGED <<head, TASK_NUM, lock, pc, a1, j, bm, saved>>

pthread_join ==
  /\ main = "join"
  /\ i < ThreadCount
  /\ pc[i] = "return"
  /\ i' = i + 1
  /\ UNCHANGED <<head, TASK_NUM, lock, main, pc, a1, j, bm, saved>>

bitmap_save ==
  /\ main = "join"
  /\ i = ThreadCount
  /\ main' = "exit"
  /\ saved' = TRUE
  /\ UNCHANGED <<head, TASK_NUM, lock, i, pc, a1, j, bm>>

-----------------------------------------------------------------------------
(* compute_image, in thread t.                                             *)

Continue(t, label) == pc' = [pc EXCEPT ![t] = label]

\* while (a->head != NULL), read without the mutex.
TestHead(t) ==
  /\ pc[t] = "while"
  /\ Continue(t, IF head # NULL THEN "lock" ELSE "return")
  /\ UNCHANGED <<head, TASK_NUM, lock, main, i, a1, j, bm, saved>>

\* Slip: no mutex around the list.
LockNothing(t) ==
  /\ pc[t] = "lock"
  /\ lock' = t
  /\ Continue(t, IF head # NULL THEN "take" ELSE "return")
  /\ UNCHANGED <<head, TASK_NUM, main, i, a1, j, bm, saved>>

\* The list may have become empty meanwhile: then the thread returns, and does
\* not give the mutex back.
LockList(t) ==
  /\ pc[t] = "lock"
  /\ lock = Free
  /\ lock' = t
  /\ Continue(t, IF head # NULL THEN "take" ELSE "return")
  /\ UNCHANGED <<head, TASK_NUM, main, i, a1, j, bm, saved>>

\* Slip: the mutex is released too early.
TakeAndUnlock(t) ==
  /\ pc[t] = "take"
  /\ a1' = [a1 EXCEPT ![t] = head]
  /\ TASK_NUM' = TASK_NUM + 1
  /\ lock' = Free
  /\ Continue(t, "dequeue")
  /\ UNCHANGED <<head, main, i, j, bm, saved>>

\* a1 = a->head; task_dequeue(a), in two reads of head.
TakeTask(t) ==
  /\ pc[t] = "take"
  /\ a1' = [a1 EXCEPT ![t] = head]
  /\ TASK_NUM' = TASK_NUM + 1
  /\ Continue(t, "dequeue")
  /\ UNCHANGED <<head, lock, main, i, j, bm, saved>>

task_dequeue(t) ==
  /\ pc[t] = "dequeue"
  /\ head' = head - 1
  /\ Continue(t, "unlock")
  /\ UNCHANGED <<TASK_NUM, lock, main, i, a1, j, bm, saved>>

\* Slip: the mutex is kept.
KeepLock(t) ==
  /\ pc[t] = "unlock"
  /\ j' = [j EXCEPT ![t] = y_start(Height, TaskCount, a1[t])]
  /\ Continue(t, "rows")
  /\ UNCHANGED <<head, TASK_NUM, lock, main, i, a1, bm, saved>>

UnlockList(t) ==
  /\ pc[t] = "unlock"
  /\ lock' = Free
  /\ j' = [j EXCEPT ![t] = y_start(Height, TaskCount, a1[t])]
  /\ Continue(t, "rows")
  /\ UNCHANGED <<head, TASK_NUM, main, i, a1, bm, saved>>

\* bitmap_set brings a row outside of the image back into it.
bitmap_set(y) == bm' = [bm EXCEPT ![y % Height] = @ + 1]

ComputeRow(t) ==
  /\ pc[t] = "rows"
  /\ j[t] < y_end(Height, TaskCount, a1[t])
  /\ bitmap_set(j[t])
  /\ j' = [j EXCEPT ![t] = @ + 1]
  /\ UNCHANGED <<head, TASK_NUM, lock, main, i, pc, a1, saved>>

\* free(a1), and the last unlocked look at head.
FinishTask(t) ==
  /\ pc[t] = "rows"
  /\ j[t] >= y_end(Height, TaskCount, a1[t])
  /\ a1' = [a1 EXCEPT ![t] = NULL]
  /\ Continue(t, IF head = NULL THEN "return" ELSE "while")
  /\ UNCHANGED <<head, TASK_NUM, lock, main, i, j, bm, saved>>

-----------------------------------------------------------------------------
Main == pthread_create \/ StartJoining \/ pthread_join \/ bitmap_save

Worker(t) ==
  \/ TestHead(t) \/ LockList(t) \/ TakeTask(t) \/ task_dequeue(t)
  \/ UnlockList(t) \/ ComputeRow(t) \/ FinishTask(t)

Next == Main \/ \E t \in Workers : Worker(t)

Spec == Init /\ [][Next]_vars

\* Threads that can run do; nothing is assumed of who gets the mutex.
Fairness == WF_vars(Main) /\ \A t \in Workers : WF_vars(Worker(t))

FairSpec == Spec /\ Fairness

-----------------------------------------------------------------------------
(* Properties.                                                             *)

\* The types of the variables.  The list never runs past its end: a task is
\* dequeued only while there is one, though head is also tested unlocked.
TypeOK ==
  /\ head \in NULL..TaskCount-1
  /\ TASK_NUM \in Nat \ {0}
  /\ lock \in Workers \cup {Free}
  /\ main \in {"create", "join", "exit"}
  /\ i \in 0..ThreadCount
  /\ pc \in [Workers -> {"none", "while", "lock", "take", "dequeue", "unlock",
                         "rows", "return"}]
  /\ a1 \in [Workers -> NULL..TaskCount-1]
  /\ j \in [Workers -> 0..Height]
  /\ bm \in [Rows -> Nat]
  /\ saved \in BOOLEAN

\* No two threads get the same task, and no two tasks the same row: a row is
\* never computed twice.
RowOnce == \A row \in Rows : bm[row] <= 1

Image == INSTANCE ParallelImage
           WITH computed <- { row \in Rows : bm[row] > 0 }

\* The bitmap is saved only when each row of it has been computed: a thread
\* that has returned leaves no task behind, neither in the list nor half done.
ImplementsImage == Image!Spec

\* Every row is computed in the end, though threads return with the mutex in
\* their hands and shut the others out of the list.
ImagePainted == <>(\A row \in Rows : bm[row] > 0)

\* main joins all the threads and saves the image ("joining all the threads",
\* fractaltask.c:168; "Save the image in the stated file.", fractaltask.c:174).
Saves == <>saved
=============================================================================
