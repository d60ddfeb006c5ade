------------------------- MODULE FractalTaskProofs --------------------------
(***************************************************************************)
(* For any number of threads and tasks and any height of the image,        *)
(* fractaltask.c computes no row twice and saves only a complete image.    *)
(***************************************************************************)
EXTENDS FractalTask, ImageBandsProofs

Tasks == 0..TaskCount-1

Lo(k) == y_start(Height, TaskCount, k)
Hi(k) == y_end(Height, TaskCount, k)

-----------------------------------------------------------------------------
(* The inductive invariant.                                                *)

\* The list is changed by the owner of the mutex, who knows it is not empty.
MutexInv ==
  /\ \A t \in Workers : pc[t] \in {"take", "dequeue", "unlock"} => lock = t
  /\ \A t \in Workers : pc[t] \in {"take", "dequeue"} => head # NULL

\* The task of a thread is one that has been taken from the list, and no other
\* thread has it.
HasTask(t) == pc[t] \in {"dequeue", "unlock", "rows"}

TaskInv ==
  /\ \A t \in Workers : pc[t] = "dequeue" => a1[t] = head
  /\ \A t \in Workers : pc[t] \in {"unlock", "rows"} => a1[t] > head
  /\ \A t, u \in Workers : HasTask(t) /\ HasTask(u) /\ t # u => a1[t] # a1[u]

\* A thread computes the rows of its task in order.
RowInv ==
  \A t \in Workers : pc[t] = "rows" => j[t] >= Lo(a1[t]) /\ j[t] <= Hi(a1[t])

\* A row is computed when its task was taken and the thread that has the task,
\* if one still has, is past the row.
Computed(k, row) ==
  /\ k > head
  /\ \A t \in Workers : pc[t] = "unlock" => a1[t] # k
  /\ \A t \in Workers : pc[t] = "rows" /\ a1[t] = k => j[t] > row

BitmapInv ==
  \A k \in Tasks : \A row \in Lo(k)..Hi(k)-1 :
    bm[row] = IF Computed(k, row) THEN 1 ELSE 0

\* A thread runs once created and returns when the list is empty, and main saves the image when all
\* have returned.
JoinInv ==
  /\ main = "create" => \A t \in Workers : t >= i => pc[t] = "none"
  /\ \A t \in Workers : pc[t] = "return" => head = NULL
  /\ main = "join" => \A t \in Workers : t < i => pc[t] = "return"
  /\ main = "exit" => \A t \in Workers : pc[t] = "return"
  /\ saved <=> main = "exit"

IInv == TypeOK /\ MutexInv /\ TaskInv /\ RowInv /\ BitmapInv /\ JoinInv

-----------------------------------------------------------------------------
(* The bands of rows of the tasks.                                         *)

LEMMA BandFacts ==
  /\ \A k \in Tasks : /\ Lo(k) \in Nat
                       /\ Hi(k) \in Nat
                       /\ Lo(k) <= Hi(k)
                       /\ Hi(k) <= Height
  /\ \A k, l \in Tasks : k < l => Hi(k) <= Lo(l)
  /\ \A row \in Rows : \E k \in Tasks : row \in Lo(k)..Hi(k)-1
<1>1. TaskCount \in Nat \ {0} /\ Height \in Nat
  BY CountsAssumption
<1>2. \A k \in Tasks : /\ Lo(k) \in Nat
                       /\ Hi(k) \in Nat
                       /\ Lo(k) <= Hi(k)
                       /\ Hi(k) <= Height
  BY <1>1, BandBounds DEF Tasks, Lo, Hi
<1>3. \A k, l \in Tasks : k < l => Hi(k) <= Lo(l)
  BY <1>1, BandsInOrder DEF Tasks, Lo, Hi
<1>4. \A row \in Rows : \E k \in Tasks : row \in Lo(k)..Hi(k)-1
  BY <1>1, BandsCover DEF Rows, Tasks, Lo, Hi, Band
<1> QED
  BY <1>2, <1>3, <1>4

\* bitmap_set changes a row of the image at its place.
LEMMA InBitmap ==
  ASSUME NEW row \in Rows PROVE row % Height = row
<1>1. Height \in Int /\ Height > 0 /\ row \in Int /\ 0 <= row /\ row < Height
  BY CountsAssumption DEF Rows
<1> QED
  BY <1>1, SMTT(30)

-----------------------------------------------------------------------------
(* The invariant holds initially and is preserved by every action.         *)

LEMMA InitInv == Init => IInv
<1> SUFFICES ASSUME Init PROVE IInv
  OBVIOUS
<1> USE CountsAssumption DEF Init, Workers, Free, NULL
<1>1. TypeOK
  <2>1. head \in -1..TaskCount-1 /\ i \in 0..ThreadCount /\ TASK_NUM \in Nat \ {0}
    OBVIOUS
  <2>2. /\ pc \in [Workers -> {"none", "while", "lock", "take", "dequeue", "unlock",
                               "rows", "return"}]
        /\ a1 \in [Workers -> -1..TaskCount-1]
        /\ j \in [Workers -> 0..Height]
        /\ bm \in [Rows -> Nat]
    <3>1. -1 \in -1..TaskCount-1
      OBVIOUS
    <3> QED
      BY <3>1 DEF Rows
  <2> QED
    BY <2>1, <2>2 DEF TypeOK
<1>2. MutexInv /\ TaskInv /\ RowInv /\ JoinInv
  BY DEF MutexInv, TaskInv, HasTask, RowInv, JoinInv
<1>3. BitmapInv
  <2>1. ASSUME NEW k \in Tasks, NEW row \in Lo(k)..Hi(k)-1
        PROVE  row \in Rows
    BY <2>1, BandFacts DEF Rows
  <2> QED
    BY <2>1 DEF BitmapInv, Computed, Tasks, Rows
<1> QED
  BY <1>1, <1>2, <1>3 DEF IInv

\* Steps of main.
LEMMA MainInv ==
  ASSUME IInv, Main PROVE IInv'
<1> USE CountsAssumption DEF Workers, Free, NULL
<1>1. CASE pthread_create
  <2> USE <1>1 DEF IInv, pthread_create
  <2>1. pc[i] = "none" /\ i \in Workers
    BY DEF JoinInv, TypeOK
  <2>2. TypeOK'
    <3>1. i' \in 0..ThreadCount
      BY <2>1 DEF TypeOK
    <3>2. pc' = [pc EXCEPT ![i] = "while"] /\ UNCHANGED <<head, TASK_NUM, lock, main, a1, j, bm, saved>>
      OBVIOUS
    <3> QED
      BY <3>1, <3>2 DEF TypeOK
  <2>3. \A t \in Workers : pc'[t] # pc[t] => t = i /\ pc'[t] = "while"
    BY <2>1 DEF TypeOK
  <2>4. MutexInv' /\ TaskInv' /\ RowInv' /\ JoinInv'
    <3>1. MutexInv'
      BY <2>1, <2>3 DEF TypeOK, MutexInv
    <3>2. TaskInv'
      BY <2>1, <2>3 DEF TypeOK, TaskInv, HasTask
    <3>3. RowInv'
      BY <2>1, <2>3 DEF TypeOK, RowInv
    <3>4. JoinInv'
      BY <2>1, <2>3 DEF TypeOK, JoinInv
    <3> QED
      BY <3>1, <3>2, <3>3, <3>4
  <2>5. \A k, row : Computed(k, row)' <=> Computed(k, row)
    BY <2>1, <2>3 DEF Computed
  <2>6. BitmapInv'
    BY <2>5 DEF BitmapInv
  <2> QED
    BY <2>2, <2>4, <2>6
<1>2. CASE StartJoining
  BY <1>2 DEF IInv, StartJoining, TypeOK, MutexInv, TaskInv, HasTask, RowInv,
              BitmapInv, Computed, JoinInv
<1>3. CASE pthread_join
  BY <1>3 DEF IInv, pthread_join, TypeOK, MutexInv, TaskInv, HasTask, RowInv,
              BitmapInv, Computed, JoinInv
<1>4. CASE bitmap_save
  BY <1>4 DEF IInv, bitmap_save, TypeOK, MutexInv, TaskInv, HasTask, RowInv,
              BitmapInv, Computed, JoinInv
<1> QED
  BY <1>1, <1>2, <1>3, <1>4 DEF Main

\* Steps of a thread.
LEMMA WorkerInv ==
  ASSUME IInv, NEW t \in Workers, Worker(t) PROVE IInv'
<1> USE CountsAssumption DEF Workers, Free, NULL
<1>1. CASE TestHead(t)
  <2> USE <1>1 DEF IInv, TestHead, Continue
  <2>1. pc[t] = "while" /\ pc'[t] \in {"lock", "return"}
           /\ \A u \in Workers : u # t => pc'[u] = pc[u]
    BY DEF TypeOK
  <2>2. TypeOK'
    BY DEF TypeOK
  <2>3. MutexInv' /\ TaskInv' /\ RowInv'
    <3>1. MutexInv'
      BY <2>1 DEF TypeOK, MutexInv
    <3>2. TaskInv'
      BY <2>1 DEF TypeOK, TaskInv, HasTask
    <3>3. RowInv'
      BY <2>1 DEF TypeOK, RowInv
    <3> QED
      BY <3>1, <3>2, <3>3
  <2>4. JoinInv'
    BY <2>1 DEF TypeOK, JoinInv
  <2>5. \A k, row : Computed(k, row)' <=> Computed(k, row)
    BY <2>1 DEF Computed
  <2>6. BitmapInv'
    BY <2>5 DEF BitmapInv
  <2> QED
    BY <2>2, <2>3, <2>4, <2>6
<1>2. CASE LockList(t)
  <2> USE <1>2 DEF IInv, LockList, Continue
  <2>1. pc[t] = "lock" /\ pc'[t] \in {"take", "return"}
           /\ \A u \in Workers : u # t => pc'[u] = pc[u]
    BY DEF TypeOK
  <2>2. TypeOK'
    BY DEF TypeOK
  <2>3. MutexInv' /\ TaskInv' /\ RowInv'
    <3>1. MutexInv'
      BY <2>1 DEF TypeOK, MutexInv
    <3>2. TaskInv'
      BY <2>1 DEF TypeOK, TaskInv, HasTask
    <3>3. RowInv'
      BY <2>1 DEF TypeOK, RowInv
    <3> QED
      BY <3>1, <3>2, <3>3
  <2>4. JoinInv'
    BY <2>1 DEF TypeOK, JoinInv
  <2>5. \A k, row : Computed(k, row)' <=> Computed(k, row)
    BY <2>1 DEF Computed
  <2>6. BitmapInv'
    BY <2>5 DEF BitmapInv
  <2> QED
    BY <2>2, <2>3, <2>4, <2>6
<1>3. CASE TakeTask(t)
  <2> USE <1>3 DEF IInv, TakeTask, Continue
  <2>1. /\ pc[t] = "take" /\ pc'[t] = "dequeue" /\ a1'[t] = head
        /\ \A u \in Workers : u # t => pc'[u] = pc[u] /\ a1'[u] = a1[u]
    BY DEF TypeOK
  <2>2. TypeOK'
    BY DEF TypeOK
  <2>3. MutexInv' /\ RowInv' /\ JoinInv'
    BY <2>1 DEF TypeOK, MutexInv, RowInv, JoinInv
  <2>4. TaskInv'
    <3>1. \A u \in Workers : u # t => pc[u] \notin {"take", "dequeue", "unlock"}
      BY <2>1 DEF MutexInv
    <3>2. \A u \in Workers : u # t /\ HasTask(u) => a1[u] > head
      BY <3>1 DEF HasTask, TaskInv
    <3> QED
      BY <2>1, <3>1, <3>2 DEF TypeOK, TaskInv, HasTask
  <2>5. \A k, row : Computed(k, row)' <=> Computed(k, row)
    BY <2>1 DEF Computed
  <2>6. BitmapInv'
    BY <2>5 DEF BitmapInv
  <2> QED
    BY <2>2, <2>3, <2>4, <2>6
<1>4. CASE task_dequeue(t)
  <2> USE <1>4 DEF IInv, task_dequeue, Continue
  <2>1. /\ pc[t] = "dequeue" /\ pc'[t] = "unlock" /\ a1'[t] = a1[t]
        /\ a1[t] = head /\ head \in Tasks /\ head' = head - 1
        /\ \A u \in Workers : u # t => pc'[u] = pc[u] /\ a1'[u] = a1[u]
    BY DEF TypeOK, TaskInv, MutexInv, Tasks
  <2>2. TypeOK'
    BY <2>1 DEF TypeOK, Tasks
  <2>3. MutexInv'
    BY <2>1 DEF TypeOK, MutexInv
  <2>4. RowInv' /\ JoinInv'
    BY <2>1 DEF TypeOK, RowInv, JoinInv, Tasks
  <2>5. TaskInv'
    <3>1. \A u \in Workers : u # t => pc[u] \notin {"take", "dequeue", "unlock"}
      BY <2>1 DEF MutexInv
    <3>2. \A u \in Workers : pc'[u] = "dequeue" => a1'[u] = head'
      BY <2>1, <3>1
    <3>3. \A u \in Workers : pc'[u] \in {"unlock", "rows"} => a1'[u] > head'
      <4> TAKE u \in Workers
      <4>1. CASE u = t
        BY <2>1, <4>1 DEF Tasks
      <4>2. CASE u # t
        <5>1. pc'[u] = pc[u] /\ a1'[u] = a1[u]
          BY <2>1, <4>2
        <5>2. pc[u] \in {"unlock", "rows"} => a1[u] > head
          BY DEF TaskInv
        <5>3. a1[u] \in Int /\ head \in Int /\ head' = head - 1
          BY <2>1 DEF TypeOK, Tasks
        <5> QED
          BY <5>1, <5>2, <5>3
      <4> QED
        BY <4>1, <4>2
    <3>4. \A u, v \in Workers : HasTask(u)' /\ HasTask(v)' /\ u # v => a1'[u] # a1'[v]
      <4>1. \A u \in Workers : HasTask(u)' <=> HasTask(u)
        BY <2>1 DEF HasTask
      <4>2. \A u \in Workers : a1'[u] = a1[u]
        BY <2>1
      <4> QED
        BY <4>1, <4>2 DEF TaskInv
    <3> QED
      BY <3>2, <3>3, <3>4 DEF TaskInv
  <2>6. ASSUME NEW k \in Tasks, NEW row
        PROVE  Computed(k, row)' <=> Computed(k, row)
    <3>1. CASE k = head
      <4>1. ~Computed(k, row)
        BY <2>1, <3>1 DEF Computed, Tasks
      <4>2. ~Computed(k, row)'
        BY <2>1, <3>1 DEF Computed
      <4> QED
        BY <4>1, <4>2
    <3>2. CASE k # head
      <4>1. k > head' <=> k > head
        BY <2>1, <3>2 DEF Tasks
      <4> QED
        BY <2>1, <3>2, <4>1 DEF Computed
    <3> QED
      BY <3>1, <3>2
  <2>7. BitmapInv'
    BY <2>6 DEF BitmapInv
  <2> QED
    BY <2>2, <2>3, <2>4, <2>5, <2>7
<1>5. CASE UnlockList(t)
  <2> USE <1>5 DEF IInv, UnlockList, Continue
  <2>1. /\ pc[t] = "unlock" /\ pc'[t] = "rows" /\ a1[t] > head
        /\ a1[t] \in Tasks /\ j'[t] = Lo(a1[t])
        /\ \A u \in Workers : u # t => pc'[u] = pc[u] /\ j'[u] = j[u]
    BY DEF TypeOK, TaskInv, Tasks, Lo
  <2>2. TypeOK'
    BY <2>1, BandFacts DEF TypeOK, Lo
  <2>3. MutexInv' /\ TaskInv' /\ JoinInv'
    <3>1. \A u \in Workers : u # t => pc[u] \notin {"take", "dequeue", "unlock"}
      BY <2>1 DEF MutexInv
    <3>2. MutexInv'
      BY <2>1, <3>1 DEF MutexInv
    <3>3. TaskInv'
      BY <2>1, <3>1 DEF TaskInv, HasTask
    <3>4. JoinInv'
      BY <2>1 DEF JoinInv
    <3> QED
      BY <3>2, <3>3, <3>4
  <2>4. RowInv'
    BY <2>1, BandFacts DEF TypeOK, RowInv
  <2>5. ASSUME NEW k \in Tasks, NEW row \in Lo(k)..Hi(k)-1
        PROVE  Computed(k, row)' <=> Computed(k, row)
    <3>1. CASE k = a1[t]
      <4>1. ~Computed(k, row)
        BY <2>1, <3>1 DEF Computed
      <4>2. ~(Lo(k) > row)
        BY <2>5, BandFacts
      <4>3. ~Computed(k, row)'
        BY <2>1, <3>1, <4>2 DEF Computed
      <4> QED
        BY <4>1, <4>3
    <3>2. CASE k # a1[t]
      BY <2>1, <3>2 DEF Computed
    <3> QED
      BY <3>1, <3>2
  <2>6. BitmapInv'
    BY <2>5 DEF BitmapInv, Lo, Hi
  <2> QED
    BY <2>2, <2>3, <2>4, <2>6
<1>6. CASE ComputeRow(t)
  <2> USE <1>6 DEF IInv, ComputeRow
  <2>1. /\ pc[t] = "rows" /\ a1[t] > head /\ a1[t] \in Tasks
        /\ j[t] \in Nat /\ j'[t] = j[t] + 1 /\ j[t] < Hi(a1[t]) /\ j[t] >= Lo(a1[t])
        /\ \A u \in Workers : u # t => j'[u] = j[u]
    BY DEF TypeOK, TaskInv, RowInv, Tasks, Hi
  <2>2. /\ j[t] \in Rows
        /\ bm' = [bm EXCEPT ![j[t]] = @ + 1]
    <3>1. j[t] \in Rows
      BY <2>1, BandFacts DEF Rows
    <3>2. j[t] % Height = j[t]
      BY <3>1, InBitmap
    <3>3. bitmap_set(j[t])
      OBVIOUS
    <3> QED
      BY <3>1, <3>2, <3>3 DEF bitmap_set
  <2>3. TypeOK'
    <3>1. j[t] + 1 \in 0..Height
      BY <2>2 DEF Rows
    <3>2. j' \in [Workers -> 0..Height]
      BY <3>1 DEF TypeOK
    <3>3. bm' \in [Rows -> Nat]
      BY <2>2 DEF TypeOK
    <3>4. UNCHANGED <<head, TASK_NUM, lock, main, i, pc, a1, saved>>
      OBVIOUS
    <3> QED
      BY <3>2, <3>3, <3>4 DEF TypeOK
  <2>4. MutexInv' /\ TaskInv' /\ JoinInv'
    <3>1. MutexInv' /\ TaskInv'
      BY DEF MutexInv, TaskInv, HasTask
    <3>2. JoinInv'
      BY DEF JoinInv
    <3> QED
      BY <3>1, <3>2
  <2>5. RowInv'
    BY <2>1, BandFacts DEF TypeOK, RowInv
  <2>6. ASSUME NEW k \in Tasks, NEW row \in Lo(k)..Hi(k)-1
        PROVE  bm'[row] = IF Computed(k, row)' THEN 1 ELSE 0
    <3>1. row \in Rows /\ bm[row] = IF Computed(k, row) THEN 1 ELSE 0
      BY BandFacts DEF Rows, BitmapInv
    <3>2. CASE row = j[t]
      <4>1. k = a1[t]
        BY <2>1, <2>6, <3>2, BandFacts DEF Tasks
      <4>2. ~Computed(k, row)
        BY <2>1, <3>2, <4>1 DEF Computed
      <4>3. \A u \in Workers : u # t => ~(HasTask(u) /\ a1[u] = k)
        BY <2>1, <4>1 DEF TaskInv, HasTask
      <4>4. Computed(k, row)'
        BY <2>1, <3>2, <4>1, <4>3 DEF Computed, HasTask
      <4>5. bm'[row] = bm[row] + 1
        BY <2>2, <3>1, <3>2 DEF TypeOK
      <4> QED
        BY <3>1, <4>2, <4>4, <4>5
    <3>3. CASE row # j[t]
      <4>1. bm'[row] = bm[row]
        BY <2>2, <3>1, <3>3 DEF TypeOK
      <4>2. j[t] > row <=> j'[t] > row
        BY <2>1, <3>1, <3>3 DEF Rows
      <4>3. Computed(k, row)' <=> Computed(k, row)
        BY <2>1, <4>2 DEF Computed
      <4> QED
        BY <3>1, <4>1, <4>3
    <3> QED
      BY <3>2, <3>3
  <2>7. BitmapInv'
    BY <2>6 DEF BitmapInv, Lo, Hi
  <2> QED
    BY <2>3, <2>4, <2>5, <2>7
<1>7. CASE FinishTask(t)
  <2> USE <1>7 DEF IInv, FinishTask, Continue
  <2>1. /\ pc[t] = "rows" /\ a1[t] \in Tasks /\ j[t] = Hi(a1[t])
        /\ pc'[t] = IF head = NULL THEN "return" ELSE "while"
        /\ \A u \in Workers : u # t => pc'[u] = pc[u] /\ a1'[u] = a1[u]
    <3>1. pc[t] = "rows" /\ a1[t] > head /\ j[t] >= Hi(a1[t]) /\ j[t] <= Hi(a1[t])
      BY DEF TaskInv, RowInv, Hi
    <3>2. a1[t] \in Tasks
      BY <3>1 DEF TypeOK, Tasks
    <3>3. j[t] = Hi(a1[t])
      BY <3>1, <3>2, BandFacts DEF TypeOK
    <3> QED
      BY <3>1, <3>2, <3>3 DEF TypeOK
  <2>2. TypeOK'
    BY DEF TypeOK
  <2>3. MutexInv' /\ TaskInv' /\ RowInv' /\ JoinInv'
    <3>1. MutexInv'
      BY <2>1 DEF TypeOK, MutexInv
    <3>2. TaskInv'
      BY <2>1 DEF TypeOK, TaskInv, HasTask
    <3>3. RowInv'
      BY <2>1 DEF TypeOK, RowInv
    <3>4. JoinInv'
      BY <2>1 DEF TypeOK, JoinInv
    <3> QED
      BY <3>1, <3>2, <3>3, <3>4
  <2>4. ASSUME NEW k \in Tasks, NEW row \in Lo(k)..Hi(k)-1
        PROVE  Computed(k, row)' <=> Computed(k, row)
    <3>1. a1[t] = k => j[t] > row
      BY <2>1, BandFacts
    <3> QED
      BY <2>1, <3>1 DEF Computed
  <2>5. BitmapInv'
    BY <2>4 DEF BitmapInv, Lo, Hi
  <2> QED
    BY <2>2, <2>3, <2>5
<1> QED
  BY <1>1, <1>2, <1>3, <1>4, <1>5, <1>6, <1>7 DEF Worker

LEMMA NextInv ==
  ASSUME IInv, [Next]_vars PROVE IInv'
<1>1. CASE Main
  BY <1>1, MainInv
<1>2. CASE \E t \in Workers : Worker(t)
  BY <1>2, WorkerInv
<1>3. CASE UNCHANGED vars
  BY <1>3 DEF vars, IInv, TypeOK, MutexInv, TaskInv, HasTask, RowInv, BitmapInv,
              Computed, JoinInv
<1> QED
  BY <1>1, <1>2, <1>3 DEF Next

LEMMA Inductive == Spec => []IInv
<1>1. Init => IInv
  BY InitInv
<1>2. IInv /\ [Next]_vars => IInv'
  BY NextInv
<1> QED
  BY <1>1, <1>2, PTL DEF Spec

-----------------------------------------------------------------------------
(* What follows from it.                                                   *)

\* The variables keep their types; above all, head never leaves the list, though
\* threads look at it without the mutex.
THEOREM TypeCorrect == Spec => []TypeOK
<1>1. IInv => TypeOK
  BY DEF IInv
<1> QED
  BY <1>1, Inductive, PTL

\* No row is computed twice, however the threads share out the tasks.
THEOREM RowsOnce == Spec => []RowOnce
<1>1. IInv => RowOnce
  <2> SUFFICES ASSUME IInv, NEW row \in Rows PROVE bm[row] <= 1
    BY DEF RowOnce
  <2>1. PICK k \in Tasks : row \in Lo(k)..Hi(k)-1
    BY BandFacts
  <2>2. bm[row] = IF Computed(k, row) THEN 1 ELSE 0
    BY <2>1 DEF IInv, BitmapInv
  <2> QED
    BY <2>2
<1> QED
  BY <1>1, Inductive, PTL

\* When all threads have returned, all rows have been computed.
LEMMA AllReturned ==
  ASSUME IInv, \A t \in Workers : pc[t] = "return"
  PROVE  \A row \in Rows : bm[row] = 1
<1> SUFFICES ASSUME NEW row \in Rows PROVE bm[row] = 1
  OBVIOUS
<1>1. head = NULL
  <2>1. 0 \in Workers
    BY CountsAssumption DEF Workers
  <2> QED
    BY <2>1 DEF IInv, JoinInv
<1>2. PICK k \in Tasks : row \in Lo(k)..Hi(k)-1
  BY BandFacts
<1>3. Computed(k, row)
  BY <1>1 DEF Computed, Tasks, NULL
<1> QED
  BY <1>2, <1>3 DEF IInv, BitmapInv

\* A thread that runs its loop computes a row nobody has computed, and the image
\* is not saved yet.
LEMMA FreshRow ==
  ASSUME IInv, NEW t \in Workers, ComputeRow(t)
  PROVE  /\ ~saved
         /\ j[t] \in Rows
         /\ bm[j[t]] = 0
         /\ bm' = [bm EXCEPT ![j[t]] = 1]
<1>1. pc[t] = "rows" /\ a1[t] > head /\ j[t] < Hi(a1[t]) /\ j[t] >= Lo(a1[t])
  BY DEF ComputeRow, IInv, TaskInv, RowInv, Hi
<1>2. a1[t] \in Tasks /\ j[t] \in Nat
  BY <1>1 DEF IInv, TypeOK, Tasks, NULL
<1>3. ~saved
  BY <1>1 DEF IInv, JoinInv
<1>4. j[t] \in Rows /\ j[t] \in Lo(a1[t])..Hi(a1[t])-1
  BY <1>1, <1>2, CountsAssumption, BandFacts DEF Rows
<1>5. ~Computed(a1[t], j[t])
  BY <1>1, <1>2 DEF Computed
<1>6. bm[j[t]] = 0
  BY <1>2, <1>4, <1>5 DEF IInv, BitmapInv
<1>7. j[t] % Height = j[t]
  BY <1>4, InBitmap
<1>8. bm' = [bm EXCEPT ![j[t]] = bm[j[t]] + 1]
  BY <1>7 DEF ComputeRow, bitmap_set
<1>9. bm' = [bm EXCEPT ![j[t]] = 1]
  BY <1>6, <1>8
<1> QED
  BY <1>3, <1>4, <1>6, <1>9

\* fractaltask.c computes the rows once each, in some order, and saves the image
\* when all of them have been computed: it implements ParallelImage.
THEOREM TaskListImplementsImage == Spec => ImplementsImage
<1> DEFINE rows == { row \in Rows : bm[row] > 0 }
<1>1. Init => Image!Init
  BY DEF Init, Image!Init, Rows
<1>2. IInv /\ [Next]_vars => [Image!Next]_Image!imageVars
  <2> SUFFICES ASSUME IInv, [Next]_vars
               PROVE  Image!Next \/ UNCHANGED Image!imageVars
    OBVIOUS
  <2>1. ASSUME UNCHANGED <<bm, saved>>
        PROVE  UNCHANGED Image!imageVars
    BY <2>1 DEF Image!imageVars
  <2>2. CASE Main
    <3>1. CASE bitmap_save
      <4>1. \A t \in Workers : pc[t] = "return"
        BY <3>1, CountsAssumption DEF bitmap_save, IInv, JoinInv, Workers
      <4>2. \A row \in Rows : bm[row] = 1
        BY <4>1, AllReturned
      <4>3. ~saved /\ saved' = TRUE /\ bm' = bm
        BY <3>1 DEF bitmap_save, IInv, JoinInv
      <4>4. rows = 0..Height-1 /\ rows' = rows
        BY <4>2, <4>3 DEF Rows
      <4>5. Image!Save
        BY <4>3, <4>4 DEF Image!Save
      <4> QED
        BY <4>5 DEF Image!Next
    <3> QED
      BY <2>1, <2>2, <3>1 DEF Main, pthread_create, StartJoining, pthread_join
  <2>3. CASE \E t \in Workers : Worker(t)
    <3> PICK t \in Workers : Worker(t)
      BY <2>3
    <3>1. CASE ComputeRow(t)
      <4>1. /\ ~saved /\ j[t] \in Rows /\ bm[j[t]] = 0
            /\ bm' = [bm EXCEPT ![j[t]] = 1]
        BY <3>1, FreshRow
      <4>2. bm \in [Rows -> Nat]
        BY DEF IInv, TypeOK
      <4>3. rows' = rows \cup {j[t]} /\ j[t] \in (0..Height-1) \ rows
        BY <4>1, <4>2 DEF Rows
      <4>4. saved' = saved
        BY <3>1 DEF ComputeRow
      <4>5. Image!ComputeOne
        BY <4>1, <4>3, <4>4 DEF Image!ComputeOne
      <4> QED
        BY <4>5 DEF Image!Next
    <3> QED
      BY <2>1, <3>1 DEF Worker, TestHead, LockList, TakeTask, task_dequeue,
                        UnlockList, FinishTask
  <2>4. CASE UNCHANGED vars
    BY <2>1, <2>4 DEF vars
  <2> QED
    BY <2>2, <2>3, <2>4 DEF Next
<1> QED
  BY <1>1, <1>2, Inductive, PTL DEF Spec, ImplementsImage, Image!Spec

-----------------------------------------------------------------------------
(* Threads that are shut out.  ImagePainted needs fairness; this is the part *)
(* of it that is a matter of states: wherever the program can come to a      *)
(* stop, nothing is left to compute.                                         *)

\* The mutex is with a thread that is about to release it or has returned with
\* it, and main waits only for threads it has created.
HolderInv ==
  /\ lock # Free => pc[lock] \in {"take", "dequeue", "unlock", "return"}
  /\ \A t \in Workers : main # "create" \/ t < i => pc[t] # "none"

\* Nobody can go on: main has exited or joins a thread that does not return, and
\* each thread has returned or waits for a mutex that somebody has.
Stopped ==
  /\ main # "create"
  /\ main = "join" => i < ThreadCount /\ pc[i] # "return"
  /\ \A t \in Workers : \/ pc[t] \in {"none", "return"}
                        \/ pc[t] = "lock" /\ lock # Free

\* The program stops, even where main joins for ever a thread that a returned one
\* has shut out of the list, only when each row has been computed, once.
StopsPainted == Stopped => \A row \in Rows : bm[row] = 1

\* A thread that goes from one place to another leaves the others alone.
LEMMA HolderStep ==
  ASSUME IInv, HolderInv, NEW t \in Workers, pc[t] # "none",
         NEW label \in {"while", "lock", "take", "dequeue", "unlock", "rows", "return"},
         Continue(t, label), main' = main, i' = i,
         \/ lock' = lock /\ (lock = t => label \in {"take", "dequeue", "unlock", "return"})
         \/ lock' = t /\ label \in {"take", "dequeue", "unlock", "return"}
         \/ lock' = Free
  PROVE  HolderInv'
<1>1. /\ DOMAIN pc = Workers /\ lock \in Workers \cup {Free}
      /\ pc'[t] = label /\ \A u \in Workers : u # t => pc'[u] = pc[u]
  BY DEF IInv, TypeOK, Continue
<1>2. lock' # Free => pc'[lock'] \in {"take", "dequeue", "unlock", "return"}
  <2>1. CASE lock' = Free
    BY <2>1
  <2>2. CASE lock' = t /\ label \in {"take", "dequeue", "unlock", "return"}
    BY <1>1, <2>2
  <2>3. CASE lock' = lock /\ lock = t /\ label \in {"take", "dequeue", "unlock", "return"}
    BY <1>1, <2>3
  <2>4. CASE lock' = lock /\ lock # t /\ lock # Free
    BY <1>1, <2>4 DEF HolderInv
  <2> QED
    BY <2>1, <2>2, <2>3, <2>4
<1>3. \A u \in Workers : main' # "create" \/ u < i' => pc'[u] # "none"
  BY <1>1 DEF HolderInv
<1> QED
  BY <1>2, <1>3 DEF HolderInv

LEMMA InitHolderInv == Init => HolderInv
<1> SUFFICES ASSUME Init PROVE HolderInv
  OBVIOUS
<1>1. lock = Free /\ main = "create" /\ i = 0
  BY DEF Init
<1>2. \A t \in Workers : ~(t < 0)
  BY CountsAssumption DEF Workers
<1> QED
  BY <1>1, <1>2 DEF HolderInv

LEMMA NextHolderInv ==
  ASSUME IInv, HolderInv, [Next]_vars
  PROVE  HolderInv'
<1>0. DOMAIN pc = Workers /\ lock \in Workers \cup {Free} /\ i \in 0..ThreadCount
  BY DEF IInv, TypeOK
<1>1. CASE pthread_create
  <2>1. i \in Workers /\ pc[i] = "none"
    BY <1>0, <1>1, CountsAssumption DEF pthread_create, Workers, IInv, JoinInv
  <2>2. /\ lock' = lock /\ main' = "create" /\ main = "create" /\ i' = i + 1
        /\ pc'[i] = "while" /\ \A t \in Workers : t # i => pc'[t] = pc[t]
    BY <1>0, <1>1, <2>1 DEF pthread_create
  <2>3. lock # i
    BY <2>1, CountsAssumption DEF HolderInv, Workers, Free
  <2>4. lock' # Free => pc'[lock'] \in {"take", "dequeue", "unlock", "return"}
    BY <1>0, <2>2, <2>3 DEF HolderInv
  <2>5. ASSUME NEW t \in Workers, t < i' PROVE pc'[t] # "none"
    <3>1. t = i \/ t < i
      BY <2>2, <2>5, <1>0, CountsAssumption DEF Workers
    <3> QED
      BY <2>2, <3>1 DEF HolderInv
  <2> QED
    BY <2>2, <2>4, <2>5 DEF HolderInv
<1>2. CASE StartJoining
  <2>1. \A t \in Workers : t < i
    BY <1>2, CountsAssumption DEF StartJoining, Workers
  <2>2. lock' = lock /\ pc' = pc
    BY <1>2 DEF StartJoining
  <2> QED
    BY <2>1, <2>2 DEF HolderInv
<1>3. CASE pthread_join \/ bitmap_save
  <2>1. lock' = lock /\ pc' = pc /\ main = "join"
    BY <1>3 DEF pthread_join, bitmap_save
  <2> QED
    BY <2>1 DEF HolderInv
<1>4. ASSUME NEW t \in Workers, Worker(t) PROVE HolderInv'
  <2>0. t # Free
    BY CountsAssumption DEF Workers, Free
  <2>1. lock = t => pc[t] \in {"take", "dequeue", "unlock", "return"}
    BY <2>0 DEF HolderInv
  <2>2. CASE TestHead(t)
    <3>1. lock # t
      BY <2>1, <2>2 DEF TestHead
    <3> QED
      BY <2>2, <3>1, HolderStep DEF TestHead
  <2>3. CASE LockList(t)
    BY <2>3, HolderStep DEF LockList
  <2>4. CASE TakeTask(t)
    BY <2>4, HolderStep DEF TakeTask
  <2>5. CASE task_dequeue(t)
    BY <2>5, HolderStep DEF task_dequeue
  <2>6. CASE UnlockList(t)
    BY <2>6, HolderStep DEF UnlockList
  <2>7. CASE ComputeRow(t)
    <3>1. UNCHANGED <<lock, main, i, pc>>
      BY <2>7 DEF ComputeRow
    <3> QED
      BY <3>1 DEF HolderInv
  <2>8. CASE FinishTask(t)
    <3>1. lock # t
      BY <2>1, <2>8 DEF FinishTask
    <3> QED
      BY <2>8, <3>1, HolderStep DEF FinishTask
  <2> QED
    BY <1>4, <2>2, <2>3, <2>4, <2>5, <2>6, <2>7, <2>8 DEF Worker
<1>5. CASE UNCHANGED vars
  BY <1>5 DEF vars, HolderInv
<1> QED
  BY <1>1, <1>2, <1>3, <1>4, <1>5 DEF Next, Main

\* If the program stops at all, be it in main's exit or in a join that never
\* returns because a thread has taken the mutex with it, the image is complete.
THEOREM StopsOnlyPainted == Spec => []StopsPainted
<1>1. ASSUME IInv, HolderInv, Stopped PROVE \A row \in Rows : bm[row] = 1
  <2>1. \A t \in Workers : pc[t] = "return" \/ (pc[t] = "lock" /\ lock # Free)
    BY <1>1 DEF Stopped, HolderInv
  <2>2. head = NULL
    <3>1. CASE lock = Free
      <4>1. 0 \in Workers
        BY CountsAssumption DEF Workers
      <4>2. pc[0] = "return"
        BY <2>1, <3>1, <4>1
      <4> QED
        BY <1>1, <4>1, <4>2 DEF IInv, JoinInv
    <3>2. CASE lock # Free
      <4>1. lock \in Workers
        BY <1>1, <3>2 DEF IInv, TypeOK
      <4>2. pc[lock] = "return"
        BY <1>1, <2>1, <3>2, <4>1 DEF HolderInv
      <4> QED
        BY <1>1, <4>1, <4>2 DEF IInv, JoinInv
    <3> QED
      BY <3>1, <3>2
  <2> SUFFICES ASSUME NEW row \in Rows PROVE bm[row] = 1
    OBVIOUS
  <2>3. PICK k \in Tasks : row \in Lo(k)..Hi(k)-1
    BY BandFacts
  <2>4. k > head
    BY <2>2 DEF Tasks, NULL
  <2>5. Computed(k, row)
    BY <2>1, <2>4 DEF Computed
  <2> QED
    BY <1>1, <2>3, <2>5 DEF IInv, BitmapInv
<1>2. IInv /\ HolderInv => StopsPainted
  BY <1>1 DEF StopsPainted
<1>3. Init => HolderInv
  BY InitHolderInv
<1>4. IInv /\ HolderInv /\ [Next]_vars => HolderInv'
  BY NextHolderInv
<1> QED
  BY <1>2, <1>3, <1>4, Inductive, PTL DEF Spec
=============================================================================
