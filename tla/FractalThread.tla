--------------------------- MODULE FractalThread ----------------------------
(***************************************************************************)
(* fractalthread.c and mandel.c: main starts one thread per band of rows,  *)
(* joins them and saves the image.  The threads share the bitmap and       *)
(* nothing else, so there is no mutex.  The programs differ in what they   *)
(* do when a thread cannot be created: mandel.c ends, fractalthread.c does *)
(* not look at the result.                                                 *)
(***************************************************************************)
EXTENDS Integers, ImageBands

CONSTANTS
  ThreadCount,  \* option -n
  Height,       \* option -H
  Programs,     \* the programs that are followed
  CreateFails   \* pthread_create may fail

ASSUME CountsAssumption ==
  /\ ThreadCount \in Nat \ {0}
  /\ Height \in Nat
  /\ Programs \subseteq {"fractalthread", "mandel"}
  /\ CreateFails \in BOOLEAN

Workers == 0..ThreadCount-1
Rows    == 0..Height-1

VARIABLES
  program, \* which of the programs it is
  main,    \* what main does: "create" or "join" threads, or "exit"
  i,       \* main's loop counter
  running, \* the threads that have been created and have not returned
  failed,  \* the threads that could not be created, and are joined all the same
  j,       \* the next row of each thread
  bm,      \* how many times each row of the bitmap was computed
  saved    \* the image file has been written

vars == <<program, main, i, running, failed, j, bm, saved>>

Init ==
  /\ program \in Programs
  /\ main = "create"
  /\ i = 0
  /\ running = {}
  /\ failed = {}
  /\ j = [t \in Workers |-> 0]
  /\ bm = [row \in Rows |-> 0]
  /\ saved = FALSE

-----------------------------------------------------------------------------
(* main                                                                    *)

\* The thread gets its own copy of the arguments: start, end and the bitmap.
pthread_create ==
  /\ main = "create"
  /\ i < ThreadCount
  /\ running' = running \cup {i}
  /\ j' = [j EXCEPT ![i] = y_start(Height, ThreadCount, i)]
  /\ i' = i + 1
  /\ UNCHANGED <<program, main, failed, bm, saved>>

\* exit(1) ends the threads already started, and no image is written.
CreateError ==
  /\ program = "mandel"
  /\ CreateFails
  /\ main = "create"
  /\ i < ThreadCount
  /\ main' = "exit"
  /\ running' = {}
  /\ UNCHANGED <<program, i, failed, j, bm, saved>>

\* mythread[i] becomes whatever tid holds.
CreateIgnored ==
  /\ program = "fractalthread"
  /\ CreateFails
  /\ main = "create"
  /\ i < ThreadCount
  /\ failed' = failed \cup {i}
  /\ i' = i + 1
  /\ UNCHANGED <<program, main, running, j, bm, saved>>

StartJoining ==
  /\ main = "create"
  /\ i = ThreadCount
  /\ main' = "join"
  /\ i' = 0
  /\ UNCHANGED <<program, running, failed, j, bm, saved>>

\* Slip: the last thread is not joined.
JoinAllButOne ==
  /\ main = "join"
  /\ i < ThreadCount
  /\ i \notin running \/ i = ThreadCount - 1
  /\ i' = i + 1
  /\ UNCHANGED <<program, main, running, failed, j, bm, saved>>

\* The join of a thread that was not created returns an error, or when a thread
\* ends whose id tid happened to hold ...
pthread_join ==
  /\ main = "join"
  /\ i < ThreadCount
  /\ i \notin running
  /\ i' = i + 1
  /\ UNCHANGED <<program, main, running, failed, j, bm, saved>>

\* ... or takes the program down, as may a second join of a thread joined for another.
JoinCrash ==
  /\ main = "join"
  /\ i < ThreadCount
  /\ \E t \in failed : t <= i
  /\ main' = "exit"
  /\ running' = {}
  /\ UNCHANGED <<program, i, failed, j, bm, saved>>

bitmap_save ==
  /\ main = "join"
  /\ i = ThreadCount
  /\ main' = "exit"
  /\ saved' = TRUE
  /\ UNCHANGED <<program, i, running, failed, j, bm>>

-----------------------------------------------------------------------------
(* compute_image, in thread t.                                             *)

\* bitmap_set brings a row outside of the image back into it.
bitmap_set(y) == bm' = [bm EXCEPT ![y % Height] = @ + 1]

\* Slip: j <= end.
ComputeRowToo(t) ==
  /\ t \in running
  /\ j[t] <= y_end(Height, ThreadCount, t)
  /\ bitmap_set(j[t])
  /\ j' = [j EXCEPT ![t] = @ + 1]
  /\ UNCHANGED <<program, main, i, running, failed, saved>>

ComputeRow(t) ==
  /\ t \in running
  /\ j[t] < y_end(Height, ThreadCount, t)
  /\ bitmap_set(j[t])
  /\ j' = [j EXCEPT ![t] = @ + 1]
  /\ UNCHANGED <<program, main, i, running, failed, saved>>

Return(t) ==
  /\ t \in running
  /\ j[t] >= y_end(Height, ThreadCount, t)
  /\ running' = running \ {t}
  /\ UNCHANGED <<program, main, i, failed, j, bm, saved>>

-----------------------------------------------------------------------------
Main ==
  \/ pthread_create \/ CreateError \/ CreateIgnored
  \/ StartJoining \/ pthread_join \/ JoinCrash \/ bitmap_save

Worker(t) == ComputeRow(t) \/ Return(t)

Next == Main \/ \E t \in Workers : Worker(t)

Spec == Init /\ [][Next]_vars

-----------------------------------------------------------------------------
(* Properties.                                                             *)

\* The types of the variables.
TypeOK ==
  /\ program \in {"fractalthread", "mandel"}
  /\ main \in {"create", "join", "exit"}
  /\ i \in 0..ThreadCount
  /\ running \in SUBSET Workers
  /\ failed \in SUBSET Workers
  /\ j \in [Workers -> 0..Height]
  /\ bm \in [Rows -> Nat]
  /\ saved \in BOOLEAN

\* The threads write the bitmap without a mutex: no two of them the same row.
RowOnce == \A row \in Rows : bm[row] <= 1

\* fractalthread.c did not get a thread for each band.
Short == program = "fractalthread" /\ failed # {}

Image == INSTANCE ParallelImage
           WITH computed <- { row \in Rows : bm[row] > 0 },
                saved    <- saved /\ ~Short

\* The bitmap is saved only when each row of it has been computed: by mandel.c
\* always, by fractalthread.c when every pthread_create has succeeded.  If one has
\* not, what fractalthread.c saves is no image (FileShowsImage says what it is).
ImplementsImage == Image!Spec
=============================================================================
