------------------------ MODULE FractalThreadProofs -------------------------
(***************************************************************************)
(* For any number of threads and any height of the image, fractalthread.c  *)
(* and mandel.c compute no row twice; they save only a complete image,     *)
(* fractalthread.c if all its threads were created; and the file that      *)
(* bitmap_save writes shows what was computed, for any width.              *)
(***************************************************************************)
EXTENDS SavedImage, ImageBandsProofs, SequenceTheorems, WellFoundedInduction

Lo(t) == y_start(Height, ThreadCount, t)
Hi(t) == y_end(Height, ThreadCount, t)

-----------------------------------------------------------------------------
(* The inductive invariant.                                                *)

\* A running thread is between the first row of its band and the end of it.
RowInv ==
  \A t \in running : j[t] >= Lo(t) /\ j[t] <= Hi(t)

\* A row is computed when the thread of its band is past it.
BitmapInv ==
  \A t \in Workers : \A row \in Lo(t)..Hi(t)-1 :
    bm[row] = IF j[t] > row THEN 1 ELSE 0

\* A thread that has been created and does not run has finished its band; one that
\* could not be created has not begun it.
JoinInv ==
  /\ main = "create" => \A t \in Workers : t >= i => t \notin running \cup failed /\ j[t] = 0
  /\ main = "create" => \A t \in Workers : t < i /\ t \notin running \cup failed => j[t] = Hi(t)
  /\ main = "join" => \A t \in Workers : t \notin running \cup failed => j[t] = Hi(t)
  /\ main = "join" => \A t \in Workers : t < i => t \notin running
  /\ main = "exit" => running = {}
  /\ saved => main = "exit"
  /\ \A t \in failed : t \notin running /\ j[t] = 0
  /\ program = "mandel" => failed = {}

IInv == TypeOK /\ RowInv /\ BitmapInv /\ JoinInv

-----------------------------------------------------------------------------
(* The bands of rows of the threads.                                       *)

LEMMA BandFacts ==
  /\ \A t \in Workers : /\ Lo(t) \in Nat
                        /\ Hi(t) \in Nat
                        /\ Lo(t) <= Hi(t)
                        /\ Hi(t) <= Height
  /\ \A t, u \in Workers : t < u => Hi(t) <= Lo(u)
  /\ \A row \in Rows : \E t \in Workers : row \in Lo(t)..Hi(t)-1
<1>1. ThreadCount \in Nat \ {0} /\ Height \in Nat
  BY CountsAssumption
<1>2. \A t \in Workers : /\ Lo(t) \in Nat
                         /\ Hi(t) \in Nat
                         /\ Lo(t) <= Hi(t)
                         /\ Hi(t) <= Height
  BY <1>1, BandBounds DEF Workers, Lo, Hi
<1>3. \A t, u \in Workers : t < u => Hi(t) <= Lo(u)
  BY <1>1, BandsInOrder DEF Workers, Lo, Hi
<1>4. \A row \in Rows : \E t \in Workers : row \in Lo(t)..Hi(t)-1
  BY <1>1, BandsCover DEF Rows, Workers, Lo, Hi, Band
<1> QED
  BY <1>2, <1>3, <1>4

\* bitmap_set changes a row of the image at its place.
LEMMA InBitmap ==
  ASSUME NEW row \in Rows PROVE row % Height = row
<1>1. Height \in Int /\ Height > 0 /\ row \in Int /\ 0 <= row /\ row < Height
  BY CountsAssumption DEF Rows
<1> QED
  BY <1>1, SMTT(30)

\* A running thread in its loop is at a row nobody has computed.
LEMMA FreshRow ==
  ASSUME IInv, NEW t \in Workers, ComputeRow(t)
  PROVE  /\ j[t] \in Rows
         /\ j[t] >= Lo(t) /\ j[t] < Hi(t)
         /\ bm[j[t]] = 0
         /\ bm' = [bm EXCEPT ![j[t]] = 1]
<1>1. t \in running /\ j[t] < Hi(t) /\ j[t] >= Lo(t) /\ j[t] \in Nat
  BY DEF ComputeRow, IInv, TypeOK, RowInv, Hi
<1>2. j[t] \in Rows /\ j[t] \in Lo(t)..Hi(t)-1
  BY <1>1, CountsAssumption, BandFacts DEF Rows
<1>3. bm[j[t]] = 0
  BY <1>1, <1>2 DEF IInv, BitmapInv
<1>4. j[t] % Height = j[t]
  BY <1>2, InBitmap
<1>5. bm' = [bm EXCEPT ![j[t]] = bm[j[t]] + 1]
  BY <1>4 DEF ComputeRow, bitmap_set
<1>6. bm' = [bm EXCEPT ![j[t]] = 1]
  BY <1>3, <1>5
<1> QED
  BY <1>1, <1>2, <1>3, <1>6

-----------------------------------------------------------------------------
(* The invariant holds initially and is preserved by every action.         *)

LEMMA InitInv == Init => IInv
<1> SUFFICES ASSUME Init PROVE IInv
  OBVIOUS
<1> USE CountsAssumption DEF Init, Workers
<1>1. TypeOK
  <2>1. 0 \in 0..Height /\ 0 \in 0..ThreadCount /\ 0 \in Nat
    OBVIOUS
  <2>2. j \in [Workers -> 0..Height]
    BY <2>1
  <2>3. bm \in [Rows -> Nat]
    BY <2>1
  <2> QED
    BY <2>1, <2>2, <2>3 DEF TypeOK
<1>2. RowInv /\ JoinInv
  BY DEF RowInv, JoinInv
<1>3. BitmapInv
  BY BandFacts DEF BitmapInv, Rows
<1> QED
  BY <1>1, <1>2, <1>3 DEF IInv

LEMMA MainInv ==
  ASSUME IInv, Main PROVE IInv'
<1> USE CountsAssumption
<1>1. CASE pthread_create
  <2> USE <1>1 DEF IInv, pthread_create
  <2>1. /\ i \in Workers /\ i \notin running /\ j[i] = 0
        /\ j' = [j EXCEPT ![i] = Lo(i)]
        /\ j'[i] = Lo(i)
        /\ \A t \in Workers : t # i => j'[t] = j[t]
    BY DEF JoinInv, TypeOK, Workers, Lo
  <2>2. TypeOK'
    <3>1. Lo(i) \in 0..Height
      BY <2>1, BandFacts
    <3> QED
      BY <2>1, <3>1 DEF TypeOK, Workers
  <2>3. RowInv'
    BY <2>1, BandFacts DEF RowInv, TypeOK
  <2>4. BitmapInv'
    <3> SUFFICES ASSUME NEW t \in Workers, NEW row \in Lo(t)..Hi(t)-1
                 PROVE  bm[row] = IF j'[t] > row THEN 1 ELSE 0
      BY DEF BitmapInv, Lo, Hi
    <3>1. CASE t = i
      <4>1. ~(j[t] > row) /\ ~(j'[t] > row)
        BY <2>1, <3>1, BandFacts
      <4> QED
        BY <4>1 DEF BitmapInv
    <3>2. CASE t # i
      BY <2>1, <3>2 DEF BitmapInv
    <3> QED
      BY <3>1, <3>2
  <2>5. JoinInv'
    BY <2>1 DEF JoinInv, TypeOK, Workers, Hi
  <2> QED
    BY <2>2, <2>3, <2>4, <2>5
<1>2. CASE CreateError \/ JoinCrash
  BY <1>2 DEF IInv, CreateError, JoinCrash, TypeOK, RowInv, BitmapInv, JoinInv, Lo, Hi
<1>6. CASE CreateIgnored
  <2> USE <1>6 DEF IInv, CreateIgnored
  <2>1. i \in Workers /\ i \notin running /\ j[i] = 0
    BY DEF JoinInv, TypeOK, Workers
  <2>2. TypeOK' /\ RowInv' /\ BitmapInv'
    BY <2>1 DEF TypeOK, RowInv, BitmapInv, Workers, Lo, Hi
  <2>3. JoinInv'
    BY <2>1 DEF JoinInv, TypeOK, Workers, Hi
  <2> QED
    BY <2>2, <2>3
<1>3. CASE StartJoining
  BY <1>3 DEF IInv, StartJoining, TypeOK, RowInv, BitmapInv, JoinInv, Lo, Hi, Workers
<1>4. CASE pthread_join
  BY <1>4 DEF IInv, pthread_join, TypeOK, RowInv, BitmapInv, JoinInv, Lo, Hi, Workers
<1>5. CASE bitmap_save
  <2> USE <1>5 DEF IInv, bitmap_save
  <2>1. running = {}
    BY DEF JoinInv, TypeOK, Workers
  <2> QED
    BY <2>1 DEF TypeOK, RowInv, BitmapInv, JoinInv, Lo, Hi
<1> QED
  BY <1>1, <1>2, <1>3, <1>4, <1>5, <1>6 DEF Main

LEMMA WorkerInv ==
  ASSUME IInv, NEW t \in Workers, Worker(t) PROVE IInv'
<1>1. CASE ComputeRow(t)
  <2> USE <1>1 DEF IInv
  <2>1. /\ j[t] \in Rows /\ j[t] >= Lo(t) /\ j[t] < Hi(t)
        /\ bm[j[t]] = 0 /\ bm' = [bm EXCEPT ![j[t]] = 1]
    BY FreshRow
  <2>2. /\ t \in running /\ j' = [j EXCEPT ![t] = j[t] + 1]
        /\ UNCHANGED <<program, main, i, running, failed, saved>>
    BY DEF ComputeRow
  <2>3. /\ j[t] \in Nat /\ j'[t] = j[t] + 1
        /\ \A u \in Workers : u # t => j'[u] = j[u]
    BY <2>1, <2>2 DEF TypeOK, Rows
  <2>4. TypeOK'
    <3>1. j[t] + 1 \in 0..Height
      BY <2>1, CountsAssumption DEF Rows
    <3>2. j' \in [Workers -> 0..Height]
      BY <2>2, <3>1 DEF TypeOK
    <3>3. bm' \in [Rows -> Nat]
      BY <2>1 DEF TypeOK
    <3> QED
      BY <2>2, <3>2, <3>3 DEF TypeOK
  <2>5. RowInv'
    BY <2>1, <2>2, <2>3, BandFacts DEF RowInv, TypeOK, Lo, Hi
  <2>6. BitmapInv'
    <3> SUFFICES ASSUME NEW u \in Workers, NEW row \in Lo(u)..Hi(u)-1
                 PROVE  bm'[row] = IF j'[u] > row THEN 1 ELSE 0
      BY DEF BitmapInv, Lo, Hi
    <3>1. row \in Rows /\ bm[row] = IF j[u] > row THEN 1 ELSE 0
      BY BandFacts, CountsAssumption DEF Rows, BitmapInv
    <3>2. CASE row = j[t]
      <4>1. u = t
        BY <2>1, <3>2, BandFacts DEF Workers
      <4> QED
        BY <2>1, <2>3, <3>1, <3>2, <4>1 DEF TypeOK
    <3>3. CASE row # j[t]
      <4>1. bm'[row] = bm[row]
        BY <2>1, <3>1, <3>3 DEF TypeOK
      <4>2. j'[u] > row <=> j[u] > row
        BY <2>3, <3>1, <3>3 DEF Rows
      <4> QED
        BY <3>1, <4>1, <4>2
    <3> QED
      BY <3>2, <3>3
  <2>7. JoinInv'
    BY <2>2, <2>3 DEF JoinInv, Hi
  <2> QED
    BY <2>4, <2>5, <2>6, <2>7
<1>2. CASE Return(t)
  <2> USE <1>2 DEF IInv, Return
  <2>1. j[t] = Hi(t)
    BY BandFacts DEF RowInv, TypeOK, Hi
  <2>2. TypeOK' /\ RowInv' /\ BitmapInv'
    BY DEF TypeOK, RowInv, BitmapInv, Lo, Hi
  <2>3. JoinInv'
    BY <2>1 DEF JoinInv, Hi
  <2> QED
    BY <2>2, <2>3
<1> QED
  BY <1>1, <1>2 DEF Worker

LEMMA NextInv ==
  ASSUME IInv, [Next]_vars PROVE IInv'
<1>1. CASE Main
  BY <1>1, MainInv
<1>2. CASE \E t \in Workers : Worker(t)
  BY <1>2, WorkerInv
<1>3. CASE UNCHANGED vars
  BY <1>3 DEF vars, IInv, TypeOK, RowInv, BitmapInv, JoinInv, Lo, Hi
<1> QED
  BY <1>1, <1>2, <1>3 DEF Next

LEMMA Inductive == Spec => []IInv
<1>1. Init => IInv
  BY InitInv
<1>2. IInv /\ [Next]_vars => IInv'
  BY NextInv
<1> QED
  BY <1>1, <1>2, PTL DEF Spec

-----------------------------------------------------------------------------
(* What follows from it.                                                   *)

\* No two threads write the same row of the bitmap, which no mutex protects.
THEOREM RowsOnce == Spec => []RowOnce
<1>1. IInv => RowOnce
  <2> SUFFICES ASSUME IInv, NEW row \in Rows PROVE bm[row] <= 1
    BY DEF RowOnce
  <2>1. PICK t \in Workers : row \in Lo(t)..Hi(t)-1
    BY BandFacts
  <2>2. bm[row] = IF j[t] > row THEN 1 ELSE 0
    BY <2>1 DEF IInv, BitmapInv
  <2> QED
    BY <2>2
<1> QED
  BY <1>1, Inductive, PTL

\* When the image is saved, the rows of every thread that was created are computed,
\* and those of the others are not.
LEMMA SaveFinds ==
  ASSUME IInv, bitmap_save
  PROVE  \A t \in Workers : \A row \in Lo(t)..Hi(t)-1 :
           bm[row] = IF t \in failed THEN 0 ELSE 1
<1> SUFFICES ASSUME NEW t \in Workers, NEW row \in Lo(t)..Hi(t)-1
             PROVE  bm[row] = IF t \in failed THEN 0 ELSE 1
  OBVIOUS
<1>1. bm[row] = IF j[t] > row THEN 1 ELSE 0
  BY DEF IInv, BitmapInv
<1>2. row \in Nat /\ row < Hi(t)
  BY BandFacts
<1>3. CASE t \in failed
  <2>1. j[t] = 0
    BY <1>3 DEF IInv, JoinInv
  <2> QED
    BY <1>1, <1>2, <1>3, <2>1
<1>4. CASE t \notin failed
  <2>1. t \notin running /\ j[t] = Hi(t)
    BY <1>4, CountsAssumption DEF bitmap_save, IInv, JoinInv, Workers
  <2> QED
    BY <1>1, <1>2, <1>4, <2>1, BandFacts
<1> QED
  BY <1>3, <1>4

\* fractalthread.c and mandel.c compute the rows once each, in some order, and save
\* the image when all of them have been computed; of what fractalthread.c saves when
\* it is short of threads nothing is said here.
THEOREM BandsImplementImage == Spec => ImplementsImage
<1> DEFINE rows == { row \in Rows : bm[row] > 0 }
           done == saved /\ ~Short
<1>1. Init => Image!Init
  BY DEF Init, Image!Init, Rows
<1>2. IInv /\ [Next]_vars => [Image!Next]_Image!imageVars
  <2> SUFFICES ASSUME IInv, [Next]_vars
               PROVE  Image!Next \/ UNCHANGED Image!imageVars
    OBVIOUS
  <2>1. ASSUME UNCHANGED <<bm, saved>>, saved => failed' = failed /\ program' = program
        PROVE  UNCHANGED Image!imageVars
    BY <2>1 DEF Image!imageVars, Short
  <2>2. CASE bitmap_save
    <3>1. ~saved /\ saved' = TRUE /\ bm' = bm /\ failed' = failed /\ program' = program
      BY <2>2 DEF bitmap_save, IInv, JoinInv, TypeOK
    <3>2. CASE Short
      BY <3>1, <3>2 DEF Image!imageVars, Short
    <3>3. CASE ~Short
      <4>1. failed = {}
        BY <3>3 DEF Short, IInv, JoinInv, TypeOK
      <4>2. ASSUME NEW row \in Rows PROVE bm[row] = 1
        <5>1. PICK t \in Workers : row \in Lo(t)..Hi(t)-1
          BY BandFacts
        <5> QED
          BY <2>2, <4>1, <5>1, SaveFinds
      <4>3. rows = 0..Height-1 /\ rows' = rows
        BY <3>1, <4>2 DEF Rows
      <4>4. ~done /\ done' = TRUE
        BY <3>1, <3>3 DEF Short
      <4>5. Image!Save
        BY <4>3, <4>4 DEF Image!Save
      <4> QED
        BY <4>5 DEF Image!Next
    <3> QED
      BY <3>2, <3>3
  <2>3. ASSUME NEW t \in Workers, ComputeRow(t)
        PROVE  Image!Next
    <3>1. /\ j[t] \in Rows /\ bm[j[t]] = 0
          /\ bm' = [bm EXCEPT ![j[t]] = 1]
      BY <2>3, FreshRow
    <3>2. bm \in [Rows -> Nat]
      BY DEF IInv, TypeOK
    <3>3. rows' = rows \cup {j[t]} /\ j[t] \in (0..Height-1) \ rows
      BY <3>1, <3>2 DEF Rows
    <3>4. ~saved /\ saved' = saved
      BY <2>3 DEF ComputeRow, IInv, JoinInv
    <3>5. Image!ComputeOne
      BY <3>3, <3>4 DEF Image!ComputeOne
    <3> QED
      BY <3>5 DEF Image!Next
  <2>4. CASE UNCHANGED vars
    BY <2>1, <2>4 DEF vars
  <2>5. CASE Main
    <3>1. CASE main = "exit"
      BY <2>5, <3>1 DEF Main, pthread_create, CreateError, CreateIgnored, StartJoining,
                        pthread_join, JoinCrash, bitmap_save
    <3>2. CASE main # "exit"
      <4>1. ~saved
        BY <3>2 DEF IInv, JoinInv
      <4> QED
        BY <2>1, <2>2, <2>5, <4>1 DEF Main, pthread_create, CreateError, CreateIgnored,
                                      StartJoining, pthread_join, JoinCrash
    <3> QED
      BY <3>1, <3>2
  <2>6. CASE \E t \in Workers : Worker(t)
    BY <2>1, <2>3, <2>6 DEF Worker, Return
  <2> QED
    BY <2>4, <2>5, <2>6 DEF Next
<1> QED
  BY <1>1, <1>2, Inductive, PTL DEF Spec, ImplementsImage, Image!Spec
-----------------------------------------------------------------------------
(* FlattenSeq of sequences of one length.  Its definition is recursive: the *)
(* function exists, and has the properties, by induction on the natural     *)
(* numbers, stated for a set of them.                                       *)

LEMMA SetInduction ==
  ASSUME NEW S \in SUBSET Nat, 0 \in S, \A k \in S : k + 1 \in S
  PROVE  S = Nat
<1> DEFINE U == Nat \ S
<1> SUFFICES ASSUME U # {} PROVE FALSE
  OBVIOUS
<1>1. U \subseteq Nat
  OBVIOUS
<1>2. PICK m \in U : \A k \in U : <<k, m>> \notin OpToRel(<, Nat)
  <2> HIDE DEF U
  <2> QED
    BY <1>1, WFMin, NatLessThanWellFounded, Zenon
<1>3. \A k \in U : ~(k < m)
  BY <1>1, <1>2, Zenon DEF OpToRel
<1>4. m \in Nat /\ m # 0 /\ m \notin S
  OBVIOUS
<1>5. m - 1 \in Nat /\ m - 1 < m
  BY <1>4
<1>6. m - 1 \in S
  BY <1>3, <1>5
<1>7. (m - 1) + 1 \in S
  BY <1>6
<1> QED
  BY <1>4, <1>7

\* f is the function that FlattenSeq computes on n sequences.
Flattens(f, seqs, n) ==
  f = [k \in 1..n |-> IF k = 1 THEN seqs[k] ELSE f[k-1] \o seqs[k]]

LEMMA FlattensFacts ==
  ASSUME NEW f, NEW seqs, NEW n \in Nat, Flattens(f, seqs, n)
  PROVE  \A k \in 1..n : f[k] = IF k = 1 THEN seqs[k] ELSE f[k-1] \o seqs[k]
<1> DEFINE g == [k \in 1..n |-> IF k = 1 THEN seqs[k] ELSE f[k-1] \o seqs[k]]
<1>1. f = g
  BY DEF Flattens
<1>2. \A k \in 1..n : g[k] = IF k = 1 THEN seqs[k] ELSE f[k-1] \o seqs[k]
  OBVIOUS
<1> HIDE DEF g
<1> QED
  BY <1>1, <1>2

LEMMA FlattensExists ==
  ASSUME NEW seqs, NEW n \in Nat
  PROVE  \E f : Flattens(f, seqs, n)
<1> DEFINE S == { m \in Nat : \E f : Flattens(f, seqs, m) }
<1>1. 0 \in S
  <2> DEFINE f == [k \in 1..0 |-> <<>>]
  <2>1. Flattens(f, seqs, 0)
    BY DEF Flattens
  <2> QED
    BY <2>1
<1>2. ASSUME NEW m \in S
      PROVE  m + 1 \in S
  <2>1. PICK f : Flattens(f, seqs, m)
    OBVIOUS
  <2> DEFINE g == [k \in 1..m+1 |->
                     IF k <= m THEN f[k]
                     ELSE IF k = 1 THEN seqs[k] ELSE f[k-1] \o seqs[k]]
             h == [k \in 1..m+1 |-> IF k = 1 THEN seqs[k] ELSE g[k-1] \o seqs[k]]
  <2>2. \A k \in 1..m : f[k] = IF k = 1 THEN seqs[k] ELSE f[k-1] \o seqs[k]
    BY <2>1, FlattensFacts
  <2>3. \A k \in 1..m : g[k] = f[k]
    OBVIOUS
  <2>4. ASSUME NEW k \in 1..m+1
        PROVE  g[k] = IF k = 1 THEN seqs[k] ELSE g[k-1] \o seqs[k]
    <3>1. g[k] = IF k = 1 THEN seqs[k] ELSE f[k-1] \o seqs[k]
      BY <2>2
    <3>2. k # 1 => g[k-1] = f[k-1]
      <4> SUFFICES ASSUME k # 1 PROVE k - 1 \in 1..m
        BY <2>3
      <4> QED
        OBVIOUS
    <3> QED
      BY <3>1, <3>2
  <2>5. g = [k \in 1..m+1 |-> g[k]]
    OBVIOUS
  <2> HIDE DEF g
  <2>6. Flattens(g, seqs, m + 1)
    BY <2>4, <2>5 DEF Flattens
  <2> QED
    BY <2>6
<1> HIDE DEF S
<1>3. S = Nat
  <2>1. S \in SUBSET Nat
    BY DEF S
  <2> QED
    BY <1>1, <1>2, <2>1, SetInduction
<1> QED
  BY <1>3 DEF S

LEMMA FlattenIs ==
  ASSUME NEW seqs, Len(seqs) \in Nat \ {0}
  PROVE  \E f : Flattens(f, seqs, Len(seqs)) /\ FlattenSeq(seqs) = f[Len(seqs)]
<1> DEFINE n == Len(seqs)
           F == CHOOSE f : Flattens(f, seqs, n)
<1>1. Flattens(F, seqs, n)
  BY FlattensExists
<1>2. FlattenSeq(seqs) = F[n]
  BY Zenon DEF FlattenSeq, Flattens
<1> HIDE DEF F
<1> QED
  BY <1>1, <1>2

\* The rows of seqs, of l each, one behind the other.
InRows(f, seqs, n, l) ==
  /\ Len(f) = n * l
  /\ \A k \in 1..n, m \in 1..l : f[(k - 1) * l + m] = seqs[k][m]

\* The k-th sequence begins after the k - 1 before it.
LEMMA FlattenRows ==
  ASSUME NEW T, NEW n \in Nat, NEW l \in Nat, NEW seqs \in Seq(Seq(T)),
         Len(seqs) = n, \A k \in 1..n : Len(seqs[k]) = l
  PROVE  FlattenSeq(seqs) \in Seq(T) /\ InRows(FlattenSeq(seqs), seqs, n, l)
<1> USE DEF InRows
<1>0. \A k \in 1..n : seqs[k] \in Seq(T)
  BY ElementOfSeq
<1>1. CASE n = 0
  <2>1. seqs = <<>>
    BY <1>1, EmptySeq
  <2>2. FlattenSeq(seqs) = seqs
    BY <1>1 DEF FlattenSeq
  <2>3. FlattenSeq(seqs) = <<>> /\ <<>> \in Seq(T) /\ Len(<<>>) = 0
    BY <2>1, <2>2, EmptySeq
  <2>4. n * l = 0
    BY <1>1
  <2> QED
    BY <1>1, <2>3, <2>4
<1>2. CASE n # 0
  <2>1. PICK f : Flattens(f, seqs, n) /\ FlattenSeq(seqs) = f[n]
    BY <1>2, FlattenIs
  <2>2. \A k \in 1..n : f[k] = IF k = 1 THEN seqs[k] ELSE f[k-1] \o seqs[k]
    BY <2>1, FlattensFacts, SMTT(20)
  <2> DEFINE P(q) == /\ f[q] \in Seq(T)
                     /\ Len(f[q]) = q * l
                     /\ \A k \in 1..q, m \in 1..l : f[q][(k - 1) * l + m] = seqs[k][m]
             S == { q \in Nat : q + 1 <= n => P(q + 1) }
  <2>3. 0 \in S
    <3>1. f[1] = seqs[1] /\ 1 \in 1..n
      BY <1>2, <2>2
    <3>2. 1 * l = l /\ 0 * l = 0
      OBVIOUS
    <3>3. \A k \in 1..1, m \in 1..l : k = 1 /\ k - 1 = 0 /\ 0 + m = m
      OBVIOUS
    <3>4. P(1)
      BY <1>0, <3>1, <3>2, <3>3
    <3> HIDE DEF P
    <3> QED
      BY <3>4
  <2>4. ASSUME NEW p \in S
        PROVE  p + 1 \in S
    <3> SUFFICES ASSUME (p + 1) + 1 <= n PROVE P((p + 1) + 1)
      OBVIOUS
    <3> DEFINE q == p + 1
    <3>1. q \in Nat \ {0} /\ q + 1 \in 1..n /\ q <= n /\ q \in 1..n
      OBVIOUS
    <3>2. P(q)
      BY <3>1
    <3> HIDE DEF q
    <3>3. f[q+1] = f[q] \o seqs[q+1]
      <4>1. q + 1 # 1 /\ (q + 1) - 1 = q
        BY <3>1
      <4>2. f[q+1] = IF q + 1 = 1 THEN seqs[q+1] ELSE f[(q+1)-1] \o seqs[q+1]
        BY <2>2, <3>1, Zenon
      <4> QED
        BY <4>1, <4>2
    <3>4. seqs[q+1] \in Seq(T) /\ Len(seqs[q+1]) = l
      BY <1>0, <3>1
    <3>5. /\ f[q+1] \in Seq(T)
          /\ Len(f[q+1]) = q * l + l
          /\ \A x \in 1..q * l + l :
               f[q+1][x] = IF x <= q * l THEN f[q][x] ELSE seqs[q+1][x - q * l]
      <4>1. f[q] \in Seq(T) /\ Len(f[q]) = q * l
        BY <3>2
      <4> HIDE DEF P
      <4>2. /\ f[q+1] \in Seq(T)
            /\ Len(f[q+1]) = Len(f[q]) + Len(seqs[q+1])
            /\ \A x \in 1..Len(f[q]) + Len(seqs[q+1]) :
                 f[q+1][x] = IF x <= Len(f[q]) THEN f[q][x]
                             ELSE seqs[q+1][x - Len(f[q])]
        <5> DEFINE a == f[q]
                   b == seqs[q+1]
        <5>1. a \in Seq(T) /\ b \in Seq(T)
          BY <3>4, <4>1
        <5>2. f[q+1] = a \o b
          BY <3>3
        <5> HIDE DEF a, b
        <5>3. /\ a \o b \in Seq(T)
              /\ Len(a \o b) = Len(a) + Len(b)
              /\ \A x \in 1..Len(a) + Len(b) :
                   (a \o b)[x] = IF x <= Len(a) THEN a[x] ELSE b[x - Len(a)]
          BY <5>1, ConcatProperties
        <5> QED
          BY <5>2, <5>3, Zenon DEF a, b
      <4> QED
        BY <3>4, <4>1, <4>2, Zenon
    <3>6. q * l \in Nat /\ (q + 1) * l = q * l + l
      BY <3>1
    <3>7. ASSUME NEW k \in 1..q+1, NEW m \in 1..l
          PROVE  f[q+1][(k - 1) * l + m] = seqs[k][m]
      <4> DEFINE x == (k - 1) * l + m
      <4>1. CASE k = q + 1
        <5>1. k - 1 = q
          BY <3>1, <4>1
        <5>2. x = q * l + m
          BY <5>1
        <5> HIDE DEF x
        <5>3. x \in 1..q * l + l /\ ~(x <= q * l) /\ x - q * l = m
          <6> DEFINE ql == q * l
          <6>1. ql \in Nat /\ x = ql + m
            BY <3>6, <5>2
          <6> HIDE DEF ql
          <6>2. x \in 1..ql + l /\ ~(x <= ql) /\ x - ql = m
            BY <6>1
          <6> QED
            BY <6>2 DEF ql
        <5> QED
          BY <3>5, <4>1, <5>3 DEF x
      <4>2. CASE k # q + 1
        <5>1. k \in 1..q /\ k - 1 \in Nat /\ k \in Nat /\ k <= q
          BY <3>1, <4>2
        <5>2. k * l <= q * l /\ k * l \in Nat
          BY <3>1, <5>1, Monotone
        <5>3. k * l = (k - 1) * l + l /\ (k - 1) * l \in Nat
          BY <5>1
        <5>4. x \in 1..q * l
          <6> DEFINE kl == k * l
                     kl1 == (k - 1) * l
                     ql == q * l
          <6>1. kl <= ql /\ kl \in Nat /\ ql \in Nat /\ kl1 \in Nat /\ kl = kl1 + l
            BY <3>6, <5>2, <5>3
          <6> HIDE DEF kl, kl1, ql
          <6>2. kl1 + m \in 1..ql
            BY <6>1
          <6> QED
            BY <6>2 DEF kl1, ql
        <5>5. f[q][x] = seqs[k][m]
          BY <3>2, <5>1
        <5> HIDE DEF x
        <5>6. x \in 1..q * l + l /\ x <= q * l
          BY <3>6, <5>4
        <5> QED
          BY <3>5, <5>5, <5>6 DEF x
      <4> QED
        BY <4>1, <4>2
    <3>8. P(q + 1)
      BY <3>5, <3>6, <3>7
    <3> HIDE DEF P
    <3> QED
      BY <3>8 DEF q
  <2> HIDE DEF P
  <2>5. S = Nat
    <3>1. S \in SUBSET Nat
      OBVIOUS
    <3> HIDE DEF S
    <3> QED
      BY <2>3, <2>4, <3>1, SetInduction
  <2>6. n - 1 \in Nat /\ (n - 1) + 1 = n
    BY <1>2
  <2>7. P((n - 1) + 1)
    <3>1. n - 1 \in S
      BY <2>5, <2>6
    <3> QED
      BY <2>6, <3>1
  <2>8. P(n)
    BY <2>6, <2>7
  <2> QED
    BY <2>1, <2>8 DEF P
<1> QED
  BY <1>1, <1>2
-----------------------------------------------------------------------------
(* The bytes of the file.                                                  *)

\* A pixel has one place in the array, and the place tells its row and column.
LEMMA PixelPlace ==
  ASSUME NEW w \in Nat \ {0}, NEW h \in Nat, NEW x \in 0..w-1, NEW y \in 0..h-1
  PROVE  /\ y * w + x \in 0..w * h - 1
         /\ (y * w + x) \div w = y
         /\ (y * w + x) % w = x
<1> DEFINE k == y * w + x
           q == k \div w
           r == k % w
<1>1. y \in Nat /\ x \in Nat /\ y * w \in Nat /\ h * w = w * h /\ h * w \in Nat
  OBVIOUS
<1>2. k \in Nat
  BY <1>1
<1>3. k <= h * w - 1
  <2>1. (y + 1) * w <= h * w
    BY Monotone
  <2>2. (y + 1) * w = y * w + w
    BY <1>1
  <2> DEFINE a == y * w
             b == h * w
  <2>3. a + w <= b /\ a \in Nat /\ b \in Nat
    BY <1>1, <2>1, <2>2
  <2> HIDE DEF a, b
  <2>4. a + x <= b - 1
    BY <2>3
  <2> QED
    BY <2>4 DEF a, b
<1>4. q \in Nat /\ r \in 0..w-1 /\ k = w * q + r
  <2> HIDE DEF k
  <2> QED
    BY <1>2, DivMod
<1>5. q = y
  <2> HIDE DEF q, r
  <2>1. w * q = q * w /\ q * w \in Nat
    BY <1>4
  <2>2. y * w + x = q * w + r
    BY <1>4, <2>1
  <2>3. ~(q < y)
    <3> SUFFICES ASSUME q + 1 <= y PROVE FALSE
      BY <1>1, <1>4
    <3>1. (q + 1) * w <= y * w
      BY <1>1, <1>4, Monotone
    <3>2. (q + 1) * w = q * w + w
      BY <1>4
    <3> DEFINE a == y * w
               b == q * w
    <3>3. b + w <= a /\ a + x = b + r /\ a \in Nat /\ b \in Nat
      BY <1>1, <2>1, <2>2, <3>1, <3>2
    <3> HIDE DEF a, b
    <3> QED
      BY <1>4, <3>3
  <2>4. ~(y < q)
    <3> SUFFICES ASSUME y + 1 <= q PROVE FALSE
      BY <1>1, <1>4
    <3>1. (y + 1) * w <= q * w
      BY <1>1, <1>4, Monotone
    <3>2. (y + 1) * w = y * w + w
      BY <1>1
    <3> DEFINE a == y * w
               b == q * w
    <3>3. a + w <= b /\ a + x = b + r /\ a \in Nat /\ b \in Nat
      BY <1>1, <2>1, <2>2, <3>1, <3>2
    <3> HIDE DEF a, b
    <3> QED
      BY <1>1, <1>4, <3>3
  <2> QED
    BY <1>1, <1>4, <2>3, <2>4
<1>6. r = x
  <2> HIDE DEF q, r
  <2>1. w * q = y * w
    BY <1>1, <1>5
  <2> DEFINE a == y * w
  <2>2. a + x = a + r /\ a \in Nat
    BY <1>1, <1>4, <2>1
  <2> HIDE DEF a
  <2> QED
    BY <1>1, <1>4, <2>2
<1>7. k \in 0..w * h - 1
  <2> DEFINE b == h * w
  <2>1. b = w * h /\ k <= b - 1 /\ b \in Nat
    BY <1>1, <1>3
  <2> HIDE DEF b, k
  <2> QED
    BY <1>2, <2>1
<1> QED
  BY <1>5, <1>6, <1>7

\* In the image, bitmap_get reads a pixel at its place.
LEMMA GetPixel ==
  ASSUME NEW w \in Nat \ {0}, NEW h \in Nat, NEW x \in 0..w-1, NEW y \in 0..h-1,
         NEW d
  PROVE  bitmap_get(d, w, h, x, y) = d[y * w + x]
<1>1. /\ w \in Int /\ w > 0 /\ x \in Int /\ 0 <= x /\ x < w
      /\ h \in Int /\ h > 0 /\ y \in Int /\ 0 <= y /\ y < h
  OBVIOUS
<1>2. x % w = x
  BY <1>1, SMTT(30)
<1>3. y % h = y
  BY <1>1, SMTT(30)
<1> QED
  BY <1>2, <1>3 DEF bitmap_get

\* The padding fills a row up to a multiple of four bytes, and is never longer
\* than the row, whose beginning it repeats.
LEMMA Padding ==
  ASSUME NEW w \in Nat \ {0}
  PROVE  /\ padlength(w) \in 0..3
         /\ padlength(w) <= 3 * w
         /\ 3 * w + padlength(w) = 4 * ((3 * w + 3) \div 4)
<1> DEFINE q == (w * 3) \div 4
           r == (w * 3) % 4
<1>1. w * 3 \in Nat /\ 4 \in Nat \ {0}
  OBVIOUS
<1>2. q \in Nat /\ r \in 0..3 /\ w * 3 = 4 * q + r
  BY <1>1, DivMod
<1>3. padlength(w) = (4 - r) % 4
  BY DEF padlength
<1> HIDE DEF q, r
<1>4. CASE r = 0
  <2>1. padlength(w) = 0
    BY <1>3, <1>4
  <2>2. (3 * w + 3) \div 4 = q
    BY <1>2, <1>4
  <2> QED
    BY <1>2, <1>4, <2>1, <2>2
<1>5. CASE r # 0
  <2>1. padlength(w) = 4 - r
    BY <1>2, <1>3, <1>5
  <2>2. (3 * w + 3) \div 4 = q + 1
    BY <1>2, <1>5
  <2> QED
    BY <1>2, <1>5, <2>1, <2>2
<1> QED
  BY <1>4, <1>5

\* The pixels of an image of w times h.
IsImage(d, w, h) == \A k \in 0..w * h - 1 : d[k] \in [1..3 -> Int]

\* s holds the pixels of row y, blue first.
IsLine(s, d, w, y) ==
  /\ s \in Seq(Int)
  /\ Len(s) = 3 * w
  /\ \A x \in 0..w-1, c \in 1..3 : s[3 * x + c] = d[y * w + x][4 - c]

LEMMA ScanlineIs ==
  ASSUME NEW w \in Nat \ {0}, NEW h \in Nat, NEW d, IsImage(d, w, h),
         NEW y \in 0..h-1
  PROVE  IsLine(scanline(d, w, h, y), d, w, y)
<1> DEFINE seqs == [k \in 1..w |-> Stored(bitmap_get(d, w, h, k - 1, y))]
<1>1. ASSUME NEW k \in 1..w
      PROVE  /\ seqs[k] = Stored(d[y * w + (k - 1)])
             /\ seqs[k] \in Seq(Int)
             /\ Len(seqs[k]) = 3
             /\ \A c \in 1..3 : seqs[k][c] = d[y * w + (k - 1)][4 - c]
  <2> DEFINE p == d[y * w + (k - 1)]
  <2>1. k - 1 \in 0..w-1
    OBVIOUS
  <2>2. bitmap_get(d, w, h, k - 1, y) = p /\ y * w + (k - 1) \in 0..w * h - 1
    <3> DEFINE x == k - 1
    <3>1. x \in 0..w-1
      BY <2>1
    <3> HIDE DEF x, seqs
    <3>2. bitmap_get(d, w, h, x, y) = d[y * w + x]
      BY <3>1, GetPixel
    <3>3. y * w + x \in 0..w * h - 1
      BY <3>1, PixelPlace
    <3> QED
      BY <3>2, <3>3, Zenon DEF x
  <2>3. seqs[k] = Stored(p)
    BY <2>2
  <2>4. p \in [1..3 -> Int]
    BY <2>2 DEF IsImage
  <2> HIDE DEF p, seqs
  <2>5. Stored(p) = <<p[3], p[2], p[1]>> /\ p[1] \in Int /\ p[2] \in Int /\ p[3] \in Int
    BY <2>4 DEF Stored
  <2>6. ASSUME NEW c \in 1..3 PROVE seqs[k][c] = p[4 - c]
    <3>1. c = 1 \/ c = 2 \/ c = 3
      OBVIOUS
    <3> QED
      BY <2>3, <2>5, <3>1
  <2>7. seqs[k] \in Seq(Int) /\ Len(seqs[k]) = 3
    BY <2>3, <2>5
  <2> QED
    BY <2>3, <2>6, <2>7 DEF p
<1>2. seqs \in Seq(Seq(Int)) /\ Len(seqs) = w
  <2>1. seqs \in [1..w -> Seq(Int)]
    BY <1>1
  <2> HIDE DEF seqs
  <2> QED
    BY <2>1
<1>3. scanline(d, w, h, y) = FlattenSeq(seqs)
  BY DEF scanline
<1> HIDE DEF seqs
<1>4. /\ FlattenSeq(seqs) \in Seq(Int)
      /\ Len(FlattenSeq(seqs)) = w * 3
      /\ \A k \in 1..w, m \in 1..3 : FlattenSeq(seqs)[(k - 1) * 3 + m] = seqs[k][m]
  <2>1. \A k \in 1..w : Len(seqs[k]) = 3
    BY <1>1
  <2>2. FlattenSeq(seqs) \in Seq(Int) /\ InRows(FlattenSeq(seqs), seqs, w, 3)
    BY <1>2, <2>1, FlattenRows
  <2> QED
    BY <2>2, Zenon DEF InRows
<1>5. ASSUME NEW x \in 0..w-1, NEW c \in 1..3
      PROVE  FlattenSeq(seqs)[3 * x + c] = d[y * w + x][4 - c]
  <2>1. x + 1 \in 1..w /\ (x + 1) - 1 = x /\ x * 3 + c = 3 * x + c
    OBVIOUS
  <2>2. FlattenSeq(seqs)[((x + 1) - 1) * 3 + c] = seqs[x + 1][c]
    BY <1>4, <2>1
  <2>3. seqs[x + 1][c] = d[y * w + ((x + 1) - 1)][4 - c]
    BY <1>1, <2>1
  <2> QED
    BY <2>1, <2>2, <2>3
<1> DEFINE s == FlattenSeq(seqs)
<1>6. s \in Seq(Int) /\ Len(s) = 3 * w
  BY <1>4
<1>7. \A x \in 0..w-1, c \in 1..3 : s[3 * x + c] = d[y * w + x][4 - c]
  BY <1>5
<1> HIDE DEF s
<1>8. IsLine(s, d, w, y)
  BY <1>6, <1>7, Zenon DEF IsLine
<1> QED
  BY <1>3, <1>8, Zenon DEF s

LineLength(w) == 3 * w + padlength(w)

\* The rows follow each other, each with its padding.
LEMMA SavedIs ==
  ASSUME NEW w \in Nat \ {0}, NEW h \in Nat, NEW d, IsImage(d, w, h),
         NEW y \in 0..h-1
  PROVE  /\ \A m \in 1..3 * w :
              Saved(d, w, h)[y * LineLength(w) + m] = scanline(d, w, h, y)[m]
         /\ \A m \in 1..padlength(w) :
              Saved(d, w, h)[y * LineLength(w) + (3 * w + m)] = scanline(d, w, h, y)[m]
<1> DEFINE l == LineLength(w)
           pad == padlength(w)
           s(k) == scanline(d, w, h, k - 1)
           lines == [k \in 1..h |-> s(k) \o SubSeq(s(k), 1, pad)]
<1>1. pad \in Nat /\ pad <= 3 * w /\ l = 3 * w + pad /\ l \in Nat
  BY Padding DEF LineLength
<1>2. ASSUME NEW k \in 1..h
      PROVE  /\ lines[k] \in Seq(Int)
             /\ Len(lines[k]) = l
             /\ \A m \in 1..3 * w : lines[k][m] = s(k)[m]
             /\ \A m \in 1..pad : lines[k][3 * w + m] = s(k)[m]
  <2> DEFINE a == s(k)
             b == SubSeq(a, 1, pad)
  <2>1. a \in Seq(Int) /\ Len(a) = 3 * w
    <3> DEFINE z == k - 1
    <3>1. z \in 0..h-1
      OBVIOUS
    <3> HIDE DEF z
    <3>2. scanline(d, w, h, z) \in Seq(Int) /\ Len(scanline(d, w, h, z)) = 3 * w
      BY <3>1, ScanlineIs, Zenon DEF IsLine
    <3> QED
      BY <3>2, Zenon DEF z
  <2>2. lines[k] = a \o b
    OBVIOUS
  <2> HIDE DEF a, lines, l, pad, s
  <2>3. \A m \in 1..pad : a[m] \in Int
    <3>1. \A m \in 1..pad : m \in 1..Len(a)
      BY <1>1, <2>1
    <3> QED
      BY <2>1, <3>1, ElementOfSeq
  <2>4. /\ b \in Seq(Int) /\ Len(b) = pad
        /\ \A m \in 1..pad : b[m] = a[m]
    BY <1>1, <2>3, SubSeqProperties
  <2> HIDE DEF b
  <2>5. /\ a \o b \in Seq(Int)
        /\ Len(a \o b) = Len(a) + Len(b)
        /\ \A m \in 1..Len(a) + Len(b) :
             (a \o b)[m] = IF m <= Len(a) THEN a[m] ELSE b[m - Len(a)]
    BY <2>1, <2>4, ConcatProperties
  <2>6. \A m \in 1..3 * w : (a \o b)[m] = a[m]
    BY <1>1, <2>1, <2>4, <2>5
  <2>7. ASSUME NEW m \in 1..pad PROVE (a \o b)[3 * w + m] = a[m]
    <3>1. 3 * w + m \in 1..3 * w + pad /\ ~(3 * w + m <= 3 * w) /\ (3 * w + m) - 3 * w = m
      BY <1>1
    <3> QED
      BY <2>1, <2>4, <2>5, <3>1
  <2> QED
    BY <1>1, <2>1, <2>2, <2>4, <2>5, <2>6, <2>7 DEF a
<1>3. Saved(d, w, h) = FlattenSeq(lines)
  BY Zenon DEF Saved
<1>4. lines \in Seq(Seq(Int)) /\ Len(lines) = h
  <2>1. lines \in [1..h -> Seq(Int)]
    BY <1>2
  <2> HIDE DEF lines
  <2> QED
    BY <2>1
<1> HIDE DEF lines, l, pad, s
<1>5. l \in Nat /\ \A k \in 1..h : Len(lines[k]) = l
  BY <1>1, <1>2
<1>6. /\ FlattenSeq(lines) \in Seq(Int)
      /\ Len(FlattenSeq(lines)) = h * l
      /\ \A k \in 1..h, m \in 1..l : FlattenSeq(lines)[(k - 1) * l + m] = lines[k][m]
  <2>1. FlattenSeq(lines) \in Seq(Int) /\ InRows(FlattenSeq(lines), lines, h, l)
    BY <1>4, <1>5, FlattenRows
  <2> QED
    BY <2>1, Zenon DEF InRows
<1>7. y + 1 \in 1..h /\ (y + 1) - 1 = y /\ s(y + 1) = scanline(d, w, h, y)
  BY DEF s
<1>8. \A m \in 1..l : FlattenSeq(lines)[y * l + m] = lines[y + 1][m]
  BY <1>6, <1>7
<1>9. \A m \in 1..3 * w : m \in 1..l
  BY <1>1
<1>10. \A m \in 1..pad : 3 * w + m \in 1..l
  BY <1>1
<1>11. ASSUME NEW m \in 1..3 * w
       PROVE  Saved(d, w, h)[y * l + m] = scanline(d, w, h, y)[m]
  <2>1. FlattenSeq(lines)[y * l + m] = lines[y + 1][m]
    BY <1>8, <1>9, Zenon
  <2>2. lines[y + 1][m] = s(y + 1)[m]
    BY <1>2, <1>7, Zenon
  <2> QED
    BY <1>3, <1>7, <2>1, <2>2, Zenon
<1>12. ASSUME NEW m \in 1..pad
       PROVE  Saved(d, w, h)[y * l + (3 * w + m)] = scanline(d, w, h, y)[m]
  <2>1. FlattenSeq(lines)[y * l + (3 * w + m)] = lines[y + 1][3 * w + m]
    BY <1>8, <1>10, Zenon
  <2>2. lines[y + 1][3 * w + m] = s(y + 1)[m]
    BY <1>2, <1>7, Zenon
  <2> QED
    BY <1>3, <1>7, <2>1, <2>2, Zenon
<1> QED
  BY <1>11, <1>12 DEF l, pad

\* The file holds every pixel at its place, blue first.
HoldsImage(file, d, w, h) ==
  \A x \in 0..w-1, y \in 0..h-1, c \in 1..3 :
    file[y * LineLength(w) + (3 * x + c)] = d[y * w + x][4 - c]

LEMMA FileHolds ==
  ASSUME NEW w \in Nat \ {0}, NEW h \in Nat, NEW d, IsImage(d, w, h)
  PROVE  HoldsImage(Saved(d, w, h), d, w, h)
<1> SUFFICES ASSUME NEW x \in 0..w-1, NEW y \in 0..h-1, NEW c \in 1..3
             PROVE  Saved(d, w, h)[y * LineLength(w) + (3 * x + c)]
                      = d[y * w + x][4 - c]
  BY Zenon DEF HoldsImage
<1> DEFINE s == scanline(d, w, h, y)
           m == 3 * x + c
<1>1. m \in 1..3 * w
  OBVIOUS
<1>2. IsLine(s, d, w, y)
  BY ScanlineIs, Zenon
<1> HIDE DEF s
<1>3. s[m] = d[y * w + x][4 - c]
  BY <1>2, Zenon DEF IsLine
<1> HIDE DEF m
<1>4. Saved(d, w, h)[y * LineLength(w) + m] = s[m]
  BY <1>1, SavedIs DEF s
<1> QED
  BY <1>3, <1>4, Zenon DEF m

\* What the format says of the file.
LEMMA ShownPixel ==
  ASSUME NEW w \in Nat \ {0}, NEW h \in Nat, NEW d, IsImage(d, w, h),
         NEW x \in 0..w-1, NEW y \in 0..h-1
  PROVE  BmpPixel(Saved(d, w, h), w, x, y) = d[y * w + x]
<1> DEFINE l == LineLength(w)
           p == d[y * w + x]
           file == Saved(d, w, h)
<1>1. l = 4 * ((3 * w + 3) \div 4) /\ l \in Nat
  BY Padding DEF LineLength
<1>2. BmpPixel(file, w, x, y) =
        <<file[y * l + 3 * x + 3], file[y * l + 3 * x + 2], file[y * l + 3 * x + 1]>>
  <2> HIDE DEF l, file
  <2> QED
    BY <1>1, Zenon DEF BmpPixel
<1>3. \A c \in 1..3 : file[y * l + (3 * x + c)] = p[4 - c]
  <2>1. HoldsImage(Saved(d, w, h), d, w, h)
    BY FileHolds
  <2>2. \A c \in 1..3 : Saved(d, w, h)[y * LineLength(w) + (3 * x + c)]
                         = d[y * w + x][4 - c]
    BY <2>1, Zenon DEF HoldsImage
  <2> QED
    BY <2>2
<1> HIDE DEF file
<1>4. \A c \in 1..3 : y * l + 3 * x + c = y * l + (3 * x + c)
  <2> HIDE DEF l
  <2>1. y * l \in Nat
    BY <1>1
  <2> QED
    BY <2>1
<1>5. p \in [1..3 -> Int]
  BY PixelPlace DEF IsImage
<1> HIDE DEF l, p
<1>6. /\ file[y * l + 3 * x + 3] = p[1]
      /\ file[y * l + 3 * x + 2] = p[2]
      /\ file[y * l + 3 * x + 1] = p[3]
  BY <1>3, <1>4
<1>7. p = <<p[1], p[2], p[3]>>
  BY <1>5
<1> QED
  BY <1>2, <1>6, <1>7 DEF p, file
LEMMA PlaceOf ==
  ASSUME NEW w \in Nat \ {0}, NEW h \in Nat, NEW k \in 0..w * h - 1
  PROVE  /\ k \div w \in 0..h-1
         /\ k % w \in 0..w-1
         /\ k = (k \div w) * w + (k % w)
<1> DEFINE q == k \div w
           r == k % w
           n == h * w
<1>1. k \in Nat /\ n = w * h /\ n \in Nat /\ k <= n - 1
  OBVIOUS
<1>2. q \in Nat /\ r \in 0..w-1 /\ k = w * q + r
  BY <1>1, DivMod
<1> HIDE DEF q, r
<1>3. w * q = q * w /\ q * w \in Nat
  BY <1>2
<1>4. q < h
  <2> SUFFICES ASSUME h <= q PROVE FALSE
    BY <1>2
  <2>1. n <= q * w
    BY <1>2, Monotone
  <2> DEFINE a == q * w
  <2>2. n <= a /\ k = a + r /\ a \in Nat
    BY <1>2, <1>3, <2>1
  <2> HIDE DEF a, n
  <2> QED
    BY <1>1, <1>2, <2>2
<1> QED
  BY <1>2, <1>3, <1>4 DEF q, r

\* Without padding between two rows, the function bitmap reads what was saved.
LEMMA LoadedSame ==
  ASSUME NEW w \in Nat \ {0}, NEW h \in Nat,
         NEW d \in [0..w * h - 1 -> [1..3 -> Int]], padlength(w) = 0 \/ h <= 1
  PROVE  Loaded(Saved(d, w, h), w, h) = d
<1>i. IsImage(d, w, h)
  BY DEF IsImage
<1> DEFINE file == Saved(d, w, h)
<1>0. HoldsImage(file, d, w, h)
  BY <1>i, FileHolds, Zenon
<1>1. ASSUME NEW k \in 0..w * h - 1
      PROVE  PixelRead(file, k) = d[k]
  <2> DEFINE y == k \div w
             x == k % w
             l == LineLength(w)
             p == d[k]
  <2>1. y \in 0..h-1 /\ x \in 0..w-1 /\ k = y * w + x
    BY PlaceOf
  <2>2. p \in [1..3 -> Int]
    BY DEF IsImage
  <2> HIDE DEF x, y, l
  <2>3. y * l = 3 * (y * w)
    <3>1. CASE padlength(w) = 0
      <4>1. l = 3 * w
        BY <3>1 DEF l, LineLength
      <4> QED
        BY <2>1, <4>1
    <3>2. CASE h <= 1
      <4>1. y = 0
        BY <2>1, <3>2
      <4>2. l \in Nat
        <5>1. padlength(w) \in 0..3
          BY Padding
        <5> QED
          BY <5>1 DEF l, LineLength
      <4> QED
        BY <4>1, <4>2
    <3> QED
      BY <3>1, <3>2
  <2>4. y * l + (3 * x + 1) = 3 * k + 1
    BY <2>1, <2>3
  <2>5. y * l + (3 * x + 2) = 3 * k + 2
    BY <2>1, <2>3
  <2>6. y * l + (3 * x + 3) = 3 * k + 3
    BY <2>1, <2>3
  <2>7. ASSUME NEW c \in 1..3 PROVE file[y * l + (3 * x + c)] = d[y * w + x][4 - c]
    BY <1>0, <2>1, Zenon DEF HoldsImage, l
  <2>8. \A c \in 1..3 : file[y * l + (3 * x + c)] = p[4 - c]
    BY <2>1, <2>7, Zenon DEF p
  <2> HIDE DEF file, p
  <2>9. file[3 * k + 1] = p[3] /\ file[3 * k + 2] = p[2] /\ file[3 * k + 3] = p[1]
    BY <2>4, <2>5, <2>6, <2>8
  <2>10. PixelRead(file, k) = <<p[1], p[2], p[3]>>
    BY <2>9 DEF PixelRead
  <2>11. p = <<p[1], p[2], p[3]>>
    BY <2>2
  <2> QED
    BY <2>10, <2>11, Zenon DEF p
<1> HIDE DEF file
<1>2. Loaded(file, w, h) = [k \in 0..w * h - 1 |-> PixelRead(file, k)]
  BY Zenon DEF Loaded
<1>3. Loaded(file, w, h) = [k \in 0..w * h - 1 |-> d[k]]
  BY <1>1, <1>2, Zenon
<1>4. d = [k \in 0..w * h - 1 |-> d[k]]
  OBVIOUS
<1> QED
  BY <1>3, <1>4, Zenon DEF file

\* With padding, the first pixel of the second row gets the blue of the first row's.
LEMMA LoadedDiffers ==
  ASSUME NEW w \in Nat \ {0}, NEW h \in Nat, NEW d, IsImage(d, w, h),
         padlength(w) # 0, h > 1, d[0][3] # d[w][3]
  PROVE  Loaded(Saved(d, w, h), w, h) # d
<1> DEFINE file == Saved(d, w, h)
<1>1. w \in 0..w * h - 1
  <2>1. 2 * w <= h * w /\ h * w = w * h /\ h * w \in Nat
    BY Monotone
  <2> DEFINE n == w * h
  <2>2. 2 * w <= n /\ n \in Nat
    BY <2>1
  <2> HIDE DEF n
  <2>3. w \in 0..n - 1
    BY <2>2
  <2> QED
    BY <2>3 DEF n
<1>2. file[3 * w + 1] = d[0][3]
  <2> DEFINE l == LineLength(w)
             s == scanline(d, w, h, 0)
             z == 0
  <2>1. z \in 0..h-1 /\ z \in 0..w-1 /\ 1 \in 1..3 /\ 1 \in 1..padlength(w)
    BY Padding
  <2>2. l \in Nat
    BY Padding DEF LineLength
  <2>3. \A m \in 1..padlength(w) : file[z * l + (3 * w + m)] = scanline(d, w, h, z)[m]
    <3> HIDE DEF z
    <3> QED
      BY <2>1, SavedIs
  <2>4. file[z * l + (3 * w + 1)] = scanline(d, w, h, z)[1]
    BY <2>1, <2>3
  <2>5. \A x \in 0..w-1, c \in 1..3 :
          scanline(d, w, h, z)[3 * x + c] = d[z * w + x][4 - c]
    <3> HIDE DEF z
    <3> QED
      <4>1. IsLine(scanline(d, w, h, z), d, w, z)
        BY <2>1, ScanlineIs
      <4> QED
        BY <4>1, Zenon DEF IsLine
  <2>6. scanline(d, w, h, z)[3 * z + 1] = d[z * w + z][4 - 1]
    BY <2>1, <2>5
  <2>7. 3 * z + 1 = 1 /\ z * w + z = 0 /\ 4 - 1 = 3
    OBVIOUS
  <2>8. z * l + (3 * w + 1) = 3 * w + 1
    <3> HIDE DEF l
    <3> QED
      BY <2>2
  <2> HIDE DEF l, z, file
  <2> QED
    BY <2>4, <2>6, <2>7, <2>8
<1> HIDE DEF file
<1>3. Loaded(file, w, h)[w] = PixelRead(file, w)
  <2>1. Loaded(file, w, h) = [k \in 0..w * h - 1 |-> PixelRead(file, k)]
    BY Zenon DEF Loaded
  <2> QED
    BY <1>1, <2>1, Zenon
<1>4. PixelRead(file, w)[3] = file[3 * w + 1]
  BY DEF PixelRead
<1>5. Loaded(file, w, h) # d
  BY <1>2, <1>3, <1>4, Zenon
<1> QED
  BY <1>5 DEF file

-----------------------------------------------------------------------------
(* The file shows the image.                                               *)

\* When the image is saved, the bands of the threads that were created are computed.
SavedInv ==
  saved => \A t \in Workers : \A row \in Lo(t)..Hi(t)-1 :
             bm[row] = IF t \in failed THEN 0 ELSE 1

LEMMA SavedInductive == Spec => []SavedInv
<1>1. Init => SavedInv
  BY DEF Init, SavedInv
<1>2. IInv /\ SavedInv /\ [Next]_vars => SavedInv'
  <2> SUFFICES ASSUME IInv, SavedInv, [Next]_vars PROVE SavedInv'
    OBVIOUS
  <2>1. ASSUME UNCHANGED <<bm, failed, saved>> PROVE SavedInv'
    BY <2>1 DEF SavedInv, Lo, Hi
  <2>2. CASE bitmap_save
    BY <2>2, SaveFinds DEF SavedInv, bitmap_save, Lo, Hi
  <2>3. ASSUME NEW t \in Workers, ComputeRow(t) PROVE SavedInv'
    BY <2>3 DEF ComputeRow, IInv, JoinInv, SavedInv
  <2>4. CASE UNCHANGED vars
    BY <2>1, <2>4 DEF vars
  <2>5. CASE CreateIgnored
    BY <2>5 DEF CreateIgnored, IInv, JoinInv, SavedInv
  <2>6. CASE Main
    BY <2>1, <2>2, <2>5, <2>6 DEF Main, pthread_create, CreateError, StartJoining,
                                  pthread_join, JoinCrash
  <2>7. CASE \E t \in Workers : Worker(t)
    BY <2>1, <2>3, <2>7 DEF Worker, Return
  <2> QED
    BY <2>4, <2>6, <2>7 DEF Next
<1> QED
  BY <1>1, <1>2, Inductive, PTL DEF Spec

\* The rows that are left blue are those of no thread.
LEMMA RowOf ==
  ASSUME IInv, SavedInv, saved, NEW y \in Rows
  PROVE  /\ bm[y] \in {0, 1}
         /\ NotComputed(y) <=> bm[y] = 0
         /\ failed = {} => bm[y] = 1
<1>1. PICK t \in Workers : y \in Lo(t)..Hi(t)-1
  BY BandFacts
<1>2. bm[y] = IF t \in failed THEN 0 ELSE 1
  BY <1>1 DEF SavedInv
<1>3. failed \subseteq Workers
  BY DEF IInv, TypeOK
<1>4. ASSUME NEW u \in failed, y \in Band(Height, ThreadCount, u)
      PROVE  bm[y] = 0
  <2>1. u \in Workers /\ y \in Lo(u)..Hi(u)-1
    BY <1>3, <1>4 DEF Band, Lo, Hi
  <2> QED
    BY <1>4, <2>1 DEF SavedInv
<1>5. t \in failed => y \in Band(Height, ThreadCount, t)
  BY <1>1 DEF Band, Lo, Hi
<1> QED
  BY <1>2, <1>4, <1>5 DEF NotComputed

\* The array of the image saved.
LEMMA DataIs ==
  ASSUME IInv, SavedInv, saved, NEW w \in Nat \ {0}
  PROVE  /\ IsImage(data(w), w, Height)
         /\ data(w) \in [0..w * Height - 1 -> [1..3 -> Int]]
         /\ failed = {} => \A k \in 0..w * Height - 1 : \A c \in 1..3 : data(w)[k][c] = 3 * k + c
         /\ \A x \in 0..w-1, y \in Rows :
              data(w)[y * w + x] = IF NotComputed(y) THEN Blue ELSE Colour(w, x, y)
<1>h. Height \in Nat
  BY CountsAssumption
<1>1. ASSUME NEW k \in 0..w * Height - 1
      PROVE  data(w)[k] = IF NotComputed(k \div w) THEN Blue ELSE Colour(w, k % w, k \div w)
  <2>1. PICK y \in Rows : y = k \div w
    BY <1>h, PlaceOf DEF Rows
  <2>2. bm[y] > 0 <=> ~NotComputed(y)
    BY RowOf
  <2>3. data(w)[k] = IF bm[k \div w] > 0 THEN Colour(w, k % w, k \div w) ELSE Blue
    BY DEF data
  <2> QED
    BY <2>1, <2>2, <2>3, Zenon
<1>2. ASSUME failed = {}, NEW k \in 0..w * Height - 1
      PROVE  data(w)[k] = [c \in 1..3 |-> 3 * k + c]
  <2>1. k = (k \div w) * w + (k % w)
    BY <1>h, PlaceOf
  <2>2. Colour(w, k % w, k \div w) = [c \in 1..3 |-> 3 * ((k \div w) * w + (k % w)) + c]
    BY Zenon DEF Colour
  <2>3. ~NotComputed(k \div w)
    BY <1>2, Zenon DEF NotComputed
  <2> QED
    BY <1>1, <2>1, <2>2, <2>3, Zenon
<1>3. ASSUME NEW k \in 0..w * Height - 1
      PROVE  data(w)[k] \in [1..3 -> Int]
  <2>1. (k \div w) \in Int /\ (k % w) \in Int
    BY <1>h, PlaceOf
  <2>2. Colour(w, k % w, k \div w) \in [1..3 -> Int]
    <3> DEFINE n == (k \div w) * w + (k % w)
    <3>1. n \in Int
      BY <2>1
    <3> HIDE DEF n
    <3>2. [c \in 1..3 |-> 3 * n + c] \in [1..3 -> Int]
      BY <3>1
    <3> QED
      BY <3>2, Zenon DEF Colour, n
  <2>3. Blue \in [1..3 -> Int]
    BY DEF Blue
  <2> QED
    BY <1>1, <2>2, <2>3, Zenon
<1>4. data(w) \in [0..w * Height - 1 -> [1..3 -> Int]]
  <2> DEFINE e == [k \in 0..w * Height - 1 |->
                     IF bm[k \div w] > 0 THEN Colour(w, k % w, k \div w) ELSE Blue]
  <2>1. data(w) = e
    BY Zenon DEF data
  <2>2. \A k \in 0..w * Height - 1 : e[k] \in [1..3 -> Int]
    BY <1>3, <2>1, Zenon
  <2> QED
    BY <2>1, <2>2, Zenon
<1>5. ASSUME NEW x \in 0..w-1, NEW y \in Rows
      PROVE  data(w)[y * w + x] = IF NotComputed(y) THEN Blue ELSE Colour(w, x, y)
  <2>1. y \in 0..Height-1
    BY DEF Rows
  <2>2. /\ y * w + x \in 0..w * Height - 1
        /\ (y * w + x) \div w = y
        /\ (y * w + x) % w = x
    BY <1>h, <2>1, PixelPlace
  <2> QED
    BY <1>1, <2>2, Zenon
<1>6. ASSUME failed = {}, NEW k \in 0..w * Height - 1, NEW c \in 1..3
      PROVE  data(w)[k][c] = 3 * k + c
  <2>1. data(w)[k] = [d \in 1..3 |-> 3 * k + d]
    BY <1>2, <1>6, Zenon
  <2> QED
    BY <2>1, Zenon
<1> QED
  BY <1>3, <1>4, <1>5, <1>6, Zenon DEF IsImage

\* Whatever the number of threads, the height and the width, the file that bitmap_save
\* writes shows every pixel at its place, blue in the bands of the threads that could
\* not be created; and if there are none, the function bitmap reads the image back
\* exactly when no row follows padding.
THEOREM FileIsTheImage == Spec => []FileShowsImage
<1>1. IInv /\ SavedInv => FileShowsImage
  <2> SUFFICES ASSUME IInv, SavedInv, saved, NEW w \in Widths
               PROVE  /\ \A x \in 0..w-1, y \in Rows :
                           BmpPixel(File(w), w, x, y)
                             = IF NotComputed(y) THEN Blue ELSE Colour(w, x, y)
                      /\ failed = {} =>
                           (Loaded(File(w), w, Height) = data(w))
                             = (padlength(w) = 0 \/ Height <= 1)
    BY DEF FileShowsImage
  <2>1. w \in Nat \ {0} /\ Height \in Nat
    BY WidthsAssumption, CountsAssumption
  <2> DEFINE d == data(w)
  <2>2. /\ IsImage(d, w, Height)
        /\ d \in [0..w * Height - 1 -> [1..3 -> Int]]
        /\ failed = {} => \A k \in 0..w * Height - 1 : \A c \in 1..3 : d[k][c] = 3 * k + c
        /\ \A x \in 0..w-1, y \in Rows :
             d[y * w + x] = IF NotComputed(y) THEN Blue ELSE Colour(w, x, y)
    BY <2>1, DataIs
  <2>3. File(w) = Saved(d, w, Height)
    BY DEF File
  <2> HIDE DEF d
  <2>4. ASSUME NEW x \in 0..w-1, NEW y \in Rows
        PROVE  BmpPixel(File(w), w, x, y) = IF NotComputed(y) THEN Blue ELSE Colour(w, x, y)
    <3>1. y \in 0..Height-1
      BY DEF Rows
    <3>2. BmpPixel(Saved(d, w, Height), w, x, y) = d[y * w + x]
      BY <2>1, <2>2, <3>1, ShownPixel
    <3> QED
      BY <2>2, <2>3, <3>2, Zenon
  <2>5. CASE padlength(w) = 0 \/ Height <= 1
    <3>1. Loaded(Saved(d, w, Height), w, Height) = d
      BY <2>1, <2>2, <2>5, LoadedSame
    <3> QED
      BY <2>3, <2>4, <2>5, <3>1, Zenon DEF d
  <2>6. CASE failed = {} /\ padlength(w) # 0 /\ Height > 1
    <3>1. 0 \in 0..w * Height - 1 /\ w \in 0..w * Height - 1
      <4>1. 2 * w <= Height * w /\ Height * w = w * Height /\ Height * w \in Nat
        BY <2>1, <2>6, Monotone
      <4> DEFINE n == w * Height
      <4>2. 2 * w <= n /\ n \in Nat
        BY <4>1
      <4> HIDE DEF n
      <4>3. 0 \in 0..n - 1 /\ w \in 0..n - 1
        BY <2>1, <4>2
      <4> QED
        BY <4>3 DEF n
    <3>2. d[0][3] = 3 * 0 + 3 /\ d[w][3] = 3 * w + 3
      BY <2>2, <2>6, <3>1
    <3>3. d[0][3] # d[w][3]
      <4>1. 3 * 0 + 3 # 3 * w + 3
        BY <2>1
      <4> QED
        BY <3>2, <4>1, Zenon
    <3>4. Loaded(Saved(d, w, Height), w, Height) # d
      BY <2>1, <2>2, <2>6, <3>3, LoadedDiffers
    <3>5. ~(padlength(w) = 0 \/ Height <= 1)
      BY <2>1, <2>6
    <3> QED
      BY <2>3, <2>4, <3>4, <3>5, Zenon DEF d
  <2>7. (padlength(w) = 0 \/ Height <= 1) \/ (padlength(w) # 0 /\ Height > 1)
    BY <2>1
  <2> QED
    BY <2>4, <2>5, <2>6, <2>7
<1> QED
  BY <1>1, Inductive, SavedInductive, PTL
=============================================================================
