-------------------------- MODULE ImageBandsProofs --------------------------
(***************************************************************************)
(* The bands of ImageBands are a partition of the rows, for every height   *)
(* and every number of bands.                                              *)
(***************************************************************************)
EXTENDS ImageBands, TLAPS

\* The quotient and the remainder that the programs compute with / and %.
LEMMA DivMod ==
  ASSUME NEW h \in Nat, NEW n \in Nat \ {0}
  PROVE  /\ h \div n \in Nat
         /\ h % n \in 0..n-1
         /\ h = n * (h \div n) + (h % n)
<1>1. h \in Int /\ n \in Int /\ n > 0 /\ h >= 0
  OBVIOUS
<1>2. h \div n \in Int /\ h % n \in 0..n-1
  BY <1>1
<1>3. h = n * (h \div n) + (h % n)
  BY <1>1, SMTT(30)
<1>4. h \div n >= 0
  BY <1>1, SMTT(30)
<1> QED
  BY <1>2, <1>3, <1>4

\* A smaller number of bands takes fewer rows.
LEMMA Monotone ==
  ASSUME NEW a \in Nat, NEW b \in Nat, NEW q \in Nat, a <= b
  PROVE  a * q <= b * q /\ a * q \in Nat /\ b * q \in Nat
<1>1. PICK d \in Nat : b = a + d
  <2> WITNESS b - a \in Nat
  <2> QED
    OBVIOUS
<1>2. b * q = a * q + d * q
  BY <1>1
<1>3. a * q \in Nat /\ b * q \in Nat /\ d * q \in Nat
  OBVIOUS
<1> QED
  BY <1>2, <1>3

\* Every band lies in the image.
LEMMA BandBounds ==
  ASSUME NEW h \in Nat, NEW n \in Nat \ {0}, NEW i \in 0..n-1
  PROVE  /\ y_start(h, n, i) \in Nat
         /\ y_end(h, n, i) \in Nat
         /\ y_start(h, n, i) <= y_end(h, n, i)
         /\ y_end(h, n, i) <= h
<1> DEFINE q == h \div n
           r == h % n
<1>1. q \in Nat /\ r \in 0..n-1 /\ h = n * q + r
  BY DivMod
<1> HIDE DEF q, r
<1>2. i * q <= (i + 1) * q /\ i * q \in Nat /\ (i + 1) * q \in Nat
  BY <1>1, Monotone
<1>3. (i + 1) * q <= n * q
  BY <1>1, Monotone
<1>4. y_start(h, n, i) = i * q
  BY DEF y_start, q
<1>5. y_end(h, n, i) = (i + 1) * q + (IF i = n - 1 THEN r ELSE 0)
  BY DEF y_end, q, r
<1>6. n * q \in Nat /\ r \in Nat
  BY <1>1
<1> QED
  BY <1>1, <1>2, <1>3, <1>4, <1>5, <1>6

\* A band ends before the next one starts.
LEMMA BandsInOrder ==
  ASSUME NEW h \in Nat, NEW n \in Nat \ {0},
         NEW i \in 0..n-1, NEW k \in 0..n-1, i < k
  PROVE  y_end(h, n, i) <= y_start(h, n, k)
<1> DEFINE q == h \div n
<1>1. q \in Nat
  BY DivMod
<1> HIDE DEF q
<1>2. (i + 1) * q <= k * q /\ (i + 1) * q \in Nat
  BY <1>1, Monotone
<1>3. y_end(h, n, i) = (i + 1) * q + 0
  BY DEF y_end, q
<1>4. y_start(h, n, k) = k * q
  BY DEF y_start, q
<1> QED
  BY <1>2, <1>3, <1>4

\* Every row is in some band.
LEMMA BandsCover ==
  ASSUME NEW h \in Nat, NEW n \in Nat \ {0}, NEW row \in 0..h-1
  PROVE  \E i \in 0..n-1 : row \in Band(h, n, i)
<1> DEFINE q == h \div n
           r == h % n
<1>1. q \in Nat /\ r \in 0..n-1 /\ h = n * q + r
  BY DivMod
<1>2. ASSUME NEW i \in 0..n-1
      PROVE  /\ y_start(h, n, i) = i * q
             /\ y_end(h, n, i) = (i + 1) * q + (IF i = n - 1 THEN r ELSE 0)
             /\ y_start(h, n, i) \in Nat
             /\ y_end(h, n, i) \in Nat
  BY <1>2, BandBounds DEF y_start, y_end
<1> HIDE DEF q, r
<1>3. CASE row >= (n - 1) * q
  <2>1. n - 1 \in 0..n-1
    OBVIOUS
  <2>2. y_start(h, n, n - 1) = (n - 1) * q /\ y_end(h, n, n - 1) = n * q + r
    BY <1>2, <2>1
  <2>3. row \in Band(h, n, n - 1)
    BY <1>1, <1>2, <1>3, <2>1, <2>2 DEF Band
  <2> QED
    BY <2>1, <2>3
<1>4. CASE row < (n - 1) * q
  <2> DEFINE i == row \div q
             s == row % q
  <2>1. q \in Nat \ {0} /\ row \in Nat
    BY <1>1, <1>4
  <2>2. i \in Nat /\ s \in 0..q-1 /\ row = q * i + s
    BY <2>1, DivMod
  <2> HIDE DEF i, s
  <2>3. q * i = i * q /\ (i + 1) * q = i * q + q
    BY <1>1, <2>2
  <2>4. i < n - 1
    <3> SUFFICES ASSUME i >= n - 1
                 PROVE  FALSE
      BY <2>2
    <3>1. (n - 1) * q <= i * q
      BY <1>1, <2>2, Monotone
    <3>2. (n - 1) * q \in Nat /\ i * q \in Nat
      BY <1>1, <2>2
    <3> QED
      BY <1>4, <2>2, <2>3, <3>1, <3>2
  <2>5. i \in 0..n-1 /\ i # n - 1
    BY <2>2, <2>4
  <2>6. y_start(h, n, i) = i * q /\ y_end(h, n, i) = (i + 1) * q + 0
    BY <1>2, <2>5
  <2>7. row \in Band(h, n, i)
    BY <1>1, <2>2, <2>3, <2>6 DEF Band
  <2> QED
    BY <2>5, <2>7
<1>5. (n - 1) * q \in Nat
  BY <1>1
<1> QED
  BY <1>3, <1>4, <1>5

\* Whatever the height of the image and the number of bands, no row is lost
\* and no two bands share one (the arithmetic of y_start and y_end).
THEOREM BandsPartition ==
  ASSUME NEW h \in Nat, NEW n \in Nat \ {0}
  PROVE  Partition(h, n)
<1>1. ASSUME NEW i \in 0..n-1
      PROVE  Band(h, n, i) \subseteq 0..h-1
  <2>1. y_start(h, n, i) \in Nat /\ y_end(h, n, i) \in Nat /\ y_end(h, n, i) <= h
    BY <1>1, BandBounds
  <2> QED
    BY <2>1 DEF Band
<1>2. UNION { Band(h, n, i) : i \in 0..n-1 } = 0..h-1
  BY <1>1, BandsCover
<1>3. ASSUME NEW i \in 0..n-1, NEW k \in 0..n-1, i < k
      PROVE  Band(h, n, i) \cap Band(h, n, k) = {}
  BY <1>3, BandBounds, BandsInOrder DEF Band
<1>4. ASSUME NEW i \in 0..n-1, NEW k \in 0..n-1, i # k
      PROVE  Band(h, n, i) \cap Band(h, n, k) = {}
  <2>1. i < k \/ k < i
    BY <1>4
  <2> QED
    BY <1>3, <2>1
<1> QED
  BY <1>2, <1>4 DEF Partition
=============================================================================
