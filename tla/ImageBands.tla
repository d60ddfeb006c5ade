----------------------------- MODULE ImageBands -----------------------------
(***************************************************************************)
(* How fractaltask.c, fractalthread.c and mandel.c divide the rows of an   *)
(* image of height h into n bands 0..n-1: rows start(i) to end(i)-1.  The  *)
(* programs multiply in float, which is exact up to 2^24 rows.             *)
(***************************************************************************)
EXTENDS Integers

y_start(h, n, i) == i * (h \div n)

\* Slip: the remainder is left out.
y_end_plain(h, n, i) == (i + 1) * (h \div n)
y_end(h, n, i) == (i + 1) * (h \div n) + (IF i = n - 1 THEN h % n ELSE 0)

\* for (j = start; j < end; j++)
Band(h, n, i) == y_start(h, n, i) .. y_end(h, n, i) - 1

\* The bands are a partition of the rows: none is lost, none is computed by two
\* workers that would write the same pixels at once.
Partition(h, n) ==
  /\ UNION { Band(h, n, i) : i \in 0..n-1 } = 0..h-1
  /\ \A i, k \in 0..n-1 : i # k => Band(h, n, i) \cap Band(h, n, k) = {}
=============================================================================
