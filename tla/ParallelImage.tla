--------------------------- MODULE ParallelImage ----------------------------
(***************************************************************************)
(* What the image programs of "03. Parallel Programming" promise, however  *)
(* they divide the work: each row of the image is computed once, in any    *)
(* order, and the image is saved when all of them have been.               *)
(***************************************************************************)
EXTENDS Integers

CONSTANT Height      \* rows of the image

VARIABLES
  computed,   \* the rows that have been computed
  saved       \* the image file has been written

imageVars == <<computed, saved>>

Init ==
  /\ computed = {}
  /\ saved = FALSE

ComputeOne ==
  /\ ~saved
  /\ \E row \in (0..Height-1) \ computed : computed' = computed \cup {row}
  /\ UNCHANGED saved

Save ==
  /\ ~saved
  /\ computed = 0..Height-1
  /\ saved' = TRUE
  /\ UNCHANGED computed

Next == ComputeOne \/ Save

Spec == Init /\ [][Next]_imageVars
=============================================================================
