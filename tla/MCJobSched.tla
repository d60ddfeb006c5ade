----------------------------- MODULE MCJobSched -----------------------------
(* Small instances of JobSched for TLC.  Process ids are interchangeable in  *)
(* every safety property, so their permutations are symmetries of those runs *)
EXTENDS JobSchedProperties

PidSymmetry == Permutations(Pids)
=============================================================================
