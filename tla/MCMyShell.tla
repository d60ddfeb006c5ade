----------------------------- MODULE MCMyShell ------------------------------
\* Instances of MyShell: two exit codes, and processes that die of a signal.
EXTENDS MyShell
=============================================================================
