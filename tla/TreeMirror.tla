----------------------------- MODULE TreeMirror -----------------------------
(***************************************************************************)
(* What a copy of a tree promises: nodes are copied one at a time, a node  *)
(* never before the directory it is in, and success is told only when      *)
(* every directory and file of the source is copied.  It may fail at any   *)
(* time.                                                                   *)
(***************************************************************************)
CONSTANTS
  Nodes,      \* directories, files and other things
  Dir,        \* the directory a node is in
  Wanted(_)   \* the nodes to copy for a given source

VARIABLES
  source,    \* what is to be copied
  copied,    \* the nodes that are there
  outcome    \* "running", "success" or "failure"

vars == <<source, copied, outcome>>

Init ==
  /\ source \in Nodes
  /\ copied = {}
  /\ outcome = "running"

CopyOne(n) ==
  /\ outcome = "running"
  /\ n \in Wanted(source) \ copied
  /\ n = source \/ Dir[n] \in copied
  /\ copied' = copied \cup {n}
  /\ UNCHANGED <<source, outcome>>

Succeed ==
  /\ outcome = "running"
  /\ Wanted(source) \subseteq copied
  /\ outcome' = "success"
  /\ UNCHANGED <<source, copied>>

Fail ==
  /\ outcome = "running"
  /\ outcome' = "failure"
  /\ UNCHANGED <<source, copied>>

Next == (\E n \in Nodes : CopyOne(n)) \/ Succeed \/ Fail

Spec == Init /\ [][Next]_vars
=============================================================================
