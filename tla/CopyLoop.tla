------------------------------ MODULE CopyLoop ------------------------------
(***************************************************************************)
(* "01. System Calls and Error Checking": the loop of reads and writes of  *)
(* filecopy.c, which is also in filecpy of silecopy.c and treecopy.c.      *)
(* Reads and writes may be short, and writes may fail.  What is written is *)
(* told by the place in the source that it comes from; 0 is a byte that    *)
(* does not come from the source.                                          *)
(***************************************************************************)
EXTENDS Integers, Sequences

CONSTANTS
  Nodes,        \* what is in the file system
  Nobody,       \* no node
  Size,         \* how many bytes a node has
  BUFSIZ,
  MaxFailures   \* bound: failing writes.  A write that never works is a loop for ever

ASSUME CopyAssumption ==
  /\ Nobody \notin Nodes
  /\ Size \in [Nodes -> Nat]
  /\ BUFSIZ \in Nat \ {0}
  /\ MaxFailures \in Nat

VARIABLES
  copy,         \* src, rfd's and wfd's offsets before and after the buffer, nread, nwritten
  target,       \* for each node, what is in the file it is copied to
  accumulated,  \* BYTE_COUNT in treecopy.c
  errno,        \* is not 0
  failures      \* writes that failed

copyVars == <<copy, target, accumulated, errno, failures>>

Idle == [node |-> Nobody, offset |-> 0, pos |-> 0, nread |-> 0, nwritten |-> 0]

Copying == copy.node # Nobody

\* Both descriptors are open, at 0.  Nothing is truncated.
Opened(n) == [Idle EXCEPT !.node = n]

\* read() returns some of what is left.
Read ==
  /\ Copying
  /\ copy.nwritten = copy.nread
  /\ \E k \in 1..BUFSIZ :
       /\ copy.offset + copy.nread + k <= Size[copy.node]
       /\ copy' = [copy EXCEPT !.offset = @ + copy.nread, !.nread = k, !.nwritten = 0]
  /\ UNCHANGED <<target, accumulated, errno, failures>>

\* The bytes of the buffer from nwritten on; before the buffer there is something else.
FromBuffer(k) ==
  [i \in 1..k |-> IF copy.nwritten + i >= 1 THEN copy.offset + copy.nwritten + i ELSE 0]

Overwrite(old, pos, bytes) ==
  SubSeq(old, 1, pos) \o bytes \o SubSeq(old, pos + Len(bytes) + 1, Len(old))

\* The length given to write().  Slip: the whole buffer again.
WholeBuffer == copy.nread
Request     == copy.nread - copy.nwritten

\* Slip: what the last write wrote.
LastWritten(k) == k
Counted(k)     == copy.nread

\* Slip: one write for one read, however short.
WriteOnce ==
  /\ Copying
  /\ copy.nwritten # copy.nread
  /\ \E k \in 1..Request :
       /\ target' = [target EXCEPT ![copy.node] = Overwrite(@, copy.pos, FromBuffer(k))]
       /\ copy' = [copy EXCEPT !.pos = @ + k, !.nwritten = copy.nread]
       /\ accumulated' = accumulated + Counted(k)
  /\ UNCHANGED <<errno, failures>>

Write ==
  /\ Copying
  /\ copy.nwritten # copy.nread
  /\ \E k \in 1..Request :
       /\ target' = [target EXCEPT ![copy.node] = Overwrite(@, copy.pos, FromBuffer(k))]
       /\ copy' = [copy EXCEPT !.pos = @ + k, !.nwritten = @ + k]
       /\ accumulated' = IF copy'.nwritten = copy.nread
                         THEN accumulated + Counted(k) ELSE accumulated
  /\ UNCHANGED <<errno, failures>>

\* -1 is added to nwritten: the next write begins one byte earlier.
WriteFails ==
  /\ Copying
  /\ copy.nwritten # copy.nread
  /\ failures < MaxFailures
  /\ copy' = [copy EXCEPT !.nwritten = @ - 1]
  /\ errno' = TRUE
  /\ failures' = failures + 1
  /\ UNCHANGED <<target, accumulated>>

\* read() returns 0, or -1.
AtEndOfFile == Copying /\ copy.nwritten = copy.nread /\ copy.offset + copy.nread = Size[copy.node]
MayNotRead  == Copying /\ copy.nwritten = copy.nread

Loop == Read \/ Write \/ WriteFails

-----------------------------------------------------------------------------
\* The types of the variables.
LoopTypeOK ==
  /\ copy \in [node : Nodes \cup {Nobody}, offset : Nat, pos : Nat,
               nread : 0..BUFSIZ, nwritten : -MaxFailures..BUFSIZ]
  /\ copy.nwritten <= copy.nread
  /\ Copying => copy.offset + copy.nread <= Size[copy.node]
  /\ DOMAIN target = Nodes
  /\ \A n \in Nodes : \A i \in DOMAIN target[n] : target[n][i] \in 0..Size[n]
  /\ accumulated \in Nat
  /\ errno \in BOOLEAN
  /\ failures \in 0..MaxFailures
=============================================================================
