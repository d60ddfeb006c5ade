------------------------------ MODULE TreeCopy ------------------------------
(***************************************************************************)
(* treecopy.c: main copies one file, or walks a directory and everything   *)
(* below it.  Any system call may fail, and then the program exits as it   *)
(* stands, except for write (see CopyLoop).                                *)
(***************************************************************************)
EXTENDS CopyLoop, FiniteSetsExt

CONSTANTS
  Kind,    \* "dir", "file" or "other"; what readdir's d_type says, too
  Dir,     \* the directory a node is in; Nobody for a root
  MaxOld   \* bound: the length of a file that is there already

ASSUME TreeAssumption ==
  /\ Kind \in [Nodes -> {"dir", "file", "other"}]
  /\ Dir \in [Nodes -> Nodes \cup {Nobody}]
  /\ \A n \in Nodes : Dir[n] # Nobody => Kind[Dir[n]] = "dir"
  /\ \A S \in SUBSET Nodes \ {{}} : \E n \in S : Dir[n] \notin S   \* no cycles
  /\ MaxOld \in Nat

VARIABLES
  source,      \* argv[1]
  dst,         \* what argv[2] names at first: "none", "file" or "dir"
  status,      \* "main", "running", "success" or "failure"
  stack,       \* the calls of walk: its directory, and the entries to come
  made,        \* the nodes whose copy has been created
  FILE_COUNT, DIR_COUNT

treeVars == <<source, dst, status, stack, made, FILE_COUNT, DIR_COUNT>>
vars     == <<copyVars, treeVars>>

Entries(d) == { n \in Nodes : Dir[n] = d }

Init ==
  /\ source \in Nodes
  /\ dst \in {"none", "file", "dir"}
  /\ \E old \in 0..MaxOld :
       /\ old > 0 => dst = "file" /\ Kind[source] = "file"
       /\ target = [n \in Nodes |-> IF n = source THEN [i \in 1..old |-> 0] ELSE <<>>]
  /\ status = "main"
  /\ stack = <<>>
  /\ made = {}
  /\ FILE_COUNT = 0 /\ DIR_COUNT = 0 /\ accumulated = 0
  /\ copy = Idle
  /\ errno = FALSE
  /\ failures = 0

Exit(code) ==
  /\ status' = code
  /\ UNCHANGED <<copyVars, source, dst, stack, made, FILE_COUNT, DIR_COUNT>>

-----------------------------------------------------------------------------
(* The beginnings of filecpy and of walk, called with below the entries    *)
(* that are left to the walks that go on.                                  *)

filecpy(n, below) ==
  /\ copy' = Opened(n)
  /\ made' = made \cup {n}
  /\ stack' = below
  /\ status' = "running"
  /\ UNCHANGED <<target, accumulated, errno, failures, source, dst, FILE_COUNT, DIR_COUNT>>

\* mkdir does not take a name that is there.  errno is cleared here only.
walk(d, below) ==
  /\ d = source => dst = "none"
  /\ made' = made \cup {d}
  /\ DIR_COUNT' = DIR_COUNT + 1
  /\ errno' = FALSE
  /\ stack' = Append(below, [dir |-> d, left |-> Entries(d)])
  /\ status' = "running"
  /\ UNCHANGED <<copy, target, accumulated, failures, source, dst, FILE_COUNT>>

-----------------------------------------------------------------------------
(* main                                                                    *)

\* The target is a directory, or the source is not there or neither file nor
\* directory; or it cannot be opened, or the target not made.
Refuse == status = "main" /\ Exit("failure")

Accept ==
  /\ status = "main"
  /\ dst # "dir"
  /\ \/ Kind[source] = "file" /\ filecpy(source, <<>>)
     \/ Kind[source] = "dir" /\ walk(source, <<>>)

Return ==
  /\ status = "running"
  /\ stack = <<>>
  /\ ~Copying
  /\ Exit("success")

-----------------------------------------------------------------------------
(* The loops of walk and filecpy.                                          *)

Walking == status = "running" /\ stack # <<>> /\ ~Copying
Top     == stack[Len(stack)]

\* The stack when entry n has been read.
Past(n) == [stack EXCEPT ![Len(stack)].left = @ \ {n}]

Descend(n) == Walking /\ n \in Top.left /\ Kind[n] = "dir" /\ walk(n, Past(n))
CopyFile(n) == Walking /\ n \in Top.left /\ Kind[n] = "file" /\ filecpy(n, Past(n))

\* Links, devices, pipes.
Skip(n) ==
  /\ Walking
  /\ n \in Top.left
  /\ Kind[n] = "other"
  /\ stack' = Past(n)
  /\ UNCHANGED <<copyVars, source, dst, status, made, FILE_COUNT, DIR_COUNT>>

\* Slip: the calls of walk share one DIR.
EndOfAll ==
  /\ Walking
  /\ Top.left = {}
  /\ ~errno
  /\ stack' = <<>>
  /\ UNCHANGED <<copyVars, source, dst, status, made, FILE_COUNT, DIR_COUNT>>

EndOfDir ==
  /\ Walking
  /\ Top.left = {}
  /\ ~errno
  /\ stack' = SubSeq(stack, 1, Len(stack) - 1)
  /\ UNCHANGED <<copyVars, source, dst, status, made, FILE_COUNT, DIR_COUNT>>

\* What a failing write has left in errno is taken for an error of readdir.
ErrnoAtEnd == Walking /\ Top.left = {} /\ errno /\ Exit("failure")

\* An open, opendir, mkdir, readdir or read fails.
Fail ==
  /\ status = "running"
  /\ Walking \/ MayNotRead
  /\ Exit("failure")

EndOfFile ==
  /\ status = "running"
  /\ AtEndOfFile
  /\ copy' = Idle
  /\ FILE_COUNT' = FILE_COUNT + 1
  /\ UNCHANGED <<target, accumulated, errno, failures,
                 source, dst, status, stack, made, DIR_COUNT>>

CopyStep == status = "running" /\ Loop /\ UNCHANGED treeVars

Next ==
  \/ Refuse \/ Accept \/ Return \/ EndOfDir \/ ErrnoAtEnd \/ EndOfFile \/ CopyStep \/ Fail
  \/ \E n \in Nodes : Descend(n) \/ CopyFile(n) \/ Skip(n)

Spec == Init /\ [][Next]_vars

-----------------------------------------------------------------------------
(* Properties.                                                             *)

\* The types of the variables.  No more is written than was read.
TypeOK ==
  /\ LoopTypeOK
  /\ source \in Nodes
  /\ status \in {"main", "running", "success", "failure"}
  /\ made \subseteq Nodes
  /\ \A i \in DOMAIN stack : Kind[stack[i].dir] = "dir" /\ stack[i].left \subseteq Entries(stack[i].dir)
  /\ FILE_COUNT \in Nat /\ DIR_COUNT \in Nat

\* A node and all that is below it: what every set that is closed downwards has.
Below ==
  [n \in Nodes |->
    { m \in Nodes : \A S \in SUBSET Nodes :
        n \in S /\ (\A k \in Nodes : Dir[k] \in S => k \in S) => m \in S }]

Dirs(n)   == { m \in Below[n] : Kind[m] = "dir" }
Files(n)  == { m \in Below[n] : Kind[m] = "file" }
Wanted(n) == Dirs(n) \cup Files(n)

\* All bytes of the file, in order, with others between them.
Holds(content, n) ==
  \E at \in [1..Size[n] -> DOMAIN content] :
    /\ \A i \in 1..Size[n] : content[at[i]] = i
    /\ \A i, k \in 1..Size[n] : i < k => at[i] < at[k]

Whole(n) == [i \in 1..Size[n] |-> i]

\* A program that tells success has lost no byte, whatever reads and writes were
\* short and whatever writes failed.  The copies are exact if no write failed, but
\* for the end of a longer file that was in the place; and also when some did and the
\* source is a directory without directories, because then errno gives it away.
NothingLost ==
  status = "success" =>
    /\ \A n \in Files(source) : Holds(target[n], n)
    /\ failures = 0 \/ Dirs(source) = {source} =>
         \A n \in Files(source) : SubSeq(target[n], 1, Size[n]) = Whole(n)
                               /\ (n # source => Len(target[n]) = Size[n])

\* The counts that main prints are those of the source, also when writes failed and
\* bytes were written twice.
CountsTrue ==
  status = "success" =>
    /\ FILE_COUNT = Cardinality(Files(source))
    /\ DIR_COUNT = Cardinality(Dirs(source))
    /\ accumulated = MapThenSumSet(LAMBDA n : Size[n], Files(source))

\* A file counts as copied when filecpy has come to its end.
Mirror == INSTANCE TreeMirror WITH
  copied  <- made \ {copy.node},
  outcome <- IF status \in {"success", "failure"} THEN status ELSE "running"

\* treecopy.c implements TreeMirror: a node is copied after the directory it is in,
\* and success is told only when everything below the source is copied.
ImplementsMirror == Mirror!Spec
=============================================================================
