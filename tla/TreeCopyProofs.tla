--------------------------- MODULE TreeCopyProofs ---------------------------
(***************************************************************************)
(* Theorems about treecopy.c, for any tree of directories and files of any *)
(* sizes, any size of the buffer and any number of failing writes.         *)
(***************************************************************************)
EXTENDS TreeCopy, FiniteSetTheorems, SequenceTheorems, WellFoundedInduction, TLAPS

-----------------------------------------------------------------------------
(* The operators of the model.                                             *)

\* What is below a node: the node itself, and what is in a directory below it; and
\* whoever contains that much contains all.
LEMMA BelowIsClosed ==
  ASSUME NEW n \in Nodes
  PROVE  /\ n \in Below[n] /\ Below[n] \subseteq Nodes
         /\ \A k \in Nodes : Dir[k] \in Below[n] => k \in Below[n]
         /\ \A S \in SUBSET Nodes :
              n \in S /\ (\A k \in Nodes : Dir[k] \in S => k \in S) => Below[n] \subseteq S
BY DEF Below

\* Below a node, everything but the node itself is in a directory below it.
LEMMA BelowHasParent ==
  ASSUME NEW n \in Nodes, NEW m \in Below[n], m # n
  PROVE  Dir[m] \in Below[n]
<1> DEFINE S == { k \in Below[n] : k = n \/ Dir[k] \in Below[n] }
<1>1. S \in SUBSET Nodes /\ n \in S
  BY BelowIsClosed
<1>2. \A k \in Nodes : Dir[k] \in S => k \in S
  BY BelowIsClosed
<1>3. m \in S
  <2> HIDE DEF S
  <2> QED
    BY <1>1, <1>2, BelowIsClosed
<1> QED
  BY <1>3

\* The tree has no cycles: a node is not in a directory below itself.
LEMMA NotBelowItself ==
  ASSUME NEW n \in Nodes
  PROVE  Dir[n] \notin Below[n]
<1> SUFFICES ASSUME Dir[n] \in Below[n] PROVE FALSE
  OBVIOUS
<1> DEFINE Cycle == { k \in Below[n] : n \in Below[k] }
<1>1. Cycle \subseteq Nodes /\ n \in Cycle
  BY BelowIsClosed
<1>2. ASSUME NEW k \in Cycle
      PROVE  Dir[k] \in Cycle
  <2>1. k \in Nodes /\ k \in Below[n] /\ n \in Below[k]
    BY <1>1
  <2>2. Dir[k] \in Below[n]
    BY <2>1, BelowHasParent
  <2>3. Dir[k] \in Nodes
    BY <2>2, BelowIsClosed
  <2>4. k \in Below[Dir[k]]
    BY <2>1, <2>3, BelowIsClosed
  <2>5. Below[k] \subseteq Below[Dir[k]]
    BY <2>1, <2>3, <2>4, BelowIsClosed
  <2> QED
    BY <2>1, <2>2, <2>5
<1> QED
  BY <1>1, <1>2, TreeAssumption

\* The elements of a concatenation.
LEMMA Concatenated ==
  ASSUME NEW a \in Seq(Nat), NEW b \in Seq(Nat)
  PROVE  /\ a \o b \in Seq(Nat) /\ Len(a \o b) = Len(a) + Len(b)
         /\ \A i \in 1..Len(a) : (a \o b)[i] = a[i]
         /\ \A i \in 1..Len(b) : (a \o b)[Len(a) + i] = b[i]
<1>1. Len(a) \in Nat /\ Len(b) \in Nat
  BY LenProperties
<1>2. /\ a \o b \in Seq(Nat) /\ Len(a \o b) = Len(a) + Len(b)
      /\ \A i \in 1..Len(a) + Len(b) :
           (a \o b)[i] = IF i <= Len(a) THEN a[i] ELSE b[i - Len(a)]
  BY ConcatProperties
<1>3. \A i \in 1..Len(b) : (a \o b)[Len(a) + i] = b[i]
  <2> SUFFICES ASSUME NEW i \in 1..Len(b) PROVE (a \o b)[Len(a) + i] = b[i]
    OBVIOUS
  <2> DEFINE k == Len(a) + i
  <2>1. k \in 1..Len(a) + Len(b) /\ ~(k <= Len(a)) /\ k - Len(a) = i
    BY <1>1
  <2> HIDE DEF k
  <2>2. (a \o b)[k] = b[k - Len(a)]
    BY <1>2, <2>1
  <2> QED
    BY <2>1, <2>2 DEF k
<1> QED
  BY <1>1, <1>2, <1>3

\* What write leaves of a file: the bytes before pos, those written, those behind.
LEMMA Overwritten ==
  ASSUME NEW old \in Seq(Nat), NEW bytes \in Seq(Nat), NEW pos \in 0..Len(old)
  PROVE  /\ Overwrite(old, pos, bytes) \in Seq(Nat)
         /\ Len(Overwrite(old, pos, bytes)) =
              IF pos + Len(bytes) <= Len(old) THEN Len(old) ELSE pos + Len(bytes)
         /\ \A i \in 1..pos : Overwrite(old, pos, bytes)[i] = old[i]
         /\ \A i \in 1..Len(bytes) : Overwrite(old, pos, bytes)[pos + i] = bytes[i]
         /\ \A i \in pos + Len(bytes) + 1..Len(old) : Overwrite(old, pos, bytes)[i] = old[i]
<1> DEFINE head == SubSeq(old, 1, pos)
           tail == SubSeq(old, pos + Len(bytes) + 1, Len(old))
           both == head \o bytes
<1>1. Len(old) \in Nat /\ Len(bytes) \in Nat /\ \A i \in 1..Len(old) : old[i] \in Nat
  BY LenProperties, ElementOfSeq
<1>2. /\ head \in Seq(Nat) /\ Len(head) = pos
      /\ \A i \in 1..pos : head[i] = old[i]
  BY <1>1, SubSeqProperties
<1>3. /\ tail \in Seq(Nat)
      /\ Len(tail) = IF pos + Len(bytes) + 1 <= Len(old) THEN Len(old) - (pos + Len(bytes)) ELSE 0
      /\ \A i \in 1..Len(tail) : tail[i] = old[pos + Len(bytes) + i]
  BY <1>1, SubSeqProperties
<1> HIDE DEF head, tail
<1>4. /\ both \in Seq(Nat) /\ Len(both) = pos + Len(bytes)
      /\ \A i \in 1..pos : both[i] = old[i]
      /\ \A i \in 1..Len(bytes) : both[pos + i] = bytes[i]
  BY <1>1, <1>2, Concatenated
<1> HIDE DEF both
<1>5. /\ both \o tail \in Seq(Nat) /\ Len(both \o tail) = pos + Len(bytes) + Len(tail)
      /\ \A i \in 1..pos + Len(bytes) : (both \o tail)[i] = both[i]
      /\ \A i \in 1..Len(tail) : (both \o tail)[pos + Len(bytes) + i] = tail[i]
  <2>1. /\ both \o tail \in Seq(Nat) /\ Len(both \o tail) = Len(both) + Len(tail)
        /\ \A i \in 1..Len(both) : (both \o tail)[i] = both[i]
        /\ \A i \in 1..Len(tail) : (both \o tail)[Len(both) + i] = tail[i]
    BY <1>3, <1>4, Concatenated
  <2> QED
    BY <1>4, <2>1
<1>6. Overwrite(old, pos, bytes) = both \o tail
  BY DEF Overwrite, head, tail, both
<1>7. \A i \in pos + Len(bytes) + 1..Len(old) : (both \o tail)[i] = old[i]
  <2> SUFFICES ASSUME NEW i \in pos + Len(bytes) + 1..Len(old)
               PROVE  (both \o tail)[i] = old[i]
    OBVIOUS
  <2> DEFINE k == i - (pos + Len(bytes))
  <2>1. k \in 1..Len(tail) /\ pos + Len(bytes) + k = i
    BY <1>1, <1>3
  <2> HIDE DEF k
  <2> QED
    BY <1>3, <1>5, <2>1
<1>8. /\ \A i \in 1..pos : (both \o tail)[i] = old[i]
      /\ \A i \in 1..Len(bytes) : (both \o tail)[pos + i] = bytes[i]
  <2>1. \A i \in 1..pos : i \in 1..pos + Len(bytes)
    BY <1>1
  <2>2. \A i \in 1..Len(bytes) : pos + i \in 1..pos + Len(bytes)
    BY <1>1
  <2>3. \A i \in 1..pos : (both \o tail)[i] = old[i]
    BY <1>4, <1>5, <2>1, Zenon
  <2>4. \A i \in 1..Len(bytes) : (both \o tail)[pos + i] = bytes[i]
    BY <1>4, <1>5, <2>2, Zenon
  <2> QED
    BY <2>3, <2>4
<1>9. Len(both \o tail) = IF pos + Len(bytes) <= Len(old) THEN Len(old) ELSE pos + Len(bytes)
  <2> DEFINE n == Len(old)
             b == Len(bytes)
             r == Len(tail)
  <2>1. n \in Nat /\ b \in Nat /\ pos \in 0..n
    BY <1>1
  <2>2. r = IF pos + b + 1 <= n THEN n - (pos + b) ELSE 0
    BY <1>3
  <2>3. Len(both \o tail) = pos + b + r
    BY <1>5
  <2> HIDE DEF n, b, r
  <2>4. pos + b + r = IF pos + b <= n THEN n ELSE pos + b
    BY <2>1, <2>2
  <2>5. Len(both \o tail) = IF pos + b <= n THEN n ELSE pos + b
    BY <2>3, <2>4
  <2> QED
    BY <2>5 DEF n, b
<1> QED
  BY <1>5, <1>6, <1>7, <1>8, <1>9

-----------------------------------------------------------------------------
(* The inductive invariant, in parts.                                      *)

\* The calls of walk that the stack can hold.
Frames == [dir : Nodes, left : SUBSET Nodes]

Calls(st) ==
  /\ st \in Seq(Frames)
  /\ \A i \in DOMAIN st : Kind[st[i].dir] = "dir" /\ st[i].left \subseteq Entries(st[i].dir)

\* The types, and what bounds the numbers: a failing write takes one from nwritten,
\* and filecpy writes within the target or at its end.
TypeInv ==
  /\ TypeOK
  /\ copy.nwritten >= -failures
  /\ target \in [Nodes -> Seq(Nat)]
  /\ Copying => copy.pos <= Len(target[copy.node])
  /\ Calls(stack)

\* What is on the stack: directories that are made, each once, and entries that are
\* not made yet.
Pending(st, m) ==
  /\ \A i \in DOMAIN st : st[i].dir \in m /\ st[i].left \cap m = {}
  /\ \A i, k \in DOMAIN st : st[i].dir = st[k].dir => i = k

StackInv == Pending(stack, made)

\* An entry of the directories ds is made, or not to be copied, or on the stack.
Covers(st, m, ds) ==
  \A n \in Nodes : Dir[n] \in ds =>
    n \in m \/ Kind[n] = "other" \/ \E i \in DOMAIN st : n \in st[i].left

\* What is made: nothing at first, then the source and parts of it only, each in a
\* directory that is made.
MadeInv ==
  /\ made \subseteq Wanted(source)
  /\ \A n \in made : n = source \/ Dir[n] \in made
  /\ Covers(stack, made, made)
  /\ Copying => copy.node \in made /\ Kind[copy.node] = "file"
  /\ Copying /\ stack = <<>> => copy.node = source
  /\ status = "main" => made = {} /\ stack = <<>> /\ ~Copying /\ failures = 0
  /\ status = "running" => source \in made
  /\ status = "success" => source \in made /\ stack = <<>> /\ ~Copying

\* How many bytes of the file are known to have been written.
Carried == copy.offset + (IF copy.nwritten < 0 THEN 0 ELSE copy.nwritten)

\* The first m bytes of a file, in order, are among the first p of content.
Carries(content, m, p) ==
  \E at \in [1..m -> 1..p] :
    /\ \A i \in 1..m : content[at[i]] = i
    /\ \A i, k \in 1..m : i < k => at[i] < at[k]

Done(n) == n \in made /\ Kind[n] = "file" /\ n # copy.node

\* The contents of the targets: those not begun, the one in work, those done.
ContentInv ==
  /\ \A n \in Nodes \ made : n # source => target[n] = <<>>
  /\ Copying =>
       /\ Carries(target[copy.node], Carried, copy.pos)
       /\ copy.node # source => Len(target[copy.node]) = copy.pos
       /\ failures = 0 =>
            /\ copy.pos = copy.offset + copy.nwritten
            /\ \A i \in 1..copy.pos : target[copy.node][i] = i
  /\ \A n \in Nodes : Done(n) =>
       /\ Carries(target[n], Size[n], Len(target[n]))
       /\ failures = 0 =>
            /\ Len(target[n]) >= Size[n]
            /\ \A i \in 1..Size[n] : target[n][i] = i
            /\ n # source => Len(target[n]) = Size[n]

\* With one directory only, errno is not cleared after a write has failed.
ErrnoInv ==
  Dirs(source) = {source} /\ status # "failure" /\ failures # 0 => stack # <<>> /\ errno

IInv == TypeInv /\ StackInv /\ MadeInv /\ ContentInv /\ ErrnoInv
-----------------------------------------------------------------------------
(* The stack.                                                              *)

LEMMA StackRead ==
  ASSUME stack \in Seq(Frames), stack # <<>>, NEW n \in Nodes
  PROVE  /\ Len(stack) \in Nat \ {0} /\ DOMAIN stack = 1..Len(stack)
         /\ Top \in Frames
         /\ Past(n) \in Seq(Frames) /\ Past(n) # <<>>
         /\ DOMAIN Past(n) = 1..Len(stack) /\ Len(Past(n)) = Len(stack)
         /\ \A i \in 1..Len(stack) : i # Len(stack) => Past(n)[i] = stack[i]
         /\ Past(n)[Len(stack)].dir = Top.dir
         /\ Past(n)[Len(stack)].left = Top.left \ {n}
<1>1. Len(stack) \in Nat /\ DOMAIN stack = 1..Len(stack) /\ stack \in [1..Len(stack) -> Frames]
  BY LenProperties
<1>2. Len(stack) # 0
  BY EmptySeq
<1> DEFINE k == Len(stack)
           frame == [stack[k] EXCEPT !.left = @ \ {n}]
<1>3. k \in 1..Len(stack) /\ Top = stack[k] /\ Top \in Frames
  BY <1>1, <1>2 DEF Top
<1>4. frame \in Frames /\ frame.dir = Top.dir /\ frame.left = Top.left \ {n}
  BY <1>3 DEF Frames
<1>5. Past(n) = [stack EXCEPT ![k] = frame]
  BY DEF Past
<1> HIDE DEF k, frame
<1>6. Past(n) \in Seq(Frames) /\ Len(Past(n)) = Len(stack)
  BY <1>3, <1>4, <1>5, ExceptSeq
<1>7. /\ DOMAIN Past(n) = 1..Len(stack)
      /\ \A i \in 1..Len(stack) : i # k => Past(n)[i] = stack[i]
      /\ Past(n)[k] = frame
  BY <1>1, <1>3, <1>5
<1>8. Past(n) # <<>>
  BY <1>2, <1>6, EmptySeq
<1> QED
  BY <1>1, <1>2, <1>3, <1>4, <1>6, <1>7, <1>8 DEF k

LEMMA StackPushed ==
  ASSUME NEW below \in Seq(Frames), NEW frame \in Frames
  PROVE  /\ Append(below, frame) \in Seq(Frames) /\ Append(below, frame) # <<>>
         /\ Len(below) \in Nat /\ DOMAIN below = 1..Len(below)
         /\ DOMAIN Append(below, frame) = 1..Len(below) + 1
         /\ \A i \in 1..Len(below) : Append(below, frame)[i] = below[i]
         /\ Append(below, frame)[Len(below) + 1] = frame
<1>1. /\ Append(below, frame) \in Seq(Frames) /\ Len(Append(below, frame)) = Len(below) + 1
      /\ \A i \in 1..Len(below) : Append(below, frame)[i] = below[i]
      /\ Append(below, frame)[Len(below) + 1] = frame
  BY AppendProperties
<1>2. Len(below) \in Nat /\ DOMAIN below = 1..Len(below)
  BY LenProperties
<1>3. DOMAIN Append(below, frame) = 1..Len(below) + 1
  BY <1>1, LenProperties
<1>4. Append(below, frame) # <<>>
  BY <1>1, <1>2, EmptySeq
<1> QED
  BY <1>1, <1>2, <1>3, <1>4

LEMMA StackPopped ==
  ASSUME stack \in Seq(Frames), stack # <<>>, NEW rest, rest = SubSeq(stack, 1, Len(stack) - 1)
  PROVE  /\ rest \in Seq(Frames) /\ DOMAIN rest = 1..Len(stack) - 1
         /\ \A i \in 1..Len(stack) - 1 : rest[i] = stack[i]
<1>1. Len(stack) \in Nat \ {0} /\ DOMAIN stack = 1..Len(stack)
  BY LenProperties, EmptySeq
<1>2. /\ rest \in Seq(Frames) /\ Len(rest) = Len(stack) - 1
      /\ \A i \in 1..Len(stack) - 1 : rest[i] = stack[i]
  BY <1>1, SubSeqProperties
<1> QED
  BY <1>2, LenProperties
LEMMA CallsStay ==
  ASSUME Calls(stack), stack # <<>>
  PROVE  /\ \A n \in Nodes : Calls(Past(n))
         /\ Calls(SubSeq(stack, 1, Len(stack) - 1))
         /\ Top \in Frames /\ Kind[Top.dir] = "dir" /\ Top.left \subseteq Entries(Top.dir)
<1>1. stack \in Seq(Frames)
  BY DEF Calls
<1>2. ASSUME NEW n \in Nodes
      PROVE  Calls(Past(n)) /\ Top \in Frames /\ Len(stack) \in DOMAIN stack
             /\ Kind[Top.dir] = "dir" /\ Top.left \subseteq Entries(Top.dir)
  BY <1>1, StackRead DEF Calls, Top
<1>3. Calls(SubSeq(stack, 1, Len(stack) - 1))
  <2> DEFINE rest == SubSeq(stack, 1, Len(stack) - 1)
  <2>1. /\ rest \in Seq(Frames) /\ DOMAIN rest = 1..Len(stack) - 1
        /\ \A i \in 1..Len(stack) - 1 : rest[i] = stack[i]
    BY <1>1, StackPopped
  <2>2. DOMAIN stack = 1..Len(stack) /\ Len(stack) \in Nat
    BY <1>1, LenProperties
  <2> QED
    BY <2>1, <2>2 DEF Calls
<1>4. Len(stack) \in DOMAIN stack
  BY <1>1, LenProperties, EmptySeq
<1>5. Top \in Frames /\ Kind[Top.dir] = "dir" /\ Top.left \subseteq Entries(Top.dir)
  BY <1>1, <1>4, ElementOfSeq, LenProperties DEF Calls, Top
<1> QED
  BY <1>2, <1>3, <1>5

LEMMA CallsGrow ==
  ASSUME NEW below, Calls(below), NEW d \in Nodes, Kind[d] = "dir"
  PROVE  Calls(Append(below, [dir |-> d, left |-> Entries(d)]))
<1> DEFINE frame == [dir |-> d, left |-> Entries(d)]
<1>1. frame \in Frames /\ frame.dir = d /\ frame.left = Entries(d)
  BY DEF Frames, Entries
<1>2. below \in Seq(Frames)
  BY DEF Calls
<1> HIDE DEF frame
<1>3. Calls(Append(below, frame))
  BY <1>1, <1>2, StackPushed DEF Calls
<1> QED
  BY <1>3 DEF frame

-----------------------------------------------------------------------------
(* The types.                                                              *)

LEMMA InitTypeInv == Init => TypeInv
<1> SUFFICES ASSUME Init PROVE TypeInv
  OBVIOUS
<1>1. PICK old \in 0..MaxOld :
        target = [n \in Nodes |-> IF n = source THEN [i \in 1..old |-> 0] ELSE <<>>]
  BY DEF Init
<1>2. ASSUME NEW n \in Nodes
      PROVE  target[n] \in Seq(Nat) /\ \A i \in DOMAIN target[n] : target[n][i] \in 0..Size[n]
  <2>1. [i \in 1..old |-> 0] \in Seq(Nat)
    BY <1>1, IsASeq, TreeAssumption
  <2>2. CASE n = source
    BY <1>1, <2>1, <2>2, CopyAssumption
  <2>3. CASE n # source
    BY <1>1, <2>3, EmptySeq
  <2> QED
    BY <2>2, <2>3
<1>3. DOMAIN target = Nodes /\ target \in [Nodes -> Seq(Nat)]
  BY <1>1, <1>2
<1>4. Calls(stack)
  BY EmptySeq DEF Init, Calls
<1>5. ~Copying
  BY DEF Init, Idle, Copying
<1>6. LoopTypeOK
  <2>1. copy \in [node : Nodes \cup {Nobody}, offset : Nat, pos : Nat,
                  nread : 0..BUFSIZ, nwritten : -MaxFailures..BUFSIZ]
        /\ copy.nwritten <= copy.nread
    BY CopyAssumption DEF Init, Idle
  <2>2. accumulated \in Nat /\ errno \in BOOLEAN /\ failures \in 0..MaxFailures
    <3>1. accumulated = 0 /\ failures = 0
      BY DEF Init
    <3>2. errno \in BOOLEAN
      BY DEF Init
    <3> QED
      BY <3>1, <3>2, CopyAssumption
  <2> QED
    BY <1>2, <1>3, <1>5, <2>1, <2>2 DEF LoopTypeOK
<1> QED
  BY <1>3, <1>4, <1>5, <1>6, CopyAssumption DEF Init, TypeInv, TypeOK, Calls, Idle

LEMMA FileBegunTypes ==
  ASSUME TypeInv, NEW n \in Nodes, NEW below, Calls(below), filecpy(n, below)
  PROVE  TypeInv'
<1>1. /\ copy' = Opened(n) /\ made' = made \cup {n} /\ stack' = below /\ status' = "running"
      /\ UNCHANGED <<target, accumulated, errno, failures, source, dst, FILE_COUNT, DIR_COUNT>>
  BY DEF filecpy
<1>2. copy' = [node |-> n, offset |-> 0, pos |-> 0, nread |-> 0, nwritten |-> 0]
  BY <1>1 DEF Opened, Idle
<1>3. LoopTypeOK'
  BY <1>1, <1>2, CopyAssumption DEF TypeInv, TypeOK, LoopTypeOK, Copying
<1>4. TypeOK'
  BY <1>1, <1>3 DEF TypeInv, TypeOK, Calls
<1>5. target[n] \in Seq(Nat) /\ Len(target[n]) \in Nat
  BY LenProperties DEF TypeInv
<1> QED
  BY <1>1, <1>2, <1>4, <1>5, CopyAssumption, SMTT(20) DEF TypeInv, Calls, Copying, TypeOK, LoopTypeOK

LEMMA WalkBegunTypes ==
  ASSUME TypeInv, NEW d \in Nodes, Kind[d] = "dir", NEW below, Calls(below), walk(d, below)
  PROVE  TypeInv'
<1>1. /\ made' = made \cup {d} /\ DIR_COUNT' = DIR_COUNT + 1 /\ errno' = FALSE
      /\ stack' = Append(below, [dir |-> d, left |-> Entries(d)]) /\ status' = "running"
      /\ UNCHANGED <<copy, target, accumulated, failures, source, dst, FILE_COUNT>>
  BY DEF walk
<1>2. Calls(stack')
  BY <1>1, CallsGrow
<1>3. LoopTypeOK'
  BY <1>1 DEF TypeInv, TypeOK, LoopTypeOK, Copying
<1>4. TypeOK'
  BY <1>1, <1>2, <1>3 DEF TypeInv, TypeOK, Calls
<1> QED
  BY <1>1, <1>2, <1>4 DEF TypeInv, Calls, Copying
\* The file that is copied, and what is in its target.
LEMMA InWork ==
  ASSUME TypeInv, Copying
  PROVE  /\ copy.node \in Nodes /\ Size[copy.node] \in Nat
         /\ target[copy.node] \in Seq(Nat) /\ Len(target[copy.node]) \in Nat
         /\ DOMAIN target[copy.node] = 1..Len(target[copy.node])
         /\ copy.offset \in Nat /\ copy.pos \in 0..Len(target[copy.node])
         /\ copy.nread \in 0..BUFSIZ /\ copy.nwritten \in -failures..BUFSIZ /\ copy.nwritten \in Int
         /\ copy.nwritten <= copy.nread /\ copy.offset + copy.nread <= Size[copy.node]
         /\ failures \in 0..MaxFailures
<1>1. copy.node \in Nodes
  BY DEF TypeInv, TypeOK, LoopTypeOK, Copying
<1>2. target[copy.node] \in Seq(Nat)
  BY <1>1 DEF TypeInv
<1> QED
  BY <1>1, <1>2, LenProperties, CopyAssumption DEF TypeInv, TypeOK, LoopTypeOK

\* The numbers alone.
LEMMA Numbers ==
  ASSUME TypeInv, Copying
  PROVE  /\ copy.offset \in Nat /\ copy.pos \in Nat /\ copy.nread \in Nat /\ copy.nwritten \in Int
         /\ copy.pos <= Len(target[copy.node]) /\ Len(target[copy.node]) \in Nat
         /\ copy.nread <= BUFSIZ /\ copy.nwritten <= copy.nread /\ -failures <= copy.nwritten
         /\ copy.offset + copy.nread <= Size[copy.node] /\ Size[copy.node] \in Nat
         /\ failures \in Nat /\ failures <= MaxFailures /\ MaxFailures \in Nat /\ BUFSIZ \in Nat
<1>1. MaxFailures \in Nat /\ BUFSIZ \in Nat
  BY CopyAssumption
<1> QED
  BY <1>1, InWork

\* A write of k bytes, after which the target of the file holds new.
Writes(k, new) ==
  LET old == target[copy.node]
  IN  /\ k \in Nat /\ 1 <= k /\ k <= copy.nread - copy.nwritten /\ Copying
      /\ target' = [target EXCEPT ![copy.node] = new]
      /\ copy' = [copy EXCEPT !.pos = @ + k, !.nwritten = @ + k]
      /\ accumulated' = IF copy.nwritten + k = copy.nread
                        THEN accumulated + copy.nread ELSE accumulated
      /\ UNCHANGED <<errno, failures>>
      /\ new \in Seq(Nat) /\ DOMAIN new = 1..Len(new) /\ Len(new) \in Nat
      /\ Len(new) = IF copy.pos + k <= Len(old) THEN Len(old) ELSE copy.pos + k
      /\ \A i \in 1..copy.pos : new[i] = old[i]
      /\ \A i \in 1..k : new[copy.pos + i] =
            IF copy.nwritten + i >= 1 THEN copy.offset + copy.nwritten + i ELSE 0
      /\ \A i \in copy.pos + k + 1..Len(old) : new[i] = old[i]

LEMMA WriteStep ==
  ASSUME TypeInv, Write
  PROVE  \E k, new : Writes(k, new)
<1>1. Copying /\ copy.nwritten # copy.nread
  BY DEF Write
<1>2. PICK k \in 1..Request :
        /\ target' = [target EXCEPT ![copy.node] = Overwrite(@, copy.pos, FromBuffer(k))]
        /\ copy' = [copy EXCEPT !.pos = @ + k, !.nwritten = @ + k]
        /\ accumulated' = IF copy'.nwritten = copy.nread
                          THEN accumulated + Counted(k) ELSE accumulated
        /\ UNCHANGED <<errno, failures>>
  BY DEF Write
<1>3. k \in Nat /\ 1 <= k /\ k <= copy.nread - copy.nwritten
  BY <1>1, <1>2, InWork DEF Request
<1> DEFINE bytes == FromBuffer(k)
           old == target[copy.node]
           new == Overwrite(old, copy.pos, bytes)
<1>4. /\ bytes \in Seq(Nat) /\ Len(bytes) = k
      /\ \A i \in 1..k : bytes[i] =
            IF copy.nwritten + i >= 1 THEN copy.offset + copy.nwritten + i ELSE 0
  <2>1. \A i \in 1..k : (IF copy.nwritten + i >= 1 THEN copy.offset + copy.nwritten + i ELSE 0) \in Nat
    BY <1>1, <1>3, InWork
  <2>2. bytes \in Seq(Nat)
    BY <1>3, <2>1, IsASeq DEF FromBuffer
  <2>3. DOMAIN bytes = 1..k
    BY DEF FromBuffer
  <2>4. Len(bytes) = k
    BY <1>3, <2>2, <2>3, LenProperties
  <2> QED
    BY <2>2, <2>4 DEF FromBuffer
<1>5. old \in Seq(Nat) /\ copy.pos \in 0..Len(old)
  BY <1>1, InWork
<1> HIDE DEF bytes, old
<1>6. /\ new \in Seq(Nat)
      /\ Len(new) = IF copy.pos + Len(bytes) <= Len(old) THEN Len(old) ELSE copy.pos + Len(bytes)
      /\ \A i \in 1..copy.pos : new[i] = old[i]
      /\ \A i \in 1..Len(bytes) : new[copy.pos + i] = bytes[i]
      /\ \A i \in copy.pos + Len(bytes) + 1..Len(old) : new[i] = old[i]
  BY <1>4, <1>5, Overwritten
<1>7. DOMAIN new = 1..Len(new) /\ Len(new) \in Nat
  BY <1>6, LenProperties
<1>8. target' = [target EXCEPT ![copy.node] = new]
  BY <1>2 DEF old, bytes
<1>9. copy'.nwritten = copy.nwritten + k
  BY <1>2 DEF TypeInv, TypeOK, LoopTypeOK
<1>10. accumulated' = IF copy.nwritten + k = copy.nread
                      THEN accumulated + copy.nread ELSE accumulated
  BY <1>2, <1>9 DEF Counted
<1> HIDE DEF new
<1>11. \A i \in 1..k : new[copy.pos + i] =
         IF copy.nwritten + i >= 1 THEN copy.offset + copy.nwritten + i ELSE 0
  BY <1>4, <1>6
<1>12. Writes(k, new)
  BY <1>1, <1>2, <1>3, <1>4, <1>6, <1>7, <1>8, <1>10, <1>11 DEF Writes, old
<1> QED
  BY <1>12

\* The fields of copy.
Copies == [node : Nodes \cup {Nobody}, offset : Nat, pos : Nat,
           nread : 0..BUFSIZ, nwritten : -MaxFailures..BUFSIZ]

\* What the steps of the loop do to copy.
LEMMA ReadStep ==
  ASSUME TypeInv, Read
  PROVE  /\ copy' \in Copies /\ copy'.node = copy.node /\ copy'.pos = copy.pos
         /\ copy'.offset = copy.offset + copy.nread /\ copy'.nwritten = 0
         /\ copy'.nread \in 1..BUFSIZ /\ copy'.offset + copy'.nread <= Size[copy.node]
         /\ Copying /\ copy.nwritten = copy.nread
         /\ UNCHANGED <<target, accumulated, errno, failures>>
<1>1. PICK k \in 1..BUFSIZ :
        /\ copy.offset + copy.nread + k <= Size[copy.node]
        /\ copy' = [copy EXCEPT !.offset = @ + copy.nread, !.nread = k, !.nwritten = 0]
  BY DEF Read
<1>2. copy \in Copies /\ copy.offset + copy.nread \in Nat /\ k \in 0..BUFSIZ
      /\ 0 \in -MaxFailures..BUFSIZ
  BY CopyAssumption DEF TypeInv, TypeOK, LoopTypeOK, Copies
<1>3. copy' = [copy EXCEPT !.offset = copy.offset + copy.nread, !.nread = k, !.nwritten = 0]
  BY <1>1
<1> DEFINE o == copy.offset + copy.nread
<1>4. o \in Nat /\ copy' = [copy EXCEPT !.offset = o, !.nread = k, !.nwritten = 0]
  BY <1>2, <1>3
<1> HIDE DEF o
<1>5. /\ copy' \in Copies /\ copy'.node = copy.node /\ copy'.pos = copy.pos
      /\ copy'.offset = o /\ copy'.nread = k /\ copy'.nwritten = 0
  BY <1>2, <1>4 DEF Copies
<1> QED
  BY <1>1, <1>5 DEF Read, o

LEMMA WritesFields ==
  ASSUME TypeInv, NEW k, NEW new, Writes(k, new)
  PROVE  /\ copy' \in Copies /\ copy'.node = copy.node /\ copy'.pos = copy.pos + k
         /\ copy'.offset = copy.offset /\ copy'.nread = copy.nread
         /\ copy'.nwritten = copy.nwritten + k
<1>1. copy \in Copies /\ copy.pos + k \in Nat /\ copy.nwritten + k \in -MaxFailures..BUFSIZ
  <2>1. copy \in Copies
    BY DEF TypeInv, TypeOK, LoopTypeOK, Copies
  <2>2. k \in Nat /\ 1 <= k /\ k <= copy.nread - copy.nwritten /\ Copying
    BY DEF Writes
  <2>3. /\ copy.pos \in Nat /\ copy.nread \in Nat /\ copy.nwritten \in Int
        /\ copy.nread <= BUFSIZ /\ BUFSIZ \in Nat /\ MaxFailures \in Nat
    BY <2>2, Numbers
  <2>4. copy.nwritten \in -MaxFailures..BUFSIZ
    BY <2>1 DEF Copies
  <2>5. copy.nwritten + k \in -MaxFailures..BUFSIZ
    BY <2>2, <2>3, <2>4
  <2> QED
    BY <2>1, <2>2, <2>3, <2>5
<1> DEFINE p == copy.pos + k
           w == copy.nwritten + k
<1>2. copy' = [copy EXCEPT !.pos = p, !.nwritten = w]
  BY DEF Writes
<1>3. p \in Nat /\ w \in -MaxFailures..BUFSIZ
  BY <1>1
<1> HIDE DEF p, w
<1>4. /\ copy' \in Copies /\ copy'.node = copy.node /\ copy'.pos = p
      /\ copy'.offset = copy.offset /\ copy'.nread = copy.nread /\ copy'.nwritten = w
  BY <1>1, <1>2, <1>3 DEF Copies
<1> QED
  BY <1>4 DEF p, w

LEMMA WriteFailsStep ==
  ASSUME TypeInv, WriteFails
  PROVE  /\ copy' \in Copies /\ copy'.node = copy.node /\ copy'.pos = copy.pos
         /\ copy'.offset = copy.offset /\ copy'.nread = copy.nread
         /\ copy'.nwritten = copy.nwritten - 1
         /\ Copying /\ copy.nwritten # copy.nread /\ failures' = failures + 1
         /\ failures < MaxFailures /\ errno' = TRUE /\ UNCHANGED <<target, accumulated>>
<1>1. copy \in Copies /\ Copying /\ failures < MaxFailures
  BY DEF WriteFails, TypeInv, TypeOK, LoopTypeOK, Copies
<1>2. copy.nwritten - 1 \in -MaxFailures..BUFSIZ
  <2>1. copy.nwritten - 1 >= -MaxFailures
    BY <1>1, Numbers
  <2> QED
    BY <1>1, <2>1, Numbers, SMTT(20)
<1>3. copy' = [copy EXCEPT !.nwritten = copy.nwritten - 1]
  BY DEF WriteFails
<1> DEFINE w == copy.nwritten - 1
<1>4. w \in -MaxFailures..BUFSIZ /\ copy' = [copy EXCEPT !.nwritten = w]
  BY <1>2, <1>3
<1> HIDE DEF w
<1>5. /\ copy' \in Copies /\ copy'.node = copy.node /\ copy'.pos = copy.pos
      /\ copy'.offset = copy.offset /\ copy'.nread = copy.nread /\ copy'.nwritten = w
  BY <1>1, <1>4 DEF Copies
<1> QED
  BY <1>1, <1>5 DEF WriteFails, w

\* A step that leaves everything but copy as it is.
LEMMA LoopTypesKept ==
  ASSUME TypeInv, copy' \in Copies, copy'.nwritten <= copy'.nread,
         Copying' => copy'.offset + copy'.nread <= Size[copy'.node],
         UNCHANGED <<target, accumulated, errno, failures>>
  PROVE  LoopTypeOK'
<1>1. /\ DOMAIN target = Nodes /\ accumulated \in Nat /\ errno \in BOOLEAN
      /\ failures \in 0..MaxFailures
      /\ \A n \in Nodes : \A i \in DOMAIN target[n] : target[n][i] \in 0..Size[n]
  BY DEF TypeInv, TypeOK, LoopTypeOK
<1>2. /\ target' = target /\ accumulated' = accumulated /\ errno' = errno
      /\ failures' = failures
  OBVIOUS
<1> QED
  BY <1>1, <1>2, Zenon DEF LoopTypeOK, Copies

LEMMA CopyStepTypes ==
  ASSUME TypeInv, CopyStep \/ EndOfFile
  PROVE  TypeInv'
<1>1. CASE CopyStep /\ Read
  <2>1. UNCHANGED treeVars
    BY <1>1 DEF CopyStep
  <2>2. LoopTypeOK'
    <3>1. /\ copy' \in Copies /\ copy'.node = copy.node /\ copy'.nwritten = 0
          /\ copy'.nread \in 1..BUFSIZ /\ copy'.offset + copy'.nread <= Size[copy.node]
          /\ UNCHANGED <<target, accumulated, errno, failures>>
      BY <1>1, ReadStep
    <3>2. copy'.nwritten <= copy'.nread
      BY <3>1, CopyAssumption
    <3> QED
      BY <3>1, <3>2, LoopTypesKept DEF Copying
  <2>3. TypeOK'
    BY <2>1, <2>2 DEF TypeInv, TypeOK, treeVars
  <2>4. Calls(stack)'
    BY <2>1 DEF TypeInv, Calls, treeVars
  <2> QED
    BY <1>1, <2>3, <2>4, ReadStep, InWork DEF TypeInv, Copying
<1>2. CASE CopyStep /\ Write
  <2> DEFINE n == copy.node
  <2>1. PICK k, new : Writes(k, new)
    BY <1>2, WriteStep
  <2>2. UNCHANGED treeVars /\ n \in Nodes
    BY <1>2, <2>1, InWork DEF CopyStep, Writes
  <2>3. k \in Nat /\ 1 <= k /\ k <= copy.nread - copy.nwritten /\ Copying
    BY <2>1 DEF Writes
  <2>4. ASSUME NEW i \in 1..Len(new)
        PROVE  new[i] \in 0..Size[n]
    <3>0. \A m \in 1..Len(target[n]) : target[n][m] \in 0..Size[n]
      BY <2>2, <2>3, InWork DEF TypeInv, TypeOK, LoopTypeOK
    <3>1. /\ i \in Nat /\ 1 <= i /\ i <= Len(new)
          /\ Len(new) = IF copy.pos + k <= Len(target[n]) THEN Len(target[n]) ELSE copy.pos + k
      BY <2>1 DEF Writes
    <3>2. /\ \A m \in 1..copy.pos : new[m] = target[n][m]
          /\ \A m \in 1..k : new[copy.pos + m] =
                IF copy.nwritten + m >= 1 THEN copy.offset + copy.nwritten + m ELSE 0
          /\ \A m \in copy.pos + k + 1..Len(target[n]) : new[m] = target[n][m]
      BY <2>1 DEF Writes
    <3>3. CASE i <= copy.pos
      <4>1. i \in 1..copy.pos /\ i \in 1..Len(target[n])
        BY <2>3, <3>1, <3>3, Numbers, SMTT(20)
      <4> QED
        BY <3>0, <3>2, <4>1
    <3>4. CASE i > copy.pos + k
      <4>1. i \in copy.pos + k + 1..Len(target[n]) /\ i \in 1..Len(target[n])
        BY <2>3, <3>1, <3>4, Numbers, SMTT(20)
      <4> QED
        BY <3>0, <3>2, <4>1
    <3>5. CASE copy.pos < i /\ i <= copy.pos + k
      <4> DEFINE m == i - copy.pos
      <4>0. copy.pos \in Nat /\ k \in Nat
        BY <2>3, Numbers
      <4>1. m \in 1..k /\ i = copy.pos + m
        BY <3>1, <3>5, <4>0
      <4> HIDE DEF m
      <4>2. new[i] = IF copy.nwritten + m >= 1 THEN copy.offset + copy.nwritten + m ELSE 0
        BY <3>2, <4>1
      <4>3. /\ copy.nwritten \in Int /\ copy.offset \in Nat /\ copy.nread \in Nat /\ Size[n] \in Nat
            /\ copy.offset + copy.nread <= Size[n]
        BY <2>3, Numbers
      <4>4. m \in Nat /\ m <= copy.nread - copy.nwritten
        BY <2>3, <4>1, <4>3
      <4>5. copy.offset + copy.nwritten + m <= Size[n]
        BY <4>3, <4>4
      <4> QED
        BY <4>2, <4>3, <4>4, <4>5, SMTT(20)
    <3> QED
      BY <2>3, <3>1, <3>3, <3>4, <3>5, Numbers, SMTT(20)
  <2>5. /\ DOMAIN target' = Nodes /\ target' \in [Nodes -> Seq(Nat)] /\ target'[n] = new
        /\ \A m \in Nodes : m # n => target'[m] = target[m]
    BY <2>1, <2>2 DEF TypeInv, Writes
  <2>6. accumulated' \in Nat
    <3>1. accumulated' = accumulated \/ accumulated' = accumulated + copy.nread
      BY <2>1 DEF Writes
    <3>2. accumulated \in Nat
      BY DEF TypeInv, TypeOK, LoopTypeOK
    <3>3. copy.nread \in Nat
      BY <2>3, Numbers
    <3> QED
      BY <3>1, <3>2, <3>3
  <2>7. \A m \in Nodes : \A i \in DOMAIN target'[m] : target'[m][i] \in 0..Size[m]
    <3>1. \A m \in Nodes : \A i \in DOMAIN target[m] : target[m][i] \in 0..Size[m]
      BY DEF TypeInv, TypeOK, LoopTypeOK
    <3>2. DOMAIN new = 1..Len(new)
      BY <2>1 DEF Writes
    <3> QED
      BY <2>4, <2>5, <3>1, <3>2, Zenon
  <2>8. copy'.nwritten <= copy'.nread /\ copy'.offset + copy'.nread <= Size[n] /\ Copying'
    <3>1. /\ copy'.node = copy.node /\ copy'.offset = copy.offset
          /\ copy'.nread = copy.nread /\ copy'.nwritten = copy.nwritten + k
      BY <2>1, WritesFields
    <3>2. copy.nwritten + k <= copy.nread
      BY <2>3, Numbers
    <3>3. copy.offset + copy.nread <= Size[n]
      BY <2>3, Numbers
    <3> QED
      BY <2>3, <3>1, <3>2, <3>3, Zenon DEF Copying
  <2>9. LoopTypeOK'
    <3>1. copy' \in Copies /\ copy'.node = n
      BY <2>1, WritesFields
    <3>2. UNCHANGED <<errno, failures>>
      BY <2>1 DEF Writes
    <3>3. errno \in BOOLEAN /\ failures \in 0..MaxFailures
      BY DEF TypeInv, TypeOK, LoopTypeOK
    <3> QED
      BY <2>5, <2>6, <2>7, <2>8, <3>1, <3>2, <3>3, Zenon DEF LoopTypeOK, Copies
  <2>10. TypeOK'
    BY <2>2, <2>9 DEF TypeInv, TypeOK, treeVars
  <2>11. copy'.nwritten >= -failures' /\ copy'.pos <= Len(target'[n])
    <3>1. copy'.nwritten = copy.nwritten + k /\ copy'.pos = copy.pos + k /\ failures' = failures
      BY <2>1, WritesFields DEF Writes
    <3>2. Len(new) >= copy.pos + k
      <4>1. Len(new) = IF copy.pos + k <= Len(target[n]) THEN Len(target[n]) ELSE copy.pos + k
        BY <2>1 DEF Writes
      <4> QED
        BY <2>3, <4>1, Numbers
    <3> QED
      BY <2>3, <2>5, <3>1, <3>2, Numbers, SMTT(20)
  <2>12. Calls(stack)'
    BY <2>2 DEF TypeInv, Calls, treeVars
  <2> QED
    BY <2>1, <2>5, <2>10, <2>11, <2>12, WritesFields DEF TypeInv
<1>3. CASE CopyStep /\ WriteFails
  <2>1. UNCHANGED treeVars
    BY <1>3 DEF CopyStep
  <2>2. LoopTypeOK'
    <3>1. copy'.nwritten <= copy'.nread /\ copy'.offset + copy'.nread <= Size[copy'.node]
          /\ failures' \in 0..MaxFailures
      BY <1>3, WriteFailsStep, Numbers, SMTT(20)
    <3>2. copy' \in Copies /\ errno' = TRUE /\ UNCHANGED <<target, accumulated>>
      BY <1>3, WriteFailsStep
    <3>3. /\ DOMAIN target = Nodes /\ accumulated \in Nat
          /\ \A n \in Nodes : \A i \in DOMAIN target[n] : target[n][i] \in 0..Size[n]
      BY DEF TypeInv, TypeOK, LoopTypeOK
    <3> QED
      BY <3>1, <3>2, <3>3, Zenon DEF LoopTypeOK, Copies
  <2>3. TypeOK'
    BY <2>1, <2>2 DEF TypeInv, TypeOK, treeVars
  <2>4. Calls(stack)'
    BY <2>1 DEF TypeInv, Calls, treeVars
  <2> QED
    <3>1. copy'.nwritten >= -failures' /\ (Copying' => copy'.pos <= Len(target'[copy'.node]))
      BY <1>3, WriteFailsStep, Numbers, SMTT(20)
    <3> QED
      BY <1>3, <2>3, <2>4, <3>1, WriteFailsStep DEF TypeInv
<1>4. CASE EndOfFile
  <2>1. /\ copy' = Idle /\ FILE_COUNT' = FILE_COUNT + 1
        /\ UNCHANGED <<target, accumulated, errno, failures, source, dst, status, stack, made, DIR_COUNT>>
    BY <1>4 DEF EndOfFile
  <2>2. copy' = [node |-> Nobody, offset |-> 0, pos |-> 0, nread |-> 0, nwritten |-> 0]
    BY <2>1 DEF Idle
  <2>3. LoopTypeOK'
    BY <2>1, <2>2, CopyAssumption DEF TypeInv, TypeOK, LoopTypeOK, Copying
  <2>4. TypeOK'
    BY <2>1, <2>3 DEF TypeInv, TypeOK
  <2> QED
    BY <2>1, <2>2, <2>4, CopyAssumption DEF TypeInv, TypeOK, LoopTypeOK, Calls, Copying
<1> QED
  BY <1>1, <1>2, <1>3, <1>4 DEF CopyStep, Loop
LEMMA ExitFacts ==
  ASSUME Refuse \/ Return \/ ErrnoAtEnd \/ Fail
  PROVE  /\ status' \in {"success", "failure"} /\ status \in {"main", "running"}
         /\ status' = "success" => status = "running" /\ stack = <<>> /\ ~Copying
         /\ UNCHANGED <<copyVars, source, dst, stack, made, FILE_COUNT, DIR_COUNT>>
BY DEF Refuse, Return, ErrnoAtEnd, Fail, Exit, Walking

LEMMA NextTypeInv ==
  ASSUME TypeInv, [Next]_vars
  PROVE  TypeInv'
<1>1. CASE Refuse \/ Return \/ ErrnoAtEnd \/ Fail
  <2>1. /\ status' \in {"success", "failure"}
        /\ UNCHANGED <<copyVars, source, dst, stack, made, FILE_COUNT, DIR_COUNT>>
    BY <1>1, ExitFacts
  <2> QED
    BY <2>1 DEF TypeInv, TypeOK, LoopTypeOK, Calls, Copying, copyVars
<1>2. CASE Accept
  <2>1. Calls(<<>>)
    BY EmptySeq DEF Calls
  <2>2. source \in Nodes /\ status = "main"
    BY <1>2 DEF TypeInv, TypeOK, Accept
  <2>3. CASE filecpy(source, <<>>)
    BY <2>1, <2>2, <2>3, FileBegunTypes
  <2>4. CASE Kind[source] = "dir" /\ walk(source, <<>>)
    BY <2>1, <2>2, <2>4, WalkBegunTypes
  <2> QED
    BY <1>2, <2>3, <2>4 DEF Accept
<1>3. CASE EndOfDir
  <2>1. /\ stack # <<>> /\ stack' = SubSeq(stack, 1, Len(stack) - 1)
        /\ UNCHANGED <<copyVars, source, dst, status, made, FILE_COUNT, DIR_COUNT>>
    BY <1>3 DEF EndOfDir, Walking
  <2>2. Calls(stack')
    BY <2>1, CallsStay DEF TypeInv
  <2> QED
    BY <2>1, <2>2 DEF TypeInv, TypeOK, LoopTypeOK, Calls, Copying, copyVars
<1>4. CASE EndOfFile \/ CopyStep
  BY <1>4, CopyStepTypes
<1>5. ASSUME NEW n \in Nodes, Descend(n) \/ CopyFile(n) \/ Skip(n)
      PROVE  TypeInv'
  <2>1. stack # <<>> /\ Calls(Past(n)) /\ ~Copying
    BY <1>5, CallsStay DEF Descend, CopyFile, Skip, Walking, TypeInv
  <2>2. CASE Descend(n)
    BY <2>1, <2>2, WalkBegunTypes DEF Descend
  <2>3. CASE CopyFile(n)
    BY <2>1, <2>3, FileBegunTypes DEF CopyFile
  <2>4. CASE Skip(n)
    <3>1. /\ stack' = Past(n)
          /\ UNCHANGED <<copyVars, source, dst, status, made, FILE_COUNT, DIR_COUNT>>
      BY <2>4 DEF Skip
    <3>2. Calls(stack')
      BY <2>1, <3>1
    <3> QED
      BY <3>1, <3>2 DEF TypeInv, TypeOK, LoopTypeOK, Calls, Copying, copyVars
  <2> QED
    BY <1>5, <2>2, <2>3, <2>4
<1>6. CASE UNCHANGED vars
  BY <1>6 DEF TypeInv, TypeOK, LoopTypeOK, Calls, Copying, vars, copyVars, treeVars
<1> QED
  BY <1>1, <1>2, <1>3, <1>4, <1>5, <1>6 DEF Next

\* treecopy.c keeps its offsets and counts in range, and writes to a target no byte
\* that is not one of the source or of what lies before the buffer.
THEOREM TypeCorrect == Spec => []TypeOK
<1>1. Init => TypeInv
  BY InitTypeInv
<1>2. TypeInv /\ [Next]_vars => TypeInv'
  BY NextTypeInv
<1>3. TypeInv => TypeOK
  BY DEF TypeInv
<1> QED
  BY <1>1, <1>2, <1>3, PTL DEF Spec

-----------------------------------------------------------------------------
(* The stack and the nodes that are made.                                  *)

LEMMA PastPending ==
  ASSUME TypeInv, StackInv, MadeInv, stack # <<>>, NEW n \in Nodes, n \in Top.left
  PROVE  /\ n \notin made /\ n \in Below[source] /\ Dir[n] \in made
         /\ Pending(Past(n), made \cup {n})
         /\ \A i \in DOMAIN Past(n) : Past(n)[i].dir \in made
         /\ Covers(Past(n), made \cup {n}, made)
<1>0. Len(stack) \in Nat \ {0} /\ DOMAIN stack = 1..Len(stack)
  BY StackRead DEF TypeInv, Calls
<1>1. /\ DOMAIN stack = 1..Len(stack) /\ DOMAIN Past(n) = 1..Len(stack)
      /\ \A i \in 1..Len(stack) : i # Len(stack) => Past(n)[i] = stack[i]
      /\ Past(n)[Len(stack)].dir = Top.dir
      /\ Past(n)[Len(stack)].left = Top.left \ {n}
  BY StackRead DEF TypeInv, Calls
<1>2. Len(stack) \in DOMAIN stack /\ Top = stack[Len(stack)]
  <2>1. Len(stack) \in DOMAIN stack
    BY <1>0
  <2> QED
    BY <2>1 DEF Top
<1>3. /\ \A i \in DOMAIN stack : stack[i].dir \in made /\ stack[i].left \cap made = {}
      /\ \A i, k \in DOMAIN stack : stack[i].dir = stack[k].dir => i = k
  BY DEF StackInv, Pending
<1>4. \A i \in DOMAIN stack : \A m \in stack[i].left : Dir[m] = stack[i].dir
  BY DEF TypeInv, Calls, Entries
<1>5. n \notin made /\ Dir[n] = Top.dir /\ Top.dir \in made
  BY <1>2, <1>3, <1>4
<1>6. n \in Below[source]
  BY <1>5, BelowIsClosed DEF MadeInv, Wanted, Dirs, Files, TypeInv, TypeOK
<1>7. \A i \in 1..Len(stack) : i # Len(stack) => n \notin stack[i].left
  <2> SUFFICES ASSUME NEW i \in 1..Len(stack), i # Len(stack), n \in stack[i].left PROVE FALSE
    OBVIOUS
  <2>1. i \in DOMAIN stack /\ stack[i].dir = stack[Len(stack)].dir
    BY <1>1, <1>2, <1>4, <1>5
  <2> QED
    BY <1>2, <1>3, <2>1
<1>8. \A i \in DOMAIN Past(n) :
        /\ Past(n)[i].dir = stack[i].dir
        /\ Past(n)[i].left = stack[i].left \ {n}
  BY <1>1, <1>2, <1>7
<1>9. Pending(Past(n), made \cup {n})
  BY <1>1, <1>3, <1>8 DEF Pending
<1>10. Covers(Past(n), made \cup {n}, made)
  BY <1>1, <1>8 DEF Covers, MadeInv
<1> QED
  BY <1>1, <1>3, <1>5, <1>6, <1>8, <1>9, <1>10

LEMMA FileBegun ==
  ASSUME TypeInv, MadeInv, NEW n \in Nodes, NEW below, filecpy(n, below),
         Kind[n] = "file", n \notin made, n \in Below[source], n = source \/ Dir[n] \in made,
         source \in made \cup {n}, below = <<>> => n = source,
         Pending(below, made \cup {n}), Covers(below, made \cup {n}, made)
  PROVE  StackInv' /\ MadeInv'
<1>1. /\ copy'.node = n /\ made' = made \cup {n} /\ stack' = below /\ status' = "running"
      /\ UNCHANGED source
  BY DEF filecpy, Opened, Idle
<1>2. \A m \in Nodes : Dir[m] # n
  BY TreeAssumption, CopyAssumption
<1>3. Covers(below, made \cup {n}, made \cup {n})
  BY <1>2 DEF Covers
<1>4. made' \subseteq Wanted(source)
  BY <1>1 DEF MadeInv, Wanted, Files
<1> QED
  BY <1>1, <1>3, <1>4 DEF StackInv, MadeInv, Pending, Covers, Copying

LEMMA WalkBegun ==
  ASSUME TypeInv, MadeInv, ~Copying, NEW d \in Nodes, NEW below, Calls(below), walk(d, below),
         Kind[d] = "dir", d \notin made, d \in Below[source], d = source \/ Dir[d] \in made,
         source \in made \cup {d},
         Pending(below, made \cup {d}), Covers(below, made \cup {d}, made),
         \A i \in DOMAIN below : below[i].dir \in made
  PROVE  StackInv' /\ MadeInv'
<1> DEFINE frame == [dir |-> d, left |-> Entries(d)]
           top   == Len(below) + 1
<1>1. /\ made' = made \cup {d} /\ status' = "running"
      /\ stack' = Append(below, frame) /\ UNCHANGED <<source, copy>>
  BY DEF walk
<1>2. /\ stack' # <<>> /\ DOMAIN stack' = 1..top /\ DOMAIN below = 1..Len(below)
      /\ Len(below) \in Nat /\ top \in DOMAIN stack'
      /\ \A i \in DOMAIN below : stack'[i] = below[i]
      /\ stack'[top].dir = d /\ stack'[top].left = Entries(d)
      /\ \A i \in DOMAIN stack' : i # top => i \in DOMAIN below
  <2>1. frame \in Frames /\ below \in Seq(Frames) /\ frame.dir = d /\ frame.left = Entries(d)
    BY DEF Frames, Entries, Calls
  <2> HIDE DEF frame
  <2> QED
    BY <1>1, <2>1, StackPushed
<1>3. Entries(d) \cap (made \cup {d}) = {}
  <2> SUFFICES ASSUME NEW m \in Nodes, Dir[m] = d, m \in made \/ m = d PROVE FALSE
    BY DEF Entries
  <2>1. m # d
    BY BelowIsClosed, NotBelowItself
  <2>2. m = source
    BY <2>1 DEF MadeInv
  <2> QED
    BY <2>2, NotBelowItself DEF TypeInv, TypeOK
<1> HIDE DEF frame, top
<1>4. Pending(stack', made')
  BY <1>1, <1>2, <1>3 DEF Pending
<1>5. Covers(stack', made', made')
  BY <1>1, <1>2 DEF Covers, Entries
<1>6. made' \subseteq Wanted(source)
  BY <1>1 DEF MadeInv, Wanted, Dirs
<1> QED
  BY <1>1, <1>2, <1>4, <1>5, <1>6 DEF StackInv, MadeInv, Pending, Covers, Copying

LEMMA NextStackInv ==
  ASSUME TypeInv, StackInv, MadeInv, [Next]_vars
  PROVE  StackInv' /\ MadeInv'
<1>1. CASE Refuse \/ Return \/ ErrnoAtEnd \/ Fail
  <2>1. /\ status' \in {"success", "failure"}
        /\ status' = "success" => status = "running" /\ stack = <<>> /\ ~Copying
        /\ UNCHANGED <<copyVars, source, dst, stack, made, FILE_COUNT, DIR_COUNT>>
    BY <1>1, ExitFacts
  <2> QED
    BY <2>1 DEF StackInv, Pending, MadeInv, Covers, Copying, copyVars
<1>2. CASE Accept
  <2>1. source \in Nodes /\ made = {} /\ ~Copying
    BY <1>2 DEF TypeInv, TypeOK, Accept, MadeInv
  <2>2. source \in Below[source] /\ Calls(<<>>) /\ Pending(<<>>, made \cup {source})
        /\ Covers(<<>>, made \cup {source}, made) /\ DOMAIN <<>> = {}
    BY <2>1, BelowIsClosed, EmptySeq DEF Calls, Pending, Covers
  <2>3. CASE Kind[source] = "file" /\ filecpy(source, <<>>)
    BY <2>1, <2>2, <2>3, FileBegun
  <2>4. CASE Kind[source] = "dir" /\ walk(source, <<>>)
    BY <2>1, <2>2, <2>4, WalkBegun
  <2> QED
    BY <1>2, <2>3, <2>4 DEF Accept
<1>3. CASE EndOfDir
  <2> DEFINE rest == SubSeq(stack, 1, Len(stack) - 1)
  <2>1. /\ stack # <<>> /\ ~Copying /\ Top.left = {} /\ stack' = rest /\ status = "running"
        /\ UNCHANGED <<copyVars, source, dst, status, made, FILE_COUNT, DIR_COUNT>>
    BY <1>3 DEF EndOfDir, Walking
  <2>2. /\ DOMAIN rest = 1..Len(stack) - 1 /\ DOMAIN stack = 1..Len(stack) /\ Len(stack) \in Nat
        /\ \A i \in 1..Len(stack) - 1 : rest[i] = stack[i]
    BY <2>1, StackPopped, LenProperties DEF TypeInv, Calls
  <2> HIDE DEF rest
  <2>3. \A i \in DOMAIN rest : i \in DOMAIN stack /\ rest[i] = stack[i]
    BY <2>2
  <2>4. \A i \in DOMAIN stack : i \in DOMAIN rest \/ stack[i].left = {}
    BY <2>1, <2>2 DEF Top
  <2>5. Pending(rest, made)
    BY <2>3 DEF StackInv, Pending
  <2>6. Covers(rest, made, made)
    BY <2>3, <2>4 DEF MadeInv, Covers
  <2> QED
    BY <2>1, <2>5, <2>6 DEF StackInv, Pending, MadeInv, Covers, Copying, copyVars
<1>4. CASE CopyStep
  <2>1. UNCHANGED treeVars
    BY <1>4 DEF CopyStep
  <2>2. Copying /\ copy'.node = copy.node
    BY <1>4, ReadStep, WriteFailsStep, WriteStep, WritesFields DEF CopyStep, Loop, Writes
  <2>3. status # "main" /\ status # "success"
    BY <2>2 DEF MadeInv
  <2> QED
    BY <2>1, <2>2, <2>3 DEF StackInv, Pending, MadeInv, Covers, Copying, treeVars
<1>5. CASE EndOfFile
  <2>1. /\ copy' = Idle /\ status = "running"
        /\ UNCHANGED <<target, accumulated, errno, failures, source, dst, status, stack, made, DIR_COUNT>>
    BY <1>5 DEF EndOfFile
  <2>2. ~Copying'
    BY <2>1 DEF Idle, Copying
  <2> QED
    BY <2>1, <2>2 DEF StackInv, Pending, MadeInv, Covers
<1>6. ASSUME NEW n \in Nodes, Descend(n) \/ CopyFile(n) \/ Skip(n)
      PROVE  StackInv' /\ MadeInv'
  <2>1. stack # <<>> /\ ~Copying /\ n \in Top.left /\ status = "running" /\ source \in made
    BY <1>6 DEF Descend, CopyFile, Skip, Walking, MadeInv
  <2>2. /\ n \notin made /\ n \in Below[source] /\ Dir[n] \in made
        /\ Pending(Past(n), made \cup {n}) /\ Covers(Past(n), made \cup {n}, made)
        /\ \A i \in DOMAIN Past(n) : Past(n)[i].dir \in made
    BY <2>1, PastPending
  <2>3. Calls(Past(n)) /\ Past(n) # <<>>
    BY <2>1, CallsStay, StackRead DEF TypeInv, Calls
  <2>4. CASE Descend(n)
    BY <2>1, <2>2, <2>3, <2>4, WalkBegun DEF Descend
  <2>5. CASE CopyFile(n)
    BY <2>1, <2>2, <2>3, <2>5, FileBegun DEF CopyFile
  <2>6. CASE Skip(n)
    <3>1. /\ stack' = Past(n) /\ Kind[n] = "other"
          /\ UNCHANGED <<copyVars, source, dst, status, made, FILE_COUNT, DIR_COUNT>>
      BY <2>6 DEF Skip
    <3>2. Pending(Past(n), made)
      BY <2>2 DEF Pending
    <3>3. Covers(Past(n), made, made)
      BY <2>2, <3>1 DEF Covers
    <3> QED
      BY <2>1, <3>1, <3>2, <3>3 DEF StackInv, Pending, MadeInv, Covers, Copying, copyVars
  <2> QED
    BY <1>6, <2>4, <2>5, <2>6
<1>7. CASE UNCHANGED vars
  BY <1>7 DEF StackInv, Pending, MadeInv, Covers, Copying, vars, copyVars, treeVars
<1> QED
  BY <1>1, <1>2, <1>3, <1>4, <1>5, <1>6, <1>7 DEF Next
-----------------------------------------------------------------------------
(* TreeMirror.                                                             *)

\* When the stack is empty and nothing is copied, all is made: what is made and what
\* is not to be copied is closed downwards.
LEMMA AllIsMade ==
  ASSUME TypeInv, MadeInv, source \in made, stack = <<>>
  PROVE  Wanted(source) \subseteq made
<1> DEFINE S == made \cup { n \in Nodes : Kind[n] = "other" }
<1>1. S \in SUBSET Nodes /\ source \in S /\ source \in Nodes
  BY DEF TypeInv, TypeOK
<1>2. \A n \in Nodes : Dir[n] \in S => n \in S
  <2> SUFFICES ASSUME NEW n \in Nodes, Dir[n] \in S PROVE n \in S
    OBVIOUS
  <2>1. Dir[n] \in made
    BY <1>1, TreeAssumption, CopyAssumption
  <2>2. DOMAIN stack = {}
    BY EmptySeq
  <2> QED
    BY <2>1, <2>2 DEF MadeInv, Covers
<1> HIDE DEF S
<1>3. Below[source] \subseteq S
  BY <1>1, <1>2, BelowIsClosed
<1> QED
  BY <1>3 DEF S, Wanted, Dirs, Files

LEMMA NobodyIsNotMade ==
  ASSUME TypeInv
  PROVE  Nobody \notin made
BY CopyAssumption DEF TypeInv, TypeOK

LEMMA StepsOfTheMirror ==
  ASSUME TypeInv, StackInv, MadeInv, [Next]_vars
  PROVE  Mirror!Next \/ UNCHANGED Mirror!vars
<1> DEFINE copied == made \ {copy.node}
<1>0. Nobody \notin made /\ (~Copying => copied = made)
  BY NobodyIsNotMade DEF Copying
<1>1. CASE Refuse \/ Return \/ ErrnoAtEnd \/ Fail
  <2>1. /\ status' \in {"success", "failure"} /\ status \in {"main", "running"}
        /\ status' = "success" => status = "running" /\ stack = <<>> /\ ~Copying
        /\ UNCHANGED <<copyVars, source, dst, stack, made, FILE_COUNT, DIR_COUNT>>
    BY <1>1, ExitFacts
  <2>2. CASE status' = "failure"
    BY <2>1, <2>2 DEF Mirror!Next, Mirror!Fail, copyVars
  <2>3. CASE status' = "success"
    <3>1. Wanted(source) \subseteq copied
      BY <1>0, <2>1, <2>3, AllIsMade DEF MadeInv
    <3> QED
      BY <2>1, <2>3, <3>1 DEF Mirror!Next, Mirror!Succeed, copyVars
  <2> QED
    BY <2>1, <2>2, <2>3
<1>2. ASSUME NEW n \in Nodes, NEW below, filecpy(n, below), ~Copying, n \notin made,
             status \in {"main", "running"}
      PROVE  UNCHANGED Mirror!vars
  <2>1. copy'.node = n /\ made' = made \cup {n} /\ status' = "running" /\ UNCHANGED source
    BY <1>2 DEF filecpy, Opened, Idle
  <2> QED
    BY <1>0, <1>2, <2>1 DEF Mirror!vars
<1>3. ASSUME NEW d \in Nodes, NEW below, walk(d, below), ~Copying, d \notin made, Kind[d] = "dir",
             d \in Below[source], d = source \/ Dir[d] \in made, status \in {"main", "running"}
      PROVE  Mirror!Next
  <2>1. made' = made \cup {d} /\ status' = "running" /\ UNCHANGED <<copy, source>>
    BY <1>3 DEF walk
  <2>2. d \in Wanted(source)
    BY <1>3 DEF Wanted, Dirs
  <2>3. Mirror!CopyOne(d)
    BY <1>0, <1>3, <2>1, <2>2, CopyAssumption DEF Mirror!CopyOne, Copying
  <2> QED
    BY <2>3 DEF Mirror!Next
<1>4. CASE Accept
  <2>1. /\ source \in Nodes /\ made = {} /\ ~Copying /\ status \in {"main", "running"}
        /\ source \in Below[source]
    BY <1>4, BelowIsClosed DEF TypeInv, TypeOK, Accept, MadeInv
  <2> QED
    BY <1>2, <1>3, <1>4, <2>1 DEF Accept
<1>5. CASE EndOfDir
  BY <1>5 DEF EndOfDir, copyVars, Mirror!vars
<1>6. CASE CopyStep
  <2>1. copy'.node = copy.node /\ UNCHANGED treeVars
    BY <1>6, ReadStep, WriteFailsStep, WriteStep, WritesFields DEF CopyStep, Loop
  <2> QED
    BY <2>1 DEF treeVars, Mirror!vars
<1>7. CASE EndOfFile
  <2> DEFINE n == copy.node
  <2>1. /\ Copying /\ copy' = Idle /\ status = "running"
        /\ UNCHANGED <<source, status, made>>
    BY <1>7 DEF EndOfFile, AtEndOfFile
  <2>2. n \in made /\ Kind[n] = "file" /\ n \in Nodes /\ copy'.node = Nobody
    BY <2>1, InWork DEF MadeInv, Idle
  <2>3. n = source \/ Dir[n] \in copied
    <3>1. Dir[n] # n
      BY <2>2, NotBelowItself, BelowIsClosed
    <3> QED
      BY <2>2, <3>1 DEF MadeInv
  <2>4. n \in Wanted(source) \ copied
    BY <2>2 DEF MadeInv
  <2>5. made' \ {copy'.node} = copied \cup {n}
    BY <1>0, <2>1, <2>2
  <2>6. Mirror!CopyOne(n)
    BY <2>1, <2>3, <2>4, <2>5 DEF Mirror!CopyOne
  <2> QED
    BY <2>2, <2>6 DEF Mirror!Next
<1>8. ASSUME NEW n \in Nodes, Descend(n) \/ CopyFile(n) \/ Skip(n)
      PROVE  Mirror!Next \/ UNCHANGED Mirror!vars
  <2>1. stack # <<>> /\ ~Copying /\ n \in Top.left /\ status = "running"
    BY <1>8 DEF Descend, CopyFile, Skip, Walking
  <2>2. n \notin made /\ n \in Below[source] /\ Dir[n] \in made
    BY <2>1, PastPending
  <2>3. CASE Descend(n)
    BY <1>3, <2>1, <2>2, <2>3 DEF Descend
  <2>4. CASE CopyFile(n)
    BY <1>2, <2>1, <2>2, <2>4 DEF CopyFile
  <2>5. CASE Skip(n)
    BY <2>5 DEF Skip, copyVars, Mirror!vars
  <2> QED
    BY <1>8, <2>3, <2>4, <2>5
<1>9. CASE UNCHANGED vars
  BY <1>9 DEF vars, copyVars, treeVars, Mirror!vars
<1> QED
  BY <1>1, <1>4, <1>5, <1>6, <1>7, <1>8, <1>9 DEF Next

\* treecopy.c copies a node after the directory it is in, and tells success only when
\* all directories and files below the source are copied: it implements TreeMirror,
\* for any tree.
THEOREM CopyImplementsMirror == Spec => ImplementsMirror
<1>1. Init => TypeInv /\ StackInv /\ MadeInv
  <2>1. Init => StackInv /\ MadeInv
    BY CopyAssumption DEF Init, StackInv, Pending, MadeInv, Covers, Copying, Idle
  <2> QED
    BY <2>1, InitTypeInv
<1>2. TypeInv /\ StackInv /\ MadeInv /\ [Next]_vars => (TypeInv /\ StackInv /\ MadeInv)'
  BY NextTypeInv, NextStackInv
<1>3. Init => Mirror!Init
  BY DEF Init, Mirror!Init, Idle
<1>4. TypeInv /\ StackInv /\ MadeInv /\ [Next]_vars => [Mirror!Next]_Mirror!vars
  BY StepsOfTheMirror
<1> QED
  BY <1>1, <1>2, <1>3, <1>4, PTL DEF Spec, ImplementsMirror, Mirror!Spec
-----------------------------------------------------------------------------
(* errno, in a directory without directories.                              *)

LEMMA NextErrnoInv ==
  ASSUME TypeInv, StackInv, MadeInv, ErrnoInv, [Next]_vars
  PROVE  ErrnoInv'
<1>1. CASE Refuse \/ Return \/ ErrnoAtEnd \/ Fail
  <2>1. /\ status' \in {"success", "failure"} /\ status \in {"main", "running"}
        /\ UNCHANGED <<copyVars, source, dst, stack, made, FILE_COUNT, DIR_COUNT>>
    BY <1>1, ExitFacts
  <2> QED
    BY <2>1 DEF ErrnoInv, copyVars
<1>2. CASE Accept
  <2>1. failures = 0 /\ UNCHANGED failures
    BY <1>2 DEF Accept, MadeInv, filecpy, walk
  <2> QED
    BY <2>1 DEF ErrnoInv
<1>3. CASE EndOfDir
  <2>1. ~errno /\ status = "running" /\ UNCHANGED <<failures, source, status>>
    BY <1>3 DEF EndOfDir, Walking, copyVars
  <2> QED
    BY <2>1 DEF ErrnoInv
<1>4. CASE CopyStep \/ EndOfFile
  <2>1. Copying /\ UNCHANGED <<source, stack, status>>
    BY <1>4 DEF CopyStep, Loop, Read, Write, WriteFails, EndOfFile, AtEndOfFile, treeVars
  <2>2. UNCHANGED <<errno, failures>> \/ errno' = TRUE
    BY <1>4 DEF CopyStep, Loop, Read, Write, WriteFails, EndOfFile
  <2>3. Dirs(source) = {source} => stack # <<>>
    BY <2>1 DEF MadeInv, Dirs
  <2> QED
    BY <2>1, <2>2, <2>3 DEF ErrnoInv
<1>5. ASSUME NEW n \in Nodes, Descend(n) \/ CopyFile(n) \/ Skip(n)
      PROVE  ErrnoInv'
  <2>1. stack # <<>> /\ ~Copying /\ n \in Top.left /\ status = "running" /\ source \in made
    BY <1>5 DEF Descend, CopyFile, Skip, Walking, MadeInv
  <2>2. n \notin made /\ n \in Below[source]
    BY <2>1, PastPending
  <2>3. Past(n) # <<>>
    BY <2>1, StackRead DEF TypeInv, Calls
  <2>4. CASE Descend(n)
    <3>1. n \in Dirs(source) /\ n # source /\ UNCHANGED source
      BY <2>1, <2>2, <2>4 DEF Descend, walk, Dirs
    <3> QED
      BY <3>1 DEF ErrnoInv
  <2>5. CASE CopyFile(n) \/ Skip(n)
    <3>1. stack' = Past(n) /\ UNCHANGED <<errno, failures, source>>
      BY <2>5 DEF CopyFile, filecpy, Skip, copyVars
    <3> QED
      BY <2>1, <2>3, <3>1 DEF ErrnoInv
  <2> QED
    BY <1>5, <2>4, <2>5
<1>6. CASE UNCHANGED vars
  BY <1>6 DEF ErrnoInv, vars, copyVars, treeVars
<1> QED
  BY <1>1, <1>2, <1>3, <1>4, <1>5, <1>6 DEF Next

-----------------------------------------------------------------------------
(* The contents of the targets.                                            *)

LEMMA CarriesLess ==
  ASSUME NEW content, NEW m \in Nat, NEW p \in Nat, Carries(content, m, p),
         NEW l \in Nat, l <= m, NEW q \in Nat, p <= q
  PROVE  Carries(content, l, q)
<1>1. PICK at \in [1..m -> 1..p] :
        /\ \A i \in 1..m : content[at[i]] = i
        /\ \A i, k \in 1..m : i < k => at[i] < at[k]
  BY DEF Carries
<1> DEFINE less == [i \in 1..l |-> at[i]]
<1>2. less \in [1..l -> 1..q]
  BY <1>1
<1>3. \A i \in 1..l : i \in 1..m /\ less[i] = at[i]
  OBVIOUS
<1> HIDE DEF less
<1>4. \A i \in 1..l : content[less[i]] = i
  BY <1>1, <1>3
<1>5. \A i, k \in 1..l : i < k => less[i] < less[k]
  BY <1>1, <1>3
<1> QED
  BY <1>2, <1>4, <1>5 DEF Carries

\* A write of k bytes of the buffer at p carries more of the file, also when the
\* bytes from before the buffer are among them.
LEMMA CarriesMore ==
  ASSUME NEW old, NEW new, NEW p \in Nat, NEW k \in Nat, NEW offset \in Nat, NEW nwritten \in Int,
         NEW m \in Nat, m = offset + (IF nwritten < 0 THEN 0 ELSE nwritten),
         NEW l \in Nat, l = offset + (IF nwritten + k < 0 THEN 0 ELSE nwritten + k),
         Carries(old, m, p),
         \A i \in 1..p : new[i] = old[i],
         \A i \in 1..k : new[p + i] = IF nwritten + i >= 1 THEN offset + nwritten + i ELSE 0
  PROVE  Carries(new, l, p + k)
<1>1. PICK at \in [1..m -> 1..p] :
        /\ \A i \in 1..m : old[at[i]] = i
        /\ \A i, j \in 1..m : i < j => at[i] < at[j]
  BY DEF Carries
<1> DEFINE more == [i \in 1..l |-> IF i <= m THEN at[i] ELSE p + (i - offset - nwritten)]
<1>2. ASSUME NEW i \in 1..l
      PROVE  /\ more[i] \in 1..p + k /\ new[more[i]] = i
             /\ i <= m => more[i] \in 1..p /\ more[i] = at[i]
             /\ i > m => more[i] = p + (i - offset - nwritten) /\ more[i] > p
  <2>1. CASE i <= m
    <3>1. i \in 1..m /\ at[i] \in 1..p /\ more[i] = at[i]
      BY <1>1, <2>1
    <3> QED
      BY <1>1, <2>1, <3>1
  <2>2. CASE i > m
    <3> DEFINE j == i - offset - nwritten
    <3>1. j \in 1..k /\ nwritten + j >= 1 /\ offset + nwritten + j = i /\ j \in Nat
      BY <2>2
    <3>2. more[i] = p + j
      BY <2>2
    <3> HIDE DEF j, more
    <3>3. new[p + j] = i
      BY <3>1
    <3>4. p + j \in 1..p + k /\ p + j > p
      BY <3>1
    <3> QED
      BY <2>2, <3>2, <3>3, <3>4 DEF j
  <2> QED
    BY <2>1, <2>2
<1>3. DOMAIN more = 1..l /\ more \in [1..l -> 1..p + k]
  BY <1>2
<1> HIDE DEF more
<1>4. ASSUME NEW i \in 1..l, NEW j \in 1..l, i < j
      PROVE  more[i] < more[j]
  <2>1. CASE j <= m
    <3>1. i \in 1..m /\ j \in 1..m
      BY <1>4, <2>1
    <3> QED
      BY <1>1, <1>2, <1>4, <2>1, <3>1
  <2>2. CASE i <= m /\ j > m
    BY <1>2, <2>2
  <2>3. CASE i > m /\ j > m
    BY <1>2, <1>4, <2>3
  <2> QED
    BY <1>4, <2>1, <2>2, <2>3
<1>5. /\ \A i \in 1..l : new[more[i]] = i
      /\ \A i, j \in 1..l : i < j => more[i] < more[j]
  BY <1>2, <1>4
<1> QED
  BY <1>3, <1>5, Zenon DEF Carries

\* Files that are done, and files not begun, stay as they are.
LEMMA ContentKept ==
  ASSUME ContentInv, UNCHANGED <<copy, target, failures, source>>, made \subseteq made',
         \A n \in made' \ made : Kind[n] # "file"
  PROVE  ContentInv'
BY DEF ContentInv, Done, Copying, Carried, Carries
\* What ContentInv says of the file in work.
WorkInv ==
  LET n == copy.node
  IN  /\ Carries(target[n], Carried, copy.pos)
      /\ n # source => Len(target[n]) = copy.pos
      /\ failures = 0 =>
           /\ copy.pos = copy.offset + copy.nwritten
           /\ \A i \in 1..copy.pos : target[n][i] = i

LEMMA CopyContent ==
  ASSUME TypeInv, MadeInv, ContentInv, Loop, UNCHANGED treeVars
  PROVE  ContentInv'
<1> DEFINE n == copy.node
<1>1. Copying /\ n \in Nodes /\ n \in made /\ Copying' /\ copy'.node = n
      /\ \A m \in Nodes : m # n => target'[m] = target[m]
  <2>1. CASE Read \/ WriteFails
    BY <2>1, ReadStep, WriteFailsStep, InWork DEF MadeInv, Copying
  <2>2. ASSUME NEW k, NEW new, Writes(k, new)
        PROVE  Copying /\ n \in Nodes /\ n \in made /\ Copying' /\ copy'.node = n
               /\ \A m \in Nodes : m # n => target'[m] = target[m]
    BY <2>2, WritesFields, InWork DEF Writes, MadeInv, Copying, TypeInv
  <2> QED
    BY <2>1, <2>2, WriteStep DEF Loop
<1>2. WorkInv
  BY <1>1 DEF ContentInv, WorkInv
<1>3. failures' = 0 => failures = 0
  <2>1. failures \in Nat
    BY <1>1, Numbers
  <2>2. UNCHANGED failures \/ failures' = failures + 1
    BY DEF Loop, Read, Write, WriteFails
  <2> QED
    BY <2>1, <2>2
<1>4. WorkInv'
  <2>0. Carried \in Nat /\ copy.pos \in Nat
    BY <1>1, Numbers DEF Carried
  <2>1. CASE Read
    <3>1. Carried' = Carried
      BY <1>1, <2>1, ReadStep, Numbers DEF Carried
    <3> QED
      BY <1>1, <1>2, <2>1, <3>1, ReadStep, Numbers DEF WorkInv, treeVars
  <2>2. CASE WriteFails
    <3>1. failures' # 0 /\ Carried' \in Nat /\ Carried' <= Carried
      <4>1. /\ copy'.offset = copy.offset /\ copy'.nwritten = copy.nwritten - 1
            /\ failures' = failures + 1
        BY <2>2, WriteFailsStep
      <4>2. copy.offset \in Nat /\ copy.nwritten \in Int /\ failures \in Nat
        BY <1>1, Numbers
      <4> QED
        BY <4>1, <4>2 DEF Carried
    <3>2. Carries(target[n], Carried', copy.pos)
      BY <1>2, <2>0, <3>1, CarriesLess DEF WorkInv
    <3> QED
      BY <1>1, <1>2, <2>2, <3>1, <3>2, WriteFailsStep DEF WorkInv, treeVars
  <2>3. ASSUME NEW k, NEW new, Writes(k, new)
        PROVE  WorkInv'
    <3>1. /\ copy'.node = n /\ copy'.pos = copy.pos + k /\ copy'.offset = copy.offset
          /\ copy'.nread = copy.nread /\ copy'.nwritten = copy.nwritten + k
      BY <2>3, WritesFields
    <3>2. /\ k \in Nat /\ 1 <= k /\ k <= copy.nread - copy.nwritten
          /\ target'[n] = new /\ failures' = failures
      BY <1>1, <2>3 DEF Writes, TypeInv
    <3>3. /\ \A i \in 1..copy.pos : new[i] = target[n][i]
          /\ \A i \in 1..k : new[copy.pos + i] =
                IF copy.nwritten + i >= 1 THEN copy.offset + copy.nwritten + i ELSE 0
          /\ Len(new) = IF copy.pos + k <= Len(target[n]) THEN Len(target[n]) ELSE copy.pos + k
      BY <2>3 DEF Writes
    <3>4. Carries(new, Carried', copy.pos + k)
      <4> DEFINE m == Carried
                 l == Carried'
      <4>1. /\ copy.offset \in Nat /\ copy.nwritten \in Int
            /\ m \in Nat /\ m = copy.offset + (IF copy.nwritten < 0 THEN 0 ELSE copy.nwritten)
        BY <1>1, Numbers DEF Carried
      <4>2. /\ l \in Nat
            /\ l = copy.offset + (IF copy.nwritten + k < 0 THEN 0 ELSE copy.nwritten + k)
        BY <1>1, <3>1, <3>2, <4>1 DEF Carried
      <4>3. Carries(target[n], m, copy.pos)
        BY <1>2 DEF WorkInv
      <4> DEFINE p == copy.pos
                 offset == copy.offset
                 nwritten == copy.nwritten
                 old == target[n]
      <4>4. /\ p \in Nat /\ k \in Nat /\ offset \in Nat /\ nwritten \in Int
            /\ m \in Nat /\ m = offset + (IF nwritten < 0 THEN 0 ELSE nwritten)
            /\ l \in Nat /\ l = offset + (IF nwritten + k < 0 THEN 0 ELSE nwritten + k)
        BY <2>0, <3>2, <4>1, <4>2
      <4>5. Carries(old, m, p)
        BY <4>3
      <4>6. \A i \in 1..p : new[i] = old[i]
        BY <3>3
      <4>7. \A i \in 1..k : new[p + i] = IF nwritten + i >= 1 THEN offset + nwritten + i ELSE 0
        BY <3>3
      <4> HIDE DEF m, l, p, offset, nwritten, old
      <4>8. Carries(new, l, p + k)
        BY <4>4, <4>5, <4>6, <4>7, CarriesMore
      <4> QED
        BY <4>8 DEF l, p
    <3>5. n # source => Len(new) = copy.pos + k
      <4>1. n # source => Len(target[n]) = copy.pos
        BY <1>2 DEF WorkInv
      <4> QED
        BY <2>0, <3>2, <3>3, <4>1
    <3>6. ASSUME failures = 0
          PROVE  /\ copy.pos + k = copy.offset + (copy.nwritten + k)
                 /\ \A i \in 1..copy.pos + k : new[i] = i
      <4>1. /\ copy.pos = copy.offset + copy.nwritten
            /\ \A i \in 1..copy.pos : target[n][i] = i
        BY <1>2, <3>6 DEF WorkInv
      <4>2. copy.offset \in Nat /\ copy.nwritten \in Int /\ copy.nwritten >= 0
        BY <1>1, <3>6, Numbers
      <4>3. ASSUME NEW i \in 1..copy.pos + k
            PROVE  new[i] = i
        <5>1. CASE i <= copy.pos
          BY <2>0, <3>3, <4>1, <5>1
        <5>2. CASE i > copy.pos
          <6> DEFINE j == i - copy.pos
          <6>1. j \in 1..k /\ copy.pos + j = i
            BY <2>0, <3>2, <5>2
          <6> HIDE DEF j
          <6>2. new[copy.pos + j] = copy.offset + copy.nwritten + j
            BY <3>3, <4>2, <6>1
          <6> QED
            BY <4>1, <4>2, <6>1, <6>2
        <5> QED
          BY <2>0, <3>2, <5>1, <5>2
      <4> QED
        BY <2>0, <3>2, <4>1, <4>2, <4>3
    <3> QED
      BY <3>1, <3>2, <3>4, <3>5, <3>6 DEF WorkInv, treeVars
  <2> QED
    BY <2>1, <2>2, <2>3, WriteStep DEF Loop
<1>5. \A m \in Nodes : Done(m)' => Done(m) /\ target'[m] = target[m]
  BY <1>1 DEF Done, treeVars
<1>6. \A m \in Nodes \ made' : m # source' => target'[m] = <<>>
  BY <1>1 DEF ContentInv, treeVars
<1> QED
  BY <1>1, <1>3, <1>4, <1>5, <1>6 DEF ContentInv, WorkInv, treeVars

LEMMA FileBegunContent ==
  ASSUME TypeInv, ContentInv, ~Copying, NEW n \in Nodes, NEW below, filecpy(n, below), n \notin made
  PROVE  ContentInv'
<1>1. /\ made' = made \cup {n} /\ UNCHANGED <<target, failures, source>>
      /\ copy' = [node |-> n, offset |-> 0, pos |-> 0, nread |-> 0, nwritten |-> 0]
  BY DEF filecpy, Opened, Idle
<1>2. Copying' /\ Carried' = 0 /\ copy'.node = n /\ copy'.pos = 0 /\ copy'.pos = copy'.offset + copy'.nwritten
  BY <1>1, CopyAssumption DEF Carried, Copying
<1>3. Carries(target[n], 0, 0)
  <2>1. [i \in 1..0 |-> 0] \in [1..0 -> 1..0] /\ 1..0 = {}
    OBVIOUS
  <2> QED
    BY <2>1 DEF Carries
<1>4. n # source => Len(target[n]) = 0
  BY EmptySeq DEF ContentInv
<1>5. \A m \in Nodes : Done(m)' => Done(m)
  BY <1>1, <1>2, NobodyIsNotMade DEF Done, Copying
<1> QED
  BY <1>1, <1>2, <1>3, <1>4, <1>5 DEF ContentInv

LEMMA EndOfFileContent ==
  ASSUME TypeInv, MadeInv, ContentInv, EndOfFile
  PROVE  ContentInv'
<1> DEFINE n == copy.node
<1>1. /\ Copying /\ copy.nwritten = copy.nread /\ copy.offset + copy.nread = Size[n] /\ copy' = Idle
      /\ UNCHANGED <<target, failures, source, made>>
  BY DEF EndOfFile, AtEndOfFile
<1>2. n \in Nodes /\ ~Copying'
  BY <1>1, InWork DEF Copying, Idle
<1>3. Carried = Size[n] /\ Size[n] \in Nat /\ copy.pos \in Nat /\ copy.pos <= Len(target[n])
      /\ Len(target[n]) \in Nat /\ copy.offset + copy.nwritten = Size[n]
  BY <1>1, Numbers DEF Carried
<1>4. WorkInv
  BY <1>1 DEF ContentInv, WorkInv
<1>5. Carries(target[n], Size[n], Len(target[n]))
  BY <1>3, <1>4, CarriesLess DEF WorkInv
<1>6. failures = 0 =>
        /\ Len(target[n]) >= Size[n]
        /\ \A i \in 1..Size[n] : target[n][i] = i
        /\ n # source => Len(target[n]) = Size[n]
  BY <1>3, <1>4 DEF WorkInv
<1>7. \A m \in Nodes : Done(m)' => Done(m) \/ m = n
  BY <1>1 DEF Done
<1> QED
  BY <1>1, <1>2, <1>5, <1>6, <1>7 DEF ContentInv
LEMMA NextContentInv ==
  ASSUME TypeInv, StackInv, MadeInv, ContentInv, [Next]_vars
  PROVE  ContentInv'
<1>1. CASE Refuse \/ Return \/ ErrnoAtEnd \/ Fail
  BY <1>1, ExitFacts, ContentKept DEF copyVars
<1>2. CASE Accept
  <2>1. source \in Nodes /\ made = {} /\ ~Copying
    BY <1>2 DEF TypeInv, TypeOK, Accept, MadeInv
  <2>2. CASE filecpy(source, <<>>)
    BY <2>1, <2>2, FileBegunContent
  <2>3. CASE Kind[source] = "dir" /\ walk(source, <<>>)
    BY <2>1, <2>3, ContentKept DEF walk
  <2> QED
    BY <1>2, <2>2, <2>3 DEF Accept
<1>3. CASE EndOfDir
  BY <1>3, ContentKept DEF EndOfDir, copyVars
<1>4. CASE CopyStep
  BY <1>4, CopyContent DEF CopyStep
<1>5. CASE EndOfFile
  BY <1>5, EndOfFileContent
<1>6. ASSUME NEW n \in Nodes, Descend(n) \/ CopyFile(n) \/ Skip(n)
      PROVE  ContentInv'
  <2>1. stack # <<>> /\ ~Copying /\ n \in Top.left
    BY <1>6 DEF Descend, CopyFile, Skip, Walking
  <2>2. n \notin made
    BY <2>1, PastPending
  <2>3. CASE Descend(n)
    BY <2>3, ContentKept DEF Descend, walk
  <2>4. CASE CopyFile(n)
    BY <2>1, <2>2, <2>4, FileBegunContent DEF CopyFile
  <2>5. CASE Skip(n)
    BY <2>5, ContentKept DEF Skip, copyVars
  <2> QED
    BY <1>6, <2>3, <2>4, <2>5
<1>7. CASE UNCHANGED vars
  BY <1>7, ContentKept DEF vars, copyVars, treeVars
<1> QED
  BY <1>1, <1>2, <1>3, <1>4, <1>5, <1>6, <1>7 DEF Next

LEMMA InitIInv == Init => IInv
<1> SUFFICES ASSUME Init PROVE IInv
  OBVIOUS
<1>1. TypeInv
  BY InitTypeInv
<1>2. StackInv /\ MadeInv /\ ErrnoInv /\ ~Copying
  BY CopyAssumption DEF Init, StackInv, Pending, MadeInv, Covers, Copying, Idle, ErrnoInv
<1>3. \A n \in Nodes : n # source => target[n] = <<>>
  BY DEF Init
<1>4. made = {}
  BY DEF Init
<1> QED
  BY <1>1, <1>2, <1>3, <1>4 DEF IInv, ContentInv, Done

LEMMA Inductive == Spec => []IInv
<1>1. IInv /\ [Next]_vars => IInv'
  BY NextTypeInv, NextStackInv, NextErrnoInv, NextContentInv DEF IInv
<1> QED
  BY <1>1, InitIInv, PTL DEF Spec

LEMMA LostNothing ==
  ASSUME IInv
  PROVE  NothingLost
<1> SUFFICES ASSUME status = "success" PROVE
      /\ \A n \in Files(source) : Holds(target[n], n)
      /\ failures = 0 \/ Dirs(source) = {source} =>
           \A n \in Files(source) : SubSeq(target[n], 1, Size[n]) = Whole(n)
                                 /\ (n # source => Len(target[n]) = Size[n])
  BY DEF NothingLost
<1>1. source \in made /\ stack = <<>> /\ ~Copying
  BY DEF IInv, MadeInv
<1>2. \A n \in Files(source) : n \in Nodes /\ Done(n)
  <2>1. Wanted(source) \subseteq made
    BY <1>1, AllIsMade DEF IInv
  <2>2. Files(source) \subseteq Nodes /\ \A n \in Files(source) : Kind[n] = "file"
    BY BelowIsClosed DEF Files, IInv, TypeInv, TypeOK
  <2>3. Nobody \notin Nodes
    BY CopyAssumption
  <2> QED
    BY <1>1, <2>1, <2>2, <2>3 DEF Wanted, Done, Copying
<1>3. \A n \in Nodes : /\ target[n] \in Seq(Nat) /\ DOMAIN target[n] = 1..Len(target[n])
                       /\ Len(target[n]) \in Nat /\ Size[n] \in Nat
  BY LenProperties, CopyAssumption DEF IInv, TypeInv
<1>4. \A n \in Files(source) : Holds(target[n], n)
  BY <1>2, <1>3 DEF IInv, ContentInv, Holds, Carries
<1>5. ASSUME failures = 0 \/ Dirs(source) = {source}, NEW n \in Files(source)
      PROVE  SubSeq(target[n], 1, Size[n]) = Whole(n) /\ (n # source => Len(target[n]) = Size[n])
  <2>1. failures = 0
    BY <1>1, <1>5 DEF IInv, ErrnoInv
  <2>2. /\ Len(target[n]) >= Size[n]
        /\ \A i \in 1..Size[n] : target[n][i] = i
        /\ n # source => Len(target[n]) = Size[n]
    BY <1>2, <2>1 DEF IInv, ContentInv
  <2> DEFINE head == SubSeq(target[n], 1, Size[n])
  <2>3. /\ head \in Seq(Nat) /\ Len(head) = Size[n]
        /\ \A i \in 1..Size[n] : head[i] = target[n][i]
    <3>1. \A i \in 1..Size[n] : target[n][i] \in Nat
      BY <2>2
    <3> QED
      BY <1>2, <1>3, <3>1, SubSeqProperties
  <2> HIDE DEF head
  <2>4. head = Whole(n)
    <3>1. head = [i \in 1..Len(head) |-> head[i]]
      BY <2>3, LenProperties
    <3> QED
      BY <2>2, <2>3, <3>1 DEF Whole
  <2> QED
    BY <2>2, <2>4 DEF head
<1> QED
  BY <1>4, <1>5

\* A treecopy that tells success has copied every byte of every file below the source,
\* however short the reads and writes were and whichever writes failed; and where
\* no write failed, or the source has no directories, the copies are exact.
THEOREM NothingIsLost == Spec => []NothingLost
BY Inductive, LostNothing, PTL
-----------------------------------------------------------------------------
(* The sum of the sizes of a set of files, by induction on the set: of the *)
(* sets for which a claim fails, one would have the fewest elements.       *)

LEMMA FewestElements ==
  ASSUME NEW U, U # {}, \A S \in U : IsFiniteSet(S)
  PROVE  \E S \in U : \A T \in U : Cardinality(S) <= Cardinality(T)
<1> DEFINE N == { Cardinality(S) : S \in U }
<1>1. N \subseteq Nat /\ N # {}
  BY FS_CardinalityType
<1> HIDE DEF N
<1>2. PICK m \in N : \A k \in N : <<k, m>> \notin OpToRel(<, Nat)
  BY <1>1, WFMin, NatLessThanWellFounded, Zenon
<1>3. \A k \in N : ~(k < m)
  BY <1>1, <1>2, Zenon DEF OpToRel
<1>4. \A k \in N : m <= k
  BY <1>1, <1>3
<1> QED
  BY <1>4 DEF N

Some(S) == CHOOSE n \in S : TRUE

\* The function that MapThenSumSet computes on the subsets of S.
Sums(f, S) ==
  f = [T \in SUBSET S |-> IF T = {} THEN 0 ELSE Size[Some(T)] + f[T \ {Some(T)}]]

LEMMA SumsFacts ==
  ASSUME NEW f, NEW S, Sums(f, S)
  PROVE  /\ S = {} => f[S] = 0
         /\ \A T \in SUBSET S : T # {} => f[T] = Size[Some(T)] + f[T \ {Some(T)}]
         /\ DOMAIN f = SUBSET S
<1>1. \A T \in SUBSET S : f[T] = IF T = {} THEN 0 ELSE Size[Some(T)] + f[T \ {Some(T)}]
  BY DEF Sums
<1>2. DOMAIN f = SUBSET S
  BY DEF Sums
<1> QED
  BY <1>1, <1>2

LEMMA SomeIsIn ==
  ASSUME NEW S, S # {}
  PROVE  Some(S) \in S
BY DEF Some

\* There is one such function only, and what it says of a subset of S does not depend
\* on S.
LEMMA SumsAgree ==
  ASSUME NEW S, IsFiniteSet(S), NEW f, Sums(f, S), NEW R \in SUBSET S, NEW g, Sums(g, R)
  PROVE  f[R] = g[R]
<1> DEFINE U == { T \in SUBSET R : f[T] # g[T] }
<1> SUFFICES ASSUME U # {} PROVE FALSE
  OBVIOUS
<1>1. \A T \in U : IsFiniteSet(T)
  BY FS_Subset
<1>2. PICK S0 \in U : \A T \in U : Cardinality(S0) <= Cardinality(T)
  <2> HIDE DEF U
  <2> QED
    BY <1>1, FewestElements
<1>3. S0 \in SUBSET R /\ S0 \in SUBSET S /\ f[S0] # g[S0] /\ IsFiniteSet(S0)
  BY <1>1
<1>4. CASE S0 = {}
  <2>1. f[S0] = 0 /\ g[S0] = 0
    BY <1>3, <1>4 DEF Sums
  <2> QED
    BY <1>3, <2>1
<1>5. CASE S0 # {}
  <2> DEFINE T == S0 \ {Some(S0)}
  <2>1. /\ f[S0] = Size[Some(S0)] + f[T] /\ g[S0] = Size[Some(S0)] + g[T]
    BY <1>3, <1>5, SumsFacts
  <2>2. Some(S0) \in S0 /\ T \in SUBSET R
    BY <1>3, <1>5, SomeIsIn
  <2>3. Cardinality(T) = Cardinality(S0) - 1 /\ Cardinality(S0) \in Nat
    BY <1>3, <2>2, FS_RemoveElement, FS_CardinalityType
  <2>4. T \notin U
    BY <1>2, <2>3
  <2> QED
    BY <1>3, <2>1, <2>2, <2>4
<1> QED
  BY <1>4, <1>5

LEMMA SumsRestricted ==
  ASSUME NEW S, NEW f, Sums(f, S), NEW R \in SUBSET S
  PROVE  Sums([T \in SUBSET R |-> f[T]], R)
<1> DEFINE g == [T \in SUBSET R |-> f[T]]
<1>1. ASSUME NEW T \in SUBSET R
      PROVE  g[T] = IF T = {} THEN 0 ELSE Size[Some(T)] + g[T \ {Some(T)}]
  <2>1. g[T] = f[T] /\ g[T \ {Some(T)}] = f[T \ {Some(T)}]
    OBVIOUS
  <2>2. f[T] = IF T = {} THEN 0 ELSE Size[Some(T)] + f[T \ {Some(T)}]
    BY DEF Sums
  <2> QED
    BY <2>1, <2>2
<1>2. g = [T \in SUBSET R |-> g[T]]
  OBVIOUS
<1> HIDE DEF g
<1>3. Sums(g, R)
  BY <1>1, <1>2 DEF Sums
<1> QED
  BY <1>3 DEF g

LEMMA SumsExist ==
  ASSUME NEW S \in SUBSET Nodes, IsFiniteSet(S)
  PROVE  \E f : Sums(f, S)
<1> DEFINE U == { T \in SUBSET S : ~ \E f : Sums(f, T) }
<1> SUFFICES ASSUME U # {} PROVE FALSE
  OBVIOUS
<1>1. \A T \in U : IsFiniteSet(T)
  BY FS_Subset
<1>2. PICK S0 \in U : \A T \in U : Cardinality(S0) <= Cardinality(T)
  <2> HIDE DEF U
  <2> QED
    BY <1>1, FewestElements
<1>3. S0 \in SUBSET S /\ (~ \E f : Sums(f, S0)) /\ IsFiniteSet(S0)
  BY <1>1
<1> DEFINE Of(T) == CHOOSE f : Sums(f, T)
<1>4. ASSUME NEW T \in SUBSET S0, T # S0
      PROVE  Sums(Of(T), T)
  <2>1. Cardinality(T) <= Cardinality(S0) /\ Cardinality(T) # Cardinality(S0)
        /\ Cardinality(T) \in Nat /\ Cardinality(S0) \in Nat
    BY <1>3, <1>4, FS_Subset, FS_CardinalityType
  <2>2. T \notin U
    BY <1>2, <2>1
  <2>3. \E f : Sums(f, T)
    BY <1>3, <2>2
  <2> QED
    BY <2>3
<1> DEFINE h == [T \in SUBSET S0 |->
                   IF T = {} THEN 0
                   ELSE Size[Some(T)] + Of(T \ {Some(T)})[T \ {Some(T)}]]
<1> HIDE DEF Of
<1>5. ASSUME NEW T \in SUBSET S0, T # S0
      PROVE  h[T] = Of(T)[T]
  <2>1. Sums(Of(T), T) /\ IsFiniteSet(T)
    BY <1>3, <1>4, <1>5, FS_Subset
  <2>2. CASE T = {}
    BY <2>1, <2>2, SumsFacts
  <2>3. CASE T # {}
    <3> DEFINE R == T \ {Some(T)}
    <3>1. R \in SUBSET T /\ R \in SUBSET S0 /\ R # S0
      BY <1>5, <2>3, SomeIsIn
    <3>2. Sums(Of(R), R)
      BY <1>4, <3>1
    <3>3. Of(T)[R] = Of(R)[R]
      BY <2>1, <3>1, <3>2, SumsAgree
    <3>4. Of(T)[T] = Size[Some(T)] + Of(T)[R]
      BY <2>1, <2>3, SumsFacts
    <3> QED
      BY <2>3, <3>3, <3>4
  <2> QED
    BY <2>2, <2>3
<1>6. ASSUME NEW T \in SUBSET S0
      PROVE  h[T] = IF T = {} THEN 0 ELSE Size[Some(T)] + h[T \ {Some(T)}]
  <2>1. CASE T = {}
    BY <2>1
  <2>2. CASE T # {}
    <3> DEFINE R == T \ {Some(T)}
    <3>1. R \in SUBSET S0 /\ R # S0
      BY <2>2, SomeIsIn
    <3>2. h[R] = Of(R)[R]
      BY <1>5, <3>1
    <3>3. h[T] = Size[Some(T)] + Of(R)[R]
      BY <2>2
    <3> QED
      BY <2>2, <3>2, <3>3
  <2> QED
    BY <2>1, <2>2
<1>7. h = [T \in SUBSET S0 |-> h[T]]
  OBVIOUS
<1> HIDE DEF h
<1>8. Sums(h, S0)
  BY <1>6, <1>7 DEF Sums
<1> QED
  BY <1>3, <1>8
Total(S) == MapThenSumSet(LAMBDA n : Size[n], S)

LEMMA TotalIsSum ==
  ASSUME NEW S \in SUBSET Nodes, IsFiniteSet(S)
  PROVE  \E f : Sums(f, S) /\ Total(S) = f[S]
<1> DEFINE iter == CHOOSE f : f = [s \in SUBSET S |->
                     IF s = {} THEN 0
                     ELSE LET x == CHOOSE y \in s : TRUE IN Size[x] + f[s \ {x}]]
<1>1. Total(S) = iter[S]
  BY Zenon DEF Total, MapThenSumSet, MapThenFoldSet
<1>2. \E f : f = [s \in SUBSET S |->
                     IF s = {} THEN 0
                     ELSE LET x == CHOOSE y \in s : TRUE IN Size[x] + f[s \ {x}]]
  BY SumsExist, Zenon DEF Sums, Some
<1>3. iter = [s \in SUBSET S |->
                     IF s = {} THEN 0
                     ELSE LET x == CHOOSE y \in s : TRUE IN Size[x] + iter[s \ {x}]]
  BY <1>2, Zenon
<1> HIDE DEF iter
<1>4. Sums(iter, S)
  BY <1>3, Zenon DEF Sums, Some
<1> QED
  BY <1>1, <1>4

LEMMA TotalUnfolds ==
  ASSUME NEW S \in SUBSET Nodes, IsFiniteSet(S)
  PROVE  /\ S = {} => Total(S) = 0
         /\ S # {} => Total(S) = Size[Some(S)] + Total(S \ {Some(S)})
<1>1. PICK f : Sums(f, S) /\ Total(S) = f[S]
  BY TotalIsSum
<1>2. CASE S = {}
  BY <1>1, <1>2, SumsFacts
<1>3. CASE S # {}
  <2> DEFINE R == S \ {Some(S)}
  <2>1. R \in SUBSET Nodes /\ R \in SUBSET S /\ IsFiniteSet(R)
    BY FS_RemoveElement
  <2>2. PICK g : Sums(g, R) /\ Total(R) = g[R]
    BY <2>1, TotalIsSum
  <2>3. f[R] = g[R]
    BY <1>1, <2>1, <2>2, SumsAgree
  <2>4. f[S] = Size[Some(S)] + f[R]
    BY <1>1, <1>3, SumsFacts
  <2> QED
    BY <1>1, <1>3, <2>2, <2>3, <2>4
<1> QED
  BY <1>2, <1>3

LEMMA TotalIsNat ==
  ASSUME NEW S \in SUBSET Nodes, IsFiniteSet(S)
  PROVE  Total(S) \in Nat
<1> DEFINE U == { T \in SUBSET S : Total(T) \notin Nat }
<1> SUFFICES ASSUME U # {} PROVE FALSE
  OBVIOUS
<1>1. \A T \in U : IsFiniteSet(T)
  BY FS_Subset
<1>2. PICK S0 \in U : \A T \in U : Cardinality(S0) <= Cardinality(T)
  <2> HIDE DEF U
  <2> QED
    BY <1>1, FewestElements
<1>3. S0 \in SUBSET S /\ S0 \in SUBSET Nodes /\ Total(S0) \notin Nat /\ IsFiniteSet(S0)
  BY <1>1
<1>4. S0 # {}
  BY <1>3, TotalUnfolds
<1> DEFINE T == S0 \ {Some(S0)}
<1>5. Some(S0) \in S0 /\ T \in SUBSET S
  BY <1>3, <1>4, SomeIsIn
<1>6. Cardinality(T) = Cardinality(S0) - 1 /\ Cardinality(S0) \in Nat
  BY <1>3, <1>5, FS_RemoveElement, FS_CardinalityType
<1>7. T \notin U
  BY <1>2, <1>6
<1>8. Total(S0) = Size[Some(S0)] + Total(T)
  BY <1>3, <1>4, TotalUnfolds
<1> QED
  BY <1>3, <1>5, <1>7, <1>8, CopyAssumption

\* The sum does not depend on the order in which the elements are taken.
LEMMA TotalRemove ==
  ASSUME NEW S \in SUBSET Nodes, IsFiniteSet(S), NEW n \in S
  PROVE  Total(S) = Size[n] + Total(S \ {n})
<1> DEFINE U == { T \in SUBSET S : \E k \in T : Total(T) # Size[k] + Total(T \ {k}) }
<1> SUFFICES ASSUME U # {} PROVE FALSE
  OBVIOUS
<1>1. \A T \in U : IsFiniteSet(T)
  BY FS_Subset
<1>2. PICK S0 \in U : \A T \in U : Cardinality(S0) <= Cardinality(T)
  <2> HIDE DEF U
  <2> QED
    BY <1>1, FewestElements
<1>3. S0 \in SUBSET S /\ S0 \in SUBSET Nodes /\ IsFiniteSet(S0)
  BY <1>1
<1>4. PICK k \in S0 : Total(S0) # Size[k] + Total(S0 \ {k})
  OBVIOUS
<1> DEFINE c == Some(S0)
<1>5. c \in S0 /\ Total(S0) = Size[c] + Total(S0 \ {c}) /\ c # k
  BY <1>3, <1>4, SomeIsIn, TotalUnfolds
<1> HIDE DEF c
<1>6. ASSUME NEW x \in S0, NEW y \in S0, x # y
      PROVE  Total(S0 \ {x}) = Size[y] + Total((S0 \ {x}) \ {y})
  <2>1. S0 \ {x} \in SUBSET S /\ y \in S0 \ {x}
    BY <1>3, <1>6
  <2>2. Cardinality(S0 \ {x}) = Cardinality(S0) - 1 /\ Cardinality(S0) \in Nat
    BY <1>3, FS_RemoveElement, FS_CardinalityType
  <2>3. S0 \ {x} \notin U
    BY <1>2, <2>2
  <2> QED
    BY <2>1, <2>3
<1>7. /\ Total(S0 \ {c}) = Size[k] + Total((S0 \ {c}) \ {k})
      /\ Total(S0 \ {k}) = Size[c] + Total((S0 \ {k}) \ {c})
  BY <1>5, <1>6
<1>8. (S0 \ {c}) \ {k} = (S0 \ {k}) \ {c}
  OBVIOUS
<1> DEFINE rest == Total((S0 \ {c}) \ {k})
<1>9. rest \in Nat
  <2>1. (S0 \ {c}) \ {k} \in SUBSET S0
    OBVIOUS
  <2> QED
    BY <1>3, <2>1, FS_Subset, TotalIsNat
<1>10. Size[c] \in Nat /\ Size[k] \in Nat
  BY <1>3, <1>4, <1>5, CopyAssumption
<1>11. Total(S0) = Size[c] + (Size[k] + rest) /\ Total(S0 \ {k}) = Size[c] + rest
  BY <1>5, <1>7, <1>8
<1> HIDE DEF rest
<1>12. Total(S0) = Size[k] + Total(S0 \ {k})
  BY <1>9, <1>10, <1>11
<1> QED
  BY <1>4, <1>12

LEMMA TotalAdd ==
  ASSUME NEW S \in SUBSET Nodes, IsFiniteSet(S), NEW n \in Nodes, n \notin S
  PROVE  Total(S \cup {n}) = Total(S) + Size[n]
<1>1. IsFiniteSet(S \cup {n}) /\ S \cup {n} \in SUBSET Nodes /\ (S \cup {n}) \ {n} = S
  BY FS_AddElement
<1>2. Total(S \cup {n}) = Size[n] + Total(S)
  BY <1>1, TotalRemove
<1> QED
  BY <1>2, TotalIsNat, CopyAssumption
-----------------------------------------------------------------------------
(* The counts.                                                             *)

Finished == { n \in made : Kind[n] = "file" /\ n # copy.node }
Opendirs == { n \in made : Kind[n] = "dir" }

\* The bytes counted for the file in work.
Begun == copy.offset + (IF copy.nwritten = copy.nread THEN copy.nread ELSE 0)

CountInv ==
  /\ IsFiniteSet(made)
  /\ FILE_COUNT = Cardinality(Finished)
  /\ DIR_COUNT = Cardinality(Opendirs)
  /\ accumulated = Total(Finished) + Begun
  /\ Copying \/ Begun = 0

LEMMA FilesFinite ==
  ASSUME TypeInv, CountInv
  PROVE  /\ IsFiniteSet(Finished) /\ IsFiniteSet(Opendirs)
         /\ Finished \subseteq made /\ Opendirs \subseteq made /\ made \subseteq Nodes
         /\ Total(Finished) \in Nat
<1>1. Finished \in SUBSET made /\ Opendirs \in SUBSET made /\ made \subseteq Nodes
  BY DEF Finished, Opendirs, TypeInv, TypeOK
<1>2. IsFiniteSet(Finished) /\ IsFiniteSet(Opendirs)
  BY <1>1, FS_Subset DEF CountInv
<1> QED
  BY <1>1, <1>2, TotalIsNat

LEMMA IdleFields ==
  /\ Idle.node = Nobody /\ Idle.offset = 0 /\ Idle.nread = 0 /\ Idle.nwritten = 0
  /\ \A n \in Nodes : /\ Opened(n).node = n /\ Opened(n).offset = 0
                      /\ Opened(n).nread = 0 /\ Opened(n).nwritten = 0
BY DEF Idle, Opened

\* Counts stay with the nodes.
LEMMA CountsKept ==
  ASSUME CountInv, UNCHANGED <<copy, made, FILE_COUNT, DIR_COUNT, accumulated>>
  PROVE  CountInv'
<1>1. Finished' = Finished /\ Opendirs' = Opendirs /\ Begun' = Begun
  BY DEF Finished, Opendirs, Begun
<1>2. Total(Finished)' = Total(Finished)
  BY <1>1, Zenon DEF Total, MapThenSumSet, MapThenFoldSet
<1> QED
  BY <1>1, <1>2 DEF CountInv, Copying

\* While nothing is copied the counts are those of what is done.
LEMMA NothingBegun ==
  ASSUME TypeInv, MadeInv, CountInv, ~Copying
  PROVE  Finished = { n \in made : Kind[n] = "file" } /\ Nobody \notin made
BY NobodyIsNotMade DEF Finished, Copying

LEMMA FileBegunCounts ==
  ASSUME TypeInv, MadeInv, CountInv, ~Copying,
         NEW n \in Nodes, NEW below, filecpy(n, below), Kind[n] = "file", n \notin made
  PROVE  CountInv'
<1>1. /\ made' = made \cup {n} /\ copy' = Opened(n)
      /\ UNCHANGED <<accumulated, FILE_COUNT, DIR_COUNT>>
  BY DEF filecpy
<1>2. copy'.node = n /\ Begun' = 0
  BY <1>1, IdleFields DEF Begun
<1>3. Finished' = Finished
  BY <1>1, <1>2, NothingBegun DEF Finished
<1>4. Opendirs' = Opendirs
  BY <1>1 DEF Opendirs
<1>5. IsFiniteSet(made')
  BY <1>1, FS_AddElement DEF CountInv
<1>6. Total(Finished)' = Total(Finished)
  BY <1>3, Zenon DEF Total, MapThenSumSet, MapThenFoldSet
<1> QED
  BY <1>1, <1>2, <1>3, <1>4, <1>5, <1>6 DEF CountInv

LEMMA WalkBegunCounts ==
  ASSUME TypeInv, CountInv, NEW d \in Nodes, NEW below, walk(d, below), Kind[d] = "dir", d \notin made
  PROVE  CountInv'
<1>1. /\ made' = made \cup {d} /\ DIR_COUNT' = DIR_COUNT + 1
      /\ UNCHANGED <<copy, accumulated, FILE_COUNT>>
  BY DEF walk
<1>2. Finished' = Finished /\ Begun' = Begun
  BY <1>1 DEF Finished, Begun
<1>3. Opendirs' = Opendirs \cup {d} /\ d \notin Opendirs
  BY <1>1 DEF Opendirs
<1>4. IsFiniteSet(made') /\ Cardinality(Opendirs') = Cardinality(Opendirs) + 1
  BY <1>1, <1>3, FilesFinite, FS_AddElement DEF CountInv
<1>5. Total(Finished)' = Total(Finished)
  BY <1>2, Zenon DEF Total, MapThenSumSet, MapThenFoldSet
<1> QED
  BY <1>1, <1>2, <1>4, <1>5 DEF CountInv, Copying

LEMMA LoopCounts ==
  ASSUME TypeInv, CountInv, Loop, UNCHANGED treeVars
  PROVE  CountInv'
<1>1. /\ copy'.node = copy.node
      /\ accumulated' = accumulated + (Begun' - Begun) /\ Begun \in Nat /\ Begun' \in Nat
  <2>1. CASE Read
    <3>1. /\ copy'.offset = copy.offset + copy.nread /\ copy'.nwritten = 0 /\ copy'.nread \in 1..BUFSIZ
          /\ Copying /\ copy.nwritten = copy.nread
          /\ copy'.node = copy.node /\ accumulated' = accumulated
      BY <2>1, ReadStep
    <3>2. copy.offset \in Nat /\ copy.nread \in Nat /\ accumulated \in Nat
      BY <3>1, Numbers DEF TypeInv, TypeOK, LoopTypeOK
    <3>3. Begun = copy.offset + copy.nread /\ Begun' = copy.offset + copy.nread
      BY <3>1, <3>2 DEF Begun
    <3> QED
      BY <3>1, <3>2, <3>3
  <2>2. CASE WriteFails
    <3>1. /\ copy'.offset = copy.offset /\ copy'.nread = copy.nread
          /\ copy'.nwritten = copy.nwritten - 1 /\ Copying /\ copy.nwritten # copy.nread
          /\ copy'.node = copy.node /\ accumulated' = accumulated
      BY <2>2, WriteFailsStep
    <3>2. copy.offset \in Nat /\ copy.nread \in Nat /\ copy.nwritten \in Int
          /\ copy.nwritten <= copy.nread /\ accumulated \in Nat
      BY <3>1, Numbers DEF TypeInv, TypeOK, LoopTypeOK
    <3>3. Begun = copy.offset /\ Begun' = copy.offset
      BY <3>1, <3>2 DEF Begun
    <3> QED
      BY <3>1, <3>2, <3>3
  <2>3. ASSUME NEW k, NEW new, Writes(k, new)
        PROVE  /\ copy'.node = copy.node
               /\ accumulated' = accumulated + (Begun' - Begun) /\ Begun \in Nat /\ Begun' \in Nat
    <3>1. /\ copy'.offset = copy.offset /\ copy'.nread = copy.nread
          /\ copy'.nwritten = copy.nwritten + k /\ copy'.node = copy.node
      BY <2>3, WritesFields
    <3>2. /\ k \in Nat /\ 1 <= k /\ k <= copy.nread - copy.nwritten /\ Copying
          /\ accumulated' = IF copy.nwritten + k = copy.nread
                            THEN accumulated + copy.nread ELSE accumulated
      BY <2>3 DEF Writes
    <3>3. copy.offset \in Nat /\ copy.nread \in Nat /\ copy.nwritten \in Int /\ accumulated \in Nat
      BY <3>2, Numbers DEF TypeInv, TypeOK, LoopTypeOK
    <3>4. /\ Begun = copy.offset
          /\ Begun' = copy.offset + (IF copy.nwritten + k = copy.nread THEN copy.nread ELSE 0)
      BY <3>1, <3>2, <3>3 DEF Begun
    <3> QED
      BY <3>1, <3>2, <3>3, <3>4
  <2> QED
    BY <2>1, <2>2, <2>3, WriteStep DEF Loop
<1>2. Finished' = Finished /\ Opendirs' = Opendirs
  BY <1>1 DEF Finished, Opendirs, treeVars
<1>3. Total(Finished)' = Total(Finished)
  BY <1>2, Zenon DEF Total, MapThenSumSet, MapThenFoldSet
<1>4. accumulated' = Total(Finished) + Begun'
  BY <1>1, FilesFinite DEF CountInv
<1>5. Copying'
  BY <1>1 DEF Loop, Read, Write, WriteFails, Copying
<1> QED
  BY <1>2, <1>3, <1>4, <1>5 DEF CountInv, treeVars

LEMMA EndOfFileCounts ==
  ASSUME TypeInv, MadeInv, CountInv, EndOfFile
  PROVE  CountInv'
<1> DEFINE n == copy.node
<1>1. /\ Copying /\ copy.nwritten = copy.nread /\ copy.offset + copy.nread = Size[n] /\ copy' = Idle
      /\ FILE_COUNT' = FILE_COUNT + 1 /\ UNCHANGED <<accumulated, made, DIR_COUNT>>
  BY DEF EndOfFile, AtEndOfFile
<1>2. n \in made /\ Kind[n] = "file" /\ n \in Nodes /\ Nobody \notin made
  BY <1>1, InWork, NobodyIsNotMade DEF MadeInv
<1>3. copy'.node = Nobody /\ Begun' = 0
  BY <1>1, IdleFields DEF Begun
<1>4. Finished' = Finished \cup {n} /\ n \notin Finished
  BY <1>1, <1>2, <1>3 DEF Finished
<1>5. Opendirs' = Opendirs
  BY <1>1 DEF Opendirs
<1>6. Cardinality(Finished') = Cardinality(Finished) + 1
  BY <1>4, FilesFinite, FS_AddElement
<1>7. Total(Finished') = Total(Finished) + Size[n]
  <2>1. Finished \in SUBSET Nodes /\ IsFiniteSet(Finished)
    BY FilesFinite
  <2> QED
    BY <1>2, <1>4, <2>1, TotalAdd
<1>8. Begun = Size[n] /\ Size[n] \in Nat
  BY <1>1, Numbers DEF Begun
<1>9. Total(Finished)' = Total(Finished')
  BY Zenon DEF Total, MapThenSumSet, MapThenFoldSet
<1> QED
  BY <1>1, <1>3, <1>5, <1>6, <1>7, <1>8, <1>9, FilesFinite DEF CountInv
LEMMA InitCounts == Init => CountInv
<1> SUFFICES ASSUME Init PROVE CountInv
  OBVIOUS
<1>1. made = {} /\ FILE_COUNT = 0 /\ DIR_COUNT = 0 /\ accumulated = 0 /\ copy = Idle
  BY DEF Init
<1>2. Finished = {} /\ Opendirs = {} /\ Begun = 0
  BY <1>1, IdleFields DEF Finished, Opendirs, Begun
<1>3. IsFiniteSet({}) /\ Cardinality({}) = 0
  BY FS_EmptySet
<1>4. Total({}) = 0
  <2>1. {} \in SUBSET Nodes
    OBVIOUS
  <2> QED
    BY <1>3, <2>1, TotalUnfolds
<1> QED
  BY <1>1, <1>2, <1>3, <1>4 DEF CountInv

LEMMA NextCountInv ==
  ASSUME TypeInv, StackInv, MadeInv, CountInv, [Next]_vars
  PROVE  CountInv'
<1>1. CASE Refuse \/ Return \/ ErrnoAtEnd \/ Fail
  BY <1>1, ExitFacts, CountsKept DEF copyVars
<1>2. CASE Accept
  <2>1. source \in Nodes /\ made = {} /\ ~Copying
    BY <1>2 DEF TypeInv, TypeOK, Accept, MadeInv
  <2>2. CASE Kind[source] = "file" /\ filecpy(source, <<>>)
    BY <2>1, <2>2, FileBegunCounts
  <2>3. CASE Kind[source] = "dir" /\ walk(source, <<>>)
    BY <2>1, <2>3, WalkBegunCounts
  <2> QED
    BY <1>2, <2>2, <2>3 DEF Accept
<1>3. CASE EndOfDir
  BY <1>3, CountsKept DEF EndOfDir, copyVars
<1>4. CASE CopyStep
  BY <1>4, LoopCounts DEF CopyStep
<1>5. CASE EndOfFile
  BY <1>5, EndOfFileCounts
<1>6. ASSUME NEW n \in Nodes, Descend(n) \/ CopyFile(n) \/ Skip(n)
      PROVE  CountInv'
  <2>1. stack # <<>> /\ ~Copying /\ n \in Top.left
    BY <1>6 DEF Descend, CopyFile, Skip, Walking
  <2>2. n \notin made
    BY <2>1, PastPending
  <2>3. CASE Descend(n)
    BY <2>2, <2>3, WalkBegunCounts DEF Descend
  <2>4. CASE CopyFile(n)
    BY <2>1, <2>2, <2>4, FileBegunCounts DEF CopyFile
  <2>5. CASE Skip(n)
    BY <2>5, CountsKept DEF Skip, copyVars
  <2> QED
    BY <1>6, <2>3, <2>4, <2>5
<1>7. CASE UNCHANGED vars
  BY <1>7, CountsKept DEF vars, copyVars, treeVars
<1> QED
  BY <1>1, <1>2, <1>3, <1>4, <1>5, <1>6, <1>7 DEF Next

LEMMA CountedAll ==
  ASSUME IInv, CountInv
  PROVE  CountsTrue
<1> SUFFICES ASSUME status = "success"
             PROVE  /\ FILE_COUNT = Cardinality(Files(source))
                    /\ DIR_COUNT = Cardinality(Dirs(source))
                    /\ accumulated = MapThenSumSet(LAMBDA n : Size[n], Files(source))
  BY DEF CountsTrue
<1>1. source \in made /\ stack = <<>> /\ ~Copying /\ made \subseteq Wanted(source)
  BY DEF IInv, MadeInv
<1>2. Wanted(source) = made
  BY <1>1, AllIsMade DEF IInv
<1>3. Finished = Files(source) /\ Opendirs = Dirs(source)
  BY <1>1, <1>2, NothingBegun DEF IInv, Wanted, Files, Dirs, Finished, Opendirs
<1>4. accumulated = Total(Files(source))
  BY <1>1, <1>3, FilesFinite DEF CountInv, IInv
<1>5. accumulated = MapThenSumSet(LAMBDA n : Size[n], Files(source))
  BY <1>4, Zenon DEF Total
<1> QED
  BY <1>3, <1>5 DEF CountInv

\* The numbers of directories, files and bytes that treecopy tells are those of the
\* source, for any tree, also when writes failed and bytes were written twice.
THEOREM CountsAreTrue == Spec => []CountsTrue
<1>1. IInv /\ CountInv /\ [Next]_vars => CountInv'
  BY NextCountInv DEF IInv
<1> QED
  BY <1>1, Inductive, InitCounts, CountedAll, PTL DEF Spec
=============================================================================
