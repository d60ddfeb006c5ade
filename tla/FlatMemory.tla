----------------------------- MODULE FlatMemory -----------------------------
(***************************************************************************)
(* What the virtual memory promises the programs that run on it: pages     *)
(* that keep what was last written to them, and nothing else that a        *)
(* program could see.                                                      *)
(***************************************************************************)
CONSTANTS Pages, Data

VARIABLES
  mem,     \* the contents of each page
  access,  \* the access the program is at, or Idle
  result   \* what the last read returned

memVars == <<mem, access, result>>

Accesses == [op : {"read"}, page : Pages] \cup [op : {"write"}, page : Pages, data : Data]
Idle     == [op |-> "idle"]
Exited   == [op |-> "exited"]

Init ==
  /\ mem \in [Pages -> Data]
  /\ access = Idle
  /\ result \in Data

Request ==
  /\ access = Idle
  /\ access' \in Accesses
  /\ UNCHANGED <<mem, result>>

Read ==
  /\ access.op = "read"
  /\ result' = mem[access.page]
  /\ access' = Idle
  /\ UNCHANGED mem

Write ==
  /\ access.op = "write"
  /\ mem' = [mem EXCEPT ![access.page] = access.data]
  /\ access' = Idle
  /\ UNCHANGED result

\* The program may end within an access.
Exit ==
  /\ access' = Exited
  /\ UNCHANGED <<mem, result>>

Next == Request \/ Read \/ Write \/ Exit

Spec == Init /\ [][Next]_memVars
=============================================================================
