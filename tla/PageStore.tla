------------------------------ MODULE PageStore ------------------------------
(***************************************************************************)
(* What the buffer pool promises to the code above it, without frames: a   *)
(* file of pages, of which callers see the newest version.  What survives  *)
(* a restart is some version that was the newest one, or a mixture if the  *)
(* last try to write the page has failed: callers do not see it before.    *)
(***************************************************************************)
EXTENDS Versions

CONSTANTS
  MaxPages,     \* bound on the number of pages
  InitPages,    \* pages there are at first
  MaxVersion,   \* bound on the writes to a page
  WritesFail    \* writes to the file may fail

VARIABLES
  len,       \* pages created so far
  mem,       \* page number -> the version a caller sees
  durable    \* page number -> the version a restart comes back to

vars == <<len, mem, durable>>

PageNos == 0 .. MaxPages - 1
Existing == 0 .. len - 1

Init ==
  /\ len = InitPages
  /\ mem = [n \in PageNos |-> 0]
  /\ durable = mem

Create ==
  /\ len < MaxPages
  /\ len' = len + 1
  /\ UNCHANGED <<mem, durable>>

Write(n) ==
  /\ Newer(mem[n]) <= MaxVersion
  /\ mem' = [mem EXCEPT ![n] = Newer(@)]
  /\ UNCHANGED <<len, durable>>

Persist(n) ==
  /\ durable' = [durable EXCEPT ![n] = mem[n]]
  /\ UNCHANGED <<len, mem>>

\* The write fails inside the data
Tear(n) ==
  /\ WritesFail
  /\ durable' = [durable EXCEPT ![n] = Torn(mem[n])]
  /\ UNCHANGED <<len, mem>>

Crash ==
  /\ mem' = durable
  /\ UNCHANGED <<len, durable>>

Next ==
  \/ Create
  \/ \E n \in Existing : Write(n) \/ Persist(n) \/ Tear(n)
  \/ Crash

Spec == Init /\ [][Next]_vars
=============================================================================
