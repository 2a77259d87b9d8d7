---------------------------- MODULE RecencyOrder ----------------------------
(***************************************************************************)
(* What src/buffer/lru.rs promises, without its links: the frames that may *)
(* be replaced, in the order they were last used.  order[1] is the most    *)
(* recently used frame (the list's head) and order[Len(order)] the next    *)
(* one to replace (its tail).                                              *)
(*                                                                         *)
(* The linked list of LruList implements this module, and BufferPool keeps *)
(* its LRU field as such an order, with the operators of Recency.          *)
(***************************************************************************)
EXTENDS Recency

CONSTANTS
  Frames,    \* frame indices
  NoFrame    \* Option::None where a frame index is expected

VARIABLES
  order,     \* the frames in the list, most recently used first
  evicted    \* what the last call of evict returned

vars == <<order, evicted>>

-----------------------------------------------------------------------------
Init ==
  /\ order = <<>>
  /\ evicted = NoFrame

TouchFrame(f) ==
  /\ order' = Touched(order, f)
  /\ UNCHANGED evicted

EvictOldest ==
  /\ order # <<>>
  /\ evicted' = Last(order)
  /\ order' = Front(order)

EvictNothing ==
  /\ order = <<>>
  /\ evicted' = NoFrame
  /\ UNCHANGED order

RemoveFrame(f) ==
  /\ order' = Forgotten(order, f)
  /\ UNCHANGED evicted

Next ==
  \/ \E f \in Frames : TouchFrame(f) \/ RemoveFrame(f)
  \/ EvictOldest
  \/ EvictNothing

Spec == Init /\ [][Next]_vars
=============================================================================
