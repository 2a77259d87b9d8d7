---------------------------- MODULE MCPoolBounded ----------------------------
(***************************************************************************)
(* BufferPool with a bounded number of calls: every thread stops calling   *)
(* in the end, so that a call that never returns is one that waits for a   *)
(* lock for ever, and weak fairness is all the progress there is to need.  *)
(***************************************************************************)
EXTENDS MCBufferPool

CONSTANTS
  MaxCalls,     \* calls, and uses of guards, there are in all
  Disciplined   \* the callers keep to InPlace

VARIABLE made   \* calls made so far

(***************************************************************************)
(* How callers may share the pool safely: no two calls load one page at    *)
(* the same time, pages that are asked for exist, the disk has room for    *)
(* new ones, and there is a frame for everything that is loaded, so that   *)
(* nothing is evicted.                                                     *)
(***************************************************************************)
Loading(t) == pc[t] \in {"get_free", "load", "install", "publish"}

InPlace ==
  /\ \A t, u \in Threads :
       t # u /\ Loading(t) /\ Loading(u) /\ want[t] # None => want[t] # want[u]
  /\ \A t \in Threads : Loading(t) /\ want[t] # None => want[t].no < file_len
  /\ file_len + Cardinality({t \in Threads : pc[t] \in {"get_free", "load"} /\ want[t] = None})
       <= MaxPages
  /\ Cardinality({t \in Threads : pc[t] = "get_free"}) <= Cardinality(free_list)

BoundedInit == Init /\ made = 0

Call(t) ==
  /\ made < MaxCalls /\ made' = made + 1
  /\ Begin(t)
  /\ Disciplined => InPlace'

GoOn(t) == Running /\ Continue(t) /\ UNCHANGED made

\* Everything that was called has returned
Finished ==
  /\ made = MaxCalls
  /\ \A t \in Threads : pc[t] = "idle"
  /\ UNCHANGED <<vars, made>>

BoundedNext ==
  \/ Running /\ \E t \in Threads : Call(t)
  \/ \E t \in Threads : GoOn(t)
  \/ Finished

BoundedSpec ==
  /\ BoundedInit
  /\ [][BoundedNext]_<<vars, made>>
  /\ \A t \in Threads : WF_<<vars, made>>(GoOn(t))

-----------------------------------------------------------------------------
(***************************************************************************)
(* Every frame is either free, or its page is in the table and it is in    *)
(* the LRU order, or a call has it in hand: none is lost.                  *)
(***************************************************************************)
FramesAccounted ==
  \A f \in Frames :
    \/ f \in free_list
    \/ f \in ToSet(lru) /\ \E p \in PageIds : page_table[p] = f
    \/ \E t \in Threads : slot[t] = f /\ pc[t] \in {"load", "install", "publish",
                                                     "publish_lru"}

\* A cache hit returns the page right away (the comment on BufferPool)
HitReturns ==
  \A t \in Threads : pc[t] = "hit_frame" ~> pc[t] \in {"idle", "panicked"}
=============================================================================
