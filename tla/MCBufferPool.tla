---------------------------- MODULE MCBufferPool ----------------------------
(***************************************************************************)
(* Instances of BufferPool for TLC.                                        *)
(***************************************************************************)
EXTENDS BufferPoolProps

\* Page 1 is only read: two pages that change and one that does not
ReadOnly == latest'[1] = latest[1]

Symmetry == Permutations(Threads) \cup Permutations(Frames) \cup Permutations(Handles)
=============================================================================
