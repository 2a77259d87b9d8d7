---------------------------- MODULE MCTreeOnPool ----------------------------
(***************************************************************************)
(* Instances of TreeOnPool for TLC.                                        *)
(***************************************************************************)
EXTENDS TreeOnPool, TLC

InsertAll == [key : Keys, val : Values]

\* Only inserts of what a search does not find already
NewsOnly == entry = None /\ entry' # None => Tree!Search(entry'.key) # entry'.val

Symmetry == Permutations(Frames) \cup Permutations(Handles)
=============================================================================
