------------------------------- MODULE MCBTree -------------------------------
(***************************************************************************)
(* Instances of BTree for TLC.                                             *)
(***************************************************************************)
EXTENDS BTreeProps

\* Every key with one value, and one of them with each
FirstValue == CHOOSE v \in Values : TRUE
InsertSome ==
  [key : Keys, val : {FirstValue}] \cup [key : {4} \cap Keys, val : Values]
InsertAll == [key : Keys, val : Values]

\* Only inserts of what a search does not find already
NewsOnly == entry = None /\ entry' # None => Search(entry'.key) # entry'.val
=============================================================================
