----------------------------- MODULE OrderedMap -----------------------------
(***************************************************************************)
(* What the B+tree is for: a map from keys to values, in which an insert   *)
(* adds its key or replaces the key's value, and touches no other key.     *)
(***************************************************************************)
CONSTANTS Keys, Values, None

VARIABLE map     \* key -> its value, or None

Init == map = [k \in Keys |-> None]

Insert(k, v) == map'[k] = v /\ \A j \in Keys \ {k} : map'[j] = map[j]

Next == \E k \in Keys, v \in Values : Insert(k, v)

Spec == Init /\ [][Next]_map
=============================================================================
