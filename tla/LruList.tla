------------------------------- MODULE LruList -------------------------------
(***************************************************************************)
(* src/buffer/lru.rs: the doubly linked list, kept in a hash map, from     *)
(* which the buffer pool takes the frame to replace.  Every method runs    *)
(* under the pool's LRU mutex, so a call is one step.                      *)
(*                                                                         *)
(* The map `entries` is a function whose domain is the set of its keys: a  *)
(* lookup outside the domain is where the code's unwrap() would panic.     *)
(***************************************************************************)
EXTENDS Naturals, FiniteSets

CONSTANTS
  Frames,    \* frame indices
  NoFrame    \* Option::None

ASSUME NoFrameAssumption == NoFrame \notin Frames

VARIABLES
  list,      \* the fields entries, head and tail of LruList
  evicted    \* what the last call of evict returned

vars == <<list, evicted>>

MaybeFrame == Frames \cup {NoFrame}

\* LruNode
Node == [prev : MaybeFrame, next : MaybeFrame]

-----------------------------------------------------------------------------
\* LruList::new
Empty ==
  [entries |-> [f \in {} |-> [prev |-> NoFrame, next |-> NoFrame]],
   head |-> NoFrame,
   tail |-> NoFrame]

(***************************************************************************)
(* The match of remove() on (node.prev, node.next): whichever neighbour    *)
(* exists is linked to the other side, and where one is missing the head   *)
(* or the tail moves to the other neighbour.                               *)
(***************************************************************************)
Unlinked(l, f) ==
  LET node == l.entries[f] IN
  [entries |-> [g \in DOMAIN l.entries \ {f} |->
                 [prev |-> IF g = node.next THEN node.prev ELSE l.entries[g].prev,
                  next |-> IF g = node.prev THEN node.next ELSE l.entries[g].next]],
   head    |-> IF node.prev = NoFrame THEN node.next ELSE l.head,
   tail    |-> IF node.next = NoFrame THEN node.prev ELSE l.tail]

\* A bug: the neighbours, the head and the tail keep their links
RemovedFromMap(l, f) ==
  [l EXCEPT !.entries = [g \in DOMAIN l.entries \ {f} |-> l.entries[g]]]

\* remove: nothing happens when the frame is not in the map
Removed(l, f) == IF f \in DOMAIN l.entries THEN Unlinked(l, f) ELSE l

\* A bug: a head that does not exist gets a node of its own
PushedBeforeNone(l, f) ==
  [entries |-> [g \in DOMAIN l.entries \cup {f, l.head} |->
                 IF g = f THEN [prev |-> NoFrame, next |-> l.head]
                 ELSE IF g = l.head THEN [prev |-> f, next |-> NoFrame]
                 ELSE l.entries[g]],
   head    |-> f,
   tail    |-> IF l.tail = NoFrame THEN f ELSE l.tail]

\* push_front; its caller has made sure that f is not in the map
PushedFront(l, f) ==
  [entries |-> [g \in DOMAIN l.entries \cup {f} |->
                 IF g = f THEN [prev |-> NoFrame, next |-> l.head]
                 ELSE IF g = l.head THEN [l.entries[g] EXCEPT !.prev = f]
                 ELSE l.entries[g]],
   head    |-> f,
   tail    |-> IF l.tail = NoFrame THEN f ELSE l.tail]

\* touch
MovedToFront(l, f) == PushedFront(Removed(l, f), f)

-----------------------------------------------------------------------------
Init ==
  /\ list = Empty
  /\ evicted = NoFrame

Touch(f) ==
  /\ list' = MovedToFront(list, f)
  /\ UNCHANGED evicted

\* A bug: the wrong end of the list
EvictNewest ==
  /\ evicted' = list.head
  /\ list' = IF list.head = NoFrame THEN list ELSE Removed(list, list.head)

Evict ==
  /\ evicted' = list.tail
  /\ list' = IF list.tail = NoFrame THEN list ELSE Removed(list, list.tail)

RemoveFrame(f) ==
  /\ list' = Removed(list, f)
  /\ UNCHANGED evicted

Next ==
  \/ \E f \in Frames : Touch(f) \/ RemoveFrame(f)
  \/ Evict

Spec == Init /\ [][Next]_vars

-----------------------------------------------------------------------------
(***************************************************************************)
(* Properties.                                                             *)
(***************************************************************************)
TypeOK ==
  /\ DOMAIN list.entries \subseteq Frames
  /\ list \in [entries : [DOMAIN list.entries -> Node],
               head : MaybeFrame, tail : MaybeFrame]
  /\ evicted \in MaybeFrame

(***************************************************************************)
(* No method ever follows a link to a frame that is not in the map, which  *)
(* is what the unwrap() of each get_mut relies on, and every link has its  *)
(* mirror: next of x is y exactly when prev of y is x, and only the head   *)
(* (tail) has no predecessor (successor).                                  *)
(***************************************************************************)
LinksMirrored ==
  LET present == DOMAIN list.entries
      node(f) == list.entries[f]
  IN /\ {list.head, list.tail} \subseteq present \cup {NoFrame}
     /\ (list.head = NoFrame) <=> (present = {})
     /\ (list.tail = NoFrame) <=> (present = {})
     /\ \A f \in present :
          /\ {node(f).prev, node(f).next} \subseteq present \cup {NoFrame}
          /\ (node(f).prev = NoFrame) <=> (list.head = f)
          /\ (node(f).next = NoFrame) <=> (list.tail = f)
          /\ \A g \in present : (node(f).next = g) <=> (node(g).prev = f)

(***************************************************************************)
(* The frames met when following next from the head, as many as the map    *)
(* holds: what the list means.                                             *)
(***************************************************************************)
Walk ==
  LET visit[i \in 1 .. Cardinality(DOMAIN list.entries)] ==
        IF i = 1 THEN list.head
        ELSE IF visit[i - 1] \in DOMAIN list.entries
               THEN list.entries[visit[i - 1]].next
               ELSE NoFrame
  IN visit

Recency == INSTANCE RecencyOrder WITH order <- Walk

(***************************************************************************)
(* The list is the recency order: touch moves a frame to the front and     *)
(* keeps the order of the others, evict returns the frame unused for the   *)
(* longest time, and a frame is never lost from nor repeated in the walk.  *)
(***************************************************************************)
ImplementsRecencyOrder == Recency!Spec
=============================================================================
