-------------------------------- MODULE Dict --------------------------------
(***************************************************************************)
(* What a table promises: a map from keys to values where an absent key    *)
(* has the value Empty, and a traversal that may have its fields assigned  *)
(* and cleared on the way, but gets no new one.  Module Table implements   *)
(* it with an array part and a hash part.                                  *)
(***************************************************************************)
EXTENDS Integers

CONSTANTS
  Key, Value, Empty,
  Items      \* what a constructor may store at once: maps from keys to values

VARIABLES
  map,      \* the value of every key
  walking,  \* a traversal is going on
  seen      \* the keys it has visited

Present == {k \in Key : map[k] # Empty}

Init == /\ map = [k \in Key |-> Empty]
        /\ walking = FALSE
        /\ seen = {}

(* A new field leaves the traversal undefined, so it counts as abandoned.  *)
Assign(k, v) ==
  /\ map' = [map EXCEPT ![k] = v]
  /\ walking' = (walking /\ k \in Present)
  /\ seen' = IF walking' THEN seen ELSE {}

(* A constructor stores its items; only fields are created before that.    *)
AssignItems(items) ==
  /\ map' = [k \in Key |-> IF k \in DOMAIN items THEN items[k] ELSE map[k]]
  /\ walking' = FALSE /\ seen' = {}

Begin == /\ walking' = TRUE
         /\ seen' = {}
         /\ UNCHANGED map

Visit == /\ walking
         /\ \E k \in Present \ seen : seen' = seen \cup {k}
         /\ UNCHANGED <<map, walking>>

End == /\ walking
       /\ Present \subseteq seen
       /\ walking' = FALSE /\ seen' = {}
       /\ UNCHANGED map

Next == \/ \E k \in Key, v \in Value \cup {Empty} : Assign(k, v)
        \/ \E items \in Items : AssignItems(items)
        \/ Begin \/ Visit \/ End

Spec == Init /\ [][Next]_<<map, walking, seen>>
=============================================================================
