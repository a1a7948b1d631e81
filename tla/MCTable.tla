------------------------------ MODULE MCTable -------------------------------
(* Few keys of each kind, with collisions: the strings a and b have equal  *)
(* hashes, the object collides with them in small vectors; the float 2.0   *)
(* is the integer 2.                                                       *)
EXTENDS Table
CONSTANTS x, y
A == KeyOf("str", 1, 2)
B == KeyOf("str", 2, 2)
O == KeyOf("obj", 1, 4)
P == KeyOf("obj", 2, 5)
Ints(S) == {IntKey(i) : i \in S}
MCPrograms ==
  {[args |-> Ints({1, 2, 3, 5}) \cup {KeyOf("float", 4, 9), A}, does |-> {"length"}],
   [args |-> Ints({1, 2, 3}), does |-> {"construct", "length"}],
   [args |-> {A, B, O, P, IntKey(6), KeyOf("str", 3, 4)}, does |-> {}],
   [args |-> {IntKey(1), A, B, O}, does |-> {"traverse", "collect"}],
   [args |-> {IntKey(1), IntKey(2), NaN, NilKey}, does |-> {"construct", "collect", "drop"}],
   [args |-> {IntKey(1), IntKey(2), A}, does |-> {"construct", "newindex"}]}

(* An array part that shrinks, with an entry in its vanishing slice.       *)
WeakPrograms == {[args |-> Ints({1, 5, 100}), does |-> {"construct", "drop"}]}
=============================================================================
