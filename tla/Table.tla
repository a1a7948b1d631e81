------------------------------- MODULE Table --------------------------------
(***************************************************************************)
(* Tables (ltable.c): an array part, and a hash part whose collisions are  *)
(* chained inside the vector of nodes by offsets (Brent's variation).      *)
(* Every operation is a function from a table t to a table; the actions    *)
(* are what a program does with one table: assign, build with a            *)
(* constructor, take the length, traverse with next, and collect garbage   *)
(* in between.                                                             *)
(*                                                                         *)
(* A table is a record:                                                    *)
(*   arr       the values of the array part, 1 .. asize                    *)
(*   node      the nodes 0 .. sizenode - 1; <<>> stands for dummynode      *)
(*   lastfree  every free node is below it (kept for large vectors only)   *)
(*   lenhint   the hint for the length                                     *)
(*                                                                         *)
(* A key is a record: its kind, an identity, and the number its hash       *)
(* function gives.  A float of identity n is the number n / 2.             *)
(***************************************************************************)
EXTENDS Integers, Sequences, FiniteSets, FiniteSetsExt

CONSTANTS
  Programs,     \* the programs considered, each with the keys it uses and
                \* what it does besides assignments                   (bound)
  Value,        \* collectable objects used as values                 (bound)
  Empty,        \* the value of an absent field
  Idle,         \* no traversal is going on
  LimForLast,   \* LIMFORLAST: log2 of the least size with a 'lastfree'
  MaxVicinity,  \* maxvicinity: how far the length looks around its hint
  MaxItems,     \* items of a constructor                             (bound)
  Weak,         \* the table has weak values
  Outcomes      \* of an allocation: "ok", "retry" (done after an emergency
                \* collection) and "fail" (not even then)

KeyOf(kind, id, hash) == [kind |-> kind, id |-> id, hash |-> hash]
IntKey(i) == KeyOf("int", i, i)
NilKey == KeyOf("nil", 0, 0)
NaN    == KeyOf("nan", 0, 0)

Arg == UNION {p.args : p \in Programs}
Doings == {"construct", "length", "traverse", "collect", "drop", "newindex"}

(* Floats with integral values are used as integers.  A constructor has    *)
(* keys of its own.                                                        *)
Normalized(k) == IF k.kind = "float" /\ k.id % 2 = 0 THEN IntKey(k.id \div 2) ELSE k
Item(n) == {IntKey(i) : i \in 1 .. n}
Key == ({Normalized(k) : k \in Arg} \cup Item(MaxItems)) \ {NaN, NilKey}
Collectable(k) == k.kind \in {"str", "obj"}

ASSUME TableAssumption ==
  /\ \A p \in Programs : p.does \subseteq Doings
  /\ IsFiniteSet(Arg)
  /\ \A k \in Arg : /\ k \in [kind : {"int", "float", "str", "obj", "nan", "nil"},
                              id : Nat, hash : Nat]
                    /\ k.kind = "int" => k = IntKey(k.id)
                    /\ k.kind = "nan" => k = NaN
                    /\ k.kind = "nil" => k = NilKey
  /\ Empty \notin Value /\ Idle \notin Key \cup {NilKey}
  /\ {LimForLast, MaxVicinity, MaxItems} \subseteq Nat \ {0}
  /\ Weak \in BOOLEAN /\ Outcomes \subseteq {"ok", "retry", "fail"}

VARIABLES
  prog,   \* the program
  t,      \* the table
  cur,    \* the key of the program's traversal: Idle, NilKey at its start
  seen,   \* the keys this traversal has given (history)
  live,   \* the values that the program refers to outside the table
  freed   \* the values that were collected

vars == <<prog, t, cur, seen, live, freed>>

-----------------------------------------------------------------------------
(* The hash part.                                                          *)
FreeNode == [key |-> NilKey, dead |-> FALSE, val |-> Empty, next |-> 0]

TwoTo[n \in Nat] == IF n = 0 THEN 1 ELSE 2 * TwoTo[n - 1]

SizeNode(s) == Cardinality(DOMAIN s.node)
IsDummy(s)  == SizeNode(s) = 0
CeilLog2(n) == CHOOSE l \in 0 .. n : TwoTo[l] >= n /\ (l = 0 \/ TwoTo[l - 1] < n)
HasLastFree(s) == SizeNode(s) >= TwoTo[LimForLast]

(* Strings have good hashes; other keys avoid a modulo by a power of 2.    *)
MainPosition(s, k) ==
  LET n == SizeNode(s) IN
  IF k.kind = "str" \/ n = 1 THEN k.hash % n ELSE k.hash % IF n = 2 THEN 1 ELSE n - 1

(* A mutant: dead keys are never found.                                    *)
DeadAreLost(k, nd, deadok) == nd.key = k /\ ~nd.dead

(* Dead keys are equal to their original only for a traversal (deadok).    *)
EqualKey(k, nd, deadok) == nd.key = k /\ (nd.dead => deadok)

Nowhere == -1
Search(s, k, deadok) ==
  LET walk[i \in DOMAIN s.node] ==
        IF EqualKey(k, s.node[i], deadok) THEN i
        ELSE IF s.node[i].next = 0 THEN Nowhere
        ELSE walk[i + s.node[i].next]
  IN walk

(* Nil is not searched for.                                                *)
FindNode(s, k, deadok) ==
  IF IsDummy(s) \/ k = NilKey THEN Nowhere
  ELSE Search(s, k, deadok)[MainPosition(s, k)]

InArray(s, k) == k.kind = "int" /\ k.id \in 1 .. Len(s.arr)

Get(s, k) ==
  IF InArray(s, k) THEN s.arr[k.id]
  ELSE LET i == FindNode(s, k, FALSE) IN IF i = Nowhere THEN Empty ELSE s.node[i].val

(* The last free node.  Nodes given away are not looked at again where     *)
(* 'lastfree' exists, even when a key leaves them.                         *)
FreePos(s) ==
  LET limit == IF HasLastFree(s) THEN s.lastfree ELSE SizeNode(s)
      free  == {i \in 0 .. limit - 1 : s.node[i].key = NilKey}
  IN IF free = {} THEN Nowhere ELSE Max(free)

AfterFreePos(s) ==
  IF HasLastFree(s) THEN [s EXCEPT !.lastfree = Max({FreePos(s), 0})] ELSE s

SetNode(s, i, k, v) ==
  [s EXCEPT !.node[i].key = k, !.node[i].dead = FALSE, !.node[i].val = v]

(* The node before the one at mp, from the main position of its key.       *)
Previous(s, mp) ==
  LET walk[i \in DOMAIN s.node] ==
        IF i + s.node[i].next = mp THEN i ELSE walk[i + s.node[i].next]
  IN walk[MainPosition(s, s.node[mp].key)]

(* The node at mp is out of its main position: it moves to the free node f *)
(* and the node before it follows.                                         *)
MoveColliding(s, mp, f, k, v) ==
  LET previous == Previous(s, mp)
      moved == [s.node[mp] EXCEPT !.next = IF @ = 0 THEN 0 ELSE @ + mp - f]
  IN SetNode([s EXCEPT !.node[previous].next = f - previous,
                       !.node[f] = moved,
                       !.node[mp].next = 0], mp, k, v)

(* A mutant: the new node does not take over the rest of the chain.        *)
DropsChain(s, mp, f, k, v) == SetNode([s EXCEPT !.node[mp].next = f - mp], f, k, v)

(* The node at mp is in its main position: the new one goes after it.      *)
ChainAfter(s, mp, f, k, v) ==
  SetNode([s EXCEPT !.node[f].next = IF s.node[mp].next = 0 THEN 0 ELSE mp + s.node[mp].next - f,
                    !.node[mp].next = f - mp], f, k, v)

(* A key that is not in the hash part; ok is false when there is no room.  *)
InsertKey(s, k, v) ==
  LET mp == MainPosition(s, k)
      f  == FreePos(s)
      u  == AfterFreePos(s)
  IN IF IsDummy(s) THEN [ok |-> FALSE, tab |-> s]
     ELSE IF s.node[mp].val = Empty THEN [ok |-> TRUE, tab |-> SetNode(s, mp, k, v)]
     ELSE IF f = Nowhere THEN [ok |-> FALSE, tab |-> u]
     ELSE [ok  |-> TRUE,
           tab |-> IF MainPosition(s, s.node[mp].key) # mp
                   THEN MoveColliding(u, mp, f, k, v)
                   ELSE ChainAfter(u, mp, f, k, v)]

NewCheckedKey(s, k, v) ==
  IF InArray(s, k) THEN [s EXCEPT !.arr[k.id] = v] ELSE InsertKey(s, k, v).tab

-----------------------------------------------------------------------------
(* Collections.  An emergency one can run inside an allocation.  They make *)
(* the keys of empty nodes dead, and empty the entries of a weak table     *)
(* whose value nothing else refers to.                                     *)
Entries(s) == {s.arr[i] : i \in DOMAIN s.arr} \cup {s.node[i].val : i \in DOMAIN s.node}
Unused(s)  == Value \ (live \cup IF Weak THEN {} ELSE Entries(s))

Collected(s) ==
  LET kept(v) == IF v \in Unused(s) THEN Empty ELSE v
      swept(nd) == [nd EXCEPT !.val = kept(nd.val),
                              !.dead = @ \/ (kept(nd.val) = Empty /\ Collectable(nd.key))]
  IN [s EXCEPT !.arr  = [i \in DOMAIN @ |-> kept(@[i])],
               !.node = [i \in DOMAIN @ |-> swept(@[i])]]

-----------------------------------------------------------------------------
(* Sizes.                                                                  *)
(* A mutant: sizes are not rounded up.                                     *)
AnySize(s, size) ==
  [s EXCEPT !.node = [i \in 0 .. size - 1 |-> FreeNode], !.lastfree = size]

NodeVector(s, size) ==
  LET n == IF size = 0 THEN 0 ELSE TwoTo[CeilLog2(size)] IN
  [s EXCEPT !.node = [i \in 0 .. n - 1 |-> FreeNode],
            !.lastfree = IF n >= TwoTo[LimForLast] THEN n ELSE 0]

ReinsertNode(s, nd) == IF nd.val = Empty THEN s ELSE NewCheckedKey(s, nd.key, nd.val)

(* A mutant: the last node is forgotten.                                   *)
LosesLast(s, nodes, n) ==
  LET done[i \in 0 .. n] == IF i = 0 THEN s ELSE ReinsertNode(done[i - 1], nodes[i - 1])
  IN done[IF n = 0 THEN 0 ELSE n - 1]

Reinserted(s, nodes, n) ==
  LET done[i \in 0 .. n] == IF i = 0 THEN s ELSE ReinsertNode(done[i - 1], nodes[i - 1])
  IN done[n]

(* ilyaH_resize: the vanishing slice of the array goes to the new hash     *)
(* part before the new array is allocated, and the nodes of the old hash   *)
(* part after it.  An allocation that fails leaves the table as it was.    *)
(* alloc has the outcomes of both, "ok" for one that is not done.          *)
ReinsertItem(s, arr, na, i) ==
  IF i <= na \/ arr[i] = Empty THEN s ELSE InsertKey(s, IntKey(i), arr[i]).tab
ReinsertOldSlice(newt, arr, na) ==
  LET done[i \in 0 .. Len(arr)] ==
        IF i = 0 THEN newt ELSE ReinsertItem(done[i - 1], arr, na, i)
  IN done[Len(arr)]
ResizeArray(newt, arr, na) ==
  [newt EXCEPT !.arr = [i \in 1 .. na |-> IF i <= Len(arr) THEN arr[i] ELSE Empty],
               !.lenhint = IF na > 0 THEN na \div 2 ELSE @]
Resize(s, na, nh, alloc) ==
  LET s1   == IF alloc.hash # "ok" THEN Collected(s) ELSE s
      newt == ReinsertOldSlice(NodeVector(s1, nh), s1.arr, na)
      s2   == IF alloc.array # "ok" THEN Collected(s1) ELSE s1
  IN IF alloc.hash = "fail" THEN s1
     ELSE IF alloc.array = "fail" THEN s2
     ELSE Reinserted(ResizeArray(newt, s2.arr, na), s2.node, SizeNode(s2))
AllOk == [hash |-> "ok", array |-> "ok"]

(* Counters of array indices: nums[i] counts those in 2^(i-1)+1 .. 2^i.    *)
Slice(i) == IF i = 0 THEN {1} ELSE TwoTo[i - 1] + 1 .. TwoTo[i]
TopBit(indices) == CeilLog2(Max(indices \cup {1}))
Nums(indices) == [i \in 0 .. TopBit(indices) |-> Cardinality(indices \cap Slice(i))]

(* A mutant: a hash node counts as two array entries.                      *)
HashCheaper(na, nh) == na <= nh * 2

ArrayXHash(na, nh) == na <= nh * 3

(* The candidate 2^i is tried if all indices together would be worth it;   *)
(* a counts the indices up to it, na those of the best size.               *)
TrySize(acc, i, count, total) ==
  LET a     == acc.a + count
      worth == count > 0 /\ ArrayXHash(TwoTo[i], a)
  IN IF ~ArrayXHash(TwoTo[i], total) THEN acc
     ELSE [a    |-> a,
           size |-> IF worth THEN TwoTo[i] ELSE acc.size,
           na   |-> IF worth THEN a ELSE acc.na]
ComputeSizes(indices) ==
  LET try[n \in 0 .. TopBit(indices) + 1] ==
        IF n = 0 THEN [a |-> 0, size |-> 0, na |-> 0]
        ELSE TrySize(try[n - 1], n - 1, Nums(indices)[n - 1], Cardinality(indices))
  IN try[TopBit(indices) + 1]

(* The array indices that rehash counts: those in the hash part, the new   *)
(* key, and only when there is one of them those in the array part.        *)
HashKeys(s) == {s.node[i].key : i \in {j \in DOMAIN s.node : s.node[j].val # Empty}}
ArrayIndices(s) == {i \in DOMAIN s.arr : s.arr[i] # Empty}
IndicesOf(keys) == {k.id : k \in {j \in keys : j.kind = "int" /\ j.id > 0}}

NewSizes(s, k) ==
  LET hashed  == HashKeys(s) \cup {k}
      indices == IndicesOf(hashed) \cup ArrayIndices(s)
      keep    == IndicesOf(hashed) = {}
      sizes   == ComputeSizes(indices)
      total   == Cardinality(hashed) + IF keep THEN 0 ELSE Cardinality(ArrayIndices(s))
      nsize   == total - IF keep THEN 0 ELSE sizes.na
      deleted == \E i \in DOMAIN s.node : s.node[i].val = Empty
  IN [array |-> IF keep THEN Len(s.arr) ELSE sizes.size,
      hash  |-> nsize + IF deleted THEN nsize \div 4 ELSE 0]

(* ilyaH_newkey; when the rehash fails its error leaves the key out.       *)
NewKey(s, k, v, alloc) ==
  LET try  == InsertKey(s, k, v)
      n    == NewSizes(try.tab, k)
      u    == Resize(try.tab, n.array, n.hash, alloc)
  IN IF try.ok THEN try.tab
     ELSE IF "fail" \in {alloc.hash, alloc.array} THEN u
     ELSE NewCheckedKey(u, k, v)

(* The first try of an assignment (ilyaH_pset): a field that has a value   *)
(* gets the new one, "ok".  Otherwise the result tells ilyaH_finishset,    *)
(* called when there is no metamethod, where the value goes.  A new short  *)
(* string is inserted at once if there is room.                            *)
PSetShortStr(s, k, v) ==
  LET absent == FindNode(s, k, FALSE) = Nowhere
      try    == InsertKey(s, k, v)
  IN IF v = Empty THEN [hres |-> "ok", tab |-> s]
     ELSE IF absent /\ try.ok THEN [hres |-> "ok", tab |-> try.tab]
     ELSE [hres |-> IF absent THEN "not found" ELSE "node",
           tab  |-> IF absent THEN try.tab ELSE s]

PSet(s, k, v, newindex) ==
  LET i == FindNode(s, k, FALSE) IN
  IF InArray(s, k)
  THEN IF s.arr[k.id] = Empty /\ newindex THEN [hres |-> "array", tab |-> s]
       ELSE [hres |-> "ok", tab |-> [s EXCEPT !.arr[k.id] = v]]
  ELSE IF i # Nowhere /\ s.node[i].val # Empty
       THEN [hres |-> "ok", tab |-> [s EXCEPT !.node[i].val = v]]
  ELSE IF k.kind = "str" /\ ~newindex THEN PSetShortStr(s, k, v)
  ELSE [hres |-> IF i = Nowhere THEN "not found" ELSE "node", tab |-> s]

(* nil and NaN are errors as new keys, and nil as a value adds no field.   *)
FinishSet(s, k, v, hres, alloc) ==
  IF hres = "not found"
  THEN IF k \in {NilKey, NaN} \/ v = Empty THEN s ELSE NewKey(s, k, v, alloc)
  ELSE IF hres = "node" THEN [s EXCEPT !.node[FindNode(s, k, FALSE)].val = v]
  ELSE [s EXCEPT !.arr[k.id] = v]

(* ilyaV_finishset calls a metamethod __newindex instead of adding a       *)
(* field; raw assignments (ilyaH_set) do not look for it.                  *)
Set(s, k, v, newindex, raw, alloc) ==
  LET p == PSet(s, k, v, newindex) IN
  IF p.hres = "ok" \/ (newindex /\ ~raw) THEN p.tab ELSE FinishSet(p.tab, k, v, p.hres, alloc)

-----------------------------------------------------------------------------
(* The length.                                                             *)
Absent(s, i) == Get(s, IntKey(i)) = Empty

(* A mutant: the search ends one element late.                             *)
OneTooFar(s, low, high) == high

Half(s, p) ==
  LET m == (p[1] + p[2]) \div 2 IN IF Absent(s, m) THEN <<p[1], m>> ELSE <<m, p[2]>>
BinSearch(s, low, high) ==
  LET halve[p \in (0 .. high) \X (0 .. high)] ==
        IF p[2] - p[1] <= 1 THEN p[1] ELSE halve[Half(s, p)]
  IN halve[<<low, high>>]

(* j doubles until it is absent; maxinteger is out of reach here.          *)
HashSearch(s, j) ==
  LET start == IF j = 0 THEN 1 ELSE j
      power == CHOOSE n \in 1 .. Cardinality(Key) + 1 :
                 Absent(s, start * TwoTo[n]) /\ \A m \in 1 .. n - 1 : ~Absent(s, start * TwoTo[m])
  IN BinSearch(s, start * TwoTo[power - 1], start * TwoTo[power])

(* The border near the hint, in the array part, or in the hash part.       *)
Length(s) ==
  LET asize == Len(s.arr)
      limit == IF s.lenhint = 0 THEN 1 ELSE s.lenhint
      below == {i \in 1 .. limit - 1 : i >= limit - MaxVicinity /\ ~Absent(s, i)}
      above == {i \in limit + 1 .. asize : i <= limit + MaxVicinity /\ Absent(s, i)}
      Border(n) == [n |-> n, hint |-> n]
      InHash == IF IsDummy(s) \/ Absent(s, asize + 1) THEN asize ELSE HashSearch(s, asize)
  IN IF asize = 0 THEN [n |-> InHash, hint |-> s.lenhint]
     ELSE IF Absent(s, limit)
          THEN Border(IF below # {} THEN Max(below) ELSE BinSearch(s, 0, Max({1, limit - MaxVicinity})))
     ELSE IF above # {} THEN Border(Min(above) - 1)
     ELSE IF Absent(s, asize) THEN Border(BinSearch(s, Min({limit + MaxVicinity, asize}), asize))
     ELSE [n |-> InHash, hint |-> asize]

-----------------------------------------------------------------------------
(* Traversals.  A position counts the array part, then the nodes.          *)
FindIndex(s, k) ==
  IF k = NilKey THEN 0
  ELSE IF InArray(s, k) THEN k.id
  ELSE LET i == FindNode(s, k, TRUE) IN IF i = Nowhere THEN Nowhere ELSE Len(s.arr) + i + 1

KeyAt(s, p) == IF p <= Len(s.arr) THEN IntKey(p) ELSE s.node[p - Len(s.arr) - 1].key
ValAt(s, p) == IF p <= Len(s.arr) THEN s.arr[p] ELSE s.node[p - Len(s.arr) - 1].val

Following(s, k) ==
  {p \in FindIndex(s, k) + 1 .. Len(s.arr) + SizeNode(s) : ValAt(s, p) # Empty}
-----------------------------------------------------------------------------
FreshTable == [arr |-> <<>>, node |-> <<>>, lastfree |-> 0, lenhint |-> 0]

Init ==
  /\ prog \in Programs
  /\ t = FreshTable
  /\ cur = Idle /\ seen = {} /\ live = Value /\ freed = {}

(* What a collection frees, or may free when it is an emergency one.       *)
Freed(s) == freed \cup (Value \ (live \cup IF Weak THEN {} ELSE Entries(s)))
Stops == cur' = Idle /\ seen' = {}

(* The allocations of an assignment: those of its rehash, if it needs one. *)
HasNewIndex == "newindex" \in prog.does
Rehashes(k, v) ==
  /\ k \in Key /\ v # Empty /\ ~InArray(t, k)
  /\ FindNode(t, k, FALSE) = Nowhere /\ ~InsertKey(t, k, v).ok
Allocations(k, v) ==
  LET n == NewSizes(t, k)
      hash  == IF n.hash > 0 THEN Outcomes ELSE {"ok"}
      array == IF n.array \notin {0, Len(t.arr)} THEN Outcomes ELSE {"ok"}
  IN IF Rehashes(k, v)
     THEN {a \in [hash : hash, array : array] : a.hash = "fail" => a.array = "ok"}
     ELSE {AllOk}

(* A traversal goes on over assignments to fields that exist.              *)
Assign ==
  \E arg \in prog.args, v \in live \cup {Empty}, raw \in {~HasNewIndex, TRUE} :
    LET k == Normalized(arg)
        adds == k \in Key /\ Get(t, k) = Empty /\ raw
    IN \E alloc \in IF adds THEN Allocations(k, v) ELSE {AllOk} :
         /\ t' = Set(t, k, v, HasNewIndex, raw, alloc)
         /\ IF adds THEN Stops ELSE UNCHANGED <<cur, seen>>
         /\ freed' = IF alloc = AllOk THEN freed ELSE Freed(t')
         /\ UNCHANGED live

(* OP_NEWTABLE with its size hints.                                        *)
Construct ==
  /\ "construct" \in prog.does
  /\ t = FreshTable
  /\ \E na \in 0 .. MaxItems, nh \in 0 .. MaxItems : t' = Resize(t, na, nh, AllOk)
  /\ UNCHANGED <<cur, seen, live, freed>>

(* OP_SETLIST with an open list of n equal items.                          *)
SetList ==
  /\ "construct" \in prog.does
  /\ \E n \in 1 .. MaxItems, v \in live :
       LET u == IF n > Len(t.arr) THEN Resize(t, n, SizeNode(t), AllOk) ELSE t IN
       t' = [u EXCEPT !.arr = [i \in DOMAIN @ |-> IF i <= n THEN v ELSE @[i]]]
  /\ Stops
  /\ UNCHANGED <<live, freed>>

TakeLength == /\ "length" \in prog.does
              /\ t' = [t EXCEPT !.lenhint = Length(t).hint]
              /\ UNCHANGED <<cur, seen, live, freed>>

StartNext == /\ "traverse" \in prog.does
             /\ cur' = NilKey /\ seen' = {}
             /\ UNCHANGED <<t, live, freed>>

NextKey ==
  /\ "traverse" \in prog.does
  /\ cur # Idle /\ FindIndex(t, cur) # Nowhere
  /\ IF Following(t, cur) = {} THEN Stops
     ELSE LET k == KeyAt(t, Min(Following(t, cur))) IN cur' = k /\ seen' = seen \cup {k}
  /\ UNCHANGED <<t, live, freed>>

Collect == /\ "collect" \in prog.does
           /\ t' = Collected(t)
           /\ freed' = Freed(t')
           /\ UNCHANGED <<cur, seen, live>>

(* The program drops a value, or takes it from a field again.              *)
Release == /\ "drop" \in prog.does
           /\ \E v \in live : live' = live \ {v}
           /\ UNCHANGED <<t, cur, seen, freed>>
Fetch   == /\ "drop" \in prog.does
           /\ \E k \in Key : Get(t, k) # Empty /\ live' = live \cup {Get(t, k)}
           /\ UNCHANGED <<t, cur, seen, freed>>

Next == /\ \/ Assign \/ Construct \/ SetList \/ TakeLength
           \/ StartNext \/ NextKey \/ Collect \/ Release \/ Fetch
        /\ UNCHANGED prog

Spec == Init /\ [][Next]_vars

-----------------------------------------------------------------------------
Node == [key : Key \cup {NilKey}, dead : BOOLEAN, val : Value \cup {Empty}, next : Int]

(* Every variable keeps its type: node vectors have sizes of powers of 2,  *)
(* the hint of the length is inside the array part.                        *)
TypeOK ==
  /\ t.arr \in Seq(Value \cup {Empty})
  /\ DOMAIN t.node = 0 .. SizeNode(t) - 1
  /\ ~IsDummy(t) => SizeNode(t) = TwoTo[CeilLog2(SizeNode(t))]
  /\ \A i \in DOMAIN t.node : t.node[i] \in Node
  /\ t.lastfree \in 0 .. SizeNode(t)
  /\ Len(t.arr) > 0 => t.lenhint \in 0 .. Len(t.arr)
  /\ prog \in Programs /\ cur \in Key \cup {NilKey, Idle} /\ seen \subseteq Key
  /\ live \subseteq Value /\ freed \subseteq Value

(* Offsets stay in the vector, no two nodes lead to the same one, every    *)
(* field is found from the main position of its key in its only place, and *)
(* no free node is lost above 'lastfree' (insertkey, getfreepos).          *)
ChainsSound ==
  /\ \A i \in DOMAIN t.node : LET nd == t.node[i] IN
       /\ nd.next # 0 => i + nd.next \in DOMAIN t.node
       /\ nd.val # Empty => nd.key # NilKey /\ ~nd.dead /\ FindNode(t, nd.key, FALSE) = i
       /\ nd.val # Empty => ~InArray(t, nd.key)
       /\ nd.key = NilKey /\ HasLastFree(t) => i < t.lastfree
  /\ \A i, j \in {n \in DOMAIN t.node : t.node[n].next # 0} :
       i + t.node[i].next = j + t.node[j].next => i = j

(* The key of a traversal is found although its field was cleared and its  *)
(* key is dead: 'next' raises no error (findindex).                        *)
NextNeverFails == cur # Idle => FindIndex(t, cur) # Nowhere

(* Whatever the hint and wherever the elements are, the length is a        *)
(* border (ilyaH_getn).                                                    *)
LengthIsBorder ==
  LET n == Length(t).n IN (n = 0 \/ ~Absent(t, n)) /\ Absent(t, n + 1)

(* rehash takes the size for the array part that holds the most elements   *)
(* among those worth their memory, and leaves room for all other keys.     *)
SizesOptimal ==
  \A k \in {j \in Key : Get(t, j) = Empty} :
    LET n == NewSizes(t, k)
        keys == {j \in Key : Get(t, j) # Empty} \cup {k}
        UpTo(size) == Cardinality({j \in keys : j.kind = "int" /\ j.id \in 1 .. size})
        worth == {TwoTo[i] : i \in 0 .. TopBit(IndicesOf(keys)) + 1}
    IN /\ n.array + n.hash >= 1
       /\ Cardinality(keys) - UpTo(n.array) <= n.hash
       /\ n.array # Len(t.arr) =>
            /\ n.array = 0 \/ n.array <= 3 * UpTo(n.array)
            /\ \A size \in worth : size <= 3 * UpTo(size) => UpTo(size) <= UpTo(n.array)

(* No field has a value that was collected: when a weak table loses an     *)
(* entry it loses it for good (manual/manual.of:824, "the whole pair is    *)
(* removed from the table").                                               *)
NoFreedValue == Entries(t) \cap freed = {}

(* A table is a map with traversals.                                       *)
D == INSTANCE Dict WITH
       map <- [k \in Key |-> Get(t, k)],
       walking <- cur # Idle,
       Items <- UNION {[Item(n) -> Value] : n \in 1 .. MaxItems}
IsDict == D!Spec
=============================================================================
