---------------------------- MODULE Table_chains ----------------------------
(***************************************************************************)
(* Facts about the chains of a table (Table): what insertkey, getfreepos,  *)
(* a resize, a collection and computesizes do, as lemmas about node        *)
(* vectors and tables. A search, a power of 2 or a repeated step is a      *)
(* recursive function; that it exists is shown by induction on a rank or a *)
(* number.                                                                 *)
(***************************************************************************)
EXTENDS Table, TLAPS, FiniteSetTheorems, WellFoundedInduction

(* A nonempty set of natural numbers has a least element.                  *)
LEMMA LeastNat ==
  ASSUME NEW S \in SUBSET Nat, S # {}
  PROVE  \E m \in S : \A n \in S : m <= n
<1> DEFINE Less == {p \in Nat \X Nat : p[1] < p[2]}
<1>1. IsWellFoundedOn(Less, Nat)
  BY NatLessThanWellFounded DEF OpToRel
<1>2. \A m, n \in Nat : n < m => <<n, m>> \in Less
  OBVIOUS
<1> HIDE DEF Less
<1>3. PICK m \in S : \A n \in S : ~(<<n, m>> \in Less)
  BY <1>1, WFMin
<1>4. \A n \in S : ~(n < m)
  BY <1>2, <1>3
<1>5. QED
  BY <1>4

-----------------------------------------------------------------------------
(* Chains.  The offset of a node leads to the next one of its chain; b is  *)
(* reached from a if it is in every set that has a and the next of each of *)
(* its nodes.                                                              *)
Reach(V, a, b) ==
  \A S \in SUBSET DOMAIN V :
    (a \in S /\ \A i \in S : V[i].next # 0 => i + V[i].next \in S) => b \in S

(* Offsets stay in the vector, between nodes that have keys; no two lead   *)
(* to the same node; and chains end, since some rank descends along them.  *)
LinksOk(V) ==
  \A i \in DOMAIN V : V[i].next # 0 =>
    /\ i + V[i].next \in DOMAIN V
    /\ V[i].key # NilKey /\ V[i + V[i].next].key # NilKey
OneBefore(V) ==
  \A i, j \in DOMAIN V :
    V[i].next # 0 /\ V[j].next # 0 /\ i + V[i].next = j + V[j].next => i = j
Descends(V, rank, N) ==
  /\ N \in Nat /\ rank \in [DOMAIN V -> 0 .. N]
  /\ \A i \in DOMAIN V : V[i].next # 0 => rank[i + V[i].next] < rank[i]
Ranked(V) == \E N, rank : Descends(V, rank, N)

(* The main position H[k] of a key that is in the vector has a key of the  *)
(* same main position, and leads to it.                                    *)
AtHome(V, H) ==
  \A i \in DOMAIN V : V[i].key # NilKey =>
    /\ V[H[V[i].key]].key # NilKey
    /\ H[V[H[V[i].key]].key] = H[V[i].key]
    /\ Reach(V, H[V[i].key], i)

(* A node that is not dead comes before dead ones of the same key.         *)
LiveFirst(V) ==
  \A i, j \in DOMAIN V :
    V[i].key = V[j].key /\ V[i].key # NilKey /\ ~V[i].dead => Reach(V, i, j)

(* Values and dead keys are in nodes with a key, and not both in one.      *)
ValuesOk(V) ==
  \A i \in DOMAIN V : /\ V[i].val # Empty \/ V[i].dead => V[i].key # NilKey
                      /\ V[i].val # Empty => ~V[i].dead

(* A node vector of size n with the main positions of all keys, and what   *)
(* its chains obey.                                                        *)
Vector(V, n, H) ==
  /\ n \in Nat \ {0} /\ V \in [0 .. n - 1 -> Node] /\ H \in [Key -> 0 .. n - 1]
Chained(V, H) ==
  LinksOk(V) /\ OneBefore(V) /\ Ranked(V) /\ AtHome(V, H) /\ LiveFirst(V) /\ ValuesOk(V)

(* Every node is reached from itself.                                      *)
LEMMA ReachSelf ==
  ASSUME NEW V, NEW a PROVE Reach(V, a, a)
BY DEF Reach

(* The next of a node that is reached is reached.                          *)
LEMMA ReachStep ==
  ASSUME NEW V, NEW a, NEW b \in DOMAIN V, Reach(V, a, b), V[b].next # 0
  PROVE  Reach(V, a, b + V[b].next)
BY DEF Reach

(* Chains go on.                                                           *)
LEMMA ReachTrans ==
  ASSUME NEW V, NEW a, NEW b, NEW c, Reach(V, a, b), Reach(V, b, c)
  PROVE  Reach(V, a, c)
BY DEF Reach

(* What is reached is in the vector.                                       *)
LEMMA ReachIn ==
  ASSUME NEW V, LinksOk(V), NEW a \in DOMAIN V, NEW b, Reach(V, a, b)
  PROVE  b \in DOMAIN V
<1>1. DOMAIN V \in SUBSET DOMAIN V
  OBVIOUS
<1>2. \A i \in DOMAIN V : V[i].next # 0 => i + V[i].next \in DOMAIN V
  BY DEF LinksOk
<1>3. QED
  BY <1>1, <1>2 DEF Reach

(* The rank descends along a chain.                                        *)
LEMMA ReachRank ==
  ASSUME NEW V, LinksOk(V), NEW rank, NEW N, Descends(V, rank, N),
         NEW a \in DOMAIN V, NEW b, Reach(V, a, b)
  PROVE  b = a \/ rank[b] < rank[a]
<1> DEFINE S == {i \in DOMAIN V : i = a \/ rank[i] < rank[a]}
<1>1. S \in SUBSET DOMAIN V /\ a \in S
  OBVIOUS
<1>2. ASSUME NEW i \in S, V[i].next # 0 PROVE i + V[i].next \in S
  <2>1. i + V[i].next \in DOMAIN V /\ rank[i + V[i].next] < rank[i]
    BY <1>2 DEF LinksOk, Descends
  <2>2. rank[i] <= rank[a] /\ rank[i] \in Int /\ rank[a] \in Int /\ rank[i + V[i].next] \in Int
    BY <2>1 DEF Descends
  <2>3. QED
    BY <2>1, <2>2
<1>3. b \in S
  <2> HIDE DEF S
  <2> QED
    BY <1>1, <1>2 DEF Reach
<1>4. QED
  BY <1>3

(* No chain returns to a node.                                             *)
LEMMA ReachAntisym ==
  ASSUME NEW V, LinksOk(V), Ranked(V), NEW a \in DOMAIN V, NEW b \in DOMAIN V,
         Reach(V, a, b), Reach(V, b, a)
  PROVE  a = b
<1>1. PICK N, rank : Descends(V, rank, N)
  BY DEF Ranked
<1>2. b = a \/ rank[b] < rank[a]
  BY <1>1, ReachRank
<1>3. a = b \/ rank[a] < rank[b]
  BY <1>1, ReachRank
<1>4. rank[a] \in Int /\ rank[b] \in Int
  BY <1>1 DEF Descends
<1>5. QED
  BY <1>2, <1>3, <1>4

(* Another node is reached through the next one.                           *)
LEMMA ReachNext ==
  ASSUME NEW V, LinksOk(V), NEW a \in DOMAIN V, NEW b, Reach(V, a, b), a # b
  PROVE  V[a].next # 0 /\ Reach(V, a + V[a].next, b)
<1> DEFINE S == {a} \cup {i \in DOMAIN V : V[a].next # 0 /\ Reach(V, a + V[a].next, i)}
<1>1. S \in SUBSET DOMAIN V /\ a \in S
  OBVIOUS
<1>2. ASSUME NEW i \in S, V[i].next # 0 PROVE i + V[i].next \in S
  <2>1. i \in DOMAIN V /\ i + V[i].next \in DOMAIN V
    BY <1>2 DEF LinksOk
  <2>2. CASE i = a
    BY <2>1, <2>2, <1>2, ReachSelf
  <2>3. CASE i # a
    BY <2>1, <2>3, <1>2, ReachStep
  <2>4. QED
    BY <2>2, <2>3
<1>3. b \in S
  <2> HIDE DEF S
  <2> QED
    BY <1>1, <1>2 DEF Reach
<1>4. QED
  BY <1>3

-----------------------------------------------------------------------------
(* The function that a search computes: it gives for each node the first   *)
(* one from there on that has the key.                                     *)
Walked(W, V, k, deadok) ==
  W = [i \in DOMAIN V |-> IF EqualKey(k, V[i], deadok) THEN i
                          ELSE IF V[i].next = 0 THEN Nowhere
                          ELSE W[i + V[i].next]]

(* One node of a search.                                                   *)
Found(W, V, k, deadok, i) ==
  W[i] = IF EqualKey(k, V[i], deadok) THEN i
         ELSE IF V[i].next = 0 THEN Nowhere
         ELSE W[i + V[i].next]

(* There is such a function on the nodes of ranks up to m, for each m.     *)
LEMMA SearchUpTo ==
  ASSUME NEW V, LinksOk(V), NEW rank, NEW N, Descends(V, rank, N),
         NEW k, NEW deadok, NEW m \in Nat
  PROVE  \E W : /\ DOMAIN W = DOMAIN V
                /\ \A i \in DOMAIN V : rank[i] <= m => Found(W, V, k, deadok, i)
<1> DEFINE E(x) == \E W : /\ W = [i \in DOMAIN V |-> W[i]]
                          /\ \A i \in DOMAIN V : rank[i] <= x => Found(W, V, k, deadok, i)
<1>0. \A i \in DOMAIN V : rank[i] \in Nat /\ rank[i] >= 0
  BY DEF Descends
<1>1. E(0)
  <2> DEFINE W == [i \in DOMAIN V |-> IF EqualKey(k, V[i], deadok) THEN i ELSE Nowhere]
  <2>1. ASSUME NEW i \in DOMAIN V, rank[i] <= 0 PROVE V[i].next = 0
    <3>1. SUFFICES ASSUME V[i].next # 0 PROVE FALSE
      OBVIOUS
    <3>2. i + V[i].next \in DOMAIN V /\ rank[i + V[i].next] < rank[i]
      BY <3>1 DEF LinksOk, Descends
    <3>3. QED
      BY <3>2, <2>1, <1>0
  <2>2. \A i \in DOMAIN V : rank[i] <= 0 => Found(W, V, k, deadok, i)
    BY <2>1 DEF Found
  <2>3. W = [i \in DOMAIN V |-> W[i]]
    OBVIOUS
  <2> HIDE DEF W
  <2> QED
    BY <2>2, <2>3
<1>2. ASSUME NEW x \in Nat, E(x) PROVE E(x + 1)
  <2>1. PICK W : /\ W = [i \in DOMAIN V |-> W[i]]
                 /\ \A i \in DOMAIN V : rank[i] <= x => Found(W, V, k, deadok, i)
    BY <1>2
  <2> DEFINE U == [i \in DOMAIN V |-> IF rank[i] <= x THEN W[i]
                                      ELSE IF EqualKey(k, V[i], deadok) THEN i
                                      ELSE IF V[i].next = 0 THEN Nowhere
                                      ELSE W[i + V[i].next]]
  <2>2. ASSUME NEW i \in DOMAIN V, rank[i] <= x + 1, V[i].next # 0
        PROVE  U[i + V[i].next] = W[i + V[i].next]
    <3>1. i + V[i].next \in DOMAIN V /\ rank[i + V[i].next] < rank[i]
      BY <2>2 DEF LinksOk, Descends
    <3>2. rank[i + V[i].next] <= x
      BY <3>1, <2>2, <1>0
    <3>3. QED
      BY <3>1, <3>2
  <2>3. ASSUME NEW i \in DOMAIN V, rank[i] <= x + 1
        PROVE  Found(U, V, k, deadok, i)
    <3>1. CASE rank[i] <= x
      <4>1. Found(W, V, k, deadok, i) /\ U[i] = W[i]
        BY <2>1, <3>1
      <4> HIDE DEF U
      <4>2. QED
        BY <4>1, <2>2, <2>3 DEF Found
    <3>2. CASE ~(rank[i] <= x)
      <4>1. U[i] = IF EqualKey(k, V[i], deadok) THEN i
                   ELSE IF V[i].next = 0 THEN Nowhere ELSE W[i + V[i].next]
        BY <3>2
      <4> HIDE DEF U
      <4>2. QED
        BY <4>1, <2>2, <2>3 DEF Found
    <3>3. QED
      BY <3>1, <3>2
  <2>4. U = [i \in DOMAIN V |-> U[i]]
    OBVIOUS
  <2> HIDE DEF U
  <2> QED
    BY <2>3, <2>4
<1>3. E(m)
  <2> HIDE DEF E
  <2> DEFINE B == {x \in Nat : ~E(x)}
  <2>1. SUFFICES B = {}
    OBVIOUS
  <2>2. SUFFICES ASSUME B # {} PROVE FALSE
    OBVIOUS
  <2>3. PICK x \in B : \A y \in B : x <= y
    BY <2>2, LeastNat
  <2>4. x # 0
    BY <1>1
  <2>5. x - 1 \in Nat /\ x - 1 \notin B
    BY <2>3, <2>4
  <2>6. E(x - 1)
    BY <2>5
  <2>7. E((x - 1) + 1) /\ (x - 1) + 1 = x
    BY <2>5, <2>6, <1>2
  <2>8. QED
    BY <2>7
<1>4. QED
  BY <1>3

(* A search has a value at every node, the one that its definition says.   *)
LEMMA SearchWalks ==
  ASSUME NEW s, LinksOk(s.node), Ranked(s.node), NEW k, NEW deadok
  PROVE  Walked(Search(s, k, deadok), s.node, k, deadok)
<1> DEFINE V == s.node
<1>1. PICK N, rank : Descends(V, rank, N)
  BY DEF Ranked
<1>2. N \in Nat /\ LinksOk(V)
  BY <1>1 DEF Descends
<1>3. PICK W : /\ DOMAIN W = DOMAIN V
               /\ \A i \in DOMAIN V : rank[i] <= N => Found(W, V, k, deadok, i)
  <2> HIDE DEF V
  <2> QED BY <1>1, <1>2, SearchUpTo
<1>4. \A i \in DOMAIN V : rank[i] <= N
  BY <1>1, <1>2 DEF Descends
<1> DEFINE U == [i \in DOMAIN V |-> W[i]]
<1>5. ASSUME NEW i \in DOMAIN V
      PROVE  Found(U, V, k, deadok, i)
  <2>1. Found(W, V, k, deadok, i) /\ U[i] = W[i]
    BY <1>3, <1>4
  <2>2. V[i].next # 0 => U[i + V[i].next] = W[i + V[i].next]
    BY DEF LinksOk
  <2> HIDE DEF U
  <2>3. QED
    BY <2>1, <2>2 DEF Found
<1>6. Walked(U, V, k, deadok)
  <2>1. U = [i \in DOMAIN V |-> U[i]]
    OBVIOUS
  <2> HIDE DEF U, V
  <2> QED
    BY <2>1, <1>5 DEF Found, Walked
<1> HIDE DEF U
<1>7. Search(s, k, deadok) = CHOOSE W1 : Walked(W1, V, k, deadok)
  BY DEF Search, Walked
<1>8. QED
  BY <1>6, <1>7

(* The value of a search at one node.                                      *)
LEMMA WalkedAt ==
  ASSUME NEW W, NEW V, NEW k, NEW deadok, Walked(W, V, k, deadok), NEW i \in DOMAIN V
  PROVE  Found(W, V, k, deadok, i)
BY DEF Walked, Found

(* What a search finds has the key and is in the chain.                    *)
LEMMA FoundMatches ==
  ASSUME NEW W, NEW V, LinksOk(V), Ranked(V), NEW k, NEW deadok, Walked(W, V, k, deadok),
         NEW a \in DOMAIN V, W[a] # Nowhere
  PROVE  W[a] \in DOMAIN V /\ EqualKey(k, V[W[a]], deadok) /\ Reach(V, a, W[a])
<1>1. PICK N, rank : Descends(V, rank, N)
  BY DEF Ranked
<1> DEFINE Good(i) == /\ W[i] \in DOMAIN V /\ EqualKey(k, V[W[i]], deadok)
                      /\ Reach(V, i, W[i])
           B == {r \in Nat : \E i \in DOMAIN V : rank[i] = r /\ W[i] # Nowhere /\ ~Good(i)}
<1>2. SUFFICES ASSUME ~Good(a) PROVE FALSE
  OBVIOUS
<1>3. rank[a] \in B
  BY <1>1, <1>2 DEF Descends
<1>4. PICK r \in B : \A q \in B : r <= q
  <2> HIDE DEF B
  <2> QED
    BY <1>3, LeastNat, B \subseteq Nat DEF B
<1>5. PICK i \in DOMAIN V : rank[i] = r /\ W[i] # Nowhere /\ ~Good(i)
  BY <1>4
<1>6. Found(W, V, k, deadok, i)
  BY WalkedAt
<1>7. CASE EqualKey(k, V[i], deadok)
  BY <1>7, <1>6, <1>5, ReachSelf DEF Found
<1>8. CASE ~EqualKey(k, V[i], deadok)
  <2>1. V[i].next # 0 /\ W[i] = W[i + V[i].next]
    BY <1>8, <1>6, <1>5 DEF Found
  <2> DEFINE j == i + V[i].next
  <2>2. j \in DOMAIN V /\ rank[j] < rank[i]
    BY <2>1, <1>1 DEF LinksOk, Descends
  <2>3. rank[j] \in Nat /\ rank[i] \in Nat
    BY <2>2, <1>1 DEF Descends
  <2>4. Reach(V, i, j)
    BY <2>1, ReachSelf, ReachStep
  <2> HIDE DEF j
  <2>5. W[j] = W[i]
    BY <2>1 DEF j
  <2>6. CASE Good(j)
    <3>1. Reach(V, i, W[i])
      BY <2>6, <2>5, <2>4, ReachTrans
    <3>2. QED
      BY <3>1, <2>6, <2>5, <1>5
  <2>7. CASE ~Good(j)
    <3>1. rank[j] \in B
      BY <2>7, <2>5, <2>2, <2>3, <1>5
    <3>2. QED
      BY <3>1, <1>4, <1>5, <2>2, <2>3
  <2>8. QED
    BY <2>6, <2>7
<1>9. QED
  BY <1>7, <1>8

(* A search finds something if a node of the chain has the key.            *)
LEMMA FoundReach ==
  ASSUME NEW W, NEW V, LinksOk(V), NEW k, NEW deadok, Walked(W, V, k, deadok),
         NEW a \in DOMAIN V, NEW j \in DOMAIN V, Nowhere \notin DOMAIN V,
         Reach(V, a, j), EqualKey(k, V[j], deadok)
  PROVE  W[a] # Nowhere
<1>1. SUFFICES ASSUME W[a] = Nowhere PROVE FALSE
  OBVIOUS
<1> DEFINE S == {i \in DOMAIN V : W[i] = Nowhere}
<1>2. S \in SUBSET DOMAIN V /\ a \in S
  BY <1>1
<1>3. ASSUME NEW i \in S, V[i].next # 0 PROVE i + V[i].next \in S
  <2>1. Found(W, V, k, deadok, i) /\ i + V[i].next \in DOMAIN V
    BY <1>3, WalkedAt DEF LinksOk
  <2>2. ~EqualKey(k, V[i], deadok)
    BY <2>1, <1>3 DEF Found
  <2>3. W[i + V[i].next] = W[i]
    BY <2>1, <2>2, <1>3 DEF Found
  <2>4. QED
    BY <2>1, <2>3
<1>4. j \in S
  <2> HIDE DEF S
  <2> QED
    BY <1>2, <1>3 DEF Reach
<1>5. Found(W, V, k, deadok, j)
  BY WalkedAt
<1>6. QED
  BY <1>4, <1>5 DEF Found

(* A search finds the node with the key that leads to all others with it.  *)
LEMMA FoundFirst ==
  ASSUME NEW W, NEW V, LinksOk(V), Ranked(V), NEW k, NEW deadok, Walked(W, V, k, deadok),
         Nowhere \notin DOMAIN V, NEW a \in DOMAIN V, NEW i \in DOMAIN V, Reach(V, a, i),
         EqualKey(k, V[i], deadok),
         \A j \in DOMAIN V : EqualKey(k, V[j], deadok) => Reach(V, i, j)
  PROVE  W[a] = i
<1> DEFINE r == W[a]
<1>1. r # Nowhere
  BY FoundReach
<1>2. r \in DOMAIN V /\ EqualKey(k, V[r], deadok) /\ Reach(V, a, r)
  BY <1>1, FoundMatches
<1>3. Reach(V, i, r)
  BY <1>2
<1> DEFINE S == {x \in DOMAIN V : W[x] = r \/ Reach(V, r, x)}
<1>4. S \in SUBSET DOMAIN V /\ a \in S
  OBVIOUS
<1> HIDE DEF r
<1>5. ASSUME NEW x \in S, V[x].next # 0 PROVE x + V[x].next \in S
  <2>1. Found(W, V, k, deadok, x) /\ x + V[x].next \in DOMAIN V
    BY <1>5, WalkedAt DEF LinksOk
  <2>2. CASE Reach(V, r, x)
    BY <2>1, <2>2, <1>5, ReachStep
  <2>3. CASE W[x] = r /\ EqualKey(k, V[x], deadok)
    <3>1. x = r
      BY <2>1, <2>3 DEF Found
    <3>2. Reach(V, r, x)
      BY <3>1, ReachSelf
    <3>3. QED
      BY <2>1, <3>2, <1>5, ReachStep
  <2>4. CASE W[x] = r /\ ~EqualKey(k, V[x], deadok)
    BY <2>1, <2>4, <1>5 DEF Found
  <2>5. QED
    BY <2>2, <2>3, <2>4
<1>6. i \in S
  <2> HIDE DEF S
  <2> QED
    BY <1>4, <1>5 DEF Reach
<1>7. CASE W[i] = r
  <2>1. Found(W, V, k, deadok, i)
    BY WalkedAt
  <2>2. QED
    BY <2>1, <1>7 DEF Found, r
<1>8. CASE Reach(V, r, i)
  BY <1>8, <1>3, <1>2, ReachAntisym DEF r
<1>9. QED
  BY <1>6, <1>7, <1>8

-----------------------------------------------------------------------------
(* No live node has the key k.                                             *)
NotLive(V, k) == \A i \in DOMAIN V : V[i].key = k => V[i].dead

(* Chains depend on the offsets only.                                      *)
LEMMA ReachSame ==
  ASSUME NEW V, NEW U, DOMAIN U = DOMAIN V,
         \A i \in DOMAIN V : U[i].next = V[i].next,
         NEW a, NEW b, Reach(V, a, b)
  PROVE  Reach(U, a, b)
BY DEF Reach

(* A key put in its main position, which has no value but may have an      *)
(* offset, is chained (insertkey).                                         *)
LEMMA FillChained ==
  ASSUME NEW V, NEW n, NEW H, Vector(V, n, H), Chained(V, H),
         NEW k \in Key, NEW v \in Value, NEW mp, mp = H[k], NotLive(V, k),
         V[mp].val = Empty,
         NEW U, Vector(U, n, H),
         U[mp].key = k, ~U[mp].dead, U[mp].val = v, U[mp].next = V[mp].next,
         \A i \in DOMAIN V \ {mp} : U[i] = V[i]
  PROVE  Chained(U, H)
<1>1. DOMAIN U = DOMAIN V /\ mp \in DOMAIN V /\ k # NilKey
  BY DEF Vector, Key
<1>2. \A i \in DOMAIN V : U[i].next = V[i].next
  BY <1>1
<1>3. \A a, b : Reach(V, a, b) => Reach(U, a, b)
  BY <1>1, <1>2, ReachSame
<1>4. \A i \in DOMAIN V : V[i].key # NilKey => U[i].key # NilKey
  BY <1>1
<1>5. LinksOk(U)
  BY <1>1, <1>2, <1>4 DEF LinksOk, Chained
<1>6. OneBefore(U)
  BY <1>1, <1>2 DEF OneBefore, Chained
<1>7. Ranked(U)
  BY <1>1, <1>2 DEF Ranked, Descends, Chained
<1>8. AtHome(U, H)
  <2> SUFFICES ASSUME NEW i \in DOMAIN U, U[i].key # NilKey
               PROVE  /\ U[H[U[i].key]].key # NilKey
                      /\ H[U[H[U[i].key]].key] = H[U[i].key]
                      /\ Reach(U, H[U[i].key], i)
    BY DEF AtHome
  <2>1. CASE i = mp
    BY <2>1, <1>1, ReachSelf
  <2>2. CASE i # mp
    <3>1. U[i] = V[i] /\ V[i].key # NilKey /\ i \in DOMAIN V
      BY <2>2, <1>1
    <3> DEFINE m == H[V[i].key]
    <3>2. V[m].key # NilKey /\ H[V[m].key] = m /\ Reach(V, m, i)
      BY <3>1 DEF Chained, AtHome
    <3>3. m \in DOMAIN V
      BY <3>1 DEF Vector, Node
    <3>4. U[m].key # NilKey /\ H[U[m].key] = m
      BY <3>2, <3>3, <1>1
    <3>5. QED
      BY <3>1, <3>2, <3>4, <1>3
  <2>3. QED
    BY <2>1, <2>2
<1>9. LiveFirst(U)
  <2> SUFFICES ASSUME NEW i \in DOMAIN U, NEW j \in DOMAIN U,
                      U[i].key = U[j].key, U[i].key # NilKey, ~U[i].dead
               PROVE  Reach(U, i, j)
    BY DEF LiveFirst
  <2>1. CASE i = mp
    <3>1. CASE j = mp
      BY <2>1, <3>1, ReachSelf
    <3>2. CASE j # mp
      <4>1. V[j].key = k
        BY <3>2, <2>1, <1>1
      <4>2. Reach(V, mp, j)
        BY <4>1, <1>1 DEF Chained, AtHome
      <4>3. QED
        BY <4>2, <1>3, <2>1
    <3>3. QED
      BY <3>1, <3>2
  <2>2. CASE i # mp
    <3>1. V[i].key = U[j].key /\ ~V[i].dead /\ V[i].key # NilKey
      BY <2>2, <1>1
    <3>2. j # mp
      BY <3>1, <1>1 DEF NotLive
    <3>3. Reach(V, i, j)
      BY <3>1, <3>2, <1>1 DEF Chained, LiveFirst
    <3>4. QED
      BY <3>3, <1>3
  <2>3. QED
    BY <2>1, <2>2
<1>10. ValuesOk(U)
  BY <1>1 DEF ValuesOk, Chained
<1>11. QED
  BY <1>5, <1>6, <1>7, <1>8, <1>9, <1>10 DEF Chained

(* A free node is not on any chain.                                        *)
LEMMA FreeIsolated ==
  ASSUME NEW V, LinksOk(V), NEW f \in DOMAIN V, V[f].key = NilKey
  PROVE  /\ V[f].next = 0
         /\ \A i \in DOMAIN V : V[i].next # 0 => i + V[i].next # f
BY DEF LinksOk

(* A key put in a free node f after its main position is chained: the      *)
(* colliding key is at home (insertkey).                                   *)
LEMMA AppendChained ==
  ASSUME NEW V, NEW n, NEW H, Vector(V, n, H), Chained(V, H),
         NEW k \in Key, NEW v \in Value, NEW mp, mp = H[k], NotLive(V, k),
         V[mp].val # Empty, H[V[mp].key] = mp,
         NEW f \in DOMAIN V, V[f].key = NilKey,
         NEW U, Vector(U, n, H),
         U[f].key = k, ~U[f].dead, U[f].val = v,
         U[f].next = IF V[mp].next = 0 THEN 0 ELSE mp + V[mp].next - f,
         U[mp].key = V[mp].key, U[mp].dead = V[mp].dead, U[mp].val = V[mp].val,
         U[mp].next = f - mp,
         \A i \in DOMAIN V \ {mp, f} : U[i] = V[i]
  PROVE  Chained(U, H)
<1>1. DOMAIN U = DOMAIN V /\ mp \in DOMAIN V /\ k # NilKey /\ DOMAIN V \subseteq Int
  BY DEF Vector, Key
<1>2. V[mp].key # NilKey /\ ~V[mp].dead /\ V[mp].key # k /\ f # mp
  BY <1>1 DEF Chained, ValuesOk, NotLive
<1>3. V[f].next = 0 /\ \A i \in DOMAIN V : V[i].next # 0 => i + V[i].next # f
  BY FreeIsolated DEF Chained
<1>4. \A i \in DOMAIN V : V[i].next \in Int /\ V[i] \in Node
  BY DEF Vector, Node
<1>5. /\ U[mp].key = V[mp].key /\ U[mp].dead = V[mp].dead /\ U[mp].val = V[mp].val
      /\ U[mp].next = f - mp
  OBVIOUS
<1>6. U[mp].next # 0 /\ mp + U[mp].next = f
  BY <1>5, <1>2, <1>1
<1>19. U[f].key = k /\ ~U[f].dead /\ U[f].val = v
  OBVIOUS
<1>7. /\ U[f].next # 0 <=> V[mp].next # 0
      /\ U[f].next # 0 => f + U[f].next = mp + V[mp].next
  BY <1>1, <1>3, <1>4
<1>8. \A i \in DOMAIN V \ {mp, f} : U[i].next = V[i].next
  OBVIOUS
<1>9. \A i \in DOMAIN V : V[i].key # NilKey => U[i].key # NilKey
  BY <1>1, <1>5
<1>10. LinksOk(U)
  <2> SUFFICES ASSUME NEW i \in DOMAIN V, U[i].next # 0
               PROVE  /\ i + U[i].next \in DOMAIN V
                      /\ U[i].key # NilKey /\ U[i + U[i].next].key # NilKey
    BY <1>1 DEF LinksOk
  <2>1. CASE i = mp
    <3>1. U[f].key = k
      OBVIOUS
    <3>2. QED
      BY <2>1, <3>1, <1>1, <1>2, <1>5, <1>6
  <2>2. CASE i = f
    BY <2>2, <1>1, <1>7, <1>9 DEF Chained, LinksOk
  <2>3. CASE i \notin {mp, f}
    BY <2>3, <1>8, <1>9 DEF Chained, LinksOk
  <2>4. QED
    BY <2>1, <2>2, <2>3
<1>11. OneBefore(U)
  <2> SUFFICES ASSUME NEW i \in DOMAIN V, NEW j \in DOMAIN V, U[i].next # 0, U[j].next # 0,
                      i + U[i].next = j + U[j].next
               PROVE  i = j
    BY <1>1 DEF OneBefore
  <2> DEFINE old(x) == IF x = f THEN mp ELSE x
  <2>1. ASSUME NEW x \in DOMAIN V, U[x].next # 0, x # mp
        PROVE  /\ old(x) \in DOMAIN V /\ V[old(x)].next # 0
               /\ x + U[x].next = old(x) + V[old(x)].next
               /\ x + U[x].next # f
    <3>1. CASE x = f
      BY <3>1, <2>1, <1>7, <1>1, <1>3
    <3>2. CASE x # f
      BY <3>2, <2>1, <1>8, <1>3
    <3>3. QED
      BY <3>1, <3>2
  <2>2. ASSUME NEW x \in DOMAIN V, U[x].next # 0, x + U[x].next = f PROVE x = mp
    BY <2>1, <2>2
  <2>4. CASE i = mp \/ j = mp
    BY <2>2, <2>4, <1>6
  <2>3. CASE i # mp /\ j # mp
    <3>1. old(i) = old(j)
      <4> HIDE DEF old
      <4> QED
        BY <2>1, <2>3 DEF Chained, OneBefore
    <3>2. QED
      BY <3>1, <2>3
  <2>5. QED
    BY <2>3, <2>4
<1>12. Ranked(U)
  <2>1. PICK N, rank : Descends(V, rank, N)
    BY DEF Chained, Ranked
  <2>2. N \in Nat /\ \A i \in DOMAIN V : rank[i] \in 0 .. N
    BY <2>1 DEF Descends
  <2> DEFINE R == [i \in DOMAIN V |-> IF i = f THEN 2 * rank[mp] ELSE 2 * rank[i] + 1]
  <2>3. R \in [DOMAIN V -> 0 .. (2 * N + 1)]
    BY <2>2, <1>1
  <2>4. ASSUME NEW i \in DOMAIN V, U[i].next # 0 PROVE R[i + U[i].next] < R[i]
    <3>1. i + U[i].next \in DOMAIN V
      BY <2>4, <1>1, <1>10 DEF LinksOk
    <3>2. CASE i = mp
      <4>1. R[f] = 2 * rank[mp] /\ R[mp] = 2 * rank[mp] + 1
        BY <1>1, <1>2
      <4>2. i + U[i].next = f
        BY <3>2, <1>6
      <4>3. rank[mp] \in Nat
        BY <1>1, <2>2
      <4> HIDE DEF R
      <4>4. QED
        BY <4>1, <4>2, <4>3, <3>2
    <3>3. CASE i = f
      <4> DEFINE j == mp + V[mp].next
      <4>1. j \in DOMAIN V /\ rank[j] < rank[mp] /\ j # f
        BY <3>3, <2>4, <1>1, <1>3, <1>7, <2>1 DEF Descends, Chained, LinksOk
      <4>2. i + U[i].next = j
        BY <3>3, <2>4, <1>7
      <4> HIDE DEF j
      <4>3. R[f] = 2 * rank[mp] /\ R[j] = 2 * rank[j] + 1
        BY <4>1
      <4> HIDE DEF R
      <4>4. QED
        BY <4>1, <4>2, <4>3, <3>3, <1>1, <2>2
    <3>4. CASE i \notin {mp, f}
      <4> DEFINE j == i + V[i].next
      <4>1. j \in DOMAIN V /\ rank[j] < rank[i] /\ j # f
        BY <3>4, <2>4, <1>3, <1>8, <2>1 DEF Descends, Chained, LinksOk
      <4>2. i + U[i].next = j
        BY <3>4, <1>8
      <4> HIDE DEF j
      <4>3. R[i] = 2 * rank[i] + 1 /\ R[j] = 2 * rank[j] + 1
        BY <4>1, <3>4
      <4> HIDE DEF R
      <4>4. QED
        BY <4>1, <4>2, <4>3, <2>2
    <3>5. QED
      BY <3>2, <3>3, <3>4
  <2> HIDE DEF R
  <2>5. Descends(U, R, 2 * N + 1)
    BY <2>2, <2>3, <2>4, <1>1 DEF Descends
  <2>6. QED
    BY <2>5 DEF Ranked
<1>13. ASSUME NEW a, NEW b, Reach(V, a, b) PROVE Reach(U, a, b)
  <2> SUFFICES ASSUME NEW S \in SUBSET DOMAIN V, a \in S,
                      \A i \in S : U[i].next # 0 => i + U[i].next \in S
               PROVE  b \in S
    BY <1>1 DEF Reach
  <2>1. ASSUME NEW i \in S, V[i].next # 0 PROVE i + V[i].next \in S
    <3>1. CASE i = mp
      <4>1. f \in S
        BY <3>1, <1>6
      <4>2. QED
        BY <4>1, <3>1, <2>1, <1>7
    <3>2. CASE i = f
      BY <3>2, <2>1, <1>3
    <3>3. CASE i \notin {mp, f}
      BY <3>3, <2>1, <1>8
    <3>4. QED
      BY <3>1, <3>2, <3>3
  <2>2. QED
    BY <2>1, <1>13 DEF Reach
<1>14. Reach(U, mp, f)
  <2>1. Reach(U, mp, mp) /\ mp \in DOMAIN U
    BY <1>1, ReachSelf
  <2>2. Reach(U, mp, mp + U[mp].next)
    BY <2>1, <1>6, ReachStep
  <2>3. QED
    BY <2>2, <1>6
<1>15. AtHome(U, H)
  <2> SUFFICES ASSUME NEW i \in DOMAIN V, U[i].key # NilKey
               PROVE  /\ U[H[U[i].key]].key # NilKey
                      /\ H[U[H[U[i].key]].key] = H[U[i].key]
                      /\ Reach(U, H[U[i].key], i)
    BY <1>1 DEF AtHome
  <2>1. CASE i = f
    BY <2>1, <1>1, <1>2, <1>5, <1>19, <1>14
  <2>2. CASE i # f
    <3>1. U[i].key = V[i].key
      BY <2>2, <1>5
    <3> DEFINE m == H[V[i].key]
    <3>2. V[m].key # NilKey /\ H[V[m].key] = m /\ Reach(V, m, i)
      BY <3>1 DEF Chained, AtHome
    <3>3. m \in DOMAIN V
      BY <3>1, <1>4 DEF Vector, Node
    <3>4. U[m].key = V[m].key
      BY <3>2, <3>3, <1>5
    <3>5. QED
      BY <3>1, <3>2, <3>4, <1>13
  <2>3. QED
    BY <2>1, <2>2
<1>16. LiveFirst(U)
  <2> SUFFICES ASSUME NEW i \in DOMAIN V, NEW j \in DOMAIN V,
                      U[i].key = U[j].key, U[i].key # NilKey, ~U[i].dead
               PROVE  Reach(U, i, j)
    BY <1>1 DEF LiveFirst
  <2>1. CASE i = f /\ j = f
    BY <2>1, ReachSelf
  <2>2. CASE i = f /\ j # f
    <3>1. V[j].key = k
      BY <2>2, <1>5, <1>19
    <3>2. Reach(V, mp, j)
      BY <3>1, <1>1 DEF Chained, AtHome
    <3>3. j # mp
      BY <3>1, <1>2
    <3>4. Reach(U, mp, j)
      BY <3>2, <1>13
    <3>5. Reach(U, mp + U[mp].next, j)
      BY <3>3, <3>4, <1>1, <1>10, ReachNext
    <3>6. QED
      BY <3>5, <1>6, <2>2
  <2>3. CASE i # f
    <3>1. V[i].key = U[i].key /\ V[i].dead = U[i].dead
      BY <2>3, <1>5
    <3>2. j # f
      BY <3>1 DEF NotLive
    <3>3. V[j].key = U[j].key
      BY <3>2, <1>5
    <3>4. Reach(V, i, j)
      BY <3>1, <3>3 DEF Chained, LiveFirst
    <3>5. QED
      BY <3>4, <1>13
  <2>4. QED
    BY <2>1, <2>2, <2>3
<1>17. ValuesOk(U)
  <2> SUFFICES ASSUME NEW i \in DOMAIN V
               PROVE  /\ U[i].val # Empty \/ U[i].dead => U[i].key # NilKey
                      /\ U[i].val # Empty => ~U[i].dead
    BY <1>1 DEF ValuesOk
  <2>1. CASE i = f
    BY <2>1, <1>1, <1>19
  <2>2. CASE i # f
    <3>1. U[i].key = V[i].key /\ U[i].dead = V[i].dead /\ U[i].val = V[i].val
      BY <2>2, <1>5
    <3>2. QED
      BY <3>1 DEF ValuesOk, Chained
  <2>3. QED
    BY <2>1, <2>2
<1>18. QED
  BY <1>10, <1>11, <1>12, <1>15, <1>16, <1>17 DEF Chained

(* A key put in its main position is chained after the colliding one,      *)
(* which has another main position, moved to the free node f; p, the one   *)
(* before it, leads there (insertkey).                                     *)
LEMMA MoveChained ==
  ASSUME NEW V, NEW n, NEW H, Vector(V, n, H), Chained(V, H),
         NEW k \in Key, NEW v \in Value, NEW mp, mp = H[k],
         V[mp].val # Empty, H[V[mp].key] # mp,
         NEW f \in DOMAIN V, V[f].key = NilKey,
         NEW p \in DOMAIN V, V[p].next # 0, p + V[p].next = mp,
         NEW U, Vector(U, n, H),
         U[p].key = V[p].key, U[p].dead = V[p].dead, U[p].val = V[p].val,
         U[p].next = f - p,
         U[f].key = V[mp].key, U[f].dead = V[mp].dead, U[f].val = V[mp].val,
         U[f].next = IF V[mp].next = 0 THEN 0 ELSE V[mp].next + mp - f,
         U[mp].key = k, ~U[mp].dead, U[mp].val = v, U[mp].next = 0,
         \A i \in DOMAIN V \ {mp, f, p} : U[i] = V[i]
  PROVE  Chained(U, H)
<1>1. DOMAIN U = DOMAIN V /\ mp \in DOMAIN V /\ k # NilKey /\ DOMAIN V \subseteq Int
  BY DEF Vector, Key
<1>2. V[mp].key # NilKey /\ ~V[mp].dead /\ f # mp
  BY <1>1 DEF Chained, ValuesOk
<1>3. V[f].next = 0 /\ \A i \in DOMAIN V : V[i].next # 0 => i + V[i].next # f
  BY FreeIsolated DEF Chained
<1>4. \A i \in DOMAIN V : V[i].next \in Int /\ V[i] \in Node
  BY DEF Vector, Node
<1>5. p # mp /\ p # f
  BY <1>1, <1>3, <1>4
<1>6. /\ U[p].key = V[p].key /\ U[p].dead = V[p].dead /\ U[p].val = V[p].val
      /\ U[p].next = f - p
  OBVIOUS
<1>7. /\ U[f].key = V[mp].key /\ U[f].dead = V[mp].dead /\ U[f].val = V[mp].val
      /\ U[f].next = IF V[mp].next = 0 THEN 0 ELSE V[mp].next + mp - f
  OBVIOUS
<1>8. U[mp].key = k /\ ~U[mp].dead /\ U[mp].val = v /\ U[mp].next = 0
  OBVIOUS
<1>9. U[p].next # 0 /\ p + U[p].next = f
  BY <1>1, <1>5, <1>6
<1>10. /\ U[f].next # 0 <=> V[mp].next # 0
       /\ U[f].next # 0 => f + U[f].next = mp + V[mp].next
  BY <1>1, <1>3, <1>4, <1>7
<1>11. \A i \in DOMAIN V \ {mp, f, p} : U[i].next = V[i].next
  OBVIOUS
<1>12. \A i \in DOMAIN V \ {mp, f} :
          U[i].key = V[i].key /\ U[i].dead = V[i].dead /\ U[i].val = V[i].val
  BY <1>6
<1>13. \A i \in DOMAIN V : V[i].key # NilKey => U[i].key # NilKey
  BY <1>1, <1>7, <1>8, <1>12
<1>14. \A i \in DOMAIN V : V[i].next # 0 /\ i + V[i].next = mp => i = p
  BY DEF Chained, OneBefore
<1>15. V[mp].next # 0 => mp + V[mp].next # mp
  BY <1>1, <1>4
<1>16. LinksOk(U)
  <2> SUFFICES ASSUME NEW i \in DOMAIN V, U[i].next # 0
               PROVE  /\ i + U[i].next \in DOMAIN V
                      /\ U[i].key # NilKey /\ U[i + U[i].next].key # NilKey
    BY <1>1 DEF LinksOk
  <2>1. CASE i = p
    <3>1. V[p].key # NilKey
      BY DEF Chained, LinksOk
    <3>2. QED
      BY <2>1, <3>1, <1>2, <1>6, <1>7, <1>9
  <2>2. CASE i = f
    <3>1. mp + V[mp].next \in DOMAIN V /\ V[mp + V[mp].next].key # NilKey
      BY <2>2, <1>1, <1>10 DEF Chained, LinksOk
    <3>2. QED
      BY <2>2, <3>1, <1>2, <1>7, <1>10, <1>13
  <2>3. CASE i \notin {mp, f, p}
    BY <2>3, <1>11, <1>13 DEF Chained, LinksOk
  <2>4. QED
    BY <2>1, <2>2, <2>3, <1>8
<1> DEFINE old(x) == IF x = f THEN mp ELSE x
<1>17. ASSUME NEW x \in DOMAIN V, U[x].next # 0, x # p
       PROVE  /\ x # mp /\ old(x) \in DOMAIN V /\ V[old(x)].next # 0
              /\ x + U[x].next = old(x) + V[old(x)].next
              /\ x + U[x].next # f /\ x + U[x].next # mp
  <2>1. CASE x = f
    BY <2>1, <1>17, <1>1, <1>3, <1>5, <1>10, <1>15
  <2>2. CASE x # f
    BY <2>2, <1>17, <1>3, <1>8, <1>11, <1>14
  <2>3. QED
    BY <2>1, <2>2
<1>18. OneBefore(U)
  <2> SUFFICES ASSUME NEW i \in DOMAIN V, NEW j \in DOMAIN V, U[i].next # 0, U[j].next # 0,
                      i + U[i].next = j + U[j].next
               PROVE  i = j
    BY <1>1 DEF OneBefore
  <2>1. ASSUME NEW x \in DOMAIN V, U[x].next # 0, x + U[x].next = f PROVE x = p
    BY <2>1, <1>17
  <2>2. CASE i = p \/ j = p
    BY <2>1, <2>2, <1>9
  <2>3. CASE i # p /\ j # p
    <3>1. old(i) = old(j)
      <4> HIDE DEF old
      <4> QED
        BY <1>17, <2>3 DEF Chained, OneBefore
    <3>2. i # mp /\ j # mp
      BY <1>8
    <3>3. QED
      BY <3>1, <3>2
  <2>4. QED
    BY <2>2, <2>3
<1>19. Ranked(U)
  <2>1. PICK N, rank : Descends(V, rank, N)
    BY DEF Chained, Ranked
  <2>2. N \in Nat /\ \A i \in DOMAIN V : rank[i] \in 0 .. N
    BY <2>1 DEF Descends
  <2> DEFINE R == [i \in DOMAIN V |-> IF i = f THEN rank[mp] ELSE rank[i]]
  <2>3. R \in [DOMAIN V -> 0 .. N]
    BY <2>2, <1>1
  <2>4. ASSUME NEW i \in DOMAIN V, U[i].next # 0 PROVE R[i + U[i].next] < R[i]
    <3>1. CASE i = p
      <4>1. rank[mp] < rank[p]
        BY <2>1 DEF Descends
      <4>2. R[f] = rank[mp] /\ R[p] = rank[p]
        BY <1>5
      <4> HIDE DEF R
      <4>3. QED
        BY <4>1, <4>2, <3>1, <1>9
    <3>2. CASE i # p
      <4> DEFINE x == old(i)
                 j == i + U[i].next
      <4>1. x \in DOMAIN V /\ V[x].next # 0 /\ j = x + V[x].next /\ j # f
        BY <1>17, <2>4, <3>2
      <4>2. R[i] = rank[x]
        OBVIOUS
      <4> HIDE DEF x, j
      <4>3. j \in DOMAIN V /\ rank[j] < rank[x]
        BY <4>1, <2>1 DEF Descends, Chained, LinksOk
      <4>4. R[j] = rank[j]
        BY <4>1, <4>3
      <4> HIDE DEF R
      <4>5. QED
        BY <4>2, <4>3, <4>4 DEF j
    <3>3. QED
      BY <3>1, <3>2
  <2> HIDE DEF R
  <2>5. Descends(U, R, N)
    BY <2>2, <2>3, <2>4, <1>1 DEF Descends
  <2>6. QED
    BY <2>5 DEF Ranked
<1> DEFINE new(x) == IF x = mp THEN f ELSE x
<1>20. ASSUME NEW a \in DOMAIN V, NEW b \in DOMAIN V, Reach(V, a, b)
       PROVE  Reach(U, new(a), new(b))
  <2> SUFFICES ASSUME NEW T \in SUBSET DOMAIN V, new(a) \in T,
                      \A i \in T : U[i].next # 0 => i + U[i].next \in T
               PROVE  new(b) \in T
    BY <1>1 DEF Reach
  <2> DEFINE S == {i \in DOMAIN V : new(i) \in T}
  <2>1. S \in SUBSET DOMAIN V /\ a \in S
    OBVIOUS
  <2>2. ASSUME NEW i \in S, V[i].next # 0 PROVE i + V[i].next \in S
    <3>1. i + V[i].next \in DOMAIN V
      BY <2>2 DEF Chained, LinksOk
    <3>2. CASE i = mp
      <4>1. f + U[f].next \in T /\ f + U[f].next = mp + V[mp].next
        BY <3>2, <2>2, <1>10
      <4>2. QED
        BY <4>1, <3>1, <3>2, <1>15, <2>2
    <3>3. CASE i = p
      <4>1. p \in T /\ f \in T
        BY <3>3, <1>5, <1>9
      <4>2. QED
        BY <4>1, <3>1, <3>3
    <3>4. CASE i = f
      BY <3>4, <2>2, <1>3
    <3>5. CASE i \notin {mp, f, p}
      <4>1. i \in T /\ i + U[i].next \in T
        BY <3>5, <2>2, <1>11
      <4>2. i + V[i].next # mp
        BY <3>5, <2>2, <1>14
      <4>3. QED
        BY <4>1, <4>2, <3>1, <3>5, <1>11
    <3>6. QED
      BY <3>2, <3>3, <3>4, <3>5
  <2>3. b \in S
    <3> HIDE DEF S
    <3> QED
      BY <2>1, <2>2, <1>20 DEF Reach
  <2>4. QED
    BY <2>3
<1>21. \A i \in DOMAIN V : V[i].key # NilKey => H[V[i].key] # mp /\ H[V[i].key] \in DOMAIN V
  BY <1>4 DEF Chained, AtHome, Vector, Node
<1>22. AtHome(U, H)
  <2> SUFFICES ASSUME NEW i \in DOMAIN V, U[i].key # NilKey
               PROVE  /\ U[H[U[i].key]].key # NilKey
                      /\ H[U[H[U[i].key]].key] = H[U[i].key]
                      /\ Reach(U, H[U[i].key], i)
    BY <1>1 DEF AtHome
  <2>1. CASE i = mp
    BY <2>1, <1>1, <1>8, ReachSelf
  <2>2. CASE i # mp
    <3> DEFINE x == old(i)
               m == H[V[x].key]
    <3>1. x \in DOMAIN V /\ V[x].key = U[i].key /\ new(x) = i
      BY <2>2, <1>1, <1>7, <1>12
    <3> HIDE DEF x
    <3>2. V[m].key # NilKey /\ H[V[m].key] = m /\ Reach(V, m, x)
      BY <3>1 DEF Chained, AtHome
    <3>3. m # mp /\ m \in DOMAIN V
      BY <3>1, <1>21
    <3> HIDE DEF m
    <3>4. m # f /\ U[m].key = V[m].key
      BY <3>2, <3>3, <1>12
    <3>5. Reach(U, m, i)
      BY <3>1, <3>2, <3>3, <1>20
    <3>6. QED
      BY <3>1, <3>2, <3>4, <3>5 DEF m
  <2>3. QED
    BY <2>1, <2>2
<1>23. LiveFirst(U)
  <2> SUFFICES ASSUME NEW i \in DOMAIN V, NEW j \in DOMAIN V,
                      U[i].key = U[j].key, U[i].key # NilKey, ~U[i].dead
               PROVE  Reach(U, i, j)
    BY <1>1 DEF LiveFirst
  <2>1. ASSUME NEW x \in DOMAIN V, x # mp
        PROVE  /\ old(x) \in DOMAIN V /\ U[x].key = V[old(x)].key
               /\ U[x].dead = V[old(x)].dead /\ new(old(x)) = x
    BY <2>1, <1>1, <1>7, <1>12
  <2>2. ASSUME NEW x \in DOMAIN V, U[x].key = k PROVE x = mp
    <3>1. SUFFICES ASSUME x # mp PROVE FALSE
      OBVIOUS
    <3>2. V[old(x)].key = k /\ old(x) \in DOMAIN V
      BY <2>1, <2>2, <3>1
    <3>3. QED
      BY <3>2, <1>1, <1>21
  <2>3. CASE i = mp \/ j = mp
    BY <2>3, <2>2, <1>8, ReachSelf
  <2>4. CASE i # mp /\ j # mp
    <3>1. Reach(V, old(i), old(j))
      <4> HIDE DEF old, new
      <4> QED
        BY <2>1, <2>4 DEF Chained, LiveFirst
    <3>2. QED
      <4> HIDE DEF old, new
      <4> QED
        BY <3>1, <2>1, <2>4, <1>20
  <2>5. QED
    BY <2>3, <2>4
<1>24. ValuesOk(U)
  <2> SUFFICES ASSUME NEW i \in DOMAIN V
               PROVE  /\ U[i].val # Empty \/ U[i].dead => U[i].key # NilKey
                      /\ U[i].val # Empty => ~U[i].dead
    BY <1>1 DEF ValuesOk
  <2>1. CASE i = mp
    BY <2>1, <1>1, <1>8
  <2>2. CASE i = f
    BY <2>2, <1>1, <1>2, <1>7
  <2>3. CASE i \notin {mp, f}
    BY <2>3, <1>12 DEF ValuesOk, Chained
  <2>4. QED
    BY <2>1, <2>2, <2>3
<1>25. QED
  BY <1>16, <1>18, <1>19, <1>22, <1>23, <1>24 DEF Chained

-----------------------------------------------------------------------------
(* The greatest element of a bounded set.                                  *)
LEMMA MaxIn ==
  ASSUME NEW n \in Nat, NEW S \in SUBSET (0 .. n), S # {}
  PROVE  Max(S) \in S /\ \A x \in S : Max(S) >= x
<1> DEFINE B == {d \in 0 .. n : n - d \in S}
<1>1. B \in SUBSET Nat /\ B # {}
  <2>1. PICK x \in S : TRUE
    OBVIOUS
  <2>2. x \in 0 .. n /\ n - x \in 0 .. n /\ n - (n - x) = x
    OBVIOUS
  <2>3. n - x \in B
    BY <2>2
  <2>4. B \subseteq Nat
    OBVIOUS
  <2>5. QED
    BY <2>3, <2>4
<1>2. PICK d \in B : \A e \in B : d <= e
  <2> HIDE DEF B
  <2> QED
    BY <1>1, LeastNat
<1>3. n - d \in S
  OBVIOUS
<1>4. ASSUME NEW x \in S PROVE n - d >= x
  <2>1. x \in 0 .. n /\ n - (n - x) = x /\ n - x \in 0 .. n
    OBVIOUS
  <2>2. n - x \in B
    BY <2>1
  <2>3. d <= n - x
    BY <2>2, <1>2
  <2>4. QED
    BY <2>1, <2>3
<1>5. \E x \in S : \A y \in S : x >= y
  BY <1>3, <1>4
<1>6. QED
  BY <1>5 DEF Max

(* The types of keys.                                                      *)
LEMMA KeyType ==
  ASSUME NEW k \in Key
  PROVE  /\ k \in [kind : {"int", "float", "str", "obj"}, id : Nat, hash : Nat]
         /\ k # NilKey /\ k # NaN /\ k # Idle
         /\ k.kind = "int" => k = IntKey(k.id)
<1>1. k # NilKey /\ k # NaN
  BY DEF Key
<1>2. k # Idle
  BY TableAssumption DEF TableAssumption
<1>3. CASE k \in Item(MaxItems)
  <2>1. PICK i \in 1 .. MaxItems : k = IntKey(i)
    BY <1>3 DEF Item
  <2>2. i \in Nat
    BY TableAssumption DEF TableAssumption
  <2>3. QED
    BY <2>1, <2>2, <1>1, <1>2 DEF IntKey, KeyOf
<1>4. CASE k \notin Item(MaxItems)
  <2>1. PICK a \in Arg : k = Normalized(a)
    BY <1>4 DEF Key
  <2>2. /\ a \in [kind : {"int", "float", "str", "obj", "nan", "nil"}, id : Nat, hash : Nat]
        /\ a.kind = "int" => a = IntKey(a.id)
        /\ a.kind = "nan" => a = NaN
        /\ a.kind = "nil" => a = NilKey
    BY TableAssumption DEF TableAssumption
  <2>3. CASE a.kind = "float" /\ a.id % 2 = 0
    <3>1. k = IntKey(a.id \div 2) /\ a.id \div 2 \in Nat
      BY <2>1, <2>2, <2>3 DEF Normalized
    <3>2. QED
      BY <3>1, <1>1, <1>2 DEF IntKey, KeyOf
  <2>4. CASE ~(a.kind = "float" /\ a.id % 2 = 0)
    BY <2>1, <2>2, <2>4, <1>1, <1>2 DEF Normalized
  <2>5. QED
    BY <2>3, <2>4
<1>5. QED
  BY <1>3, <1>4

(* Types of tables; their main positions; a free node is below 'lastfree'; *)
(* and what all tables obey whatever the array part is.                    *)
Vectors == UNION {[0 .. n - 1 -> Node] : n \in Nat}
Tables == [arr : Seq(Value \cup {Empty}), node : Vectors, lastfree : Nat, lenhint : Nat]
Home(s) == [k \in Key |-> MainPosition(s, k)]
FreeBelow(s) ==
  /\ s.lastfree <= SizeNode(s)
  /\ HasLastFree(s) => \A i \in DOMAIN s.node : s.node[i].key = NilKey => i < s.lastfree
Sound(s) == s \in Tables /\ Chained(s.node, Home(s)) /\ FreeBelow(s)

(* The size of a node vector.                                              *)
LEMMA SizeIs ==
  ASSUME NEW s, NEW n \in Nat, DOMAIN s.node = 0 .. n - 1
  PROVE  SizeNode(s) = n
<1>1. Cardinality(0 .. n - 1) = n
  BY FS_Interval
<1>2. QED
  BY <1>1 DEF SizeNode

(* A node vector begins at 0 and has the size of the table.                *)
LEMMA TableSize ==
  ASSUME NEW s \in Tables
  PROVE  SizeNode(s) \in Nat /\ s.node \in [0 .. SizeNode(s) - 1 -> Node]
<1>1. PICK n \in Nat : s.node \in [0 .. n - 1 -> Node]
  BY DEF Tables, Vectors
<1>2. SizeNode(s) = n
  BY <1>1, SizeIs
<1>3. QED
  BY <1>1, <1>2

(* Main positions are in the vector.                                       *)
LEMMA MainPositionIn ==
  ASSUME NEW s, SizeNode(s) \in Nat \ {0}, NEW k, k.hash \in Nat
  PROVE  MainPosition(s, k) \in 0 .. SizeNode(s) - 1
<1> DEFINE n == SizeNode(s)
<1>1. \A m \in Nat \ {0} : k.hash % m \in 0 .. m - 1
  OBVIOUS
<1>2. k.hash % n \in 0 .. n - 1
  BY <1>1
<1>3. CASE n = 2
  BY <1>2, <1>3, <1>1 DEF MainPosition
<1>4. CASE n > 2
  <2>1. n - 1 \in Nat \ {0}
    BY <1>4
  <2>2. k.hash % (n - 1) \in 0 .. (n - 1) - 1
    BY <2>1, <1>1
  <2> HIDE DEF n
  <2>3. k.hash % (n - 1) \in 0 .. n - 1
    BY <2>1, <2>2
  <2>4. QED
    BY <2>3, <1>2, <1>4 DEF MainPosition, n
<1>5. CASE n = 1
  BY <1>5, <1>2 DEF MainPosition
<1>6. QED
  BY <1>3, <1>4, <1>5

(* The node vector of a table that is not the dummy one.                   *)
LEMMA TableVector ==
  ASSUME NEW s \in Tables, ~IsDummy(s)
  PROVE  Vector(s.node, SizeNode(s), Home(s))
<1>1. SizeNode(s) \in Nat \ {0}
  BY TableSize DEF IsDummy
<1>2. \A k \in Key : MainPosition(s, k) \in 0 .. SizeNode(s) - 1
  BY <1>1, KeyType, MainPositionIn
<1>3. QED
  BY <1>1, <1>2, TableSize DEF Vector, Home

(* Finding a key is a search from its main position.                       *)
LEMMA FindWalks ==
  ASSUME NEW s, Sound(s), NEW k, k.hash \in Nat, k # NilKey, NEW deadok, ~IsDummy(s)
  PROVE  /\ FindNode(s, k, deadok) = Search(s, k, deadok)[MainPosition(s, k)]
         /\ Walked(Search(s, k, deadok), s.node, k, deadok)
         /\ LinksOk(s.node) /\ Ranked(s.node)
         /\ MainPosition(s, k) \in DOMAIN s.node
         /\ Nowhere \notin DOMAIN s.node
         /\ DOMAIN s.node = 0 .. SizeNode(s) - 1
<1>1. LinksOk(s.node) /\ Ranked(s.node)
  BY DEF Sound, Chained
<1>2. Walked(Search(s, k, deadok), s.node, k, deadok)
  BY <1>1, SearchWalks
<1>3. SizeNode(s) \in Nat \ {0} /\ DOMAIN s.node = 0 .. SizeNode(s) - 1
  BY TableSize DEF Sound, IsDummy
<1>4. MainPosition(s, k) \in DOMAIN s.node
  BY <1>3, MainPositionIn
<1>5. QED
  BY <1>1, <1>2, <1>3, <1>4 DEF FindNode, Nowhere

(* What a search finds has the key.                                        *)
LEMMA FindMatches ==
  ASSUME NEW s, Sound(s), NEW k, k.hash \in Nat, NEW deadok,
         FindNode(s, k, deadok) # Nowhere
  PROVE  /\ FindNode(s, k, deadok) \in DOMAIN s.node
         /\ s.node[FindNode(s, k, deadok)].key = k
         /\ s.node[FindNode(s, k, deadok)].dead => deadok
         /\ k # NilKey
<1>1. k # NilKey /\ ~IsDummy(s)
  BY DEF FindNode
<1> DEFINE W == Search(s, k, deadok)
           a == MainPosition(s, k)
<1>2. /\ FindNode(s, k, deadok) = W[a] /\ Walked(W, s.node, k, deadok)
      /\ LinksOk(s.node) /\ Ranked(s.node) /\ a \in DOMAIN s.node
  BY <1>1, FindWalks
<1> HIDE DEF W, a
<1>3. W[a] \in DOMAIN s.node /\ EqualKey(k, s.node[W[a]], deadok)
  BY <1>2, FoundMatches
<1>4. QED
  BY <1>1, <1>2, <1>3 DEF EqualKey

(* A live key is found at its node, whether or not dead keys count.        *)
LEMMA FindLive ==
  ASSUME NEW s, Sound(s), NEW i \in DOMAIN s.node, s.node[i].key # NilKey,
         ~s.node[i].dead, NEW deadok
  PROVE  FindNode(s, s.node[i].key, deadok) = i
<1> DEFINE V == s.node
           k == V[i].key
           W == Search(s, k, deadok)
           a == MainPosition(s, k)
<1>1. s \in Tables /\ Chained(V, Home(s)) /\ ~IsDummy(s)
  BY TableSize DEF Sound, IsDummy
<1>2. k \in Key /\ k.hash \in Nat
  <2>1. V[i] \in Node
    BY <1>1, TableSize
  <2>2. QED
    BY <2>1, KeyType DEF Node
<1>3. /\ FindNode(s, k, deadok) = W[a] /\ Walked(W, V, k, deadok)
      /\ LinksOk(V) /\ Ranked(V) /\ a \in DOMAIN V /\ Nowhere \notin DOMAIN V
  BY <1>1, <1>2, FindWalks
<1>4. Reach(V, a, i)
  BY <1>1, <1>2 DEF Chained, AtHome, Home
<1>5. \A j \in DOMAIN V : EqualKey(k, V[j], deadok) => Reach(V, i, j)
  BY <1>1 DEF Chained, LiveFirst, EqualKey
<1>6. EqualKey(k, V[i], deadok)
  BY DEF EqualKey
<1> HIDE DEF V, W, a, k
<1>7. i \in DOMAIN V
  BY DEF V
<1>8. W[a] = i
  BY <1>3, <1>4, <1>5, <1>6, <1>7, FoundFirst
<1>9. QED
  BY <1>3, <1>8 DEF k, V

(* A key that is not live is not found among the live ones.                *)
LEMMA FindNone ==
  ASSUME NEW s, Sound(s), NEW k, k.hash \in Nat, NotLive(s.node, k)
  PROVE  FindNode(s, k, FALSE) = Nowhere
BY FindMatches DEF NotLive

(* Where a key is not found, no node has it but dead ones.                 *)
LEMMA FoundLive ==
  ASSUME NEW s, Sound(s), NEW k, k.hash \in Nat, k # NilKey, FindNode(s, k, FALSE) = Nowhere
  PROVE  NotLive(s.node, k)
<1>1. SUFFICES ASSUME NEW i \in DOMAIN s.node, s.node[i].key = k, ~s.node[i].dead
                PROVE  FALSE
  <2>1. \A i \in DOMAIN s.node : s.node[i].dead \in BOOLEAN
    BY TableSize DEF Sound, Node
  <2>2. QED
    BY <2>1 DEF NotLive
<1>2. FindNode(s, k, FALSE) = i
  BY <1>1, FindLive
<1>3. SizeNode(s) \in Nat /\ DOMAIN s.node = 0 .. SizeNode(s) - 1
  BY TableSize DEF Sound
<1>4. i \in Nat
  BY <1>3
<1>5. i # Nowhere
  BY <1>4 DEF Nowhere
<1>6. QED
  BY <1>2, <1>5

(* A dead key is found when dead keys count.                               *)
LEMMA FindDead ==
  ASSUME NEW s, Sound(s), NEW i \in DOMAIN s.node, s.node[i].key # NilKey
  PROVE  FindNode(s, s.node[i].key, TRUE) # Nowhere
<1> DEFINE V == s.node
           k == V[i].key
           W == Search(s, k, TRUE)
           a == MainPosition(s, k)
<1>1. s \in Tables /\ Chained(V, Home(s)) /\ ~IsDummy(s)
  BY TableSize DEF Sound, IsDummy
<1>2. k \in Key /\ k.hash \in Nat
  <2>1. V[i] \in Node
    BY <1>1, TableSize
  <2>2. QED
    BY <2>1, KeyType DEF Node
<1>3. /\ FindNode(s, k, TRUE) = W[a] /\ Walked(W, V, k, TRUE)
      /\ LinksOk(V) /\ a \in DOMAIN V /\ Nowhere \notin DOMAIN V
  BY <1>1, <1>2, FindWalks
<1>4. Reach(V, a, i)
  BY <1>1, <1>2 DEF Chained, AtHome, Home
<1>5. EqualKey(k, V[i], TRUE)
  BY DEF EqualKey
<1> HIDE DEF V, W, a, k
<1>6. i \in DOMAIN V
  BY DEF V
<1>7. W[a] # Nowhere
  BY <1>3, <1>4, <1>5, <1>6, FoundReach
<1>8. QED
  BY <1>3, <1>7 DEF k, V

(* A free position is free and the last one, or there is none.             *)
LEMMA FreePosIs ==
  ASSUME NEW s, Sound(s), ~IsDummy(s)
  PROVE  /\ FreePos(s) = Nowhere => \A i \in DOMAIN s.node : s.node[i].key # NilKey
         /\ FreePos(s) # Nowhere =>
              /\ FreePos(s) \in DOMAIN s.node /\ s.node[FreePos(s)].key = NilKey
              /\ HasLastFree(s) =>
                   \A i \in DOMAIN s.node : s.node[i].key = NilKey => i <= FreePos(s)
<1> DEFINE n == SizeNode(s)
           limit == IF HasLastFree(s) THEN s.lastfree ELSE n
           free == {i \in 0 .. limit - 1 : s.node[i].key = NilKey}
<1>1. n \in Nat \ {0} /\ DOMAIN s.node = 0 .. n - 1
  BY TableSize DEF Sound, IsDummy
<1>2. limit \in Nat /\ limit <= n
  BY <1>1 DEF Sound, Tables, FreeBelow
<1>3. FreePos(s) = IF free = {} THEN Nowhere ELSE Max(free)
  BY DEF FreePos
<1>4. \A i \in DOMAIN s.node : s.node[i].key = NilKey => i \in free
  <2>1. SUFFICES ASSUME NEW i \in 0 .. n - 1, s.node[i].key = NilKey PROVE i \in 0 .. limit - 1
    BY <1>1
  <2>2. i \in Int /\ 0 <= i /\ i < limit
    BY <2>1, <1>1 DEF Sound, FreeBelow
  <2>3. QED
    BY <2>2, <1>2
<1>5. free \subseteq 0 .. n
  BY <1>2, <1>1
<1>6. free # {} => Max(free) \in free /\ \A i \in free : Max(free) >= i
  <2> HIDE DEF free
  <2> QED
    BY <1>5, <1>1, MaxIn
<1>7. \A i \in free : i \in DOMAIN s.node /\ i # Nowhere /\ s.node[i].key = NilKey
  BY <1>1, <1>2 DEF Nowhere
<1> HIDE DEF free, limit, n
<1>8. CASE free = {}
  BY <1>8, <1>3, <1>4
<1>9. CASE free # {}
  <2>1. FreePos(s) \in free /\ FreePos(s) # Nowhere /\ \A i \in free : FreePos(s) >= i
    BY <1>9, <1>3, <1>6, <1>7
  <2>2. \A i \in free : i \in Int
    BY <1>5, <1>1
  <2>3. QED
    BY <2>1, <2>2, <1>4, <1>7
<1>10. QED
  BY <1>8, <1>9

-----------------------------------------------------------------------------
(* u is s with other nodes, as many as before.                             *)
SameShape(s, u) ==
  /\ u \in Tables /\ u.arr = s.arr /\ u.lenhint = s.lenhint
  /\ DOMAIN u.node = DOMAIN s.node /\ SizeNode(u) = SizeNode(s)

(* A table with other nodes.                                               *)
LEMMA WithNodes ==
  ASSUME NEW s \in Tables, NEW V \in [DOMAIN s.node -> Node], NEW u,
         u = [s EXCEPT !.node = V]
  PROVE  /\ SameShape(s, u) /\ u.node = V /\ u.lastfree = s.lastfree
         /\ Home(u) = Home(s) /\ HasLastFree(u) = HasLastFree(s)
         /\ IsDummy(u) = IsDummy(s)
<1>1. u.node = V /\ u.arr = s.arr /\ u.lenhint = s.lenhint /\ u.lastfree = s.lastfree
  BY DEF Tables
<1>2. DOMAIN s.node = 0 .. SizeNode(s) - 1 /\ SizeNode(s) \in Nat
  BY TableSize
<1>3. V \in Vectors
  BY <1>2 DEF Vectors
<1>4. u \in Tables
  BY <1>3 DEF Tables
<1>5. SizeNode(u) = SizeNode(s)
  BY <1>1 DEF SizeNode
<1>6. Home(u) = Home(s)
  BY <1>5 DEF Home, MainPosition
<1>7. QED
  BY <1>1, <1>4, <1>5, <1>6 DEF SameShape, HasLastFree, IsDummy

(* A node with its key and value set.                                      *)
LEMMA SetNodeIs ==
  ASSUME NEW s \in Tables, NEW i \in DOMAIN s.node, NEW k \in Key, NEW v \in Value,
         NEW u, u = SetNode(s, i, k, v)
  PROVE  /\ SameShape(s, u) /\ u.lastfree = s.lastfree
         /\ u.node[i].key = k /\ ~u.node[i].dead /\ u.node[i].val = v
         /\ u.node[i].next = s.node[i].next
         /\ \A j \in DOMAIN s.node \ {i} : u.node[j] = s.node[j]
<1> DEFINE nd == [s.node[i] EXCEPT !.key = k, !.dead = FALSE, !.val = v]
           V == [s.node EXCEPT ![i] = nd]
<1>1. s.node[i] \in Node /\ s.node \in [DOMAIN s.node -> Node]
  BY TableSize
<1>2. /\ nd \in Node
      /\ nd.key = k /\ ~nd.dead /\ nd.val = v /\ nd.next = s.node[i].next
  BY <1>1 DEF Node
<1>3. u = [s EXCEPT !.node = V]
  BY DEF SetNode, Tables
<1> HIDE DEF nd
<1>4. V \in [DOMAIN s.node -> Node]
  BY <1>1, <1>2
<1>5. V[i] = nd /\ \A j \in DOMAIN s.node \ {i} : V[j] = s.node[j]
  OBVIOUS
<1> HIDE DEF V
<1>6. SameShape(s, u) /\ u.node = V /\ u.lastfree = s.lastfree
  BY <1>3, <1>4, WithNodes
<1>7. QED
  BY <1>2, <1>5, <1>6

(* Tables of the same shape have the same main positions.                  *)
LEMMA ShapeIs ==
  ASSUME NEW s \in Tables, NEW u, SameShape(s, u)
  PROVE  /\ Home(u) = Home(s) /\ HasLastFree(u) = HasLastFree(s)
         /\ IsDummy(u) = IsDummy(s)
         /\ \A k : MainPosition(u, k) = MainPosition(s, k)
         /\ ~IsDummy(s) => Vector(u.node, SizeNode(s), Home(s))
<1>1. /\ Home(u) = Home(s) /\ HasLastFree(u) = HasLastFree(s)
      /\ IsDummy(u) = IsDummy(s)
      /\ \A k : MainPosition(u, k) = MainPosition(s, k)
  BY DEF SameShape, Home, MainPosition, HasLastFree, IsDummy
<1>2. ~IsDummy(s) => Vector(u.node, SizeNode(s), Home(s))
  BY <1>1, TableVector DEF SameShape
<1>3. QED
  BY <1>1, <1>2

(* Writing over an empty node at the main position.                        *)
LEMMA FillSound ==
  ASSUME NEW s, Sound(s), ~IsDummy(s), NEW k \in Key, NEW v \in Value,
         NotLive(s.node, k), NEW mp, mp = MainPosition(s, k), s.node[mp].val = Empty,
         NEW u, u = SetNode(s, mp, k, v)
  PROVE  Sound(u) /\ SameShape(s, u)
<1>1. /\ s \in Tables /\ Vector(s.node, SizeNode(s), Home(s)) /\ Chained(s.node, Home(s))
      /\ FreeBelow(s)
  BY TableVector DEF Sound
<1>2. mp = Home(s)[k] /\ mp \in DOMAIN s.node
  BY <1>1 DEF Vector, Home
<1>3. /\ SameShape(s, u) /\ u.lastfree = s.lastfree
      /\ u.node[mp].key = k /\ ~u.node[mp].dead /\ u.node[mp].val = v
      /\ u.node[mp].next = s.node[mp].next
      /\ \A j \in DOMAIN s.node \ {mp} : u.node[j] = s.node[j]
  BY <1>1, <1>2, SetNodeIs
<1>4. Vector(u.node, SizeNode(s), Home(s)) /\ Home(u) = Home(s) /\ HasLastFree(u) = HasLastFree(s)
  BY <1>1, <1>3, ShapeIs
<1>5. Chained(u.node, Home(s))
  BY <1>1, <1>2, <1>3, <1>4, FillChained
<1>6. FreeBelow(u)
  <2>1. k # NilKey
    BY KeyType
  <2>2. \A i \in DOMAIN s.node : u.node[i].key = NilKey => s.node[i].key = NilKey
    BY <1>3, <2>1
  <2>3. QED
    BY <1>1, <1>3, <1>4, <2>2 DEF FreeBelow, SameShape
<1>7. QED
  BY <1>3, <1>4, <1>5, <1>6 DEF Sound, SameShape

(* A table with one offset set, or one node replaced.                      *)
SetNext(s, i, x) == [s EXCEPT !.node[i].next = x]
PutNode(s, i, nd) == [s EXCEPT !.node[i] = nd]

(* Every other field and node is as it was.                                *)
LEMMA SetNextIs ==
  ASSUME NEW s \in Tables, NEW i \in DOMAIN s.node, NEW x \in Int,
         NEW u, u = SetNext(s, i, x)
  PROVE  /\ SameShape(s, u) /\ u.lastfree = s.lastfree
         /\ u.node[i].key = s.node[i].key /\ u.node[i].dead = s.node[i].dead
         /\ u.node[i].val = s.node[i].val /\ u.node[i].next = x
         /\ \A j \in DOMAIN s.node \ {i} : u.node[j] = s.node[j]
<1> DEFINE nd == [s.node[i] EXCEPT !.next = x]
           V == [s.node EXCEPT ![i] = nd]
<1>1. s.node[i] \in Node /\ s.node \in [DOMAIN s.node -> Node]
  BY TableSize
<1>2. /\ nd \in Node
      /\ nd.key = s.node[i].key /\ nd.dead = s.node[i].dead /\ nd.val = s.node[i].val
      /\ nd.next = x
  BY <1>1 DEF Node
<1>3. u = [s EXCEPT !.node = V]
  BY DEF SetNext, Tables
<1> HIDE DEF nd
<1>4. V \in [DOMAIN s.node -> Node]
  BY <1>1, <1>2
<1>5. V[i] = nd /\ \A j \in DOMAIN s.node \ {i} : V[j] = s.node[j]
  OBVIOUS
<1> HIDE DEF V
<1>6. SameShape(s, u) /\ u.node = V /\ u.lastfree = s.lastfree
  BY <1>3, <1>4, WithNodes
<1>7. QED
  BY <1>2, <1>5, <1>6

(* Every other node is as it was.                                          *)
LEMMA PutNodeIs ==
  ASSUME NEW s \in Tables, NEW i \in DOMAIN s.node, NEW nd \in Node,
         NEW u, u = PutNode(s, i, nd)
  PROVE  /\ SameShape(s, u) /\ u.lastfree = s.lastfree
         /\ u.node[i] = nd
         /\ \A j \in DOMAIN s.node \ {i} : u.node[j] = s.node[j]
<1> DEFINE V == [s.node EXCEPT ![i] = nd]
<1>1. s.node \in [DOMAIN s.node -> Node]
  BY TableSize
<1>2. u = [s EXCEPT !.node = V]
  BY DEF PutNode, Tables
<1>3. V \in [DOMAIN s.node -> Node]
  BY <1>1
<1>4. V[i] = nd /\ \A j \in DOMAIN s.node \ {i} : V[j] = s.node[j]
  OBVIOUS
<1> HIDE DEF V
<1>5. SameShape(s, u) /\ u.node = V /\ u.lastfree = s.lastfree
  BY <1>2, <1>3, WithNodes
<1>6. QED
  BY <1>4, <1>5

(* A taken main position, held by a node at home: the new one follows it.  *)
LEMMA AppendSound ==
  ASSUME NEW s, Sound(s), ~IsDummy(s), NEW k \in Key, NEW v \in Value,
         NotLive(s.node, k), NEW mp, mp = MainPosition(s, k), s.node[mp].val # Empty,
         MainPosition(s, s.node[mp].key) = mp,
         NEW f \in DOMAIN s.node, s.node[f].key = NilKey,
         NEW w, SameShape(s, w), w.node = s.node,
         NEW u, u = ChainAfter(w, mp, f, k, v)
  PROVE  /\ SameShape(s, u) /\ u.lastfree = w.lastfree /\ Chained(u.node, Home(s))
         /\ u.node[f].key = k /\ ~u.node[f].dead /\ u.node[f].val = v
         /\ \A i \in DOMAIN s.node \ {f} : /\ u.node[i].key = s.node[i].key
                                           /\ u.node[i].dead = s.node[i].dead
                                           /\ u.node[i].val = s.node[i].val
<1> DEFINE V == s.node
           nx == IF w.node[mp].next = 0 THEN 0 ELSE mp + w.node[mp].next - f
           b == SetNext(w, f, nx)
           c == SetNext(b, mp, f - mp)
<1>1. /\ s \in Tables /\ Vector(V, SizeNode(s), Home(s)) /\ Chained(V, Home(s))
  BY TableVector DEF Sound
<1>2. mp = Home(s)[k] /\ mp \in DOMAIN V /\ DOMAIN V \subseteq Int
  BY <1>1 DEF Vector, Home
<1>3. V[mp].key # NilKey /\ V[mp] \in Node /\ V[f] \in Node /\ f # mp
  BY <1>1, <1>2, TableSize DEF Chained, ValuesOk
<1>4. Home(s)[V[mp].key] = mp
  BY <1>3 DEF Home, Node
<1>5. w \in Tables /\ w.node = V
  BY DEF SameShape
<1>6. nx \in Int /\ f - mp \in Int
  BY <1>2, <1>3, <1>5 DEF Node
<1>7. u = SetNode(c, f, k, v)
  BY DEF ChainAfter, SetNode, SetNext
<1> HIDE DEF nx
<1>8. /\ SameShape(w, b) /\ b.lastfree = w.lastfree
      /\ b.node[f].key = V[f].key /\ b.node[f].next = nx
      /\ \A j \in DOMAIN V \ {f} : b.node[j] = V[j]
  BY <1>5, <1>6, SetNextIs
<1> HIDE DEF b
<1>9. b \in Tables /\ DOMAIN b.node = DOMAIN V
  BY <1>8, <1>5 DEF SameShape
<1>10. /\ SameShape(b, c) /\ c.lastfree = b.lastfree
       /\ c.node[mp].key = b.node[mp].key /\ c.node[mp].dead = b.node[mp].dead
       /\ c.node[mp].val = b.node[mp].val /\ c.node[mp].next = f - mp
       /\ \A j \in DOMAIN V \ {mp} : c.node[j] = b.node[j]
  BY <1>9, <1>2, <1>6, SetNextIs
<1> HIDE DEF c
<1>11. c \in Tables /\ DOMAIN c.node = DOMAIN V
  BY <1>10, <1>9 DEF SameShape
<1>12. /\ SameShape(c, u) /\ u.lastfree = c.lastfree
       /\ u.node[f].key = k /\ ~u.node[f].dead /\ u.node[f].val = v
       /\ u.node[f].next = nx
       /\ \A j \in DOMAIN V \ {f} : u.node[j] = c.node[j]
  <2>1. /\ SameShape(c, u) /\ u.lastfree = c.lastfree
        /\ u.node[f].key = k /\ ~u.node[f].dead /\ u.node[f].val = v
        /\ u.node[f].next = c.node[f].next
        /\ \A j \in DOMAIN V \ {f} : u.node[j] = c.node[j]
    BY <1>11, <1>7, SetNodeIs
  <2>2. QED
    BY <2>1, <1>3, <1>8, <1>10
<1>13. SameShape(s, u) /\ u.lastfree = w.lastfree
  BY <1>8, <1>10, <1>12 DEF SameShape
<1>14. Vector(u.node, SizeNode(s), Home(s))
  BY <1>1, <1>13, ShapeIs
<1>15. \A i \in DOMAIN V \ {mp, f} : u.node[i] = V[i]
  BY <1>8, <1>10, <1>12
<1>16. /\ u.node[mp].key = V[mp].key /\ u.node[mp].dead = V[mp].dead
       /\ u.node[mp].val = V[mp].val /\ u.node[mp].next = f - mp
  BY <1>2, <1>3, <1>8, <1>10, <1>12
<1>17. Chained(u.node, Home(s))
  BY <1>1, <1>2, <1>4, <1>5, <1>12, <1>14, <1>15, <1>16, AppendChained DEF nx
<1>18. QED
  BY <1>12, <1>13, <1>15, <1>16, <1>17

(* The walk from its main position finds the node before mp.               *)
LEMMA PreviousIs ==
  ASSUME NEW s, Sound(s), ~IsDummy(s), NEW mp \in DOMAIN s.node, s.node[mp].key # NilKey,
         MainPosition(s, s.node[mp].key) # mp
  PROVE  /\ Previous(s, mp) \in DOMAIN s.node /\ s.node[Previous(s, mp)].next # 0
         /\ Previous(s, mp) + s.node[Previous(s, mp)].next = mp
<1> DEFINE V == s.node
           m == MainPosition(s, V[mp].key)
           Step(W) == W = [i \in DOMAIN V |-> IF i + V[i].next = mp THEN i ELSE W[i + V[i].next]]
<1>1. /\ s \in Tables /\ Vector(V, SizeNode(s), Home(s)) /\ Chained(V, Home(s))
  BY TableVector DEF Sound
<1>2. /\ DOMAIN V \subseteq Int /\ V[mp].key \in Key
      /\ \A i \in DOMAIN V : V[i].next \in Int
  <2>1. DOMAIN V \subseteq Int /\ \A i \in DOMAIN V : V[i] \in Node
    BY <1>1 DEF Vector
  <2>2. V[mp].key \in Key
    BY <2>1 DEF Node
  <2>3. \A i \in DOMAIN V : V[i].next \in Int
    BY <2>1 DEF Node
  <2>4. QED
    BY <2>1, <2>2, <2>3
<1>3. m \in DOMAIN V /\ Reach(V, m, mp)
  BY <1>1, <1>2 DEF Vector, Home, Chained, AtHome
<1>4. \E p \in DOMAIN V : V[p].next # 0 /\ p + V[p].next = mp
  <2>1. SUFFICES ASSUME \A p \in DOMAIN V : V[p].next # 0 => p + V[p].next # mp PROVE FALSE
    OBVIOUS
  <2> DEFINE S == DOMAIN V \ {mp}
  <2>2. m \in S /\ \A i \in S : V[i].next # 0 => i + V[i].next \in S
    BY <2>1, <1>1, <1>3 DEF Chained, LinksOk
  <2>3. mp \in S
    <3> HIDE DEF S
    <3> QED
      BY <2>2, <1>3, S \subseteq DOMAIN V DEF Reach, S
  <2>4. QED
    BY <2>3
<1>5. PICK p \in DOMAIN V : V[p].next # 0 /\ p + V[p].next = mp
  BY <1>4
<1>6. \A i \in DOMAIN V : V[i].next # 0 /\ i + V[i].next = mp => i = p
  BY <1>1, <1>5 DEF Chained, OneBefore
<1>7. \E W : Step(W)
  <2> DEFINE W == [i \in DOMAIN V |-> IF i = mp /\ V[i].next = 0 THEN mp ELSE p]
  <2>1. ASSUME NEW i \in DOMAIN V
        PROVE  W[i] = IF i + V[i].next = mp THEN i ELSE W[i + V[i].next]
    <3>1. CASE V[i].next = 0
      <4>1. i + V[i].next = i
        BY <3>1, <1>2
      <4>2. QED
        BY <4>1, <3>1
    <3>2. CASE V[i].next # 0
      <4>1. i + V[i].next \in DOMAIN V
        BY <3>2, <1>1 DEF Chained, LinksOk
      <4>2. QED
        BY <4>1, <3>2, <1>6
    <3>3. QED
      BY <3>1, <3>2
  <2>2. W = [i \in DOMAIN V |-> W[i]]
    OBVIOUS
  <2> HIDE DEF W
  <2>3. Step(W)
    BY <2>1, <2>2
  <2>4. QED
    BY <2>3
<1> DEFINE P == CHOOSE W : Step(W)
<1>8. Previous(s, mp) = P[m]
  BY DEF Previous
<1>9. Step(P)
  <2> HIDE DEF Step
  <2> QED
    BY <1>7
<1> HIDE DEF P
<1>10. \A i \in DOMAIN V : P[i] = IF i + V[i].next = mp THEN i ELSE P[i + V[i].next]
  BY <1>9
<1>11. P[m] = p
  <2>1. SUFFICES ASSUME P[m] # p PROVE FALSE
    OBVIOUS
  <2> DEFINE S == {i \in DOMAIN V : i # mp /\ P[i] = P[m]}
  <2>2. S \in SUBSET DOMAIN V /\ m \in S
    BY <1>3
  <2>3. ASSUME NEW i \in S, V[i].next # 0 PROVE i + V[i].next \in S
    <3>1. i + V[i].next \in DOMAIN V
      BY <2>3, <1>1 DEF Chained, LinksOk
    <3>2. CASE i + V[i].next = mp
      BY <3>2, <2>3, <2>1, <1>6, <1>10
    <3>3. CASE i + V[i].next # mp
      BY <3>1, <3>3, <1>10
    <3>4. QED
      BY <3>2, <3>3
  <2>4. mp \in S
    <3> HIDE DEF S
    <3> QED
      BY <2>2, <2>3, <1>3 DEF Reach
  <2>5. QED
    BY <2>4
<1>12. QED
  BY <1>5, <1>8, <1>11

(* A taken main position, held by a node out of its own: that one moves.   *)
LEMMA MoveSound ==
  ASSUME NEW s, Sound(s), ~IsDummy(s), NEW k \in Key, NEW v \in Value,
         NEW mp, mp = MainPosition(s, k), s.node[mp].val # Empty,
         MainPosition(s, s.node[mp].key) # mp,
         NEW f \in DOMAIN s.node, s.node[f].key = NilKey,
         NEW w, SameShape(s, w), w.node = s.node,
         NEW u, u = MoveColliding(w, mp, f, k, v)
  PROVE  /\ SameShape(s, u) /\ u.lastfree = w.lastfree /\ Chained(u.node, Home(s))
         /\ u.node[mp].key = k /\ ~u.node[mp].dead /\ u.node[mp].val = v
         /\ u.node[f].key = s.node[mp].key /\ u.node[f].dead = s.node[mp].dead
         /\ u.node[f].val = s.node[mp].val
         /\ \A i \in DOMAIN s.node \ {mp, f} : /\ u.node[i].key = s.node[i].key
                                               /\ u.node[i].dead = s.node[i].dead
                                               /\ u.node[i].val = s.node[i].val
<1> DEFINE V == s.node
           p == Previous(s, mp)
           moved == [w.node[mp] EXCEPT !.next = IF @ = 0 THEN 0 ELSE @ + mp - f]
           b == SetNext(w, p, f - p)
           c == PutNode(b, f, moved)
           d == SetNext(c, mp, 0)
<1>1. /\ s \in Tables /\ Vector(V, SizeNode(s), Home(s)) /\ Chained(V, Home(s))
  BY TableVector DEF Sound
<1>2. mp = Home(s)[k] /\ mp \in DOMAIN V /\ DOMAIN V \subseteq Int
  BY <1>1 DEF Vector, Home
<1>3. V[mp].key # NilKey /\ V[mp] \in Node /\ V[f] \in Node /\ f # mp
  BY <1>1, <1>2, TableSize DEF Chained, ValuesOk
<1>4. Home(s)[V[mp].key] # mp
  BY <1>3 DEF Home, Node
<1>5. w \in Tables /\ w.node = V
  BY DEF SameShape
<1>6. p \in DOMAIN V /\ V[p].next # 0 /\ p + V[p].next = mp
  BY <1>2, <1>3, PreviousIs
<1>7. p # mp /\ p # f
  BY <1>1, <1>2, <1>6, FreeIsolated, TableSize DEF Chained, Node
<1>8. moved \in Node /\ moved.key = V[mp].key /\ moved.dead = V[mp].dead /\ moved.val = V[mp].val
      /\ moved.next = IF V[mp].next = 0 THEN 0 ELSE V[mp].next + mp - f
  BY <1>2, <1>3, <1>5 DEF Node
<1>9. u = SetNode(d, mp, k, v)
  <2>1. Previous(w, mp) = p
    BY <1>1, <1>5, ShapeIs DEF Previous
  <2> HIDE DEF p
  <2>2. QED
    BY <2>1 DEF MoveColliding, SetNext, PutNode
<1> HIDE DEF p, moved
<1>10. /\ SameShape(w, b) /\ b.lastfree = w.lastfree
       /\ b.node[p].key = V[p].key /\ b.node[p].dead = V[p].dead /\ b.node[p].val = V[p].val
       /\ b.node[p].next = f - p
       /\ \A j \in DOMAIN V \ {p} : b.node[j] = V[j]
  BY <1>2, <1>5, <1>6, SetNextIs
<1> HIDE DEF b
<1>11. b \in Tables /\ DOMAIN b.node = DOMAIN V
  BY <1>10, <1>5 DEF SameShape
<1>12. /\ SameShape(b, c) /\ c.lastfree = b.lastfree
       /\ c.node[f] = moved
       /\ \A j \in DOMAIN V \ {f} : c.node[j] = b.node[j]
  BY <1>8, <1>11, PutNodeIs
<1> HIDE DEF c
<1>13. c \in Tables /\ DOMAIN c.node = DOMAIN V
  BY <1>12, <1>11 DEF SameShape
<1>14. /\ SameShape(c, d) /\ d.lastfree = c.lastfree
       /\ d.node[mp].next = 0
       /\ \A j \in DOMAIN V \ {mp} : d.node[j] = c.node[j]
  BY <1>13, <1>2, SetNextIs
<1> HIDE DEF d
<1>15. d \in Tables /\ DOMAIN d.node = DOMAIN V
  BY <1>14, <1>13 DEF SameShape
<1>16. /\ SameShape(d, u) /\ u.lastfree = d.lastfree
       /\ u.node[mp].key = k /\ ~u.node[mp].dead /\ u.node[mp].val = v
       /\ u.node[mp].next = d.node[mp].next
       /\ \A j \in DOMAIN V \ {mp} : u.node[j] = d.node[j]
  BY <1>15, <1>2, <1>9, SetNodeIs
<1>17. SameShape(s, u) /\ u.lastfree = w.lastfree
  BY <1>10, <1>12, <1>14, <1>16 DEF SameShape
<1>18. Vector(u.node, SizeNode(s), Home(s))
  BY <1>1, <1>17, ShapeIs
<1>19. \A j \in DOMAIN V \ {mp, f} : u.node[j] = b.node[j]
  BY <1>12, <1>14, <1>16
<1>20. /\ u.node[p].key = V[p].key /\ u.node[p].dead = V[p].dead /\ u.node[p].val = V[p].val
       /\ u.node[p].next = f - p
  BY <1>6, <1>7, <1>10, <1>19
<1>21. /\ u.node[f].key = V[mp].key /\ u.node[f].dead = V[mp].dead /\ u.node[f].val = V[mp].val
       /\ u.node[f].next = IF V[mp].next = 0 THEN 0 ELSE V[mp].next + mp - f
  BY <1>3, <1>8, <1>12, <1>14, <1>16
<1>22. \A i \in DOMAIN V \ {mp, f, p} : u.node[i] = V[i]
  BY <1>10, <1>19
<1>23. u.node[mp].next = 0
  BY <1>14, <1>16
<1>24. Chained(u.node, Home(s))
  BY <1>1, <1>2, <1>4, <1>6, <1>16, <1>18, <1>20, <1>21, <1>22, <1>23, MoveChained
<1>25. QED
  BY <1>16, <1>17, <1>20, <1>21, <1>22, <1>24

(* What is left of 'lastfree' after a search for a free node.              *)
LEMMA AfterFreePosIs ==
  ASSUME NEW s, Sound(s), ~IsDummy(s), NEW w, w = AfterFreePos(s)
  PROVE  /\ SameShape(s, w) /\ w.node = s.node /\ w.lastfree <= SizeNode(s)
         /\ \A i \in DOMAIN s.node : HasLastFree(s) /\ s.node[i].key = NilKey /\ i # FreePos(s)
                                       => i < w.lastfree
<1>1. s \in Tables /\ SizeNode(s) \in Nat \ {0} /\ DOMAIN s.node = 0 .. SizeNode(s) - 1
  BY TableSize DEF Sound, IsDummy
<1>2. CASE ~HasLastFree(s)
  BY <1>1, <1>2 DEF AfterFreePos, SameShape, Sound, FreeBelow
<1>3. CASE HasLastFree(s)
  <2> DEFINE f == FreePos(s)
             l == Max({f, 0})
  <2>1. l \in Nat /\ l <= SizeNode(s) /\ l >= f
    <3>1. CASE f = Nowhere
      <4>1. Max({-1, 0}) = 0
        <5>1. \E x \in {-1, 0} : \A y \in {-1, 0} : x >= y
          OBVIOUS
        <5>2. QED
          BY <5>1 DEF Max
      <4>2. QED
        BY <4>1, <3>1, <1>1 DEF Nowhere
    <3>2. CASE f # Nowhere
      <4>1. f \in 0 .. SizeNode(s) - 1
        BY <3>2, <1>1, FreePosIs
      <4> HIDE DEF f
      <4>2. \E x \in {f, 0} : \A y \in {f, 0} : x >= y
        BY <4>1
      <4>3. l = f
        BY <4>1, <4>2 DEF Max
      <4>4. QED
        BY <4>1, <4>3, <1>1
    <3>3. QED
      BY <3>1, <3>2
  <2>2. w = [s EXCEPT !.lastfree = l]
    BY <1>3 DEF AfterFreePos
  <2> HIDE DEF l
  <2>3. w \in Tables /\ w.node = s.node /\ w.arr = s.arr /\ w.lenhint = s.lenhint /\ w.lastfree = l
    BY <2>1, <2>2, <1>1 DEF Tables
  <2>4. SameShape(s, w)
    BY <2>3 DEF SameShape, SizeNode
  <2>5. ASSUME NEW i \in DOMAIN s.node, s.node[i].key = NilKey, i # f
        PROVE  i < l
    <3>1. f # Nowhere /\ f \in DOMAIN s.node /\ i <= f
      BY <2>5, <1>3, FreePosIs
    <3>2. i \in Int /\ f \in Int
      BY <3>1, <1>1
    <3>3. QED
      BY <3>1, <3>2, <2>1, <2>5
  <2>6. QED
    BY <2>1, <2>3, <2>4, <2>5
<1>4. QED
  BY <1>2, <1>3

-----------------------------------------------------------------------------
(* Two nodes with the same entry.                                          *)
Same(a, b) == a.key = b.key /\ a.dead = b.dead /\ a.val = b.val

(* u is s with the entry of k and v in the node h; all other entries are those of s. *)
Inserted(s, u, k, v, h) ==
  /\ Sound(u) /\ SameShape(s, u) /\ h \in DOMAIN s.node
  /\ u.node[h].key = k /\ ~u.node[h].dead /\ u.node[h].val = v
  /\ \A i \in DOMAIN s.node \ {h} : \E j \in DOMAIN s.node : Same(u.node[i], s.node[j])
  /\ \A j \in DOMAIN s.node : s.node[j].val # Empty =>
       \E i \in DOMAIN s.node \ {h} : Same(u.node[i], s.node[j])

(* The insertion in a main position without a value.                       *)
LEMMA InsertFills ==
  ASSUME NEW s, Sound(s), ~IsDummy(s), NEW k \in Key, NEW v \in Value,
         NotLive(s.node, k), s.node[MainPosition(s, k)].val = Empty
  PROVE  \E h : Inserted(s, InsertKey(s, k, v).tab, k, v, h)
<1> DEFINE mp == MainPosition(s, k)
           u == SetNode(s, mp, k, v)
<1>1. s \in Tables /\ mp \in DOMAIN s.node
  BY TableVector DEF Sound, Vector, Home
<1>2. InsertKey(s, k, v).tab = u
  BY DEF InsertKey
<1> HIDE DEF u, mp
<1>3. u = SetNode(s, mp, k, v) /\ mp = MainPosition(s, k)
  BY DEF u, mp
<1>4. Sound(u) /\ SameShape(s, u)
  BY <1>1, <1>3, FillSound
<1>5. /\ u.node[mp].key = k /\ ~u.node[mp].dead /\ u.node[mp].val = v
      /\ \A j \in DOMAIN s.node \ {mp} : u.node[j] = s.node[j]
  BY <1>1, <1>3, SetNodeIs
<1>6. \A j \in DOMAIN s.node \ {mp} : Same(u.node[j], s.node[j])
  BY <1>5 DEF Same
<1>7. Inserted(s, u, k, v, mp)
  BY <1>1, <1>3, <1>4, <1>5, <1>6 DEF Inserted
<1>8. QED
  BY <1>2, <1>7

(* The insertion that takes a free node, for the new key or for the one    *)
(* that is in its main position.                                           *)
LEMMA InsertGrows ==
  ASSUME NEW s, Sound(s), ~IsDummy(s), NEW k \in Key, NEW v \in Value,
         NotLive(s.node, k), s.node[MainPosition(s, k)].val # Empty, FreePos(s) # Nowhere
  PROVE  \E h : Inserted(s, InsertKey(s, k, v).tab, k, v, h)
<1> DEFINE mp == MainPosition(s, k)
           f == FreePos(s)
           w == AfterFreePos(s)
           u == InsertKey(s, k, v).tab
<1>1. s \in Tables /\ mp \in DOMAIN s.node /\ SizeNode(s) \in Nat /\ Chained(s.node, Home(s))
  BY TableVector, TableSize DEF Sound, Vector, Home
<1>2. f \in DOMAIN s.node /\ s.node[f].key = NilKey /\ s.node[f].val = Empty
  BY <1>1, FreePosIs DEF Chained, ValuesOk
<1>3. /\ SameShape(s, w) /\ w.node = s.node /\ w.lastfree <= SizeNode(s)
      /\ \A i \in DOMAIN s.node : HasLastFree(s) /\ s.node[i].key = NilKey /\ i # f
                                    => i < w.lastfree
  BY AfterFreePosIs
<1>4. u = IF MainPosition(s, s.node[mp].key) # mp
          THEN MoveColliding(w, mp, f, k, v) ELSE ChainAfter(w, mp, f, k, v)
  BY DEF InsertKey
<1>5. k # NilKey /\ f # mp
  BY <1>2, KeyType
<1>6. mp = MainPosition(s, k) /\ s.node[mp].val # Empty
  OBVIOUS
<1> HIDE DEF mp, f, w, u
<1>7. ASSUME SameShape(s, u), u.lastfree = w.lastfree, Chained(u.node, Home(s)),
             \A i \in DOMAIN s.node : u.node[i].key = NilKey => s.node[i].key = NilKey /\ i # f
      PROVE  Sound(u)
  <2>1. Home(u) = Home(s) /\ HasLastFree(u) = HasLastFree(s) /\ u \in Tables
    BY <1>1, <1>7, ShapeIs DEF SameShape
  <2>2. FreeBelow(u)
    BY <1>3, <1>7, <2>1 DEF FreeBelow, SameShape
  <2>3. QED
    BY <1>7, <2>1, <2>2 DEF Sound
<1>8. CASE MainPosition(s, s.node[mp].key) = mp
  <2>1. u = ChainAfter(w, mp, f, k, v)
    BY <1>4, <1>8
  <2>2. /\ SameShape(s, u) /\ u.lastfree = w.lastfree /\ Chained(u.node, Home(s))
        /\ u.node[f].key = k /\ ~u.node[f].dead /\ u.node[f].val = v
        /\ \A i \in DOMAIN s.node \ {f} : /\ u.node[i].key = s.node[i].key
                                          /\ u.node[i].dead = s.node[i].dead
                                          /\ u.node[i].val = s.node[i].val
    BY <1>2, <1>3, <1>6, <1>8, <2>1, AppendSound
  <2>3. Sound(u)
    BY <1>5, <1>7, <2>2
  <2>4. \A i \in DOMAIN s.node \ {f} : Same(u.node[i], s.node[i])
    BY <2>2 DEF Same
  <2>5. Inserted(s, u, k, v, f)
    BY <1>2, <2>2, <2>3, <2>4 DEF Inserted
  <2>6. QED
    BY <2>5 DEF u
<1>9. CASE MainPosition(s, s.node[mp].key) # mp
  <2>1. u = MoveColliding(w, mp, f, k, v)
    BY <1>4, <1>9
  <2>2. /\ SameShape(s, u) /\ u.lastfree = w.lastfree /\ Chained(u.node, Home(s))
        /\ u.node[mp].key = k /\ ~u.node[mp].dead /\ u.node[mp].val = v
        /\ u.node[f].key = s.node[mp].key /\ u.node[f].dead = s.node[mp].dead
        /\ u.node[f].val = s.node[mp].val
        /\ \A i \in DOMAIN s.node \ {mp, f} : /\ u.node[i].key = s.node[i].key
                                              /\ u.node[i].dead = s.node[i].dead
                                              /\ u.node[i].val = s.node[i].val
    BY <1>2, <1>3, <1>6, <1>9, <2>1, MoveSound
  <2>3. s.node[mp].key # NilKey
    BY <1>1, <1>6 DEF Chained, ValuesOk
  <2>4. Sound(u)
    BY <1>5, <1>7, <2>2, <2>3
  <2>5. \A i \in DOMAIN s.node \ {mp, f} : Same(u.node[i], s.node[i])
    BY <2>2 DEF Same
  <2>6. Same(u.node[f], s.node[mp])
    BY <2>2 DEF Same
  <2>7. Inserted(s, u, k, v, mp)
    BY <1>1, <1>2, <1>5, <2>2, <2>4, <2>5, <2>6 DEF Inserted
  <2>8. QED
    BY <2>7 DEF u
<1>10. QED
  BY <1>8, <1>9

(* An insertion puts the key in, or fails with no free node left.          *)
LEMMA InsertIs ==
  ASSUME NEW s, Sound(s), NEW k \in Key, NEW v \in Value, NotLive(s.node, k)
  PROVE  /\ InsertKey(s, k, v).ok => \E h : Inserted(s, InsertKey(s, k, v).tab, k, v, h)
         /\ ~InsertKey(s, k, v).ok =>
              /\ Sound(InsertKey(s, k, v).tab) /\ SameShape(s, InsertKey(s, k, v).tab)
              /\ InsertKey(s, k, v).tab.node = s.node
              /\ \A i \in DOMAIN s.node : s.node[i].key # NilKey
<1> DEFINE w == AfterFreePos(s)
<1>1. CASE IsDummy(s)
  <2>1. SizeNode(s) = 0 /\ DOMAIN s.node = 0 .. SizeNode(s) - 1
    BY <1>1, TableSize DEF Sound, IsDummy
  <2>2. DOMAIN s.node = {}
    BY <2>1
  <2>3. ~InsertKey(s, k, v).ok /\ InsertKey(s, k, v).tab = s
    BY <1>1 DEF InsertKey
  <2>4. QED
    BY <2>2, <2>3 DEF Sound, SameShape
<1>2. CASE ~IsDummy(s) /\ s.node[MainPosition(s, k)].val = Empty
  BY <1>2, InsertFills DEF InsertKey
<1>3. CASE ~IsDummy(s) /\ s.node[MainPosition(s, k)].val # Empty /\ FreePos(s) # Nowhere
  BY <1>3, InsertGrows DEF InsertKey
<1>4. CASE ~IsDummy(s) /\ s.node[MainPosition(s, k)].val # Empty /\ FreePos(s) = Nowhere
  <2>1. /\ SameShape(s, w) /\ w.node = s.node /\ w.lastfree <= SizeNode(s)
    BY <1>4, AfterFreePosIs
  <2>2. \A i \in DOMAIN s.node : s.node[i].key # NilKey
    BY <1>4, FreePosIs
  <2>3. ~InsertKey(s, k, v).ok /\ InsertKey(s, k, v).tab = w
    BY <1>4 DEF InsertKey
  <2>4. s \in Tables /\ w \in Tables /\ Home(w) = Home(s)
    BY <2>1, ShapeIs DEF Sound, SameShape
  <2>5. FreeBelow(w)
    BY <2>1, <2>2 DEF FreeBelow, SameShape
  <2>6. Sound(w)
    BY <2>1, <2>4, <2>5 DEF Sound
  <2> HIDE DEF w
  <2>7. QED
    BY <2>1, <2>2, <2>3, <2>6
<1>5. QED
  BY <1>1, <1>2, <1>3, <1>4

-----------------------------------------------------------------------------
(* The value that the hash part has for a key.                             *)
HashGet(s, k) == LET i == FindNode(s, k, FALSE) IN IF i = Nowhere THEN Empty ELSE s.node[i].val

(* The types of a node.                                                    *)
LEMMA NodeType ==
  ASSUME NEW s \in Tables, NEW i \in DOMAIN s.node
  PROVE  /\ s.node[i] \in Node /\ i \in Nat
         /\ s.node[i].key \in Key \cup {NilKey} /\ s.node[i].val \in Value \cup {Empty}
         /\ s.node[i].dead \in BOOLEAN
<1>1. s.node[i] \in Node /\ i \in Nat
  BY TableSize
<1>2. QED
  BY <1>1 DEF Node

(* A node with a value is the one that its key is found in.                *)
LEMMA HashHas ==
  ASSUME NEW s, Sound(s), NEW i \in DOMAIN s.node, s.node[i].val # Empty
  PROVE  /\ HashGet(s, s.node[i].key) = s.node[i].val
         /\ s.node[i].key \in Key /\ s.node[i].val \in Value /\ ~s.node[i].dead
<1>1. s.node[i].key # NilKey /\ ~s.node[i].dead
  BY DEF Sound, Chained, ValuesOk
<1>2. FindNode(s, s.node[i].key, FALSE) = i
  BY <1>1, FindLive
<1>3. i # Nowhere /\ s.node[i].key \in Key /\ s.node[i].val \in Value
  BY <1>1, NodeType DEF Sound, Nowhere
<1>4. QED
  BY <1>1, <1>2, <1>3 DEF HashGet

(* A value comes from a node with the key.                                 *)
LEMMA HashFrom ==
  ASSUME NEW s, Sound(s), NEW k, k.hash \in Nat, HashGet(s, k) # Empty
  PROVE  \E i \in DOMAIN s.node : s.node[i].key = k /\ s.node[i].val = HashGet(s, k)
<1>1. FindNode(s, k, FALSE) # Nowhere /\ HashGet(s, k) = s.node[FindNode(s, k, FALSE)].val
  BY DEF HashGet
<1>2. /\ FindNode(s, k, FALSE) \in DOMAIN s.node
      /\ s.node[FindNode(s, k, FALSE)].key = k
  BY <1>1, FindMatches
<1>3. QED
  BY <1>1, <1>2

(* Equal entries for a key give it the same value.                         *)
LEMMA HashSame ==
  ASSUME NEW s, Sound(s), NEW u, Sound(u), NEW k \in Key,
         \A j \in DOMAIN s.node : s.node[j].key = k /\ s.node[j].val # Empty =>
           \E i \in DOMAIN u.node : Same(u.node[i], s.node[j]),
         \A i \in DOMAIN u.node : u.node[i].key = k /\ u.node[i].val # Empty =>
           \E j \in DOMAIN s.node : Same(u.node[i], s.node[j])
  PROVE  HashGet(u, k) = HashGet(s, k)
<1>1. k.hash \in Nat
  BY KeyType
<1>2. CASE HashGet(s, k) # Empty
  <2>1. PICK j \in DOMAIN s.node : s.node[j].key = k /\ s.node[j].val = HashGet(s, k)
    BY <1>1, <1>2, HashFrom
  <2>2. PICK i \in DOMAIN u.node : Same(u.node[i], s.node[j])
    BY <2>1, <1>2
  <2>3. u.node[i].key = k /\ u.node[i].val = HashGet(s, k)
    BY <2>1, <2>2 DEF Same
  <2>4. QED
    BY <2>3, <1>2, HashHas
<1>3. CASE HashGet(s, k) = Empty
  <2>1. SUFFICES ASSUME HashGet(u, k) # Empty PROVE FALSE
    BY <1>3
  <2>2. PICK i \in DOMAIN u.node : u.node[i].key = k /\ u.node[i].val = HashGet(u, k)
    BY <1>1, <2>1, HashFrom
  <2>3. PICK j \in DOMAIN s.node : Same(u.node[i], s.node[j])
    BY <2>1, <2>2
  <2>4. s.node[j].key = k /\ s.node[j].val # Empty
    BY <2>1, <2>2, <2>3 DEF Same
  <2>5. QED
    BY <2>4, <1>3, HashHas
<1>4. QED
  BY <1>2, <1>3

(* An insertion gives its key the value and changes no other field.        *)
LEMMA InsertedGet ==
  ASSUME NEW s, Sound(s), NEW u, NEW k \in Key, NEW v \in Value, NEW h,
         Inserted(s, u, k, v, h)
  PROVE  HashGet(u, k) = v /\ \A x \in Key \ {k} : HashGet(u, x) = HashGet(s, x)
<1>1. /\ Sound(u) /\ h \in DOMAIN s.node /\ DOMAIN u.node = DOMAIN s.node
      /\ u.node[h].key = k /\ u.node[h].val = v
  BY DEF Inserted, SameShape
<1>2. v # Empty
  BY TableAssumption DEF TableAssumption
<1>3. HashGet(u, k) = v
  BY <1>1, <1>2, HashHas
<1>4. ASSUME NEW x \in Key \ {k} PROVE HashGet(u, x) = HashGet(s, x)
  <2>1. ASSUME NEW j \in DOMAIN s.node, s.node[j].key = x, s.node[j].val # Empty
        PROVE  \E i \in DOMAIN u.node : Same(u.node[i], s.node[j])
    BY <2>1, <1>1 DEF Inserted
  <2>2. ASSUME NEW i \in DOMAIN u.node, u.node[i].key = x
        PROVE  \E j \in DOMAIN s.node : Same(u.node[i], s.node[j])
    BY <2>2, <1>1 DEF Inserted
  <2>3. QED
    BY <2>1, <2>2, <1>1, HashSame
<1>5. QED
  BY <1>3, <1>4

(* A key without a value is not in a live node, unless an empty one.       *)
LEMMA LiveOnce ==
  ASSUME NEW s, Sound(s), NEW i \in DOMAIN s.node, NEW j \in DOMAIN s.node,
         s.node[i].key = s.node[j].key, s.node[i].key # NilKey, ~s.node[i].dead, ~s.node[j].dead
  PROVE  i = j
<1>1. FindNode(s, s.node[i].key, FALSE) = i
  BY FindLive
<1>2. FindNode(s, s.node[j].key, FALSE) = j
  BY FindLive
<1>3. QED
  BY <1>1, <1>2

-----------------------------------------------------------------------------
(* Every key of the hash part is one of K and has a value.                 *)
Filled(s, K) == \A i \in DOMAIN s.node : s.node[i].key # NilKey =>
                  s.node[i].val # Empty /\ s.node[i].key \in K

(* A table all of whose keys are among K and that has at least as many     *)
(* nodes has room for every key of K.                                      *)
Roomy(s, K) ==
  /\ Sound(s) /\ Filled(s, K)
  /\ K \subseteq Key /\ IsFiniteSet(K) /\ Cardinality(K) <= SizeNode(s)

(* There is a free node for a key of K without a field.                    *)
LEMMA RoomLeft ==
  ASSUME NEW s, NEW K, Roomy(s, K), NEW k \in K, HashGet(s, k) = Empty, NEW v \in Value
  PROVE  InsertKey(s, k, v).ok /\ NotLive(s.node, k)
<1>1. Sound(s) /\ k \in Key /\ IsFiniteSet(K)
  BY DEF Roomy
<1>2. \A i \in DOMAIN s.node : s.node[i].key # k
  <2>1. SUFFICES ASSUME NEW i \in DOMAIN s.node, s.node[i].key = k PROVE FALSE
    OBVIOUS
  <2>2. s.node[i].val # Empty
    BY <2>1, <1>1, KeyType DEF Roomy, Filled
  <2>3. QED
    BY <1>1, <2>1, <2>2, HashHas
<1>3. NotLive(s.node, k)
  BY <1>2 DEF NotLive
<1>4. ASSUME ~InsertKey(s, k, v).ok PROVE FALSE
  <2>1. \A i \in DOMAIN s.node : s.node[i].key # NilKey
    BY <1>1, <1>3, <1>4, InsertIs
  <2> DEFINE f == [i \in DOMAIN s.node |-> s.node[i].key]
  <2>2. f \in [DOMAIN s.node -> K \ {k}]
    BY <2>1, <1>2 DEF Roomy, Filled
  <2>3. IsFiniteSet(K \ {k}) /\ Cardinality(K \ {k}) = Cardinality(K) - 1
    BY <1>1, FS_RemoveElement
  <2>4. SizeNode(s) \in Nat /\ DOMAIN s.node = 0 .. SizeNode(s) - 1
    BY <1>1, TableSize DEF Sound
  <2>5. IsFiniteSet(DOMAIN s.node) /\ Cardinality(DOMAIN s.node) = SizeNode(s)
    BY <2>4, FS_Interval DEF SizeNode
  <2>6. Cardinality(K \ {k}) < Cardinality(DOMAIN s.node)
    <3>1. Cardinality(K) \in Nat /\ Cardinality(K) <= SizeNode(s)
      BY <1>1, FS_CardinalityType DEF Roomy
    <3>2. QED
      BY <3>1, <2>3, <2>4, <2>5
  <2> HIDE DEF f
  <2>7. PICK i, j \in DOMAIN s.node : i # j /\ f[i] = f[j]
    BY <2>2, <2>3, <2>5, <2>6, FS_PigeonHole
  <2>8. s.node[i].key = s.node[j].key /\ s.node[i].key # NilKey
    BY <2>1, <2>7 DEF f
  <2>9. s.node[i].val # Empty /\ s.node[j].val # Empty
    BY <2>8 DEF Roomy, Filled
  <2>10. QED
    BY <1>1, <2>7, <2>8, <2>9, HashHas, LiveOnce
<1>5. QED
  BY <1>3, <1>4

(* The insertion of a key of K.                                            *)
LEMMA InsertRoomy ==
  ASSUME NEW s, NEW K, Roomy(s, K), NEW k \in K, HashGet(s, k) = Empty, NEW v \in Value,
         NEW u, u = InsertKey(s, k, v).tab
  PROVE  /\ Roomy(u, K) /\ SameShape(s, u)
         /\ HashGet(u, k) = v /\ \A x \in Key \ {k} : HashGet(u, x) = HashGet(s, x)
<1>1. Sound(s) /\ k \in Key
  BY DEF Roomy
<1>2. InsertKey(s, k, v).ok /\ NotLive(s.node, k)
  BY RoomLeft
<1>3. PICK h : Inserted(s, u, k, v, h)
  BY <1>1, <1>2, InsertIs
<1>4. Sound(u) /\ SameShape(s, u) /\ h \in DOMAIN s.node /\ DOMAIN u.node = DOMAIN s.node
  BY <1>3 DEF Inserted, SameShape
<1>5. v # Empty
  BY TableAssumption DEF TableAssumption
<1>6. ASSUME NEW i \in DOMAIN u.node, u.node[i].key # NilKey
      PROVE  u.node[i].val # Empty /\ u.node[i].key \in K
  <2>1. CASE i = h
    BY <2>1, <1>3, <1>5 DEF Inserted
  <2>2. CASE i # h
    <3>1. PICK j \in DOMAIN s.node : Same(u.node[i], s.node[j])
      BY <2>2, <1>3, <1>4 DEF Inserted
    <3>2. QED
      BY <3>1, <1>6 DEF Same, Roomy, Filled
  <2>3. QED
    BY <2>1, <2>2
<1>7. Roomy(u, K)
  BY <1>4, <1>6 DEF Roomy, Filled, SameShape
<1>8. QED
  BY <1>1, <1>3, <1>4, <1>7, InsertedGet

-----------------------------------------------------------------------------
(* An operation repeated n times; G[i] is its i-th step.                   *)
Steps(G, n, S) == \A i \in 1 .. n : \A x \in S : G[i][x] \in S
Iteration(W, G, n, S, a) ==
  W \in [0 .. n -> S] /\ W[0] = a /\ \A i \in 1 .. n : W[i] = G[i][W[i - 1]]

(* There is a function that gives the results of n steps.                  *)
LEMMA Iterates ==
  ASSUME NEW n \in Nat, NEW S, NEW a \in S, NEW G, Steps(G, n, S)
  PROVE  \E W : Iteration(W, G, n, S, a)
<1> DEFINE E(m) == \E W \in [0 .. m -> S] : W[0] = a /\ \A i \in 1 .. m : W[i] = G[i][W[i - 1]]
           B == {m \in 0 .. n : ~E(m)}
<1>1. E(0)
  <2> DEFINE W == [i \in 0 .. 0 |-> a]
  <2>1. W \in [0 .. 0 -> S] /\ W[0] = a
    OBVIOUS
  <2> HIDE DEF W
  <2>2. QED
    BY <2>1
<1>2. ASSUME NEW m \in 0 .. n, m # n, E(m) PROVE E(m + 1)
  <2>1. PICK W \in [0 .. m -> S] : W[0] = a /\ \A i \in 1 .. m : W[i] = G[i][W[i - 1]]
    BY <1>2
  <2>2. m \in Nat /\ m + 1 \in 1 .. n /\ W[m] \in S
    BY <1>2
  <2>3. G[m + 1][W[m]] \in S
    BY <2>2 DEF Steps
  <2> DEFINE U == [i \in 0 .. m + 1 |-> IF i = m + 1 THEN G[m + 1][W[m]] ELSE W[i]]
  <2>4. U \in [0 .. m + 1 -> S]
    BY <2>2, <2>3
  <2>5. U[0] = a /\ U[m + 1] = G[m + 1][W[m]] /\ \A i \in 0 .. m : U[i] = W[i]
    BY <2>1, <2>2
  <2> HIDE DEF U
  <2>6. ASSUME NEW i \in 1 .. m + 1 PROVE U[i] = G[i][U[i - 1]]
    <3>1. CASE i = m + 1
      <4>1. i - 1 = m /\ m \in 0 .. m
        BY <2>2, <3>1
      <4>2. QED
        BY <3>1, <4>1, <2>5
    <3>2. CASE i # m + 1
      <4>1. i \in 1 .. m /\ i \in 0 .. m /\ i - 1 \in 0 .. m
        BY <2>2, <3>2
      <4>2. QED
        BY <4>1, <2>1, <2>5
    <3>3. QED
      BY <3>1, <3>2
  <2>7. QED
    BY <2>4, <2>5, <2>6
<1> HIDE DEF E
<1>3. B = {}
  <2>1. SUFFICES ASSUME B # {} PROVE FALSE
    OBVIOUS
  <2>2. PICK m \in B : \A l \in B : m <= l
    BY <2>1, LeastNat, B \subseteq Nat
  <2>3. m \in 1 .. n
    BY <1>1
  <2>4. m - 1 \in 0 .. n /\ m - 1 # n /\ m - 1 \notin B /\ (m - 1) + 1 = m
    BY <2>2, <2>3
  <2>5. E(m - 1)
    BY <2>4
  <2>6. E((m - 1) + 1)
    BY <1>2, <2>4, <2>5
  <2>7. QED
    BY <2>4, <2>6
<1>4. E(n)
  BY <1>3
<1>5. QED
  BY <1>4 DEF E, Iteration

(* What holds at the start of an iteration and is kept by its steps holds at its end. *)
LEMMA Reaches ==
  ASSUME NEW n \in Nat, NEW B \in SUBSET (0 .. n), 0 \in B,
         \A i \in 1 .. n : i - 1 \in B => i \in B
  PROVE  B = 0 .. n
<1>1. SUFFICES ASSUME (0 .. n) \ B # {} PROVE FALSE
  OBVIOUS
<1>2. PICK m \in (0 .. n) \ B : \A l \in (0 .. n) \ B : m <= l
  BY <1>1, LeastNat, (0 .. n) \ B \subseteq Nat
<1>3. m \in 1 .. n /\ m - 1 \in 0 .. n /\ m - 1 < m
  BY <1>2
<1>4. m - 1 \in B
  BY <1>2, <1>3
<1>5. QED
  BY <1>2, <1>3, <1>4

-----------------------------------------------------------------------------
(* The powers of 2.                                                        *)
LEMMA TwoToIs ==
  /\ TwoTo \in [Nat -> Nat] /\ TwoTo[0] = 1
  /\ \A n \in Nat : TwoTo[n + 1] = 2 * TwoTo[n]
<1> DEFINE Powers(n, W) == W \in [0 .. n -> Nat] /\ W[0] = 1 /\ \A i \in 1 .. n : W[i] = 2 * W[i - 1]
           Up(n) == CHOOSE W : Powers(n, W)
<1>1. ASSUME NEW n \in Nat PROVE Powers(n, Up(n))
  <2> DEFINE G == [i \in 1 .. n |-> [x \in Nat |-> 2 * x]]
  <2>1. \A i \in 1 .. n, x \in Nat : G[i][x] = 2 * x
    OBVIOUS
  <2>2. Steps(G, n, Nat)
    BY DEF Steps
  <2> HIDE DEF G
  <2>3. PICK W : Iteration(W, G, n, Nat, 1)
    BY <2>2, Iterates, 1 \in Nat
  <2>4. W \in [0 .. n -> Nat] /\ W[0] = 1 /\ \A i \in 1 .. n : W[i] = G[i][W[i - 1]]
    BY <2>3 DEF Iteration
  <2>5. ASSUME NEW i \in 1 .. n PROVE W[i] = 2 * W[i - 1]
    <3>1. W[i] = G[i][W[i - 1]] /\ W[i - 1] \in Nat
      BY <2>4
    <3>2. QED
      BY <2>1, <3>1
  <2>6. Powers(n, W)
    BY <2>4, <2>5
  <2> HIDE DEF Powers
  <2>7. QED
    BY <2>6
<1>2. ASSUME NEW n \in Nat, NEW m \in Nat, n <= m, NEW U, NEW W, Powers(n, U), Powers(m, W)
      PROVE  \A i \in 0 .. n : U[i] = W[i]
  <2> DEFINE B == {i \in 0 .. n : U[i] = W[i]}
  <2>1. 0 \in B
    BY <1>2
  <2>2. ASSUME NEW i \in 1 .. n, i - 1 \in B PROVE i \in B
    BY <2>2, <1>2
  <2>3. B = 0 .. n
    <3> HIDE DEF B
    <3> QED
      BY <2>1, <2>2, Reaches, B \subseteq 0 .. n DEF B
  <2>4. QED
    BY <2>3
<1> DEFINE F == [n \in Nat |-> Up(n)[n]]
           Step(W) == W = [n \in Nat |-> IF n = 0 THEN 1 ELSE 2 * W[n - 1]]
<1>3. ASSUME NEW n \in Nat, n # 0 PROVE F[n] = 2 * F[n - 1]
  <2>1. n - 1 \in Nat /\ n - 1 <= n /\ n \in 1 .. n /\ n - 1 \in 0 .. n - 1
    BY <1>3
  <2>2. Powers(n, Up(n)) /\ Powers(n - 1, Up(n - 1))
    BY <1>1, <2>1
  <2> HIDE DEF Up
  <2>3. Up(n)[n - 1] = Up(n - 1)[n - 1]
    <3> HIDE DEF Powers
    <3> QED
      BY <1>2, <2>1, <2>2
  <2>4. Up(n)[n] = 2 * Up(n)[n - 1]
    BY <2>1, <2>2
  <2>5. QED
    BY <2>1, <2>3, <2>4
<1>4. F[0] = 1
  <2>1. Powers(0, Up(0))
    BY <1>1
  <2> HIDE DEF Up
  <2>2. QED
    BY <2>1
<1>5. Step(F)
  <2>1. F = [n \in Nat |-> F[n]]
    <3> HIDE DEF Up
    <3> QED
      OBVIOUS
  <2> HIDE DEF F
  <2>2. \A n \in Nat : F[n] = IF n = 0 THEN 1 ELSE 2 * F[n - 1]
    BY <1>3, <1>4
  <2>3. QED
    BY <2>1, <2>2
<1>6. Step(TwoTo)
  <2>1. TwoTo = CHOOSE W : Step(W)
    BY DEF TwoTo
  <2> HIDE DEF Step, F
  <2>2. QED
    BY <2>1, <1>5
<1>7. TwoTo[0] = 1
  BY <1>6
<1>8. ASSUME NEW n \in Nat PROVE TwoTo[n + 1] = 2 * TwoTo[n]
  <2>1. n + 1 \in Nat /\ n + 1 # 0 /\ (n + 1) - 1 = n
    OBVIOUS
  <2>2. TwoTo[n + 1] = 2 * TwoTo[(n + 1) - 1]
    BY <2>1, <1>6
  <2>3. QED
    BY <2>1, <2>2
<1>9. \A n \in Nat : TwoTo[n] \in Nat
  <2> DEFINE N == {n \in Nat : TwoTo[n] \notin Nat}
  <2>1. SUFFICES ASSUME N # {} PROVE FALSE
    OBVIOUS
  <2>2. PICK n \in N : \A m \in N : n <= m
    BY <2>1, LeastNat, N \subseteq Nat
  <2>3. n # 0
    BY <1>7
  <2>4. n - 1 \in Nat /\ n - 1 \notin N /\ (n - 1) + 1 = n
    BY <2>2, <2>3
  <2>5. TwoTo[n - 1] \in Nat
    BY <2>4
  <2>6. TwoTo[n] = 2 * TwoTo[n - 1]
    BY <1>8, <2>4
  <2>7. QED
    BY <2>5, <2>6
<1>10. TwoTo \in [Nat -> Nat]
  BY <1>6, <1>9
<1>11. QED
  BY <1>7, <1>8, <1>10

(* They are positive and above their exponents.                            *)
LEMMA TwoToPositive ==
  ASSUME NEW n \in Nat
  PROVE  TwoTo[n] \in Nat \ {0} /\ TwoTo[n] > n
<1> DEFINE N == {m \in Nat : ~(TwoTo[m] > m)}
<1>1. N = {}
  <2>1. SUFFICES ASSUME N # {} PROVE FALSE
    OBVIOUS
  <2>2. PICK m \in N : \A l \in N : m <= l
    BY <2>1, LeastNat, N \subseteq Nat
  <2>3. m # 0
    BY TwoToIs
  <2>4. m - 1 \in Nat /\ m - 1 \notin N /\ (m - 1) + 1 = m
    BY <2>2, <2>3
  <2>5. TwoTo[m - 1] > m - 1 /\ TwoTo[m - 1] \in Nat /\ TwoTo[m] = 2 * TwoTo[m - 1]
    BY <2>4, TwoToIs
  <2>6. TwoTo[m] > m
    BY <2>4, <2>5
  <2>7. QED
    BY <2>6
<1>2. TwoTo[n] \in Nat /\ TwoTo[n] > n
  BY <1>1, TwoToIs
<1>3. QED
  BY <1>2

(* They grow with their exponents.                                         *)
LEMMA TwoToGrows ==
  ASSUME NEW m \in Nat, NEW n \in Nat, m <= n
  PROVE  TwoTo[m] <= TwoTo[n] /\ (m < n => TwoTo[m] < TwoTo[n])
<1> DEFINE N == {d \in Nat : ~(TwoTo[m] <= TwoTo[m + d] /\ (d # 0 => TwoTo[m] < TwoTo[m + d]))}
<1>1. N = {}
  <2>1. SUFFICES ASSUME N # {} PROVE FALSE
    OBVIOUS
  <2>2. PICK d \in N : \A l \in N : d <= l
    BY <2>1, LeastNat, N \subseteq Nat
  <2>3. d # 0
    <3>1. TwoTo[m + 0] = TwoTo[m] /\ TwoTo[m] \in Nat
      BY TwoToIs
    <3>2. QED
      BY <3>1
  <2>4. d - 1 \in Nat /\ d - 1 \notin N /\ (m + (d - 1)) + 1 = m + d /\ m + (d - 1) \in Nat
    BY <2>2, <2>3
  <2>5. TwoTo[m] <= TwoTo[m + (d - 1)] /\ TwoTo[m + (d - 1)] \in Nat /\ TwoTo[m] \in Nat \ {0}
    BY <2>4, TwoToPositive
  <2>6. TwoTo[m + d] = 2 * TwoTo[m + (d - 1)]
    BY <2>4, TwoToIs
  <2>7. QED
    BY <2>5, <2>6
<1>2. n - m \in Nat /\ m + (n - m) = n
  OBVIOUS
<1>3. n - m \notin N
  BY <1>1
<1> HIDE DEF N
<1>4. TwoTo[m] <= TwoTo[m + (n - m)] /\ (n - m # 0 => TwoTo[m] < TwoTo[m + (n - m)])
  BY <1>2, <1>3 DEF N
<1>5. QED
  BY <1>2, <1>4

(* The least exponent of a power of at least n.                            *)
LEMMA CeilLog2Is ==
  ASSUME NEW n \in Nat
  PROVE  /\ CeilLog2(n) \in 0 .. n /\ TwoTo[CeilLog2(n)] >= n
         /\ CeilLog2(n) = 0 \/ TwoTo[CeilLog2(n) - 1] < n
<1> DEFINE L == {l \in Nat : TwoTo[l] >= n}
           P(l) == TwoTo[l] >= n /\ (l = 0 \/ TwoTo[l - 1] < n)
<1>1. n \in L
  BY TwoToPositive
<1>2. PICK l \in L : \A m \in L : l <= m
  <2> HIDE DEF L
  <2> QED
    BY <1>1, LeastNat, L \subseteq Nat DEF L
<1>3. l \in 0 .. n
  BY <1>1, <1>2
<1>4. l = 0 \/ TwoTo[l - 1] < n
  <2>1. SUFFICES ASSUME l # 0 PROVE TwoTo[l - 1] < n
    OBVIOUS
  <2>2. l - 1 \in Nat /\ l - 1 \notin L /\ TwoTo[l - 1] \in Nat
    BY <1>2, <1>3, <2>1, TwoToIs
  <2>3. QED
    BY <2>2
<1>5. P(l)
  BY <1>4
<1> HIDE DEF P
<1>6. CeilLog2(n) = CHOOSE m \in 0 .. n : P(m)
  BY DEF CeilLog2, P
<1>7. CeilLog2(n) \in 0 .. n /\ P(CeilLog2(n))
  BY <1>3, <1>5, <1>6
<1>8. QED
  BY <1>7 DEF P

(* The logarithm of a power of two is its exponent.                        *)
LEMMA CeilLog2Power ==
  ASSUME NEW l \in Nat
  PROVE  CeilLog2(TwoTo[l]) = l
<1> DEFINE m == CeilLog2(TwoTo[l])
<1>1. TwoTo[l] \in Nat /\ TwoTo \in [Nat -> Nat]
  BY TwoToIs
<1>2. m \in Nat /\ TwoTo[m] >= TwoTo[l] /\ (m = 0 \/ TwoTo[m - 1] < TwoTo[l])
  BY <1>1, CeilLog2Is
<1> HIDE DEF m
<1>3. ~(m < l)
  BY <1>1, <1>2, TwoToGrows
<1>4. ~(l < m)
  <2>1. SUFFICES ASSUME l < m PROVE FALSE
    OBVIOUS
  <2>2. m - 1 \in Nat /\ l <= m - 1 /\ m # 0
    BY <1>2, <2>1
  <2>3. TwoTo[l] <= TwoTo[m - 1] /\ TwoTo[m - 1] < TwoTo[l]
    BY <1>2, <2>2, TwoToGrows
  <2>4. QED
    BY <2>2, <2>3, <1>1
<1>5. QED
  BY <1>2, <1>3, <1>4 DEF m

-----------------------------------------------------------------------------
(* The hash part is what the nodes say.                                    *)
LEMMA SameNodes ==
  ASSUME NEW s \in Tables, NEW u \in Tables, u.node = s.node
  PROVE  /\ SizeNode(u) = SizeNode(s) /\ Home(u) = Home(s) /\ IsDummy(u) = IsDummy(s)
         /\ HasLastFree(u) = HasLastFree(s)
         /\ \A k, d : FindNode(u, k, d) = FindNode(s, k, d)
         /\ \A k : HashGet(u, k) = HashGet(s, k)
         /\ u.lastfree = s.lastfree /\ Sound(s) => Sound(u)
<1>1. SizeNode(u) = SizeNode(s)
  BY DEF SizeNode
<1>2. /\ Home(u) = Home(s) /\ IsDummy(u) = IsDummy(s) /\ HasLastFree(u) = HasLastFree(s)
      /\ \A k : MainPosition(u, k) = MainPosition(s, k)
  BY <1>1 DEF Home, MainPosition, IsDummy, HasLastFree
<1>3. \A k, d : Search(u, k, d) = Search(s, k, d)
  BY DEF Search
<1>4. \A k, d : FindNode(u, k, d) = FindNode(s, k, d)
  BY <1>2, <1>3 DEF FindNode
<1>5. \A k : HashGet(u, k) = HashGet(s, k)
  BY <1>4 DEF HashGet
<1>6. u.lastfree = s.lastfree /\ Sound(s) => Sound(u)
  BY <1>1, <1>2 DEF Sound, FreeBelow
<1>7. QED
  BY <1>1, <1>2, <1>4, <1>5, <1>6

(* A table with another array part.                                        *)
LEMMA WithArr ==
  ASSUME NEW s \in Tables, NEW a \in Seq(Value \cup {Empty}), NEW u, u = [s EXCEPT !.arr = a]
  PROVE  /\ u \in Tables /\ u.arr = a /\ u.node = s.node /\ u.lastfree = s.lastfree
         /\ u.lenhint = s.lenhint
         /\ Sound(s) => Sound(u)
         /\ \A k : HashGet(u, k) = HashGet(s, k)
<1>1. /\ u \in Tables /\ u.arr = a /\ u.node = s.node /\ u.lastfree = s.lastfree
      /\ u.lenhint = s.lenhint
  BY DEF Tables
<1>2. QED
  BY <1>1, SameNodes

(* A field is in the array part or in the hash part.                       *)
LEMMA GetIs ==
  ASSUME NEW s, NEW k
  PROVE  Get(s, k) = IF InArray(s, k) THEN s.arr[k.id] ELSE HashGet(s, k)
BY DEF Get, HashGet

(* Keys of the array part are keys.                                        *)
ArrKeys(s) == \A i \in 1 .. Len(s.arr) : s.arr[i] # Empty => IntKey(i) \in Key

(* An assignment to the array part.                                        *)
SetItem(s, k, v) == [s EXCEPT !.arr[k.id] = v]

(* One value of the array part is set; nothing else changes.               *)
ItemWritten(s, u, k, v) ==
  /\ u \in Tables /\ Len(u.arr) = Len(s.arr) /\ u.node = s.node
  /\ u.lastfree = s.lastfree /\ u.lenhint = s.lenhint /\ u.arr[k.id] = v
  /\ \A i \in 1 .. Len(s.arr) : i # k.id => u.arr[i] = s.arr[i]
  /\ Sound(s) => Sound(u)
  /\ ArrKeys(s) => ArrKeys(u)
  /\ \A y \in Key : Get(u, y) = IF y = k THEN v ELSE Get(s, y)

(* An assignment to the array part sets that value.                        *)
LEMMA WithItem ==
  ASSUME NEW s \in Tables, NEW k \in Key, InArray(s, k), NEW v \in Value \cup {Empty}, NEW u,
         u = SetItem(s, k, v)
  PROVE  ItemWritten(s, u, k, v)
<1> DEFINE a == [s.arr EXCEPT ![k.id] = v]
<1>1. s.arr \in Seq(Value \cup {Empty}) /\ k.id \in 1 .. Len(s.arr) /\ k = IntKey(k.id)
  BY KeyType DEF Tables, InArray
<1>2. /\ a \in Seq(Value \cup {Empty}) /\ Len(a) = Len(s.arr) /\ a[k.id] = v
      /\ \A i \in 1 .. Len(s.arr) : i # k.id => a[i] = s.arr[i]
  BY <1>1
<1>3. u = [s EXCEPT !.arr = a]
  BY DEF SetItem, Tables
<1> HIDE DEF a
<1>4. /\ u \in Tables /\ u.arr = a /\ u.node = s.node /\ u.lastfree = s.lastfree
      /\ u.lenhint = s.lenhint
      /\ Sound(s) => Sound(u)
      /\ \A y : HashGet(u, y) = HashGet(s, y)
  <2>1. /\ u \in Tables /\ u.arr = a /\ u.node = s.node /\ u.lastfree = s.lastfree
        /\ u.lenhint = s.lenhint
    BY <1>2, <1>3 DEF Tables
  <2>2. QED
    BY <2>1, SameNodes
<1>5. ASSUME NEW y \in Key PROVE Get(u, y) = IF y = k THEN v ELSE Get(s, y)
  <2>1. InArray(u, y) <=> InArray(s, y)
    BY <1>2, <1>4 DEF InArray
  <2>2. InArray(s, y) => y.id \in 1 .. Len(s.arr) /\ y = IntKey(y.id)
    BY KeyType DEF InArray
  <2>3. CASE InArray(s, y)
    <3>1. Get(u, y) = a[y.id] /\ Get(s, y) = s.arr[y.id]
      BY <2>1, <2>3, <1>4, GetIs
    <3>2. y # k => y.id # k.id
      BY <2>2, <2>3, <1>1
    <3>3. QED
      BY <3>1, <3>2, <2>2, <2>3, <1>2
  <2>4. CASE ~InArray(s, y)
    BY <2>1, <2>4, <1>4, GetIs
  <2>5. QED
    BY <2>3, <2>4
<1>6. ArrKeys(s) => ArrKeys(u)
  <2>1. SUFFICES ASSUME ArrKeys(s), NEW i \in 1 .. Len(s.arr), u.arr[i] # Empty
                  PROVE  IntKey(i) \in Key
    BY <1>2, <1>4 DEF ArrKeys
  <2>2. CASE i = k.id
    BY <2>2, <1>1
  <2>3. CASE i # k.id
    BY <2>1, <2>3, <1>2, <1>4 DEF ArrKeys
  <2>4. QED
    BY <2>2, <2>3
<1>7. QED
  BY <1>2, <1>4, <1>5, <1>6 DEF ItemWritten

(* A new key in a hash part with room, or in the array part.               *)
LEMMA PutIs ==
  ASSUME NEW s, NEW K, Roomy(s, K), \A y \in K : ~InArray(s, y), NEW k \in Key, NEW v \in Value,
         InArray(s, k) \/ (k \in K /\ HashGet(s, k) = Empty), NEW u, u = NewCheckedKey(s, k, v)
  PROVE  /\ Roomy(u, K) /\ SizeNode(u) = SizeNode(s) /\ Len(u.arr) = Len(s.arr)
         /\ u.lenhint = s.lenhint /\ (ArrKeys(s) => ArrKeys(u))
         /\ \A y \in Key : Get(u, y) = IF y = k THEN v ELSE Get(s, y)
<1>1. Sound(s) /\ s \in Tables
  BY DEF Roomy, Sound
<1>2. CASE InArray(s, k)
  <2>1. u = SetItem(s, k, v)
    BY <1>2 DEF NewCheckedKey, SetItem
  <2>2. /\ u \in Tables /\ Len(u.arr) = Len(s.arr) /\ u.node = s.node
        /\ u.lastfree = s.lastfree /\ u.lenhint = s.lenhint /\ Sound(u)
        /\ (ArrKeys(s) => ArrKeys(u))
        /\ \A y \in Key : Get(u, y) = IF y = k THEN v ELSE Get(s, y)
    BY <1>1, <1>2, <2>1, WithItem DEF ItemWritten
  <2>3. Roomy(u, K)
    BY <2>2 DEF Roomy, Filled, SizeNode
  <2>4. SizeNode(u) = SizeNode(s)
    BY <2>2 DEF SizeNode
  <2>5. QED
    BY <2>2, <2>3, <2>4
<1>3. CASE ~InArray(s, k)
  <2>1. u = InsertKey(s, k, v).tab
    BY <1>3 DEF NewCheckedKey
  <2>2. /\ Roomy(u, K) /\ SameShape(s, u)
        /\ HashGet(u, k) = v /\ \A x \in Key \ {k} : HashGet(u, x) = HashGet(s, x)
    BY <1>3, <2>1, InsertRoomy
  <2>3. u.arr = s.arr /\ u.lenhint = s.lenhint /\ SizeNode(u) = SizeNode(s)
    BY <2>2 DEF SameShape
  <2>7. ArrKeys(s) => ArrKeys(u)
    BY <2>3 DEF ArrKeys
  <2>4. \A y : InArray(u, y) <=> InArray(s, y)
    BY <2>3 DEF InArray
  <2>5. ASSUME NEW y \in Key PROVE Get(u, y) = IF y = k THEN v ELSE Get(s, y)
    BY <1>3, <2>2, <2>3, <2>4, GetIs
  <2>6. QED
    BY <2>2, <2>3, <2>5, <2>7
<1>4. QED
  BY <1>2, <1>3

-----------------------------------------------------------------------------
(* Sizes of node vectors are powers of two.                                *)
PowerSize(s) == ~IsDummy(s) => SizeNode(s) = TwoTo[CeilLog2(SizeNode(s))]

(* A new node vector is free, of a power of 2, and large enough.           *)
LEMMA NewVector ==
  ASSUME NEW s \in Tables, NEW size \in Nat, NEW u, u = NodeVector(s, size)
  PROVE  /\ Sound(u) /\ u.arr = s.arr /\ u.lenhint = s.lenhint
         /\ SizeNode(u) >= size /\ PowerSize(u)
         /\ \A i \in DOMAIN u.node : u.node[i].key = NilKey
         /\ \A k \in Key : HashGet(u, k) = Empty
<1> DEFINE n == IF size = 0 THEN 0 ELSE TwoTo[CeilLog2(size)]
           V == [i \in 0 .. n - 1 |-> FreeNode]
           l == IF n >= TwoTo[LimForLast] THEN n ELSE 0
<1>1. n \in Nat /\ n >= size
  <2>1. CeilLog2(size) \in Nat /\ TwoTo[CeilLog2(size)] >= size
    BY CeilLog2Is
  <2>2. TwoTo[CeilLog2(size)] \in Nat
    BY <2>1, TwoToIs
  <2>3. QED
    BY <2>1, <2>2
<1>2. FreeNode \in Node
  BY DEF FreeNode, Node
<1>3. u = [s EXCEPT !.node = V, !.lastfree = l]
  BY DEF NodeVector
<1>4. n # 0 => n = TwoTo[CeilLog2(n)]
  <2>1. SUFFICES ASSUME n # 0 PROVE n = TwoTo[CeilLog2(n)]
    OBVIOUS
  <2>2. n = TwoTo[CeilLog2(size)] /\ CeilLog2(size) \in Nat
    BY <2>1, CeilLog2Is
  <2> HIDE DEF n
  <2>3. QED
    BY <2>2, CeilLog2Power
<1> HIDE DEF n
<1>5. l \in Nat /\ V \in [0 .. n - 1 -> Node] /\ \A i \in 0 .. n - 1 : V[i] = FreeNode
  BY <1>1, <1>2
<1> HIDE DEF V
<1>6. /\ u \in Tables /\ u.arr = s.arr /\ u.lenhint = s.lenhint /\ u.node = V /\ u.lastfree = l
  <2>1. V \in Vectors
    BY <1>1, <1>5 DEF Vectors
  <2> HIDE DEF l
  <2>2. QED
    BY <1>3, <1>5, <2>1 DEF Tables
<1>7. SizeNode(u) = n /\ DOMAIN u.node = 0 .. n - 1
  BY <1>1, <1>5, <1>6, SizeIs
<1>8. \A i \in DOMAIN u.node : /\ u.node[i].key = NilKey /\ ~u.node[i].dead
                               /\ u.node[i].val = Empty /\ u.node[i].next = 0
  BY <1>5, <1>6, <1>7 DEF FreeNode
<1>9. Ranked(u.node)
  <2> DEFINE R == [i \in DOMAIN u.node |-> 0]
  <2>1. R \in [DOMAIN u.node -> 0 .. 0]
    OBVIOUS
  <2>2. Descends(u.node, R, 0)
    BY <1>8, <2>1 DEF Descends
  <2> HIDE DEF R
  <2>3. QED
    BY <2>2 DEF Ranked
<1>10. LinksOk(u.node) /\ OneBefore(u.node) /\ AtHome(u.node, Home(u)) /\ LiveFirst(u.node)
       /\ ValuesOk(u.node)
  BY <1>8 DEF LinksOk, OneBefore, AtHome, LiveFirst, ValuesOk
<1>11. FreeBelow(u)
  BY <1>1, <1>6, <1>7 DEF FreeBelow, HasLastFree
<1>12. Sound(u)
  BY <1>6, <1>9, <1>10, <1>11 DEF Sound, Chained
<1>13. PowerSize(u)
  BY <1>4, <1>7 DEF PowerSize, IsDummy
<1>14. ASSUME NEW k \in Key, HashGet(u, k) # Empty PROVE FALSE
  BY <1>8, <1>12, <1>14, HashFrom, KeyType
<1>15. QED
  BY <1>1, <1>6, <1>7, <1>8, <1>12, <1>13, <1>14

-----------------------------------------------------------------------------
(* The table after the first i elements of the array arr went through: those *)
(* above na are in the hash part.                                          *)
SliceDone(q, K, arr, na, x, i) ==
  /\ Roomy(x, K) /\ SameShape(q, x)
  /\ \A y \in Key : HashGet(x, y) =
       IF y.kind = "int" /\ y.id \in na + 1 .. i THEN arr[y.id] ELSE Empty

(* What goes from the array part to the hash part q.                       *)
Slices(q, K, arr, na) ==
  /\ Roomy(q, K) /\ arr \in Seq(Value \cup {Empty}) /\ na \in Nat
  /\ \A i \in 1 .. Len(arr) : i > na /\ arr[i] # Empty => IntKey(i) \in K
  /\ \A y \in Key : HashGet(q, y) = Empty

(* The reinsertion of one value of the vanishing slice.                    *)
LEMMA SliceStep ==
  ASSUME NEW q, NEW K, NEW arr, NEW na, Slices(q, K, arr, na), NEW i \in 1 .. Len(arr),
         NEW x, SliceDone(q, K, arr, na, x, i - 1)
  PROVE  SliceDone(q, K, arr, na, ReinsertItem(x, arr, na, i), i)
<1> DEFINE u == ReinsertItem(x, arr, na, i)
           Given(y, j) == IF y.kind = "int" /\ y.id \in na + 1 .. j THEN arr[y.id] ELSE Empty
<1>1. /\ Roomy(x, K) /\ SameShape(q, x) /\ na \in Nat /\ arr[i] \in Value \cup {Empty}
      /\ \A y \in Key : HashGet(x, y) = Given(y, i - 1)
      /\ \A y \in Key : y.id \in Nat
      /\ i \in Nat
  BY KeyType DEF SliceDone, Slices
<1>2. CASE i <= na \/ arr[i] = Empty
  <2>1. u = x
    BY <1>2 DEF ReinsertItem
  <2>2. ASSUME NEW y \in Key PROVE Given(y, i) = Given(y, i - 1)
    <3>1. CASE y.id = i
      BY <3>1, <1>1, <1>2
    <3>2. CASE y.id # i
      BY <3>2, <1>1
    <3>3. QED
      BY <3>1, <3>2
  <2>3. QED
    BY <2>1, <2>2, <1>1 DEF SliceDone
<1>3. CASE ~(i <= na \/ arr[i] = Empty)
  <2>1. u = InsertKey(x, IntKey(i), arr[i]).tab
    BY <1>3 DEF ReinsertItem
  <2>2. IntKey(i) \in K /\ K \subseteq Key /\ arr[i] \in Value
    BY <1>1, <1>3 DEF Slices, Roomy
  <2>3. HashGet(x, IntKey(i)) = Empty
    BY <1>1, <2>2 DEF IntKey, KeyOf
  <2>4. /\ Roomy(u, K) /\ SameShape(x, u) /\ HashGet(u, IntKey(i)) = arr[i]
        /\ \A y \in Key \ {IntKey(i)} : HashGet(u, y) = HashGet(x, y)
    BY <1>1, <2>1, <2>2, <2>3, InsertRoomy
  <2>5. SameShape(q, u)
    BY <1>1, <2>4 DEF SameShape
  <2>6. ASSUME NEW y \in Key PROVE HashGet(u, y) = Given(y, i)
    <3>1. CASE y = IntKey(i)
      <4>1. y.kind = "int" /\ y.id = i
        BY <3>1 DEF IntKey, KeyOf
      <4>2. Given(y, i) = arr[i]
        BY <4>1, <1>1, <1>3
      <4>3. QED
        BY <4>2, <3>1, <2>4
    <3>2. CASE y # IntKey(i)
      <4>1. y.kind = "int" => y.id # i
        BY <3>2, KeyType
      <4>2. Given(y, i) = Given(y, i - 1)
        BY <4>1, <1>1
      <4>3. QED
        BY <4>2, <3>2, <2>4, <1>1
    <3>3. QED
      BY <3>1, <3>2
  <2>7. QED
    BY <2>4, <2>5, <2>6 DEF SliceDone
<1>4. QED
  BY <1>2, <1>3

(* All of the vanishing slice is reinserted (reinsertOldSlice).            *)
LEMMA SliceIs ==
  ASSUME NEW q, NEW K, NEW arr, NEW na, Slices(q, K, arr, na)
  PROVE  SliceDone(q, K, arr, na, ReinsertOldSlice(q, arr, na), Len(arr))
<1> DEFINE n == Len(arr)
           Good(x, i) == SliceDone(q, K, arr, na, x, i)
           Put(x, i) == ReinsertItem(x, arr, na, i)
           Step(W) == W = [i \in 0 .. n |-> IF i = 0 THEN q ELSE Put(W[i - 1], i)]
           G == [i \in 1 .. n |-> [x \in Tables |-> IF Put(x, i) \in Tables THEN Put(x, i) ELSE x]]
<1>1. n \in Nat /\ q \in Tables
  BY DEF Slices, Roomy, Sound
<1>2. \A x, i : Good(x, i) => x \in Tables
  BY DEF SliceDone, SameShape
<1>3. ASSUME NEW i \in 1 .. n, NEW x, Good(x, i - 1) PROVE Good(Put(x, i), i)
  BY <1>3, SliceStep
<1>4. Good(q, 0)
  <2>1. SameShape(q, q)
    BY <1>1 DEF SameShape
  <2>2. \A y : ~(y.id \in na + 1 .. 0)
    BY DEF Slices
  <2>3. QED
    BY <2>1, <2>2 DEF SliceDone, Slices
<1>5. Steps(G, n, Tables)
  <2> HIDE DEF Put
  <2> QED
    BY DEF Steps
<1>6. \A i \in 1 .. n : \A x \in Tables : Put(x, i) \in Tables => G[i][x] = Put(x, i)
  <2> HIDE DEF Put
  <2> QED
    OBVIOUS
<1> HIDE DEF n, Good, Put, G
<1>7. ASSUME NEW W, W[0] = q, \A i \in 1 .. n : Good(W[i - 1], i - 1) => W[i] = Put(W[i - 1], i)
      PROVE  \A i \in 0 .. n : Good(W[i], i)
  <2> DEFINE B == {i \in 0 .. n : Good(W[i], i)}
  <2>1. 0 \in B
    BY <1>1, <1>4, <1>7
  <2>2. \A i \in 1 .. n : i - 1 \in B => i \in B
    BY <1>1, <1>3, <1>7
  <2>3. B = 0 .. n
    <3> HIDE DEF B
    <3> QED
      BY <2>1, <2>2, <1>1, Reaches, B \subseteq 0 .. n DEF B
  <2>4. QED
    BY <2>3
<1>8. \E W : Step(W)
  <2>1. PICK W : Iteration(W, G, n, Tables, q)
    BY <1>1, <1>5, Iterates
  <2>2. W \in [0 .. n -> Tables] /\ W[0] = q /\ \A i \in 1 .. n : W[i] = G[i][W[i - 1]]
    BY <2>1 DEF Iteration
  <2>3. ASSUME NEW i \in 1 .. n, Good(W[i - 1], i - 1) PROVE W[i] = Put(W[i - 1], i)
    <3>1. W[i - 1] \in Tables /\ Put(W[i - 1], i) \in Tables
      BY <2>3, <1>2, <1>3
    <3>2. QED
      BY <3>1, <2>2, <1>6
  <2>4. \A i \in 0 .. n : Good(W[i], i)
    BY <2>2, <2>3, <1>7
  <2>5. \A i \in 0 .. n : W[i] = IF i = 0 THEN q ELSE Put(W[i - 1], i)
    <3>1. ASSUME NEW i \in 0 .. n, i # 0 PROVE W[i] = Put(W[i - 1], i)
      <4>1. i \in 1 .. n /\ i - 1 \in 0 .. n
        BY <3>1, <1>1
      <4>2. QED
        BY <4>1, <2>3, <2>4
    <3>2. QED
      BY <3>1, <2>2
  <2>6. Step(W)
    BY <2>2, <2>5
  <2>7. QED
    BY <2>6
<1> DEFINE D1 == CHOOSE W : Step(W)
<1>9. ReinsertOldSlice(q, arr, na) = D1[n]
  BY DEF ReinsertOldSlice, n, Put
<1>10. Step(D1)
  <2> HIDE DEF Step
  <2> QED
    BY <1>8
<1> HIDE DEF D1
<1>11. D1[0] = q /\ \A i \in 1 .. n : D1[i] = Put(D1[i - 1], i)
  BY <1>10, <1>1
<1>12. Good(D1[n], n)
  BY <1>1, <1>7, <1>11
<1>13. QED
  BY <1>9, <1>12 DEF Good, n

-----------------------------------------------------------------------------
(* The table after the first m nodes of z went back.                       *)
NodesDone(p, K, z, x, m) ==
  /\ Roomy(x, K) /\ SizeNode(x) = SizeNode(p) /\ Len(x.arr) = Len(p.arr)
  /\ x.lenhint = p.lenhint /\ (ArrKeys(p) => ArrKeys(x))
  /\ \A y \in Key : Get(x, y) =
       IF FindNode(z, y, FALSE) \in 0 .. m - 1 /\ HashGet(z, y) # Empty
       THEN HashGet(z, y) ELSE Get(p, y)

(* The nodes of z fit in p.                                                *)
Fits(p, K, z) ==
  /\ Sound(z) /\ Roomy(p, K)
  /\ \A y \in K : ~InArray(p, y)
  /\ \A y \in Key : HashGet(z, y) # Empty /\ ~InArray(p, y) => y \in K /\ HashGet(p, y) = Empty

(* The reinsertion of one node.                                            *)
LEMMA NodeStep ==
  ASSUME NEW p, NEW K, NEW z, Fits(p, K, z), NEW i \in 1 .. SizeNode(z),
         NEW x, NodesDone(p, K, z, x, i - 1)
  PROVE  NodesDone(p, K, z, ReinsertNode(x, z.node[i - 1]), i)
<1> DEFINE nd == z.node[i - 1]
           u == ReinsertNode(x, nd)
           Given(y, m) == IF FindNode(z, y, FALSE) \in 0 .. m - 1 /\ HashGet(z, y) # Empty
                          THEN HashGet(z, y) ELSE Get(p, y)
<1>1. /\ Sound(z) /\ z \in Tables /\ SizeNode(z) \in Nat /\ DOMAIN z.node = 0 .. SizeNode(z) - 1
      /\ i - 1 \in DOMAIN z.node /\ i \in Nat
  BY TableSize DEF Fits, Sound
<1>2. \A y \in Key : FindNode(z, y, FALSE) = i - 1 => y = nd.key /\ HashGet(z, y) = nd.val
  <2>1. ASSUME NEW y \in Key, FindNode(z, y, FALSE) = i - 1
        PROVE  y = nd.key /\ HashGet(z, y) = nd.val
    <3>1. y.hash \in Nat /\ i - 1 # Nowhere
      BY KeyType, <1>1 DEF Nowhere
    <3>5. FindNode(z, y, FALSE) # Nowhere
      BY <2>1, <3>1
    <3>6. z.node[FindNode(z, y, FALSE)].key = y
      BY <1>1, <3>1, <3>5, FindMatches
    <3>2. nd.key = y
      BY <2>1, <3>6
    <3>3. HashGet(z, y) = nd.val
      BY <2>1, <3>1 DEF HashGet
    <3>4. QED
      BY <3>2, <3>3
  <2>2. QED
    BY <2>1
<1>3. \A j : j \in 0 .. i - 1 <=> j \in 0 .. (i - 1) - 1 \/ j = i - 1
  BY <1>1
<1> HIDE DEF nd
<1>4. CASE nd.val = Empty
  <2>1. u = x
    BY <1>4 DEF ReinsertNode
  <2>2. \A y \in Key : Given(y, i) = Given(y, i - 1)
    BY <1>2, <1>3, <1>4
  <2>3. QED
    BY <2>1, <2>2 DEF NodesDone, nd
<1>5. CASE nd.val # Empty
  <2> DEFINE k == nd.key
  <2>1. u = NewCheckedKey(x, k, nd.val)
    BY <1>5 DEF ReinsertNode
  <2>2. k \in Key /\ nd.val \in Value /\ HashGet(z, k) = nd.val /\ ~nd.dead
    BY <1>1, <1>5, HashHas DEF nd
  <2>3. FindNode(z, k, FALSE) = i - 1
    BY <1>1, <2>2, FindLive, KeyType DEF nd
  <2> HIDE DEF k
  <2>4. /\ Roomy(x, K) /\ SizeNode(x) = SizeNode(p) /\ Len(x.arr) = Len(p.arr)
        /\ x.lenhint = p.lenhint /\ (ArrKeys(p) => ArrKeys(x))
        /\ \A y \in Key : Get(x, y) = Given(y, i - 1)
    BY DEF NodesDone
  <2>5. \A y : InArray(x, y) <=> InArray(p, y)
    BY <2>4 DEF InArray
  <2>6. \A y \in K : ~InArray(x, y)
    BY <2>5 DEF Fits
  <2>7. InArray(x, k) \/ (k \in K /\ HashGet(x, k) = Empty)
    <3>1. SUFFICES ASSUME ~InArray(x, k) PROVE k \in K /\ HashGet(x, k) = Empty
      OBVIOUS
    <3>2. k \in K /\ HashGet(p, k) = Empty
      BY <3>1, <2>2, <2>5, <1>5 DEF Fits
    <3>3. ~(i - 1 \in 0 .. (i - 1) - 1)
      BY <1>1
    <3>4. Get(x, k) = Get(p, k)
      BY <2>2, <2>3, <2>4, <3>3
    <3>5. QED
      BY <3>1, <3>2, <3>4, <2>5, GetIs
  <2>8. /\ Roomy(u, K) /\ SizeNode(u) = SizeNode(x) /\ Len(u.arr) = Len(x.arr)
        /\ u.lenhint = x.lenhint /\ (ArrKeys(x) => ArrKeys(u))
        /\ \A y \in Key : Get(u, y) = IF y = k THEN nd.val ELSE Get(x, y)
    BY <2>1, <2>2, <2>4, <2>6, <2>7, PutIs
  <2>9. ASSUME NEW y \in Key PROVE Get(u, y) = Given(y, i)
    <3>1. CASE y = k
      BY <3>1, <2>2, <2>3, <2>8, <1>3, <1>5
    <3>2. CASE y # k
      <4>1. FindNode(z, y, FALSE) # i - 1
        BY <3>2, <1>2 DEF k
      <4>2. Given(y, i) = Given(y, i - 1)
        BY <4>1, <1>3
      <4>3. QED
        BY <4>2, <3>2, <2>8, <2>4
    <3>3. QED
      BY <3>1, <3>2
  <2>10. QED
    BY <2>4, <2>8, <2>9 DEF NodesDone, nd
<1>6. QED
  BY <1>4, <1>5

(* All old nodes are reinserted (reinserthash).                            *)
LEMMA ReinsertedIs ==
  ASSUME NEW p, NEW K, NEW z, Fits(p, K, z)
  PROVE  NodesDone(p, K, z, Reinserted(p, z.node, SizeNode(z)), SizeNode(z))
<1> DEFINE n == SizeNode(z)
           Good(x, i) == NodesDone(p, K, z, x, i)
           Put(x, i) == ReinsertNode(x, z.node[i - 1])
           Step(W) == W = [i \in 0 .. n |-> IF i = 0 THEN p ELSE Put(W[i - 1], i)]
           G == [i \in 1 .. n |-> [x \in Tables |-> IF Put(x, i) \in Tables THEN Put(x, i) ELSE x]]
<1>1. n \in Nat /\ p \in Tables
  BY TableSize DEF Fits, Roomy, Sound
<1>2. \A x, i : Good(x, i) => x \in Tables
  BY DEF NodesDone, Roomy, Sound
<1>3. ASSUME NEW i \in 1 .. n, NEW x, Good(x, i - 1) PROVE Good(Put(x, i), i)
  BY <1>3, NodeStep
<1>4. Good(p, 0)
  <2>1. \A j : ~(j \in 0 .. 0 - 1)
    OBVIOUS
  <2>2. QED
    BY <2>1 DEF NodesDone, Fits
<1>5. Steps(G, n, Tables)
  <2> HIDE DEF Put
  <2> QED
    BY DEF Steps
<1>6. \A i \in 1 .. n : \A x \in Tables : Put(x, i) \in Tables => G[i][x] = Put(x, i)
  <2> HIDE DEF Put
  <2> QED
    OBVIOUS
<1> HIDE DEF n, Good, Put, G
<1>7. ASSUME NEW W, W[0] = p, \A i \in 1 .. n : Good(W[i - 1], i - 1) => W[i] = Put(W[i - 1], i)
      PROVE  \A i \in 0 .. n : Good(W[i], i)
  <2> DEFINE B == {i \in 0 .. n : Good(W[i], i)}
  <2>1. 0 \in B
    BY <1>1, <1>4, <1>7
  <2>2. \A i \in 1 .. n : i - 1 \in B => i \in B
    BY <1>1, <1>3, <1>7
  <2>3. B = 0 .. n
    <3> HIDE DEF B
    <3> QED
      BY <2>1, <2>2, <1>1, Reaches, B \subseteq 0 .. n DEF B
  <2>4. QED
    BY <2>3
<1>8. \E W : Step(W)
  <2>1. PICK W : Iteration(W, G, n, Tables, p)
    BY <1>1, <1>5, Iterates
  <2>2. W \in [0 .. n -> Tables] /\ W[0] = p /\ \A i \in 1 .. n : W[i] = G[i][W[i - 1]]
    BY <2>1 DEF Iteration
  <2>3. ASSUME NEW i \in 1 .. n, Good(W[i - 1], i - 1) PROVE W[i] = Put(W[i - 1], i)
    <3>1. W[i - 1] \in Tables /\ Put(W[i - 1], i) \in Tables
      BY <2>3, <1>2, <1>3
    <3>2. QED
      BY <3>1, <2>2, <1>6
  <2>4. \A i \in 0 .. n : Good(W[i], i)
    BY <2>2, <2>3, <1>7
  <2>5. \A i \in 0 .. n : W[i] = IF i = 0 THEN p ELSE Put(W[i - 1], i)
    <3>1. ASSUME NEW i \in 0 .. n, i # 0 PROVE W[i] = Put(W[i - 1], i)
      <4>1. i \in 1 .. n /\ i - 1 \in 0 .. n
        BY <3>1, <1>1
      <4>2. QED
        BY <4>1, <2>3, <2>4
    <3>2. QED
      BY <3>1, <2>2
  <2>6. Step(W)
    BY <2>2, <2>5
  <2>7. QED
    BY <2>6
<1> DEFINE D1 == CHOOSE W : Step(W)
<1>9. Reinserted(p, z.node, SizeNode(z)) = D1[n]
  BY DEF Reinserted, n, Put
<1>10. Step(D1)
  <2> HIDE DEF Step
  <2> QED
    BY <1>8
<1> HIDE DEF D1
<1>11. D1[0] = p /\ \A i \in 1 .. n : D1[i] = Put(D1[i - 1], i)
  BY <1>10, <1>1
<1>12. Good(D1[n], n)
  BY <1>1, <1>7, <1>11
<1>13. QED
  BY <1>9, <1>12 DEF Good, n

-----------------------------------------------------------------------------
(* Only int keys are in the array part, and not in the hash part at the same time. *)
Apart(s) == \A i \in DOMAIN s.node : s.node[i].val # Empty => ~InArray(s, s.node[i].key)

(* The hint is in the array part.  A fine table is all that the steps of   *)
(* Table keep of it.                                                       *)
Hinted(s) == Len(s.arr) > 0 => s.lenhint <= Len(s.arr)
Fine(s) == Sound(s) /\ PowerSize(s) /\ Apart(s) /\ ArrKeys(s) /\ Hinted(s)

(* u has the fields of s; if the table is weak, perhaps not all.           *)
Keeps(s, u) == \A y \in Key : Get(u, y) = Get(s, y) \/ (Weak /\ Get(u, y) = Empty)

(* u is s with some nodes emptied or made dead.                            *)
Swept(s, u) ==
  /\ u \in Tables /\ u.lastfree = s.lastfree /\ u.lenhint = s.lenhint
  /\ Len(u.arr) = Len(s.arr) /\ DOMAIN u.node = DOMAIN s.node
  /\ \A i \in 1 .. Len(s.arr) : u.arr[i] = s.arr[i] \/ (Weak /\ u.arr[i] = Empty)
  /\ \A i \in DOMAIN s.node :
       /\ u.node[i].key = s.node[i].key /\ u.node[i].next = s.node[i].next
       /\ u.node[i].val = s.node[i].val \/ (Weak /\ u.node[i].val = Empty)
       /\ s.node[i].dead => u.node[i].dead
       /\ u.node[i].dead => s.node[i].dead \/ (u.node[i].val = Empty /\ s.node[i].key # NilKey)

(* A collection empties nodes of weak values and kills keys.               *)
LEMMA CollectedIs ==
  ASSUME NEW s \in Tables, NEW u, u = Collected(s)
  PROVE  Swept(s, u)
<1> DEFINE kept(v) == IF v \in Unused(s) THEN Empty ELSE v
           swept(nd) == [nd EXCEPT !.val = kept(nd.val),
                                   !.dead = @ \/ (kept(nd.val) = Empty /\ Collectable(nd.key))]
           A == [i \in DOMAIN s.arr |-> kept(s.arr[i])]
           V == [i \in DOMAIN s.node |-> swept(s.node[i])]
<1>1. u = [s EXCEPT !.arr = A, !.node = V]
  BY DEF Collected, Tables
<1>2. ASSUME NEW v PROVE kept(v) = v \/ kept(v) = Empty
  OBVIOUS
<1>3. /\ \A i \in DOMAIN s.arr : ~Weak => kept(s.arr[i]) = s.arr[i]
      /\ \A i \in DOMAIN s.node : ~Weak => kept(s.node[i].val) = s.node[i].val
  BY DEF Unused, Entries
<1>4. s.arr \in Seq(Value \cup {Empty}) /\ DOMAIN s.arr = 1 .. Len(s.arr)
  BY DEF Tables
<1>5. s.node \in [DOMAIN s.node -> Node]
  BY TableSize
<1>6. ASSUME NEW nd \in Node
      PROVE  /\ swept(nd) \in Node /\ swept(nd).key = nd.key /\ swept(nd).next = nd.next
             /\ swept(nd).val = kept(nd.val)
             /\ swept(nd).dead = (nd.dead \/ (kept(nd.val) = Empty /\ Collectable(nd.key)))
  <2> HIDE DEF kept
  <2>1. kept(nd.val) \in Value \cup {Empty}
    BY <1>2 DEF Node
  <2>2. Collectable(nd.key) \in BOOLEAN
    BY DEF Collectable
  <2>3. QED
    BY <2>1, <2>2 DEF Node
<1>7. ~Collectable(NilKey)
  BY DEF Collectable, NilKey, KeyOf
<1> HIDE DEF kept, swept
<1>8. A \in Seq(Value \cup {Empty}) /\ Len(A) = Len(s.arr)
      /\ \A i \in 1 .. Len(s.arr) : A[i] = kept(s.arr[i])
  <2>1. \A i \in 1 .. Len(s.arr) : kept(s.arr[i]) \in Value \cup {Empty}
    BY <1>2, <1>4
  <2>2. Len(s.arr) \in Nat
    BY <1>4
  <2>3. QED
    BY <2>1, <2>2, <1>4
<1>9. V \in [DOMAIN s.node -> Node] /\ \A i \in DOMAIN s.node : V[i] = swept(s.node[i])
  BY <1>5, <1>6
<1> HIDE DEF A, V
<1>10. /\ u.arr = A /\ u.node = V /\ u.lastfree = s.lastfree /\ u.lenhint = s.lenhint
       /\ u \in Tables
  <2>1. V \in Vectors
    BY <1>9, TableSize DEF Vectors
  <2>2. QED
    BY <1>1, <1>8, <2>1 DEF Tables
<1>11. \A i \in 1 .. Len(s.arr) : u.arr[i] = s.arr[i] \/ (Weak /\ u.arr[i] = Empty)
  BY <1>2, <1>3, <1>4, <1>8, <1>10
<1>12. ASSUME NEW i \in DOMAIN s.node
       PROVE  /\ u.node[i].key = s.node[i].key /\ u.node[i].next = s.node[i].next
              /\ u.node[i].val = s.node[i].val \/ (Weak /\ u.node[i].val = Empty)
              /\ s.node[i].dead => u.node[i].dead
              /\ u.node[i].dead => s.node[i].dead \/ (u.node[i].val = Empty /\ s.node[i].key # NilKey)
  <2>1. s.node[i] \in Node /\ u.node[i] = swept(s.node[i])
    BY <1>5, <1>9, <1>10
  <2>2. /\ u.node[i].key = s.node[i].key /\ u.node[i].next = s.node[i].next
        /\ u.node[i].val = kept(s.node[i].val)
        /\ u.node[i].dead = (s.node[i].dead \/ (kept(s.node[i].val) = Empty /\ Collectable(s.node[i].key)))
    BY <2>1, <1>6
  <2>3. QED
    BY <2>2, <1>2, <1>3, <1>7
<1>13. DOMAIN u.node = DOMAIN s.node /\ Len(u.arr) = Len(s.arr)
  BY <1>8, <1>9, <1>10
<1>14. QED
  BY <1>10, <1>11, <1>12, <1>13 DEF Swept

(* The same keys in the same chains, whose values may differ and whose     *)
(* keys may have become dead.                                              *)
Alike(s, u) ==
  /\ u \in Tables /\ u.lastfree = s.lastfree /\ DOMAIN u.node = DOMAIN s.node
  /\ \A i \in DOMAIN s.node :
       /\ u.node[i].key = s.node[i].key /\ u.node[i].next = s.node[i].next
       /\ s.node[i].dead => u.node[i].dead
       /\ u.node[i].dead => s.node[i].key # NilKey
       /\ u.node[i].val # Empty => s.node[i].key # NilKey /\ ~u.node[i].dead

(* Emptied and dead nodes keep the chains as they are.                     *)
LEMMA AlikeSound ==
  ASSUME NEW s, Sound(s), NEW u, Alike(s, u)
  PROVE  Sound(u) /\ SizeNode(u) = SizeNode(s)
<1> DEFINE V == s.node
           U == u.node
<1>1. /\ s \in Tables /\ u \in Tables /\ DOMAIN U = DOMAIN V
      /\ \A i \in DOMAIN V : U[i].key = V[i].key /\ U[i].next = V[i].next
      /\ \A i \in DOMAIN V : V[i].dead => U[i].dead
      /\ \A i \in DOMAIN V : U[i].dead => V[i].key # NilKey
      /\ \A i \in DOMAIN V : U[i].val # Empty => V[i].key # NilKey /\ ~U[i].dead
      /\ LinksOk(V) /\ OneBefore(V) /\ Ranked(V) /\ AtHome(V, Home(s)) /\ LiveFirst(V)
      /\ ValuesOk(V) /\ FreeBelow(s)
  BY DEF Alike, Sound, Chained
<1>2. SizeNode(u) = SizeNode(s) /\ Home(u) = Home(s) /\ HasLastFree(u) = HasLastFree(s)
  BY <1>1 DEF SizeNode, Home, MainPosition, HasLastFree
<1>3. LinksOk(U)
  BY <1>1 DEF LinksOk
<1>4. OneBefore(U) /\ Ranked(U)
  BY <1>1 DEF OneBefore, Ranked, Descends
<1>5. \A a, b : Reach(V, a, b) => Reach(U, a, b)
  BY <1>1, ReachSame
<1>6. AtHome(U, Home(s))
  <2>1. SUFFICES ASSUME NEW i \in DOMAIN V, V[i].key # NilKey
                 PROVE  /\ U[Home(s)[V[i].key]].key # NilKey
                        /\ Home(s)[U[Home(s)[V[i].key]].key] = Home(s)[V[i].key]
                        /\ Reach(U, Home(s)[V[i].key], i)
    BY <1>1 DEF AtHome
  <2> DEFINE m == Home(s)[V[i].key]
  <2>2. V[m].key # NilKey /\ Home(s)[V[m].key] = m /\ Reach(V, m, i)
    BY <1>1, <2>1 DEF AtHome
  <2>3. m \in DOMAIN V
    <3>1. V[i].key \in Key /\ ~IsDummy(s)
      BY <1>1, <2>1, NodeType, TableSize DEF IsDummy
    <3>2. QED
      BY <1>1, <3>1, TableVector DEF Vector
  <2> HIDE DEF m
  <2>4. U[m].key # NilKey /\ Home(s)[U[m].key] = m /\ Reach(U, m, i)
    BY <1>1, <1>5, <2>2, <2>3
  <2>5. QED
    BY <2>4 DEF m
<1>7. LiveFirst(U)
  <2>1. SUFFICES ASSUME NEW i \in DOMAIN V, NEW j \in DOMAIN V,
                        V[i].key = V[j].key, V[i].key # NilKey, ~U[i].dead
                 PROVE  Reach(U, i, j)
    BY <1>1 DEF LiveFirst
  <2>2. ~V[i].dead
    BY <1>1, <2>1
  <2>3. Reach(V, i, j)
    BY <1>1, <2>1, <2>2 DEF LiveFirst
  <2>4. QED
    BY <2>3, <1>5
<1>8. ValuesOk(U)
  BY <1>1 DEF ValuesOk
<1>9. FreeBelow(u)
  BY <1>1, <1>2 DEF FreeBelow, Alike
<1>10. QED
  BY <1>1, <1>2, <1>3, <1>4, <1>6, <1>7, <1>8, <1>9 DEF Sound, Chained

(* A collection keeps the keys where they are.                             *)
LEMMA SweptAlike ==
  ASSUME NEW s, Sound(s), NEW u, Swept(s, u)
  PROVE  Alike(s, u)
<1>1. \A i \in DOMAIN s.node :
        /\ s.node[i].val # Empty => s.node[i].key # NilKey /\ ~s.node[i].dead
        /\ s.node[i].dead => s.node[i].key # NilKey
  BY DEF Sound, Chained, ValuesOk
<1>2. ASSUME NEW i \in DOMAIN s.node
      PROVE  /\ u.node[i].dead => s.node[i].key # NilKey
             /\ u.node[i].val # Empty => s.node[i].key # NilKey /\ ~u.node[i].dead
  BY <1>1 DEF Swept
<1>3. QED
  BY <1>2 DEF Swept, Alike

(* It keeps the chains.                                                    *)
LEMMA SweptSound ==
  ASSUME NEW s, Sound(s), NEW u, Swept(s, u)
  PROVE  Sound(u) /\ SizeNode(u) = SizeNode(s)
BY SweptAlike, AlikeSound

(* It keeps a table fine, and its fields unless they are weak.             *)
LEMMA SweptFine ==
  ASSUME NEW s, Fine(s), NEW u, Swept(s, u)
  PROVE  Fine(u) /\ Keeps(s, u)
<1>1. /\ Sound(s) /\ PowerSize(s) /\ Apart(s) /\ ArrKeys(s) /\ Hinted(s)
      /\ Sound(u) /\ SizeNode(u) = SizeNode(s)
  BY SweptSound DEF Fine
<1>2. PowerSize(u)
  BY <1>1 DEF PowerSize, IsDummy
<1>3. \A y : InArray(u, y) <=> InArray(s, y)
  BY DEF InArray, Swept
<1>4. Apart(u)
  BY <1>1, <1>3 DEF Apart, Swept
<1>5. ArrKeys(u) /\ Hinted(u)
  BY <1>1 DEF ArrKeys, Hinted, Swept
<1>6. ASSUME NEW y \in Key, InArray(s, y)
      PROVE  Get(u, y) = Get(s, y) \/ (Weak /\ Get(u, y) = Empty)
  BY <1>3, <1>6, GetIs DEF Swept, InArray
<1>7. ASSUME NEW y \in Key
      PROVE  HashGet(u, y) = HashGet(s, y) \/ (Weak /\ HashGet(u, y) = Empty)
  <2>1. \A i \in DOMAIN s.node : u.node[i].val # Empty => Same(u.node[i], s.node[i])
    <3>1. ASSUME NEW i \in DOMAIN s.node, u.node[i].val # Empty
          PROVE  Same(u.node[i], s.node[i])
      <4>1. u.node[i].key = s.node[i].key /\ u.node[i].val = s.node[i].val
        BY <3>1 DEF Swept
      <4>2. ~u.node[i].dead /\ ~s.node[i].dead
        BY <3>1, <4>1, <1>1, HashHas DEF Swept
      <4>3. u.node[i].dead \in BOOLEAN /\ s.node[i].dead \in BOOLEAN
        BY <1>1, NodeType DEF Sound, Swept
      <4>4. QED
        BY <4>1, <4>2, <4>3 DEF Same
    <3>2. QED
      BY <3>1
  <2>2. DOMAIN u.node = DOMAIN s.node
    BY DEF Swept
  <2>3. CASE ~Weak
    <3>1. \A i \in DOMAIN s.node : u.node[i].val = s.node[i].val
      BY <2>3 DEF Swept
    <3>2. HashGet(u, y) = HashGet(s, y)
      BY <2>1, <2>2, <3>1, <1>1, HashSame
    <3>3. QED
      BY <3>2
  <2>4. CASE Weak
    <3>1. SUFFICES ASSUME HashGet(u, y) # Empty PROVE HashGet(u, y) = HashGet(s, y)
      BY <2>4
    <3>2. PICK i \in DOMAIN u.node : u.node[i].key = y /\ u.node[i].val = HashGet(u, y)
      BY <3>1, <1>1, HashFrom, KeyType
    <3>3. s.node[i].key = y /\ s.node[i].val = HashGet(u, y)
      BY <3>1, <3>2, <2>1, <2>2 DEF Same
    <3>4. QED
      BY <3>1, <3>2, <3>3, <2>2, <1>1, HashHas
  <2>5. QED
    BY <2>3, <2>4
<1>8. Keeps(s, u)
  BY <1>3, <1>6, <1>7, GetIs DEF Keeps
<1>9. QED
  BY <1>1, <1>2, <1>4, <1>5, <1>8 DEF Fine

-----------------------------------------------------------------------------
(* An element of an array part of size na.                                 *)
InPart(y, na) == y.kind = "int" /\ y.id \in 1 .. na

(* K is a set of at most nh keys, with all those of s that an array part of *)
(* size na has no place for, and no other that it has.                     *)
Split(s, K, na, nh) ==
  /\ na \in Nat /\ nh \in Nat
  /\ K \subseteq Key /\ IsFiniteSet(K) /\ Cardinality(K) <= nh
  /\ \A y \in K : ~InPart(y, na)
  /\ \A y \in Key : Get(s, y) # Empty /\ ~InPart(y, na) => y \in K

(* Fields are kept over two changes.                                       *)
LEMMA KeepsTrans ==
  ASSUME NEW a, NEW b, NEW c, Keeps(a, b), Keeps(b, c)
  PROVE  Keeps(a, c)
BY DEF Keeps

(* A table keeps its own fields.                                           *)
LEMMA KeepsSelf ==
  ASSUME NEW a PROVE Keeps(a, a)
BY DEF Keeps

(* A table after a collection that an allocation may need.                 *)
LEMMA SweptMaybe ==
  ASSUME NEW s, Fine(s), NEW b, NEW u, u = IF b THEN Collected(s) ELSE s
  PROVE  Fine(u) /\ Keeps(s, u) /\ Len(u.arr) = Len(s.arr)
<1>1. CASE b
  <2>1. Swept(s, u)
    BY <1>1, CollectedIs DEF Fine, Sound
  <2>2. QED
    BY <2>1, SweptFine DEF Swept
<1>2. CASE ~b
  BY <1>2, KeepsSelf
<1>3. QED
  BY <1>1, <1>2

(* u is s with an array part of size na, with what arr has for it.         *)
Rearranged(s, arr, na, u) ==
  /\ Len(u.arr) = na /\ SizeNode(u) = SizeNode(s)
  /\ u.lenhint = IF na > 0 THEN na \div 2 ELSE s.lenhint
  /\ \A i \in 1 .. na : u.arr[i] = IF i <= Len(arr) THEN arr[i] ELSE Empty
  /\ \A k : HashGet(u, k) = HashGet(s, k)

(* The values of an array part have keys.                                  *)
IntKeys(arr) == \A i \in 1 .. Len(arr) : arr[i] # Empty => IntKey(i) \in Key

(* The array part gets its new size.                                       *)
LEMMA ResizeArrayIs ==
  ASSUME NEW s, NEW K, Roomy(s, K), NEW arr \in Seq(Value \cup {Empty}), NEW na \in Nat,
         IntKeys(arr), NEW u, u = ResizeArray(s, arr, na)
  PROVE  Roomy(u, K) /\ ArrKeys(u) /\ Rearranged(s, arr, na, u)
<1> DEFINE A == [i \in 1 .. na |-> IF i <= Len(arr) THEN arr[i] ELSE Empty]
           w == [s EXCEPT !.arr = A]
           l == IF na > 0 THEN na \div 2 ELSE s.lenhint
<1>1. /\ A \in Seq(Value \cup {Empty}) /\ Len(A) = na
      /\ \A i \in 1 .. na : A[i] = IF i <= Len(arr) THEN arr[i] ELSE Empty
  <2>1. \A i \in 1 .. na : i <= Len(arr) => arr[i] \in Value \cup {Empty}
    OBVIOUS
  <2>2. QED
    BY <2>1
<1>2. s \in Tables /\ Sound(s)
  BY DEF Roomy, Sound
<1>3. l \in Nat
  <2>1. na \div 2 \in Nat /\ s.lenhint \in Nat
    BY <1>2 DEF Tables
  <2>2. QED
    BY <2>1
<1>4. u = [w EXCEPT !.lenhint = l]
  BY <1>2 DEF ResizeArray, Tables
<1> HIDE DEF A, l
<1>5. /\ w \in Tables /\ w.arr = A /\ w.node = s.node /\ w.lenhint = s.lenhint
  <2>1. A \in Seq(Value \cup {Empty}) /\ s \in Tables
    BY <1>1, <1>2
  <2>2. w = [s EXCEPT !.arr = A]
    OBVIOUS
  <2> HIDE DEF w
  <2>3. QED
    BY <2>1, <2>2, WithArr
<1> HIDE DEF w
<1>6. /\ u \in Tables /\ u.arr = A /\ u.node = s.node /\ u.lenhint = l /\ u.lastfree = w.lastfree
  <2>1. u \in Tables
    BY <1>3, <1>4, <1>5 DEF Tables
  <2>2. u.arr = w.arr /\ u.node = w.node /\ u.lenhint = l /\ u.lastfree = w.lastfree
    BY <1>4, <1>5 DEF Tables
  <2>3. QED
    BY <1>5, <2>1, <2>2
<1>7. u.lastfree = s.lastfree
  BY <1>1, <1>2, <1>6, WithArr DEF w
<1>8. /\ SizeNode(u) = SizeNode(s) /\ Sound(u) /\ \A k : HashGet(u, k) = HashGet(s, k)
  BY <1>2, <1>6, <1>7, SameNodes
<1>9. Roomy(u, K)
  BY <1>6, <1>8 DEF Roomy, Filled
<1>10. ArrKeys(u)
  BY <1>1, <1>6 DEF ArrKeys, IntKeys
<1>11. QED
  BY <1>1, <1>6, <1>8, <1>9, <1>10 DEF l, Rearranged

(* A resize without failing allocations keeps every field, and has room    *)
(* for all keys that do not go to the array part.                          *)
LEMMA ResizeIs ==
  ASSUME NEW s, Fine(s), NEW K, NEW na, NEW nh, Split(s, K, na, nh), NEW alloc,
         alloc.hash # "fail", alloc.array # "fail", NEW u, u = Resize(s, na, nh, alloc)
  PROVE  /\ Fine(u) /\ Keeps(s, u) /\ Roomy(u, K) /\ Len(u.arr) = na
         /\ \A y \in K : ~InArray(u, y)
<1> DEFINE s1 == IF alloc.hash # "ok" THEN Collected(s) ELSE s
           q == NodeVector(s1, nh)
           e == ReinsertOldSlice(q, s1.arr, na)
           s2 == IF alloc.array # "ok" THEN Collected(s1) ELSE s1
           p == ResizeArray(e, s2.arr, na)
<1>1. u = Reinserted(p, s2.node, SizeNode(s2))
  BY DEF Resize
<1>2. Fine(s1) /\ Keeps(s, s1) /\ Len(s1.arr) = Len(s.arr)
  BY SweptMaybe
<1> HIDE DEF s1
<1>3. Fine(s2) /\ Keeps(s1, s2) /\ Len(s2.arr) = Len(s1.arr)
  BY <1>2, SweptMaybe
<1> HIDE DEF s2
<1>4. /\ na \in Nat /\ nh \in Nat /\ K \subseteq Key /\ IsFiniteSet(K) /\ Cardinality(K) <= nh
      /\ \A y \in K : ~InPart(y, na)
      /\ \A y \in Key : Get(s, y) # Empty /\ ~InPart(y, na) => y \in K
  BY DEF Split
<1>5. s1 \in Tables /\ s2 \in Tables /\ s1.arr \in Seq(Value \cup {Empty})
      /\ s2.arr \in Seq(Value \cup {Empty}) /\ Len(s1.arr) \in Nat
  BY <1>2, <1>3 DEF Fine, Sound, Tables
<1>6. /\ Sound(q) /\ q.lenhint = s1.lenhint /\ SizeNode(q) >= nh /\ PowerSize(q)
      /\ \A i \in DOMAIN q.node : q.node[i].key = NilKey
      /\ \A k \in Key : HashGet(q, k) = Empty
  BY <1>4, <1>5, NewVector
<1> HIDE DEF q
<1>7. Roomy(q, K)
  <2>1. Cardinality(K) \in Nat /\ SizeNode(q) \in Nat
    BY <1>4, <1>6, FS_CardinalityType, TableSize DEF Sound
  <2>2. Cardinality(K) <= SizeNode(q)
    BY <2>1, <1>4, <1>6
  <2>3. QED
    BY <2>2, <1>4, <1>6 DEF Roomy, Filled
<1>8. \A i \in 1 .. Len(s1.arr) : s1.arr[i] # Empty => IntKey(i) \in Key /\ Get(s1, IntKey(i)) = s1.arr[i]
  <2>1. ASSUME NEW i \in 1 .. Len(s1.arr), s1.arr[i] # Empty
        PROVE  IntKey(i) \in Key /\ Get(s1, IntKey(i)) = s1.arr[i]
    <3>1. IntKey(i) \in Key
      BY <2>1, <1>2 DEF Fine, ArrKeys
    <3>2. IntKey(i).kind = "int" /\ IntKey(i).id = i
      BY DEF IntKey, KeyOf
    <3>3. InArray(s1, IntKey(i))
      BY <3>2 DEF InArray
    <3>4. QED
      BY <3>1, <3>2, <3>3, GetIs
  <2>2. QED
    BY <2>1
<1>9. Slices(q, K, s1.arr, na)
  <2>1. ASSUME NEW i \in 1 .. Len(s1.arr), i > na, s1.arr[i] # Empty PROVE IntKey(i) \in K
    <3>1. IntKey(i) \in Key /\ Get(s1, IntKey(i)) # Empty
      BY <2>1, <1>8
    <3>2. Get(s, IntKey(i)) # Empty
      BY <3>1, <1>2 DEF Keeps
    <3>3. ~InPart(IntKey(i), na)
      BY <2>1, <1>4 DEF InPart, IntKey, KeyOf
    <3>4. QED
      BY <3>1, <3>2, <3>3, <1>4
  <2>2. QED
    BY <2>1, <1>4, <1>5, <1>6, <1>7 DEF Slices
<1>10. SliceDone(q, K, s1.arr, na, e, Len(s1.arr))
  BY <1>9, SliceIs
<1> HIDE DEF e
<1>11. /\ Roomy(e, K) /\ SizeNode(e) = SizeNode(q) /\ e.lenhint = q.lenhint
       /\ \A y \in Key : HashGet(e, y) =
            IF y.kind = "int" /\ y.id \in na + 1 .. Len(s1.arr) THEN s1.arr[y.id] ELSE Empty
  BY <1>10 DEF SliceDone, SameShape
<1>12. IntKeys(s2.arr)
  BY <1>3 DEF Fine, ArrKeys, IntKeys
<1>13. /\ Roomy(p, K) /\ Len(p.arr) = na /\ ArrKeys(p) /\ SizeNode(p) = SizeNode(e)
       /\ p.lenhint = IF na > 0 THEN na \div 2 ELSE e.lenhint
       /\ \A i \in 1 .. na : p.arr[i] = IF i <= Len(s2.arr) THEN s2.arr[i] ELSE Empty
       /\ \A k : HashGet(p, k) = HashGet(e, k)
  <2>1. p = ResizeArray(e, s2.arr, na)
    OBVIOUS
  <2>2. Roomy(e, K) /\ s2.arr \in Seq(Value \cup {Empty}) /\ na \in Nat
    BY <1>4, <1>5, <1>11
  <2> HIDE DEF p
  <2>3. Roomy(p, K) /\ ArrKeys(p) /\ Rearranged(e, s2.arr, na, p)
    BY <2>1, <2>2, <1>12, ResizeArrayIs
  <2>4. QED
    BY <2>3 DEF Rearranged
<1> HIDE DEF p
<1>14. \A y : InArray(p, y) <=> InPart(y, na)
  BY <1>13 DEF InArray, InPart
<1>15. Sound(s2) /\ Apart(s2)
  BY <1>3 DEF Fine
<1>16. ASSUME NEW y \in Key, HashGet(s2, y) # Empty
       PROVE  ~InArray(s2, y) /\ Get(s2, y) = HashGet(s2, y) /\ FindNode(s2, y, FALSE) # Nowhere
              /\ FindNode(s2, y, FALSE) \in DOMAIN s2.node
  <2>1. y.hash \in Nat
    BY KeyType
  <2>2. PICK i \in DOMAIN s2.node : s2.node[i].key = y /\ s2.node[i].val = HashGet(s2, y)
    BY <2>1, <1>15, <1>16, HashFrom
  <2>3. ~InArray(s2, y)
    BY <2>2, <1>15, <1>16 DEF Apart
  <2>4. FindNode(s2, y, FALSE) # Nowhere
    BY <1>16 DEF HashGet
  <2>5. FindNode(s2, y, FALSE) \in DOMAIN s2.node
    BY <2>1, <2>4, <1>15, FindMatches
  <2>6. QED
    BY <2>3, <2>4, <2>5, GetIs
<1>17. Fits(p, K, s2)
  <2>1. \A y \in K : ~InArray(p, y)
    BY <1>4, <1>14
  <2>2. ASSUME NEW y \in Key, HashGet(s2, y) # Empty, ~InArray(p, y)
        PROVE  y \in K /\ HashGet(p, y) = Empty
    <3>1. ~InArray(s2, y) /\ Get(s2, y) # Empty
      BY <2>2, <1>16
    <3>2. Get(s, y) # Empty
      BY <3>1, <1>2, <1>3 DEF Keeps
    <3>3. y \in K
      BY <2>2, <3>2, <1>4, <1>14
    <3>4. ~(y.kind = "int" /\ y.id \in na + 1 .. Len(s1.arr))
      BY <3>1, <1>3, <1>4 DEF InArray
    <3>5. QED
      BY <3>3, <3>4, <1>11, <1>13
  <2>3. QED
    BY <2>1, <2>2, <1>13, <1>15 DEF Fits
<1>18. NodesDone(p, K, s2, u, SizeNode(s2))
  BY <1>1, <1>17, ReinsertedIs
<1>19. /\ Roomy(u, K) /\ SizeNode(u) = SizeNode(p) /\ Len(u.arr) = na
       /\ u.lenhint = p.lenhint /\ ArrKeys(u)
       /\ \A y \in Key : Get(u, y) =
            IF FindNode(s2, y, FALSE) \in 0 .. SizeNode(s2) - 1 /\ HashGet(s2, y) # Empty
            THEN HashGet(s2, y) ELSE Get(p, y)
  BY <1>13, <1>18 DEF NodesDone
<1>20. \A y \in K : ~InArray(u, y)
  BY <1>4, <1>19 DEF InArray, InPart
<1>21. Keeps(s, u)
  <2>1. Keeps(s, s2)
    BY <1>2, <1>3, KeepsTrans
  <2>2. DOMAIN s2.node = 0 .. SizeNode(s2) - 1
    BY <1>5, TableSize
  <2>3. ASSUME NEW y \in Key
        PROVE  Get(u, y) = Get(s2, y) \/ Get(u, y) = Get(s1, y)
    <3>1. CASE HashGet(s2, y) # Empty
      BY <3>1, <1>16, <1>19, <2>2
    <3>2. CASE HashGet(s2, y) = Empty /\ InPart(y, na)
      <4>1. Get(u, y) = IF y.id <= Len(s2.arr) THEN s2.arr[y.id] ELSE Empty
        BY <3>2, <1>13, <1>14, <1>19, GetIs DEF InPart
      <4>2. InArray(s2, y) <=> y.id <= Len(s2.arr)
        BY <3>2, <1>4 DEF InPart, InArray
      <4>3. Get(s2, y) = IF y.id <= Len(s2.arr) THEN s2.arr[y.id] ELSE Empty
        BY <3>2, <4>2, GetIs
      <4>4. QED
        BY <4>1, <4>3
    <3>3. CASE HashGet(s2, y) = Empty /\ ~InPart(y, na)
      <4>1. Get(u, y) = IF y.kind = "int" /\ y.id \in na + 1 .. Len(s1.arr) THEN s1.arr[y.id] ELSE Empty
        BY <3>3, <1>11, <1>13, <1>14, <1>19, GetIs
      <4>2. InArray(s1, y) <=> y.kind = "int" /\ y.id \in na + 1 .. Len(s1.arr)
        BY <3>3, <1>4, <1>5, KeyType DEF InPart, InArray
      <4>3. CASE InArray(s1, y)
        BY <4>1, <4>2, <4>3, GetIs
      <4>4. CASE ~InArray(s1, y)
        <5>1. ~InArray(s2, y)
          BY <4>4, <1>3 DEF InArray
        <5>2. Get(s2, y) = Empty
          BY <5>1, <3>3, GetIs
        <5>3. QED
          BY <4>1, <4>2, <4>4, <5>2
      <4>5. QED
        BY <4>3, <4>4
    <3>4. QED
      BY <3>1, <3>2, <3>3
  <2>4. QED
    BY <2>1, <2>3, <1>2 DEF Keeps
<1>22. PowerSize(u)
  BY <1>6, <1>11, <1>13, <1>19 DEF PowerSize, IsDummy
<1>23. Apart(u)
  <2>1. ASSUME NEW i \in DOMAIN u.node, u.node[i].val # Empty PROVE ~InArray(u, u.node[i].key)
    <3>1. u.node[i].key \in Key
      BY <2>1, <1>19, HashHas DEF Roomy
    <3>2. u.node[i].key \in K
      BY <2>1, <3>1, <1>19, KeyType DEF Roomy, Filled
    <3>3. QED
      BY <3>2, <1>20
  <2>2. QED
    BY <2>1 DEF Apart
<1>24. Hinted(u)
  <2>1. na > 0 => na \div 2 <= na
    BY <1>4
  <2>2. QED
    BY <2>1, <1>13, <1>19 DEF Hinted
<1>25. Fine(u)
  BY <1>19, <1>22, <1>23, <1>24 DEF Fine, Roomy
<1>26. QED
  BY <1>19, <1>20, <1>21, <1>25

(* A resize that gets no memory leaves the table as it was, but for a collection. *)
LEMMA ResizeFails ==
  ASSUME NEW s, Fine(s), NEW na, NEW nh, NEW alloc,
         alloc.hash = "fail" \/ alloc.array = "fail", NEW u, u = Resize(s, na, nh, alloc)
  PROVE  Fine(u) /\ Keeps(s, u) /\ Len(u.arr) = Len(s.arr)
<1> DEFINE s1 == IF alloc.hash # "ok" THEN Collected(s) ELSE s
           s2 == IF alloc.array # "ok" THEN Collected(s1) ELSE s1
<1>1. u = IF alloc.hash = "fail" THEN s1 ELSE s2
  BY DEF Resize
<1>2. Fine(s1) /\ Keeps(s, s1) /\ Len(s1.arr) = Len(s.arr)
  BY SweptMaybe
<1> HIDE DEF s1
<1>3. Fine(s2) /\ Keeps(s1, s2) /\ Len(s2.arr) = Len(s1.arr)
  BY <1>2, SweptMaybe
<1> HIDE DEF s2
<1>4. QED
  BY <1>1, <1>2, <1>3, KeepsTrans

-----------------------------------------------------------------------------
(* How many of the indices are at most n.                                  *)
UpTo(indices, n) == Cardinality(indices \cap (1 .. n))

(* A finite set of array indices.                                          *)
Indices(I) == I \subseteq Nat \ {0} /\ IsFiniteSet(I)

(* Indices are counted slice by slice.                                     *)
LEMMA UpToIs ==
  ASSUME NEW I, Indices(I), NEW m \in Nat, NEW n \in Nat, m <= n
  PROVE  /\ UpTo(I, m) \in Nat /\ UpTo(I, m) <= UpTo(I, n) /\ UpTo(I, n) <= Cardinality(I)
         /\ Cardinality(I) \in Nat /\ UpTo(I, n) \in Nat
         /\ UpTo(I, n) = UpTo(I, m) + Cardinality(I \cap (m + 1 .. n))
         /\ Cardinality(I \cap (m + 1 .. n)) \in Nat
<1> DEFINE A == I \cap (1 .. m)
           B == I \cap (m + 1 .. n)
           C == I \cap (1 .. n)
<1>1. IsFiniteSet(I) /\ Cardinality(I) \in Nat
  BY FS_CardinalityType DEF Indices
<1>2. A \in SUBSET I /\ B \in SUBSET I /\ C \in SUBSET I /\ A \cap B = {} /\ A \cup B = C
  OBVIOUS
<1> HIDE DEF A, B, C
<1>3. IsFiniteSet(A) /\ IsFiniteSet(B) /\ IsFiniteSet(C) /\ Cardinality(C) <= Cardinality(I)
  BY <1>1, <1>2, FS_Subset
<1>4. Cardinality(A) \in Nat /\ Cardinality(B) \in Nat /\ Cardinality(C) \in Nat
  BY <1>3, FS_CardinalityType
<1>5. Cardinality(C) = Cardinality(A) + Cardinality(B) - Cardinality({})
  BY <1>2, <1>3, FS_Union
<1>6. Cardinality({}) = 0
  BY FS_EmptySet
<1>7. UpTo(I, m) = Cardinality(A) /\ UpTo(I, n) = Cardinality(C)
  BY DEF UpTo, A, C
<1>8. Cardinality(I \cap (m + 1 .. n)) = Cardinality(B)
  BY DEF B
<1>9. QED
  BY <1>1, <1>3, <1>4, <1>5, <1>6, <1>7, <1>8

(* Counts are natural numbers.                                             *)
LEMMA UpToType ==
  ASSUME NEW I, Indices(I), NEW n \in Nat
  PROVE  UpTo(I, n) \in Nat /\ UpTo(I, n) <= Cardinality(I) /\ Cardinality(I) \in Nat
<1>1. n <= n
  OBVIOUS
<1>2. QED
  BY <1>1, UpToIs

(* A finite set of numbers is bounded.                                     *)
LEMMA Bounded ==
  ASSUME NEW S \in SUBSET Nat, IsFiniteSet(S)
  PROVE  \E m \in Nat : \A x \in S : x <= m
<1> DEFINE c == Cardinality(S)
<1>1. c \in Nat /\ ExistsBijection(1 .. c, S)
  BY FS_CardinalityType
<1> HIDE DEF c
<1>2. PICK f \in [1 .. c -> S] : \A x \in S : \E i \in 1 .. c : f[i] = x
  BY <1>1 DEF ExistsBijection, Bijection, Injection, Surjection
<1> DEFINE B == {j \in 0 .. c : \E m \in Nat : \A i \in 1 .. j : f[i] <= m}
<1>3. 0 \in B
  BY <1>1
<1>4. ASSUME NEW j \in 1 .. c, j - 1 \in B PROVE j \in B
  <2>1. PICK m \in Nat : \A i \in 1 .. j - 1 : f[i] <= m
    BY <1>4
  <2>2. f[j] \in Nat
    BY <1>2
  <2> DEFINE l == IF f[j] <= m THEN m ELSE f[j]
  <2>3. l \in Nat /\ m <= l /\ f[j] <= l
    BY <2>2
  <2> HIDE DEF l
  <2>4. ASSUME NEW i \in 1 .. j PROVE f[i] <= l
    <3>1. CASE i = j
      BY <3>1, <2>3
    <3>2. CASE i # j
      <4>1. i \in 1 .. j - 1 /\ i \in 1 .. c
        BY <3>2, <1>1
      <4>4. f[i] \in Nat
        BY <4>1, <1>2
      <4>2. f[i] <= m
        BY <4>1, <2>1
      <4>3. QED
        BY <4>4, <4>2, <2>3
    <3>3. QED
      BY <3>1, <3>2
  <2>5. j \in 0 .. c
    BY <1>1
  <2>6. QED
    BY <2>3, <2>4, <2>5
<1>5. B = 0 .. c
  <2> HIDE DEF B
  <2> QED
    BY <1>1, <1>3, <1>4, Reaches, B \subseteq 0 .. c DEF B
<1>6. PICK m \in Nat : \A i \in 1 .. c : f[i] <= m
  <2>1. c \in B
    <3> HIDE DEF B
    <3>1. c \in 0 .. c
      BY <1>1
    <3>2. QED
      BY <3>1, <1>5
  <2>2. QED
    BY <2>1
<1>7. QED
  BY <1>2, <1>6

(* The greatest element of a finite set.                                   *)
LEMMA MaxOf ==
  ASSUME NEW S \in SUBSET Nat, IsFiniteSet(S), S # {}
  PROVE  Max(S) \in S /\ \A x \in S : x <= Max(S)
<1>1. PICK m \in Nat : \A x \in S : x <= m
  BY Bounded
<1>2. S \in SUBSET (0 .. m)
  BY <1>1
<1>3. Max(S) \in S /\ \A x \in S : Max(S) >= x
  BY <1>1, <1>2, MaxIn
<1>4. QED
  BY <1>3

(* All indices are at most the power of two of TopBit.                     *)
LEMMA TopBitIs ==
  ASSUME NEW I, Indices(I)
  PROVE  TopBit(I) \in Nat /\ \A i \in I : i <= TwoTo[TopBit(I)]
<1> DEFINE S == I \cup {1}
<1>1. S \in SUBSET Nat /\ IsFiniteSet(S) /\ S # {}
  BY FS_AddElement DEF Indices
<1>2. Max(S) \in S /\ \A x \in S : x <= Max(S)
  <2> HIDE DEF S
  <2> QED
    BY <1>1, MaxOf
<1>3. Max(S) \in Nat
  BY <1>1, <1>2
<1>4. TopBit(I) = CeilLog2(Max(S))
  BY DEF TopBit
<1>5. TopBit(I) \in Nat /\ TwoTo[TopBit(I)] >= Max(S) /\ TwoTo[TopBit(I)] \in Nat
  BY <1>3, <1>4, CeilLog2Is, TwoToIs
<1> HIDE DEF S
<1>6. \A i \in I : i \in S /\ i \in Nat
  BY DEF S, Indices
<1>7. QED
  BY <1>2, <1>3, <1>5, <1>6

(* The counter of a slice tells the indices up to a power of two from      *)
(* those up to the one before.                                             *)
LEMMA SliceCount ==
  ASSUME NEW I, Indices(I), NEW i \in 0 .. TopBit(I)
  PROVE  /\ Nums(I)[i] \in Nat
         /\ UpTo(I, TwoTo[i]) = (IF i = 0 THEN 0 ELSE UpTo(I, TwoTo[i - 1])) + Nums(I)[i]
<1>1. Nums(I)[i] = Cardinality(I \cap Slice(i)) /\ i \in Nat
  BY TopBitIs DEF Nums
<1>2. CASE i = 0
  <2>1. I \cap Slice(i) = I \cap (1 .. TwoTo[0])
    BY <1>2, TwoToIs DEF Slice
  <2>2. Nums(I)[i] = UpTo(I, TwoTo[0])
    BY <2>1, <1>1 DEF UpTo
  <2>3. TwoTo[0] \in Nat
    BY TwoToIs
  <2>4. QED
    BY <2>2, <2>3, <1>2, UpToType
<1>3. CASE i # 0
  <2> DEFINE m == TwoTo[i - 1]
             n == TwoTo[i]
  <2>1. i - 1 \in Nat /\ i - 1 <= i
    BY <1>1, <1>3
  <2>2. m \in Nat /\ n \in Nat /\ m <= n
    BY <1>1, <2>1, TwoToIs, TwoToGrows
  <2>3. Slice(i) = m + 1 .. n
    BY <1>3 DEF Slice
  <2> HIDE DEF m, n
  <2>4. UpTo(I, n) = UpTo(I, m) + Cardinality(I \cap (m + 1 .. n))
        /\ Cardinality(I \cap (m + 1 .. n)) \in Nat
    BY <2>2, UpToIs
  <2>5. QED
    BY <2>3, <2>4, <1>1, <1>3 DEF m, n
<1>4. QED
  BY <1>2, <1>3

(* What ComputeSizes has after its first n candidates.                     *)
Sizes == [a : Nat, size : Nat, na : Nat]

(* After n candidates: a counts the indices up to the last one tried, na   *)
(* those up to the best size; no candidate worth it has more.              *)
Sized(I, acc, n) ==
  /\ acc \in Sizes
  /\ n = 0 => acc.a = 0
  /\ n > 0 /\ TwoTo[n - 1] <= 3 * Cardinality(I) => acc.a = UpTo(I, TwoTo[n - 1])
  /\ acc.na = UpTo(I, acc.size) /\ acc.size <= 3 * acc.na
  /\ \A i \in 0 .. n - 1 :
       TwoTo[i] <= 3 * UpTo(I, TwoTo[i]) => UpTo(I, TwoTo[i]) <= acc.na

(* One candidate more.                                                     *)
LEMMA TryStep ==
  ASSUME NEW I, Indices(I), NEW n \in 1 .. TopBit(I) + 1, NEW acc, Sized(I, acc, n - 1)
  PROVE  Sized(I, TrySize(acc, n - 1, Nums(I)[n - 1], Cardinality(I)), n)
<1> DEFINE i == n - 1
           count == Nums(I)[i]
           total == Cardinality(I)
           two == TwoTo[i]
           here == UpTo(I, two)
           before == IF i = 0 THEN 0 ELSE UpTo(I, TwoTo[i - 1])
           new == TrySize(acc, i, count, total)
<1>1. TopBit(I) \in Nat /\ n \in Nat /\ i \in Nat /\ i \in 0 .. TopBit(I)
  <2>1. TopBit(I) \in Nat
    BY TopBitIs
  <2>2. QED
    BY <2>1
<1>2. count \in Nat /\ here = before + count
  BY <1>1, SliceCount
<1>3. two \in Nat \ {0} /\ here \in Nat /\ here <= total /\ total \in Nat
  <2>1. two \in Nat \ {0}
    BY <1>1, TwoToPositive
  <2>2. QED
    BY <2>1, UpToType
<1>4. i # 0 => /\ i - 1 \in Nat /\ TwoTo[i - 1] \in Nat /\ TwoTo[i - 1] <= two
               /\ UpTo(I, TwoTo[i - 1]) \in Nat
  <2>1. SUFFICES ASSUME i # 0
                 PROVE /\ i - 1 \in Nat /\ TwoTo[i - 1] \in Nat /\ TwoTo[i - 1] <= two
                       /\ UpTo(I, TwoTo[i - 1]) \in Nat
    OBVIOUS
  <2>2. i - 1 \in Nat /\ i - 1 <= i
    BY <1>1, <2>1
  <2>3. TwoTo[i - 1] \in Nat /\ TwoTo[i - 1] <= two
    BY <1>1, <2>2, TwoToIs, TwoToGrows
  <2>4. UpTo(I, TwoTo[i - 1]) \in Nat
    BY <2>3, UpToType
  <2>5. QED
    BY <2>2, <2>3, <2>4
<1>5. /\ acc \in Sizes /\ acc.a \in Nat /\ acc.size \in Nat /\ acc.na \in Nat
      /\ acc.na = UpTo(I, acc.size) /\ acc.size <= 3 * acc.na
      /\ \A j \in 0 .. i - 1 : TwoTo[j] <= 3 * UpTo(I, TwoTo[j]) => UpTo(I, TwoTo[j]) <= acc.na
      /\ two <= 3 * total => acc.a = before
  <2>1. /\ acc \in Sizes /\ acc.a \in Nat /\ acc.size \in Nat /\ acc.na \in Nat
        /\ acc.na = UpTo(I, acc.size) /\ acc.size <= 3 * acc.na
        /\ \A j \in 0 .. i - 1 : TwoTo[j] <= 3 * UpTo(I, TwoTo[j]) => UpTo(I, TwoTo[j]) <= acc.na
    BY DEF Sized, Sizes
  <2>2. ASSUME two <= 3 * total PROVE acc.a = before
    <3>1. CASE i = 0
      BY <3>1 DEF Sized
    <3>2. CASE i # 0
      <4>1. TwoTo[i - 1] <= 3 * total /\ i > 0
        BY <3>2, <2>2, <1>1, <1>3, <1>4
      <4>2. QED
        BY <4>1, <3>2 DEF Sized
    <3>3. QED
      BY <3>1, <3>2
  <2>3. QED
    BY <2>1, <2>2
<1>6. ASSUME NEW j \in 0 .. i - 1 PROVE UpTo(I, TwoTo[j]) <= here /\ UpTo(I, TwoTo[j]) \in Nat
  <2>1. j \in Nat /\ j <= i
    BY <1>1
  <2>2. TwoTo[j] \in Nat /\ TwoTo[j] <= two
    BY <2>1, <1>1, TwoToIs, TwoToGrows
  <2>3. QED
    BY <2>2, <1>3, UpToIs
<1>7. \A j : j \in 0 .. n - 1 <=> j \in 0 .. i - 1 \/ j = i
  BY <1>1
<1> HIDE DEF count, total, two, here, before
<1>8. CASE two > 3 * total
  <2>1. new = acc
    BY <1>3, <1>8 DEF TrySize, ArrayXHash, two, total
  <2>2. ~(two <= 3 * here)
    BY <1>3, <1>8
  <2>3. ~(TwoTo[n - 1] <= 3 * Cardinality(I)) /\ n # 0
    BY <1>1, <1>3, <1>8 DEF two, total
  <2>4. \A j \in 0 .. n - 1 : TwoTo[j] <= 3 * UpTo(I, TwoTo[j]) => UpTo(I, TwoTo[j]) <= acc.na
    BY <1>5, <1>7, <2>2 DEF here, two
  <2>5. Sized(I, acc, n)
    BY <1>5, <2>3, <2>4 DEF Sized
  <2>6. QED
    BY <2>1, <2>5 DEF count, total
<1>9. CASE two <= 3 * total /\ count > 0 /\ two <= 3 * here
  <2>1. new = [a |-> here, size |-> two, na |-> here]
    BY <1>2, <1>3, <1>5, <1>9 DEF TrySize, ArrayXHash, two, total
  <2>2. new \in Sizes /\ new.a = here /\ new.size = two /\ new.na = here
    BY <2>1, <1>3 DEF Sizes
  <2> HIDE DEF new
  <2>3. \A j \in 0 .. n - 1 : TwoTo[j] <= 3 * UpTo(I, TwoTo[j]) => UpTo(I, TwoTo[j]) <= new.na
    <3>1. UpTo(I, TwoTo[i]) <= here
      BY <1>3 DEF here, two
    <3>2. QED
      BY <3>1, <2>2, <1>6, <1>7
  <2>4. Sized(I, new, n)
    BY <1>1, <1>9, <2>2, <2>3 DEF Sized, here, two
  <2>5. QED
    BY <2>4 DEF new, count, total
<1>10. CASE two <= 3 * total /\ ~(count > 0 /\ two <= 3 * here)
  <2>1. new = [a |-> here, size |-> acc.size, na |-> acc.na]
    BY <1>2, <1>3, <1>5, <1>10 DEF TrySize, ArrayXHash, two, total
  <2>2. new \in Sizes /\ new.a = here /\ new.size = acc.size /\ new.na = acc.na
    BY <2>1, <1>3, <1>5 DEF Sizes
  <2>3. two <= 3 * here => here <= acc.na
    <3>1. SUFFICES ASSUME two <= 3 * here PROVE here <= acc.na
      OBVIOUS
    <3>2. count = 0 /\ here = before
      BY <1>2, <1>3, <1>10, <3>1, <1>4 DEF before
    <3>3. i # 0
      BY <3>1, <3>2, <1>3 DEF before
    <3>4. i - 1 \in 0 .. i - 1 /\ here = UpTo(I, TwoTo[i - 1])
      BY <3>2, <3>3, <1>1, <1>4 DEF before
    <3>5. TwoTo[i - 1] <= 3 * UpTo(I, TwoTo[i - 1])
      BY <3>1, <3>3, <3>4, <1>3, <1>4
    <3>6. QED
      BY <3>4, <3>5, <1>5
  <2> HIDE DEF new
  <2>4. \A j \in 0 .. n - 1 : TwoTo[j] <= 3 * UpTo(I, TwoTo[j]) => UpTo(I, TwoTo[j]) <= new.na
    BY <2>2, <2>3, <1>5, <1>7 DEF here, two
  <2>5. Sized(I, new, n)
    BY <1>1, <1>5, <2>2, <2>4 DEF Sized, here, two
  <2>6. QED
    BY <2>5 DEF new, count, total
<1>11. QED
  BY <1>3, <1>8, <1>9, <1>10

(* computesizes tries every candidate.                                     *)
LEMMA ComputeSizesIs ==
  ASSUME NEW I, Indices(I)
  PROVE  Sized(I, ComputeSizes(I), TopBit(I) + 1)
<1> DEFINE n == TopBit(I) + 1
           c == Cardinality(I)
           first == [a |-> 0, size |-> 0, na |-> 0]
           Put(x, i) == TrySize(x, i - 1, Nums(I)[i - 1], c)
           Step(W) == W = [i \in 0 .. n |-> IF i = 0 THEN first ELSE Put(W[i - 1], i)]
           G == [i \in 1 .. n |-> [x \in Sizes |-> Put(x, i)]]
<1>1. n \in Nat /\ TopBit(I) \in Nat
  BY TopBitIs
<1>2. Sized(I, first, 0)
  <2>1. UpTo(I, 0) = 0
    <3>1. I \cap (1 .. 0) = {}
      OBVIOUS
    <3>2. QED
      BY <3>1, FS_EmptySet DEF UpTo
  <2>2. first \in Sizes
    BY DEF Sizes
  <2>3. \A i : ~(i \in 0 .. 0 - 1)
    OBVIOUS
  <2>4. QED
    BY <2>1, <2>2, <2>3 DEF Sized
<1>3. first \in Sizes
  BY DEF Sizes
<1>4. ASSUME NEW i \in 1 .. n, NEW x \in Sizes PROVE Put(x, i) \in Sizes
  <2>1. i - 1 \in 0 .. TopBit(I) /\ i - 1 \in Nat
    BY <1>1
  <2>2. Nums(I)[i - 1] \in Nat
    BY <2>1, SliceCount
  <2>3. TwoTo[i - 1] \in Nat
    BY <2>1, TwoToIs
  <2>4. x.a \in Nat /\ x.size \in Nat /\ x.na \in Nat
    BY DEF Sizes
  <2>5. x.a + Nums(I)[i - 1] \in Nat
    BY <2>2, <2>4
  <2>6. QED
    BY <2>3, <2>4, <2>5 DEF TrySize, Sizes
<1>5. ASSUME NEW i \in 1 .. n, NEW x, Sized(I, x, i - 1) PROVE Sized(I, Put(x, i), i)
  BY <1>5, TryStep
<1>6. Steps(G, n, Sizes) /\ \A i \in 1 .. n : \A x \in Sizes : G[i][x] = Put(x, i)
  <2> HIDE DEF Put, n
  <2> QED
    BY <1>4 DEF Steps
<1>7. ComputeSizes(I) = (CHOOSE W : Step(W))[n]
  BY DEF ComputeSizes
<1> HIDE DEF n, first, Put, G
<1>8. \E W : Step(W)
  <2>1. PICK W : Iteration(W, G, n, Sizes, first)
    BY <1>1, <1>3, <1>6, Iterates
  <2>2. W \in [0 .. n -> Sizes] /\ W[0] = first /\ \A i \in 1 .. n : W[i] = G[i][W[i - 1]]
    BY <2>1 DEF Iteration
  <2>3. ASSUME NEW i \in 0 .. n, i # 0 PROVE W[i] = Put(W[i - 1], i)
    <3>1. i \in 1 .. n /\ i - 1 \in 0 .. n
      BY <2>3, <1>1
    <3>2. W[i - 1] \in Sizes
      BY <3>1, <2>2
    <3>3. QED
      BY <3>1, <3>2, <2>2, <1>6
  <2>4. Step(W)
    BY <2>2, <2>3
  <2>5. QED
    BY <2>4
<1> DEFINE D1 == CHOOSE W : Step(W)
<1>9. Step(D1)
  <2> HIDE DEF Step
  <2> QED
    BY <1>8
<1> HIDE DEF D1
<1>10. D1[0] = first /\ \A i \in 1 .. n : D1[i] = Put(D1[i - 1], i)
  BY <1>9, <1>1
<1> DEFINE B == {i \in 0 .. n : Sized(I, D1[i], i)}
<1>11. 0 \in B
  BY <1>1, <1>2, <1>10
<1>12. \A i \in 1 .. n : i - 1 \in B => i \in B
  BY <1>1, <1>5, <1>10
<1>13. B = 0 .. n
  <2> HIDE DEF B
  <2> QED
    BY <1>1, <1>11, <1>12, Reaches, B \subseteq 0 .. n DEF B
<1>14. n \in B
  <2> HIDE DEF B
  <2>1. n \in 0 .. n
    BY <1>1
  <2>2. QED
    BY <2>1, <1>13
<1>15. Sized(I, D1[n], n)
  BY <1>14
<1>16. QED
  BY <1>7, <1>15 DEF D1, n

-----------------------------------------------------------------------------
(* There are finitely many keys.                                           *)
LEMMA KeyFinite == IsFiniteSet(Key)
<1> DEFINE N == {Normalized(k) : k \in Arg}
           f == [k \in Arg |-> Normalized(k)]
           g == [i \in 1 .. MaxItems |-> IntKey(i)]
<1>1. IsFiniteSet(N)
  <2>1. f \in Surjection(Arg, N)
    BY DEF Surjection
  <2> HIDE DEF f, N
  <2>2. QED
    BY <2>1, FS_Surjection, TableAssumption DEF TableAssumption
<1>2. IsFiniteSet(Item(MaxItems))
  <2>1. g \in Surjection(1 .. MaxItems, Item(MaxItems))
    BY DEF Surjection, Item
  <2>2. IsFiniteSet(1 .. MaxItems)
    BY FS_Interval, TableAssumption DEF TableAssumption
  <2> HIDE DEF g
  <2>3. QED
    BY <2>1, <2>2, FS_Surjection
<1> HIDE DEF N
<1>3. IsFiniteSet(N \cup Item(MaxItems))
  BY <1>1, <1>2, FS_Union
<1>4. Key \in SUBSET (N \cup Item(MaxItems))
  BY DEF Key, N
<1>5. QED
  BY <1>3, <1>4, FS_Subset

(* The indices of a set of keys: as many as its keys up to every size.     *)
LEMMA IndicesCount ==
  ASSUME NEW keys, keys \subseteq Key
  PROVE  /\ Indices(IndicesOf(keys)) /\ IsFiniteSet(keys)
         /\ \A n \in Nat : Cardinality({j \in keys : InPart(j, n)}) = UpTo(IndicesOf(keys), n)
<1> DEFINE I == IndicesOf(keys)
           ints == {j \in keys : j.kind = "int" /\ j.id > 0}
           f == [j \in ints |-> j.id]
<1>1. IsFiniteSet(keys)
  BY KeyFinite, FS_Subset
<1>2. \A j \in keys : j.id \in Nat /\ (j.kind = "int" => j = IntKey(j.id))
  BY KeyType
<1>3. I = {j.id : j \in ints}
  BY DEF IndicesOf
<1>4. f \in Surjection(ints, I)
  BY <1>3 DEF Surjection
<1>5. IsFiniteSet(ints)
  BY <1>1, FS_Subset, ints \subseteq keys
<1>6. I \subseteq Nat \ {0}
  BY <1>2, <1>3
<1> HIDE DEF f
<1>7. IsFiniteSet(I)
  <2> HIDE DEF I, ints
  <2> QED
    BY <1>4, <1>5, FS_Surjection
<1>8. ASSUME NEW n \in Nat
      PROVE  Cardinality({j \in keys : InPart(j, n)}) = UpTo(I, n)
  <2> DEFINE S == {j \in keys : InPart(j, n)}
             T == I \cap (1 .. n)
             g == [j \in S |-> j.id]
  <2>1. g \in [S -> T]
    BY <1>2, <1>3 DEF InPart
  <2>2. \A i, j \in S : g[i] = g[j] => i = j
    BY <1>2 DEF InPart
  <2>3. ASSUME NEW i \in T PROVE \E j \in S : g[j] = i
    <3>1. PICK j \in ints : i = j.id
      BY <1>3
    <3>2. j \in S
      BY <3>1 DEF InPart
    <3>3. QED
      BY <3>1, <3>2
  <2> HIDE DEF S, T, g
  <2>a. IsInjective(g)
    BY <2>1, <2>2 DEF IsInjective
  <2>4. g \in Bijection(S, T)
    BY <2>1, <2>a, <2>3 DEF Bijection, Injection, Surjection
  <2>5. IsFiniteSet(S)
    BY <1>1, FS_Subset DEF S
  <2>6. ExistsBijection(S, T)
    BY <2>4 DEF ExistsBijection
  <2>7. Cardinality(T) = Cardinality(S)
    BY <2>5, <2>6, FS_Bijection
  <2>8. QED
    BY <2>7 DEF S, T, UpTo
<1>9. QED
  BY <1>1, <1>6, <1>7, <1>8 DEF Indices
=============================================================================
