---------------------------- MODULE Table_proofs ----------------------------
(***************************************************************************)
(* The steps of a table (Table) and its theorems: the type invariant, the  *)
(* safety invariants and that a table is a map with traversals (Dict).     *)
(***************************************************************************)
EXTENDS Table_chains

-----------------------------------------------------------------------------
(* The keys of a table with one more, and those of a set that do not go to *)
(* an array part of size n.                                                *)
Wanted(s, k) == {j \in Key : Get(s, j) # Empty} \cup {k}
Outside(keys, n) == {j \in keys : ~InPart(j, n)}

(* Where the fields of a table are: a key in the hash part is not in the   *)
(* array part.                                                             *)
LEMMA FieldsIn ==
  ASSUME NEW s, Fine(s)
  PROVE  /\ HashKeys(s) = {y \in Key : HashGet(s, y) # Empty}
         /\ \A y \in HashKeys(s) : Get(s, y) # Empty /\ ~InArray(s, y)
         /\ \A i \in ArrayIndices(s) : IntKey(i) \in Key /\ Get(s, IntKey(i)) # Empty
                                       /\ IntKey(i) \notin HashKeys(s)
         /\ \A y \in Key : Get(s, y) # Empty =>
              y \in HashKeys(s) \/ (InArray(s, y) /\ y.id \in ArrayIndices(s))
<1>1. Sound(s) /\ Apart(s) /\ ArrKeys(s) /\ s \in Tables
  BY DEF Fine, Sound
<1>2. ASSUME NEW y \in HashKeys(s)
      PROVE  y \in Key /\ HashGet(s, y) # Empty /\ ~InArray(s, y)
  <2>1. PICK i \in DOMAIN s.node : s.node[i].val # Empty /\ y = s.node[i].key
    BY DEF HashKeys
  <2>2. QED
    BY <1>1, <2>1, HashHas DEF Apart
<1>3. ASSUME NEW y \in Key, HashGet(s, y) # Empty
      PROVE  y \in HashKeys(s)
  <2>1. y.hash \in Nat
    BY KeyType
  <2>2. PICK i \in DOMAIN s.node : s.node[i].key = y /\ s.node[i].val = HashGet(s, y)
    BY <1>1, <1>3, <2>1, HashFrom
  <2>3. QED
    BY <1>3, <2>2 DEF HashKeys
<1>4. s.arr \in Seq(Value \cup {Empty})
  BY <1>1 DEF Tables
<1>5. ASSUME NEW i \in ArrayIndices(s)
      PROVE  IntKey(i) \in Key /\ InArray(s, IntKey(i)) /\ Get(s, IntKey(i)) # Empty
  <2>1. i \in 1 .. Len(s.arr) /\ s.arr[i] # Empty
    BY <1>4 DEF ArrayIndices
  <2>2. InArray(s, IntKey(i)) /\ IntKey(i).id = i
    BY <2>1 DEF InArray, IntKey, KeyOf
  <2>3. QED
    BY <1>1, <2>1, <2>2, GetIs DEF ArrKeys
<1>6. ASSUME NEW y \in Key, Get(s, y) # Empty
      PROVE  y \in HashKeys(s) \/ (InArray(s, y) /\ y.id \in ArrayIndices(s))
  <2>1. CASE InArray(s, y)
    BY <1>4, <1>6, <2>1, GetIs DEF InArray, ArrayIndices
  <2>2. CASE ~InArray(s, y)
    BY <1>3, <1>6, <2>2, GetIs
  <2>3. QED
    BY <2>1, <2>2
<1>7. \A y \in HashKeys(s) : Get(s, y) # Empty
  BY <1>2, GetIs
<1>8. HashKeys(s) = {y \in Key : HashGet(s, y) # Empty}
  BY <1>2, <1>3
<1>9. QED
  BY <1>2, <1>5, <1>6, <1>7, <1>8

(* A set of keys and its part outside the array part.                      *)
LEMMA OutsideCount ==
  ASSUME NEW keys, keys \subseteq Key, NEW n \in Nat
  PROVE  /\ IsFiniteSet(Outside(keys, n)) /\ Cardinality(Outside(keys, n)) \in Nat
         /\ Cardinality(keys) \in Nat
         /\ Cardinality(keys) = UpTo(IndicesOf(keys), n) + Cardinality(Outside(keys, n))
<1> DEFINE P == {j \in keys : InPart(j, n)}
           Q == Outside(keys, n)
<1>1. IsFiniteSet(keys) /\ Cardinality(P) = UpTo(IndicesOf(keys), n)
  BY IndicesCount
<1>2. P \subseteq keys /\ Q \subseteq keys /\ P \cap Q = {} /\ P \cup Q = keys
  BY DEF Outside
<1> HIDE DEF P, Q
<1>3. IsFiniteSet(P) /\ IsFiniteSet(Q)
  BY <1>1, <1>2, FS_Subset
<1>4. Cardinality(keys) = Cardinality(P) + Cardinality(Q) - Cardinality(P \cap Q)
  BY <1>2, <1>3, FS_Union
<1>5. Cardinality(P \cap Q) = 0
  BY <1>2, FS_EmptySet
<1>6. Cardinality(P) \in Nat /\ Cardinality(Q) \in Nat /\ Cardinality(keys) \in Nat
  BY <1>1, <1>3, FS_CardinalityType
<1>7. QED
  BY <1>1, <1>3, <1>4, <1>5, <1>6 DEF Q

(* rehash counts every key once: those in the hash part and the new one,   *)
(* and those in the array part.                                            *)
LEMMA WantedCount ==
  ASSUME NEW s, Fine(s), NEW k \in Key, Get(s, k) = Empty
  PROVE  /\ Wanted(s, k) \subseteq Key
         /\ IsFiniteSet(HashKeys(s) \cup {k}) /\ Cardinality(HashKeys(s) \cup {k}) \in Nat
         /\ Cardinality(ArrayIndices(s)) \in Nat
         /\ Cardinality(Wanted(s, k)) =
              Cardinality(HashKeys(s) \cup {k}) + Cardinality(ArrayIndices(s))
         /\ IndicesOf(Wanted(s, k)) = IndicesOf(HashKeys(s) \cup {k}) \cup ArrayIndices(s)
         /\ IndicesOf(HashKeys(s) \cup {k}) = {} =>
              Outside(Wanted(s, k), Len(s.arr)) = HashKeys(s) \cup {k}
<1> DEFINE A == ArrayIndices(s)
           P == {IntKey(i) : i \in A}
           H == HashKeys(s) \cup {k}
           W == Wanted(s, k)
           f == [i \in A |-> IntKey(i)]
<1>1. s.arr \in Seq(Value \cup {Empty})
  BY DEF Fine, Sound, Tables
<1>2. A \subseteq 1 .. Len(s.arr) /\ Len(s.arr) \in Nat
  BY <1>1 DEF ArrayIndices
<1>3. HashKeys(s) \subseteq Key
  BY FieldsIn
<1>4. W \subseteq Key /\ H \subseteq Key /\ P \subseteq Key
  BY <1>3, FieldsIn DEF Wanted
<1>5. ASSUME NEW y \in W PROVE y \in H \cup P
  <2>1. CASE y = k
    BY <2>1
  <2>2. CASE y \in HashKeys(s)
    BY <2>2
  <2>3. CASE InArray(s, y) /\ y.id \in A
    BY <1>4, <2>3, KeyType DEF InArray
  <2>4. QED
    BY <1>5, <2>1, <2>2, <2>3, FieldsIn DEF Wanted
<1>6. W = H \cup P
  BY <1>3, <1>4, <1>5, FieldsIn DEF Wanted
<1>7. H \cap P = {}
  BY FieldsIn
<1>8. \A i \in A : IntKey(i).kind = "int" /\ IntKey(i).id = i /\ i > 0 /\ i \in Nat
  BY <1>2 DEF IntKey, KeyOf
<1>9. f \in Bijection(A, P)
  <2>1. f \in [A -> P] /\ \A i \in A : f[i] = IntKey(i)
    OBVIOUS
  <2>2. \A y \in P : \E i \in A : f[i] = y
    OBVIOUS
  <2> HIDE DEF f, P, A
  <2>3. IsInjective(f)
    BY <1>8, <2>1 DEF IsInjective
  <2>4. QED
    BY <2>1, <2>2, <2>3 DEF Bijection, Injection, Surjection
<1>10. IsFiniteSet(A)
  <2> HIDE DEF A
  <2>1. IsFiniteSet(1 .. Len(s.arr)) /\ A \in SUBSET (1 .. Len(s.arr))
    BY <1>2, FS_Interval
  <2>2. QED
    BY <2>1, FS_Subset
<1>11. IsFiniteSet(P) /\ Cardinality(P) = Cardinality(A)
  <2> HIDE DEF f, P, A
  <2>1. ExistsBijection(A, P)
    BY <1>9 DEF ExistsBijection
  <2>2. QED
    BY <1>10, <2>1, FS_Bijection
<1>12. IsFiniteSet(H)
  BY <1>4, KeyFinite, FS_Subset
<1>13. Cardinality(W) = Cardinality(H) + Cardinality(A)
  <2> HIDE DEF f, P, A, H, W
  <2>1. Cardinality(H \cup P) = Cardinality(H) + Cardinality(P) - Cardinality(H \cap P)
    BY <1>11, <1>12, FS_Union
  <2>2. Cardinality(H \cap P) = 0
    BY <1>7, FS_EmptySet
  <2>3. Cardinality(H) \in Nat /\ Cardinality(A) \in Nat
    BY <1>10, <1>12, FS_CardinalityType
  <2>4. QED
    BY <1>6, <1>11, <2>1, <2>2, <2>3
<1>14. IndicesOf(P) = A
  BY <1>8 DEF IndicesOf
<1>15. IndicesOf(W) = IndicesOf(H) \cup A
  <2> HIDE DEF P, A, H, W
  <2>1. IndicesOf(H \cup P) = IndicesOf(H) \cup IndicesOf(P)
    BY DEF IndicesOf
  <2>2. QED
    BY <1>6, <1>14, <2>1
<1>16. ASSUME IndicesOf(H) = {} PROVE Outside(W, Len(s.arr)) = H
  <2>1. ASSUME NEW y \in H, InPart(y, Len(s.arr)) PROVE FALSE
    <3>1. y.kind = "int" /\ y.id > 0
      BY <1>2, <2>1 DEF InPart
    <3>2. y.id \in IndicesOf(H)
      BY <3>1 DEF IndicesOf
    <3>3. QED
      BY <1>16, <3>2
  <2>2. \A y \in P : InPart(y, Len(s.arr))
    BY <1>2, <1>8 DEF InPart
  <2> HIDE DEF P, A, H, W
  <2>3. QED
    BY <1>6, <2>1, <2>2 DEF Outside
<1>17. Cardinality(H) \in Nat /\ Cardinality(A) \in Nat
  BY <1>10, <1>12, FS_CardinalityType
<1>18. QED
  BY <1>4, <1>12, <1>13, <1>15, <1>16, <1>17

(* The sizes that rehash chooses: the hash part has room for every key     *)
(* that does not go to the array part, and a new size of the array part is *)
(* worth its memory and holds the most elements among those that are.      *)
BestSize(I, n) ==
  /\ n <= 3 * UpTo(I, n)
  /\ \A i \in 0 .. TopBit(I) + 1 :
       TwoTo[i] <= 3 * UpTo(I, TwoTo[i]) => UpTo(I, TwoTo[i]) <= UpTo(I, n)

(* No index is beyond the greatest power that is tried.                    *)
LEMMA BeyondTop ==
  ASSUME NEW I, Indices(I), NEW n \in Nat, n >= TwoTo[TopBit(I)]
  PROVE  UpTo(I, n) = UpTo(I, TwoTo[TopBit(I)])
<1> DEFINE T == TwoTo[TopBit(I)]
<1>1. TopBit(I) \in Nat /\ \A i \in I : i <= T
  BY TopBitIs
<1>2. T \in Nat /\ n >= T
  BY <1>1, TwoToPositive
<1>3. I \subseteq Nat \ {0}
  BY DEF Indices
<1>4. I \cap (1 .. n) = I /\ I \cap (1 .. T) = I
  <2> HIDE DEF T
  <2>1. \A i \in I : i \in 1 .. n /\ i \in 1 .. T
    BY <1>1, <1>2, <1>3
  <2>2. QED
    BY <2>1
<1>5. QED
  BY <1>4 DEF UpTo

(* computesizes finds the best size.                                       *)
LEMMA ComputedBest ==
  ASSUME NEW I, Indices(I)
  PROVE  /\ ComputeSizes(I).size \in Nat
         /\ ComputeSizes(I).na = UpTo(I, ComputeSizes(I).size)
         /\ BestSize(I, ComputeSizes(I).size)
<1> DEFINE c == ComputeSizes(I)
           T == TopBit(I)
<1>1. Sized(I, c, T + 1)
  BY ComputeSizesIs
<1>2. T \in Nat
  BY TopBitIs
<1> HIDE DEF c
<1>3. c \in Sizes /\ c.na = UpTo(I, c.size) /\ c.size <= 3 * c.na
  BY <1>1 DEF Sized
<1>4. c.size \in Nat /\ c.na \in Nat
  BY <1>3 DEF Sizes
<1>5. ASSUME NEW i \in 0 .. T, TwoTo[i] <= 3 * UpTo(I, TwoTo[i])
      PROVE  UpTo(I, TwoTo[i]) <= c.na
  <2>1. i \in 0 .. (T + 1) - 1
    BY <1>2
  <2>2. QED
    BY <1>1, <1>5, <2>1 DEF Sized
<1>6. ASSUME TwoTo[T + 1] <= 3 * UpTo(I, TwoTo[T + 1])
      PROVE  UpTo(I, TwoTo[T + 1]) <= c.na
  <2>1. TwoTo[T] \in Nat /\ TwoTo[T + 1] \in Nat /\ TwoTo[T] <= TwoTo[T + 1]
    BY <1>2, TwoToPositive, TwoToGrows
  <2>2. UpTo(I, TwoTo[T + 1]) = UpTo(I, TwoTo[T])
    BY <2>1, BeyondTop
  <2>3. UpTo(I, TwoTo[T]) \in Nat
    BY <2>1, UpToType
  <2>4. TwoTo[T] <= 3 * UpTo(I, TwoTo[T])
    BY <1>6, <2>1, <2>2, <2>3
  <2>5. QED
    BY <1>2, <1>5, <2>2, <2>4
<1>7. ASSUME NEW i \in 0 .. T + 1, TwoTo[i] <= 3 * UpTo(I, TwoTo[i])
      PROVE  UpTo(I, TwoTo[i]) <= c.na
  <2>1. i \in 0 .. T \/ i = T + 1
    BY <1>2
  <2>2. QED
    BY <1>5, <1>6, <1>7, <2>1
<1>8. BestSize(I, c.size)
  BY <1>3, <1>7 DEF BestSize
<1>9. QED
  BY <1>3, <1>4, <1>8 DEF c

(* A size with the reserve that a table with deleted keys gets.            *)
LEMMA Reserve ==
  ASSUME NEW n \in Nat, NEW b
  PROVE  n + (IF b THEN n \div 4 ELSE 0) \in Nat /\ n + (IF b THEN n \div 4 ELSE 0) >= n
OBVIOUS

(* The sizes that rehash takes: the best one for the array part, if it     *)
(* changes, and room for all other keys in the hash part.                  *)
LEMMA NewSizesIs ==
  ASSUME NEW s, Fine(s), NEW k \in Key, Get(s, k) = Empty, NEW n, n = NewSizes(s, k)
  PROVE  /\ n.array \in Nat /\ n.hash \in Nat
         /\ Cardinality(Outside(Wanted(s, k), n.array)) <= n.hash
         /\ n.array # Len(s.arr) => BestSize(IndicesOf(Wanted(s, k)), n.array)
<1> DEFINE W == Wanted(s, k)
           H == HashKeys(s) \cup {k}
           A == ArrayIndices(s)
           deleted == \E i \in DOMAIN s.node : s.node[i].val = Empty
           keep == IndicesOf(H) = {}
           computed == ComputeSizes(IndicesOf(H) \cup A)
           total == Cardinality(H) + IF keep THEN 0 ELSE Cardinality(A)
           nsize == total - IF keep THEN 0 ELSE computed.na
           sizes == ComputeSizes(IndicesOf(W))
<1>0. /\ n.array = IF keep THEN Len(s.arr) ELSE computed.size
      /\ n.hash = nsize + IF deleted THEN nsize \div 4 ELSE 0
  <2>1. n = [array |-> IF keep THEN Len(s.arr) ELSE computed.size,
             hash  |-> nsize + IF deleted THEN nsize \div 4 ELSE 0]
    BY DEF NewSizes
  <2> HIDE DEF keep, computed, nsize, deleted
  <2>2. QED
    BY <2>1
<1> HIDE DEF deleted, computed
<1>1. /\ W \subseteq Key /\ IsFiniteSet(H) /\ Cardinality(H) \in Nat /\ Cardinality(A) \in Nat
      /\ Cardinality(W) = Cardinality(H) + Cardinality(A)
      /\ IndicesOf(W) = IndicesOf(H) \cup A
  BY WantedCount
<1>2. IndicesOf(H) = {} => Outside(W, Len(s.arr)) = H
  BY WantedCount
<1>3. Len(s.arr) \in Nat
  BY DEF Fine, Sound, Tables
<1>4. CASE IndicesOf(H) = {}
  <2>0. nsize = Cardinality(H)
    BY <1>1, <1>4
  <2> HIDE DEF nsize
  <2>1. /\ n.array = Len(s.arr)
        /\ n.hash = Cardinality(H) + (IF deleted THEN Cardinality(H) \div 4 ELSE 0)
    BY <1>0, <1>4, <2>0
  <2>2. n.hash \in Nat /\ n.hash >= Cardinality(H)
    BY <1>1, <2>1, Reserve
  <2>3. QED
    BY <1>2, <1>3, <1>4, <2>1, <2>2
<1>5. CASE IndicesOf(H) # {}
  <2>1. Indices(IndicesOf(W))
    BY <1>1, IndicesCount
  <2>2. sizes.size \in Nat /\ sizes.na = UpTo(IndicesOf(W), sizes.size)
        /\ BestSize(IndicesOf(W), sizes.size)
    BY <2>1, ComputedBest
  <2>3. /\ Cardinality(Outside(W, sizes.size)) \in Nat
        /\ Cardinality(W) = sizes.na + Cardinality(Outside(W, sizes.size))
        /\ sizes.na \in Nat
    <3>1. W \subseteq Key /\ sizes.size \in Nat /\ sizes.na = UpTo(IndicesOf(W), sizes.size)
      BY <1>1, <2>2
    <3>2. UpTo(IndicesOf(W), sizes.size) \in Nat
      BY <2>1, <2>2, UpToType
    <3> HIDE DEF W, sizes
    <3>3. QED
      BY <3>1, <3>2, OutsideCount
  <2>4. computed = sizes
    <3>1. IndicesOf(H) \cup A = IndicesOf(W)
      BY <1>1
    <3> HIDE DEF H, A, W
    <3>2. QED
      BY <3>1 DEF computed
  <2> HIDE DEF sizes, W
  <2>5. nsize = Cardinality(Outside(W, sizes.size))
    <3>1. ~keep /\ Cardinality(H) \in Nat /\ Cardinality(A) \in Nat
          /\ Cardinality(W) = Cardinality(H) + Cardinality(A)
      BY <1>1, <1>5
    <3> HIDE DEF keep, H, A
    <3>2. QED
      BY <2>3, <2>4, <3>1
  <2>6. n.hash \in Nat /\ n.hash >= Cardinality(Outside(W, sizes.size))
    <3> HIDE DEF nsize
    <3>1. QED
      BY <1>0, <2>3, <2>5, Reserve
  <2>7. n.array = sizes.size
    BY <1>0, <1>5, <2>4
  <2>8. QED
    BY <2>2, <2>6, <2>7 DEF W
<1>6. QED
  BY <1>4, <1>5

-----------------------------------------------------------------------------
(* New keys.                                                               *)

(* The sizes of a rehash split the fields between the two parts.           *)
LEMMA RehashSplit ==
  ASSUME NEW s, Fine(s), NEW k \in Key, Get(s, k) = Empty, NEW n, n = NewSizes(s, k)
  PROVE  LET K == Outside(Wanted(s, k), n.array)
         IN  Split(s, K, n.array, n.hash) /\ (InPart(k, n.array) \/ k \in K)
<1> DEFINE W == Wanted(s, k)
           K == Outside(W, n.array)
<1>1. n.array \in Nat /\ n.hash \in Nat /\ Cardinality(K) <= n.hash
  BY NewSizesIs
<1>2. W \subseteq Key /\ k \in W /\ \A y \in Key : Get(s, y) # Empty => y \in W
  BY DEF Wanted
<1> HIDE DEF W
<1>3. IsFiniteSet(K)
  BY <1>1, <1>2, OutsideCount
<1>4. K \subseteq Key /\ \A y \in K : ~InPart(y, n.array)
  BY <1>2 DEF Outside
<1>5. \A y \in W : ~InPart(y, n.array) => y \in K
  BY DEF Outside
<1> HIDE DEF K
<1>6. Split(s, K, n.array, n.hash)
  BY <1>1, <1>2, <1>3, <1>4, <1>5 DEF Split
<1>7. QED
  BY <1>2, <1>5, <1>6 DEF K, W

(* Every field but k has its value, or was collected from a weak table.    *)
Writes(s, u, k, v) ==
  /\ Get(u, k) = v
  /\ \A y \in Key \ {k} : Get(u, y) = Get(s, y) \/ (Weak /\ Get(u, y) = Empty)

(* A failed insertion leaves the table as it was.                          *)
LEMMA SameTable ==
  ASSUME NEW s, Fine(s), NEW w, Sound(w), SameShape(s, w), w.node = s.node
  PROVE  /\ Fine(w) /\ Len(w.arr) = Len(s.arr)
         /\ (\A y : InArray(w, y) <=> InArray(s, y))
         /\ \A y : Get(w, y) = Get(s, y)
<1>1. s \in Tables /\ w \in Tables /\ w.arr = s.arr /\ w.lenhint = s.lenhint
      /\ SizeNode(w) = SizeNode(s)
  BY DEF Fine, Sound, SameShape
<1>2. \A y : HashGet(w, y) = HashGet(s, y)
  BY <1>1, SameNodes
<1>3. \A y : InArray(w, y) <=> InArray(s, y)
  BY <1>1 DEF InArray
<1>4. \A y : Get(w, y) = Get(s, y)
  BY <1>1, <1>2, <1>3, GetIs
<1>5. PowerSize(w) /\ Apart(w) /\ ArrKeys(w) /\ Hinted(w)
  BY <1>1, <1>3 DEF Fine, PowerSize, IsDummy, Apart, ArrKeys, Hinted
<1>6. QED
  BY <1>1, <1>3, <1>4, <1>5 DEF Fine

(* An insertion that finds room adds the field.                            *)
LEMMA InsertFine ==
  ASSUME NEW s, Fine(s), NEW k \in Key, ~InArray(s, k), NEW v \in Value,
         NotLive(s.node, k), InsertKey(s, k, v).ok, NEW u, u = InsertKey(s, k, v).tab
  PROVE  Fine(u) /\ Writes(s, u, k, v)
<1>1. Sound(s)
  BY DEF Fine
<1>2. PICK h : Inserted(s, u, k, v, h)
  BY <1>1, InsertIs
<1>3. HashGet(u, k) = v /\ \A x \in Key \ {k} : HashGet(u, x) = HashGet(s, x)
  BY <1>1, <1>2, InsertedGet
<1>4. Sound(u) /\ SameShape(s, u) /\ h \in DOMAIN s.node /\ u.node[h].key = k
  BY <1>2 DEF Inserted
<1>5. \A i \in DOMAIN s.node \ {h} : \E j \in DOMAIN s.node : Same(u.node[i], s.node[j])
  BY <1>2 DEF Inserted
<1>6. u.arr = s.arr /\ u.lenhint = s.lenhint /\ SizeNode(u) = SizeNode(s)
      /\ DOMAIN u.node = DOMAIN s.node
  BY <1>4 DEF SameShape
<1>7. \A y : InArray(u, y) <=> InArray(s, y)
  BY <1>6 DEF InArray
<1>8. Apart(u)
  <2>1. Apart(s)
    BY DEF Fine
  <2>2. ASSUME NEW i \in DOMAIN u.node, u.node[i].val # Empty
        PROVE  ~InArray(s, u.node[i].key)
    <3>1. CASE i = h
      BY <1>4, <3>1
    <3>2. CASE i # h
      <4>1. PICK j \in DOMAIN s.node : Same(u.node[i], s.node[j])
        BY <1>5, <1>6, <3>2
      <4>2. s.node[j].val # Empty /\ u.node[i].key = s.node[j].key
        BY <2>2, <4>1 DEF Same
      <4>3. QED
        BY <2>1, <4>2 DEF Apart
    <3>3. QED
      BY <3>1, <3>2
  <2>3. QED
    BY <1>7, <2>2 DEF Apart
<1>9. PowerSize(u) /\ ArrKeys(u) /\ Hinted(u)
  BY <1>6 DEF Fine, PowerSize, IsDummy, ArrKeys, Hinted
<1>10. Writes(s, u, k, v)
  BY <1>3, <1>6, <1>7, GetIs DEF Writes
<1>11. QED
  BY <1>4, <1>8, <1>9, <1>10 DEF Fine

(* After a rehash there is room for the new key.                           *)
LEMMA PutFine ==
  ASSUME NEW s, Fine(s), NEW K, Roomy(s, K), \A y \in K : ~InArray(s, y),
         NEW k \in Key, Get(s, k) = Empty, InArray(s, k) \/ k \in K, NEW v \in Value,
         NEW u, u = NewCheckedKey(s, k, v)
  PROVE  Fine(u) /\ \A y \in Key : Get(u, y) = IF y = k THEN v ELSE Get(s, y)
<1>1. InArray(s, k) \/ (k \in K /\ HashGet(s, k) = Empty)
  BY GetIs
<1>2. /\ Roomy(u, K) /\ SizeNode(u) = SizeNode(s) /\ Len(u.arr) = Len(s.arr)
      /\ u.lenhint = s.lenhint /\ (ArrKeys(s) => ArrKeys(u))
      /\ \A y \in Key : Get(u, y) = IF y = k THEN v ELSE Get(s, y)
  BY <1>1, PutIs
<1>3. Apart(u)
  <2>1. \A y : InArray(u, y) <=> InArray(s, y)
    BY <1>2 DEF InArray
  <2>2. Filled(u, K) /\ Sound(u)
    BY <1>2 DEF Roomy
  <2>3. \A i \in DOMAIN u.node : u.node[i].val # Empty => u.node[i].key # NilKey
    BY <2>2 DEF Sound, Chained, ValuesOk
  <2>4. QED
    BY <2>1, <2>2, <2>3 DEF Apart, Filled
<1>4. Sound(u) /\ PowerSize(u) /\ ArrKeys(u) /\ Hinted(u)
  BY <1>2 DEF Roomy, Fine, PowerSize, IsDummy, Hinted
<1>5. QED
  BY <1>2, <1>3, <1>4 DEF Fine

(* ilyaH_newkey adds the field, or an error leaves the table as it was.    *)
Failing(alloc) == alloc.hash = "fail" \/ alloc.array = "fail"

(* newkey adds the field, with or without a rehash, or fails and keeps all *)
(* others.                                                                 *)
LEMMA NewKeyIs ==
  ASSUME NEW s, Fine(s), NEW k \in Key, Get(s, k) = Empty, ~InArray(s, k), NEW v \in Value,
         NotLive(s.node, k), NEW alloc, NEW u, u = NewKey(s, k, v, alloc)
  PROVE  Fine(u) /\ (Writes(s, u, k, v) \/ (Failing(alloc) /\ Keeps(s, u)))
<1> DEFINE w == InsertKey(s, k, v).tab
           n == NewSizes(w, k)
           r == Resize(w, n.array, n.hash, alloc)
<1>1. CASE InsertKey(s, k, v).ok
  <2>1. u = w
    BY <1>1 DEF NewKey
  <2>2. QED
    BY <1>1, <2>1, InsertFine
<1>2. CASE ~InsertKey(s, k, v).ok
  <2>1. Sound(w) /\ SameShape(s, w) /\ w.node = s.node
    BY <1>2, InsertIs DEF Fine
  <2> HIDE DEF w
  <2>2. Fine(w) /\ (\A y : InArray(w, y) <=> InArray(s, y)) /\ \A y : Get(w, y) = Get(s, y)
    BY <2>1, SameTable
  <2>3. Get(w, k) = Empty /\ Keeps(s, w)
    BY <2>2 DEF Keeps
  <2>4. CASE Failing(alloc)
    <3>1. u = r
      BY <1>2, <2>4 DEF NewKey, Failing, w
    <3>2. n.array \in Nat /\ n.hash \in Nat
      BY <2>2, <2>3, NewSizesIs
    <3> HIDE DEF n
    <3>3. Fine(u) /\ Keeps(w, u)
      BY <2>2, <2>4, <3>1, ResizeFails DEF Failing
    <3>4. QED
      BY <2>3, <2>4, <3>3, KeepsTrans
  <2>5. CASE ~Failing(alloc)
    <3> DEFINE K == Outside(Wanted(w, k), n.array)
    <3>1. u = NewCheckedKey(r, k, v)
      BY <1>2, <2>5 DEF NewKey, Failing, w
    <3>2. Split(w, K, n.array, n.hash) /\ (InPart(k, n.array) \/ k \in K)
      BY <2>2, <2>3, RehashSplit
    <3> HIDE DEF n, K
    <3>3. /\ Fine(r) /\ Keeps(w, r) /\ Roomy(r, K) /\ Len(r.arr) = n.array
          /\ \A y \in K : ~InArray(r, y)
      BY <2>2, <2>5, <3>2, ResizeIs DEF Failing
    <3> HIDE DEF r
    <3>4. Get(r, k) = Empty
      BY <2>3, <3>3 DEF Keeps
    <3>5. InArray(r, k) \/ k \in K
      BY <3>2, <3>3 DEF InPart, InArray
    <3>6. Fine(u) /\ \A y \in Key : Get(u, y) = IF y = k THEN v ELSE Get(r, y)
      BY <3>1, <3>3, <3>4, <3>5, PutFine
    <3>7. Writes(s, u, k, v)
      BY <2>2, <3>3, <3>6 DEF Writes, Keeps
    <3>8. QED
      BY <3>6, <3>7
  <2>6. QED
    BY <2>4, <2>5
<1>3. QED
  BY <1>1, <1>2

-----------------------------------------------------------------------------
(* Fields that exist.                                                      *)

(* A traversal finds its key, dead or not, where it was: only a new key    *)
(* moves one.                                                              *)
LEMMA SearchSame ==
  ASSUME NEW V, LinksOk(V), Ranked(V), NEW W1, NEW W2, NEW a \in DOMAIN V,
         \A i \in DOMAIN V : (W1[i] = i /\ W2[i] = i) \/ (W1[i] = Nowhere /\ W2[i] = Nowhere)
           \/ (V[i].next # 0 /\ W1[i] = W1[i + V[i].next] /\ W2[i] = W2[i + V[i].next])
  PROVE  W1[a] = W2[a]
<1>1. PICK N, rank : Descends(V, rank, N)
  BY DEF Ranked
<1> DEFINE B == {n \in Nat : \E i \in DOMAIN V : rank[i] = n /\ W1[i] # W2[i]}
<1>2. ASSUME NEW i \in DOMAIN V, W1[i] # W2[i]
      PROVE  rank[i] \in B
  BY <1>1, <1>2 DEF Descends
<1>3. ASSUME NEW n \in B, \A m \in B : n <= m
      PROVE  FALSE
  <2>1. PICK i \in DOMAIN V : rank[i] = n /\ W1[i] # W2[i]
    OBVIOUS
  <2>2. V[i].next # 0 /\ W1[i + V[i].next] # W2[i + V[i].next]
    BY <2>1
  <2>3. i + V[i].next \in DOMAIN V /\ rank[i + V[i].next] < rank[i]
    BY <1>1, <2>2 DEF Descends, LinksOk
  <2>4. rank[i + V[i].next] \in B
    BY <1>2, <2>2, <2>3
  <2>5. n <= rank[i + V[i].next] /\ rank[i + V[i].next] \in Nat /\ n \in Nat
    BY <1>3, <2>4
  <2>6. QED
    BY <2>1, <2>3, <2>5
<1>4. B \subseteq Nat
  OBVIOUS
<1> HIDE DEF B
<1>5. B = {}
  BY <1>3, <1>4, LeastNat
<1>6. QED
  BY <1>2, <1>5

(* A key is found, for a traversal, where it was.                          *)
LEMMA FindSame ==
  ASSUME NEW s, Sound(s), NEW u, Alike(s, u), NEW k, k.hash \in Nat
  PROVE  FindNode(u, k, TRUE) = FindNode(s, k, TRUE)
<1>1. Sound(u) /\ SizeNode(u) = SizeNode(s)
  BY AlikeSound
<1>2. IsDummy(u) = IsDummy(s) /\ MainPosition(u, k) = MainPosition(s, k)
  BY <1>1 DEF IsDummy, MainPosition
<1>3. CASE IsDummy(s) \/ k = NilKey
  BY <1>2, <1>3 DEF FindNode
<1>4. CASE ~IsDummy(s) /\ k # NilKey
  <2> DEFINE W1 == Search(s, k, TRUE)
             W2 == Search(u, k, TRUE)
             V == s.node
             a == MainPosition(s, k)
  <2>1. /\ FindNode(s, k, TRUE) = W1[a] /\ Walked(W1, V, k, TRUE)
        /\ LinksOk(V) /\ Ranked(V) /\ a \in DOMAIN V
    BY <1>4, FindWalks
  <2>2. FindNode(u, k, TRUE) = W2[a] /\ Walked(W2, u.node, k, TRUE)
    BY <1>1, <1>2, <1>4, FindWalks
  <2>3. /\ DOMAIN u.node = DOMAIN V
        /\ \A i \in DOMAIN V : u.node[i].key = V[i].key /\ u.node[i].next = V[i].next
    BY DEF Alike
  <2> HIDE DEF W1, W2, a, V
  <2>4. ASSUME NEW i \in DOMAIN V
        PROVE  \/ (W1[i] = i /\ W2[i] = i) \/ (W1[i] = Nowhere /\ W2[i] = Nowhere)
               \/ (V[i].next # 0 /\ W1[i] = W1[i + V[i].next] /\ W2[i] = W2[i + V[i].next])
    <3>1. Found(W1, V, k, TRUE, i) /\ Found(W2, u.node, k, TRUE, i)
      BY <2>1, <2>2, <2>3, WalkedAt
    <3>2. EqualKey(k, V[i], TRUE) = (V[i].key = k) /\ EqualKey(k, u.node[i], TRUE) = (V[i].key = k)
      BY <2>3 DEF EqualKey
    <3>3. W1[i] = IF V[i].key = k THEN i ELSE IF V[i].next = 0 THEN Nowhere ELSE W1[i + V[i].next]
      BY <3>1, <3>2 DEF Found
    <3>4. W2[i] = IF V[i].key = k THEN i ELSE IF V[i].next = 0 THEN Nowhere ELSE W2[i + V[i].next]
      BY <2>3, <3>1, <3>2 DEF Found
    <3>5. QED
      BY <3>3, <3>4
  <2>5. W1[a] = W2[a]
    BY <2>1, <2>4, SearchSame
  <2>6. QED
    BY <2>1, <2>2, <2>5
<1>5. QED
  BY <1>3, <1>4

(* A step that leaves the positions of a traversal as they are.            *)
Stable(s, u) ==
  /\ Alike(s, u) /\ Len(u.arr) = Len(s.arr)
  /\ \A i \in 1 .. Len(s.arr) : u.arr[i] # Empty => s.arr[i] # Empty
  /\ \A i \in DOMAIN s.node : u.node[i].val # Empty => s.node[i].val # Empty

(* Tables with the same nodes.                                             *)
LEMMA NodesAlike ==
  ASSUME NEW s, Sound(s), NEW u \in Tables, u.node = s.node, u.lastfree = s.lastfree
  PROVE  Alike(s, u)
BY DEF Alike, Sound, Chained, ValuesOk

(* Every field but k has its value.                                        *)
Exact(s, u, k, v) == \A y \in Key : Get(u, y) = IF y = k THEN v ELSE Get(s, y)

(* A table with the value of one node set; nothing else changes.           *)
SetVal(s, i, v) == [s EXCEPT !.node[i].val = v]
Revalued(s, u, i, v) ==
  /\ SameShape(s, u) /\ u.lastfree = s.lastfree
  /\ u.node[i].key = s.node[i].key /\ u.node[i].dead = s.node[i].dead
  /\ u.node[i].next = s.node[i].next /\ u.node[i].val = v
  /\ \A j \in DOMAIN s.node \ {i} : u.node[j] = s.node[j]

(* Every other field and node is as it was.                                *)
LEMMA SetValIs ==
  ASSUME NEW s \in Tables, NEW i \in DOMAIN s.node, NEW v \in Value \cup {Empty},
         NEW u, u = SetVal(s, i, v)
  PROVE  Revalued(s, u, i, v)
<1> DEFINE nd == [s.node[i] EXCEPT !.val = v]
           V == [s.node EXCEPT ![i] = nd]
<1>1. s.node[i] \in Node /\ s.node \in [DOMAIN s.node -> Node]
  BY TableSize
<1>2. /\ nd \in Node
      /\ nd.key = s.node[i].key /\ nd.dead = s.node[i].dead /\ nd.val = v
      /\ nd.next = s.node[i].next
  BY <1>1 DEF Node
<1>3. u = [s EXCEPT !.node = V]
  BY DEF SetVal, Tables
<1> HIDE DEF nd
<1>4. V \in [DOMAIN s.node -> Node]
  BY <1>1, <1>2
<1>5. V[i] = nd /\ \A j \in DOMAIN s.node \ {i} : V[j] = s.node[j]
  OBVIOUS
<1> HIDE DEF V
<1>6. SameShape(s, u) /\ u.node = V /\ u.lastfree = s.lastfree
  BY <1>3, <1>4, WithNodes
<1>7. QED
  BY <1>2, <1>5, <1>6 DEF Revalued

(* A field of the hash part gets another value, or none.                   *)
LEMMA FieldStep ==
  ASSUME NEW s, Fine(s), NEW k \in Key, ~InArray(s, k), NEW i \in DOMAIN s.node,
         s.node[i].key = k, ~s.node[i].dead, NEW v, NEW u, Revalued(s, u, i, v)
  PROVE  /\ Fine(u) /\ Exact(s, u, k, v)
         /\ s.node[i].val # Empty => Stable(s, u)
<1>1. Sound(s) /\ s \in Tables /\ k.hash \in Nat /\ k # NilKey
  BY KeyType DEF Fine, Sound
<1>2. i \in DOMAIN s.node /\ s.node[i].key = k /\ ~s.node[i].dead
  OBVIOUS
<1>3. /\ SameShape(s, u) /\ u.lastfree = s.lastfree
      /\ u.node[i].key = s.node[i].key /\ u.node[i].dead = s.node[i].dead
      /\ u.node[i].next = s.node[i].next /\ u.node[i].val = v
      /\ \A j \in DOMAIN s.node \ {i} : u.node[j] = s.node[j]
  BY DEF Revalued
<1>4. /\ u \in Tables /\ u.arr = s.arr /\ u.lenhint = s.lenhint
      /\ DOMAIN u.node = DOMAIN s.node /\ SizeNode(u) = SizeNode(s)
  BY <1>3 DEF SameShape
<1>5. \A j \in DOMAIN s.node : /\ s.node[j].val # Empty => s.node[j].key # NilKey /\ ~s.node[j].dead
                               /\ s.node[j].dead => s.node[j].key # NilKey
  BY <1>1 DEF Sound, Chained, ValuesOk
<1>6. ASSUME NEW j \in DOMAIN s.node
      PROVE  /\ u.node[j].key = s.node[j].key /\ u.node[j].next = s.node[j].next
             /\ s.node[j].dead => u.node[j].dead
             /\ u.node[j].dead => s.node[j].key # NilKey
             /\ u.node[j].val # Empty => s.node[j].key # NilKey /\ ~u.node[j].dead
  BY <1>1, <1>2, <1>3, <1>5
<1>7. Alike(s, u)
  BY <1>3, <1>4, <1>6 DEF Alike
<1>8. Sound(u)
  BY <1>1, <1>7, AlikeSound
<1>9. \A y : InArray(u, y) <=> InArray(s, y)
  BY <1>4 DEF InArray
<1>10. Apart(u)
  <2>1. Apart(s)
    BY DEF Fine
  <2>2. ASSUME NEW j \in DOMAIN s.node, u.node[j].val # Empty PROVE ~InArray(u, u.node[j].key)
    BY <1>2, <1>3, <1>9, <2>1, <2>2 DEF Apart
  <2>3. QED
    BY <1>4, <2>2 DEF Apart
<1>11. PowerSize(u) /\ ArrKeys(u) /\ Hinted(u)
  BY <1>4 DEF Fine, PowerSize, IsDummy, ArrKeys, Hinted
<1>12. HashGet(u, k) = v
  <2>1. i \in DOMAIN u.node /\ u.node[i].key # NilKey /\ ~u.node[i].dead
    BY <1>1, <1>2, <1>3, <1>4
  <2>2. FindNode(u, u.node[i].key, FALSE) = i
    BY <1>8, <2>1, FindLive
  <2>3. u.node[i].key = k /\ i # Nowhere /\ u.node[i].val = v
    <3>1. DOMAIN s.node = 0 .. SizeNode(s) - 1
      BY <1>1, TableSize
    <3>2. QED
      BY <1>2, <1>3, <3>1 DEF Nowhere
  <2>4. QED
    BY <2>2, <2>3 DEF HashGet
<1>13. ASSUME NEW y \in Key \ {k} PROVE HashGet(u, y) = HashGet(s, y)
  <2>1. ASSUME NEW j \in DOMAIN s.node, s.node[j].key = y
        PROVE  Same(u.node[j], s.node[j])
    BY <1>2, <1>3, <2>1 DEF Same
  <2>2. \A j \in DOMAIN s.node : u.node[j].key = s.node[j].key
    BY <1>6
  <2>3. \A j \in DOMAIN s.node : s.node[j].key = y /\ s.node[j].val # Empty =>
           \E m \in DOMAIN u.node : Same(u.node[m], s.node[j])
    BY <1>4, <2>1
  <2>4. \A m \in DOMAIN u.node : u.node[m].key = y /\ u.node[m].val # Empty =>
           \E j \in DOMAIN s.node : Same(u.node[m], s.node[j])
    BY <1>4, <2>1, <2>2
  <2>5. QED
    BY <1>1, <1>8, <2>3, <2>4, HashSame
<1>14. Exact(s, u, k, v)
  BY <1>4, <1>9, <1>12, <1>13, GetIs DEF Exact
<1>15. s.node[i].val # Empty => Stable(s, u)
  BY <1>3, <1>4, <1>7 DEF Stable
<1>16. QED
  BY <1>8, <1>10, <1>11, <1>14, <1>15 DEF Fine

(* The assignment to a field in the hash part, which may be empty.         *)
LEMMA FieldFine ==
  ASSUME NEW s, Fine(s), NEW k \in Key, ~InArray(s, k), FindNode(s, k, FALSE) # Nowhere,
         NEW v \in Value \cup {Empty}
  PROVE  LET i == FindNode(s, k, FALSE)
             u == SetVal(s, i, v)
         IN  /\ Fine(u) /\ Exact(s, u, k, v)
             /\ s.node[i].val # Empty => Stable(s, u)
<1> DEFINE i == FindNode(s, k, FALSE)
           u == SetVal(s, i, v)
<1>1. Sound(s) /\ s \in Tables /\ k.hash \in Nat
  BY KeyType DEF Fine, Sound
<1>2. i \in DOMAIN s.node /\ s.node[i].key = k /\ ~s.node[i].dead
  BY <1>1, FindMatches
<1>3. u = SetVal(s, i, v)
  OBVIOUS
<1> HIDE DEF i, u
<1>4. Revalued(s, u, i, v)
  BY <1>1, <1>2, <1>3, SetValIs
<1>5. /\ Fine(u) /\ Exact(s, u, k, v)
      /\ s.node[i].val # Empty => Stable(s, u)
  BY <1>2, <1>4, FieldStep
<1>6. QED
  BY <1>5 DEF i, u

(* And so does one of the array part.                                      *)
LEMMA ItemFine ==
  ASSUME NEW s, Fine(s), NEW k \in Key, InArray(s, k), NEW v \in Value \cup {Empty},
         NEW u, u = SetItem(s, k, v)
  PROVE  /\ Fine(u) /\ Exact(s, u, k, v)
         /\ Get(s, k) # Empty => Stable(s, u)
<1>1. Sound(s) /\ s \in Tables
  BY DEF Fine, Sound
<1>2. ItemWritten(s, u, k, v)
  BY <1>1, WithItem
<1>3. /\ u \in Tables /\ Len(u.arr) = Len(s.arr) /\ u.node = s.node
      /\ u.lastfree = s.lastfree /\ u.lenhint = s.lenhint /\ u.arr[k.id] = v
      /\ \A i \in 1 .. Len(s.arr) : i # k.id => u.arr[i] = s.arr[i]
      /\ (Sound(s) => Sound(u)) /\ (ArrKeys(s) => ArrKeys(u))
      /\ Exact(s, u, k, v)
  BY <1>2 DEF ItemWritten, Exact
<1>4. Fine(u)
  <2>1. PowerSize(u) /\ Apart(u) /\ ArrKeys(u) /\ Hinted(u)
    BY <1>3 DEF Fine, PowerSize, IsDummy, SizeNode, Apart, InArray, Hinted
  <2>2. QED
    BY <1>1, <1>3, <2>1 DEF Fine
<1>5. Alike(s, u)
  BY <1>1, <1>3, NodesAlike
<1>6. ASSUME Get(s, k) # Empty PROVE Stable(s, u)
  <2>1. s.arr[k.id] # Empty
    BY <1>6, GetIs
  <2>2. QED
    BY <1>3, <1>5, <2>1 DEF Stable
<1>7. QED
  BY <1>3, <1>4, <1>6

-----------------------------------------------------------------------------
(* Assignments.                                                            *)

(* One that adds a field, or gives one that is empty a value.              *)
Adds(s, u, k, v, alloc) ==
  Fine(u) /\ (Writes(s, u, k, v) \/ (Failing(alloc) /\ Keeps(s, u)))

(* A change of one field only is a write to it.                            *)
LEMMA ExactWrites ==
  ASSUME NEW s, NEW u, NEW k \in Key, NEW v,
         Exact(s, u, k, v)
  PROVE  Writes(s, u, k, v)
BY DEF Writes, Exact

(* Assigning Empty to an absent field changes nothing.                     *)
LEMMA SelfWrites ==
  ASSUME NEW s, NEW k, Get(s, k) = Empty
  PROVE  Writes(s, s, k, Empty)
BY DEF Writes

(* The field of an empty node is filled (HFINDNODE of ilyaH_finishset).    *)
LEMMA FillAdds ==
  ASSUME NEW s, Fine(s), NEW k \in Key, ~InArray(s, k), FindNode(s, k, FALSE) # Nowhere,
         NEW v \in Value \cup {Empty}, NEW alloc,
         NEW u, u = FinishSet(s, k, v, "node", alloc)
  PROVE  Adds(s, u, k, v, alloc)
<1> DEFINE w == SetVal(s, FindNode(s, k, FALSE), v)
<1>1. u = w
  BY DEF FinishSet, SetVal
<1>2. Fine(w) /\ Exact(s, w, k, v)
  BY FieldFine
<1> HIDE DEF w
<1>3. QED
  BY <1>1, <1>2, ExactWrites DEF Adds

(* A key that is not found is new (HNOTFOUND).                             *)
LEMMA NewAdds ==
  ASSUME NEW s, Fine(s), NEW k \in Key, Get(s, k) = Empty, ~InArray(s, k),
         FindNode(s, k, FALSE) = Nowhere,
         NEW v \in Value \cup {Empty}, NEW alloc,
         NEW u, u = FinishSet(s, k, v, "not found", alloc)
  PROVE  Adds(s, u, k, v, alloc)
<1>1. k.hash \in Nat /\ k # NilKey /\ k # NaN
  BY KeyType
<1>2. NotLive(s.node, k)
  BY <1>1, FoundLive DEF Fine
<1>3. CASE v = Empty
  <2>1. u = s
    BY <1>3 DEF FinishSet
  <2>2. QED
    BY <1>3, <2>1, SelfWrites DEF Adds
<1>4. CASE v # Empty
  <2>1. u = NewKey(s, k, v, alloc) /\ v \in Value
    BY <1>1, <1>4 DEF FinishSet
  <2>2. QED
    BY <1>2, <2>1, NewKeyIs DEF Adds
<1>5. QED
  BY <1>3, <1>4

(* A new short string: the first try inserts it, or ilyaH_finishset does.  *)
LEMMA ShortStrAdds ==
  ASSUME NEW s, Fine(s), NEW k \in Key, Get(s, k) = Empty, ~InArray(s, k),
         NEW v \in Value \cup {Empty}, NEW alloc, NEW p, p = PSetShortStr(s, k, v),
         NEW u, u = IF p.hres = "ok" THEN p.tab ELSE FinishSet(p.tab, k, v, p.hres, alloc)
  PROVE  Adds(s, u, k, v, alloc)
<1> DEFINE try == InsertKey(s, k, v)
<1>1. k.hash \in Nat /\ k # NilKey
  BY KeyType
<1>2. CASE v = Empty
  <2>1. p.hres = "ok" /\ p.tab = s
    BY <1>2 DEF PSetShortStr
  <2>2. QED
    BY <1>2, <2>1, SelfWrites DEF Adds
<1>3. CASE v # Empty /\ FindNode(s, k, FALSE) # Nowhere
  <2>1. p.hres = "node" /\ p.tab = s
    BY <1>3 DEF PSetShortStr
  <2>2. u = FinishSet(s, k, v, "node", alloc)
    BY <2>1
  <2>3. QED
    BY <1>3, <2>2, FillAdds
<1>4. CASE v # Empty /\ FindNode(s, k, FALSE) = Nowhere
  <2>1. NotLive(s.node, k) /\ v \in Value
    BY <1>1, <1>4, FoundLive DEF Fine
  <2>2. CASE try.ok
    <3>1. p.hres = "ok" /\ p.tab = try.tab
      BY <1>4, <2>2 DEF PSetShortStr
    <3>2. u = try.tab
      BY <3>1
    <3>3. Fine(u) /\ Writes(s, u, k, v)
      BY <2>1, <2>2, <3>2, InsertFine
    <3>4. QED
      BY <3>3 DEF Adds
  <2>3. CASE ~try.ok
    <3>1. p.hres = "not found" /\ p.tab = try.tab
      BY <1>4, <2>3 DEF PSetShortStr
    <3> DEFINE w == try.tab
    <3>2. Sound(w) /\ SameShape(s, w) /\ w.node = s.node
      BY <2>1, <2>3, InsertIs DEF Fine
    <3>3. u = FinishSet(w, k, v, "not found", alloc)
      BY <3>1
    <3> HIDE DEF w
    <3>4. Fine(w) /\ (\A y : InArray(w, y) <=> InArray(s, y)) /\ \A y : Get(w, y) = Get(s, y)
      BY <3>2, SameTable
    <3>5. FindNode(w, k, FALSE) = Nowhere
      <4>1. NotLive(w.node, k)
        BY <2>1, <3>2
      <4>2. QED
        BY <1>1, <3>2, <4>1, FindNone
    <3>6. Adds(w, u, k, v, alloc)
      BY <3>3, <3>4, <3>5, NewAdds
    <3>7. QED
      BY <3>4, <3>6 DEF Adds, Writes, Keeps
  <2>4. QED
    BY <2>2, <2>3
<1>5. QED
  BY <1>2, <1>3, <1>4

(* An assignment to an absent field adds it, or fails to allocate.         *)
LEMMA SetAdds ==
  ASSUME NEW s, Fine(s), NEW k \in Key, Get(s, k) = Empty, NEW v \in Value \cup {Empty},
         NEW newindex \in BOOLEAN, NEW alloc, NEW u, u = Set(s, k, v, newindex, TRUE, alloc)
  PROVE  Adds(s, u, k, v, alloc)
<1> DEFINE p == PSet(s, k, v, newindex)
<1>1. u = IF p.hres = "ok" THEN p.tab ELSE FinishSet(p.tab, k, v, p.hres, alloc)
  BY DEF Set
<1>2. CASE InArray(s, k)
  <2>1. s.arr[k.id] = Empty
    BY <1>2, GetIs
  <2>2. (p.hres = "array" /\ p.tab = s) \/ (p.hres = "ok" /\ p.tab = SetItem(s, k, v))
    BY <1>2, <2>1 DEF PSet, SetItem
  <2>3. FinishSet(s, k, v, "array", alloc) = SetItem(s, k, v)
    BY DEF FinishSet, SetItem
  <2> HIDE DEF p
  <2>4. u = SetItem(s, k, v)
    BY <1>1, <2>2, <2>3
  <2>5. Fine(u) /\ Exact(s, u, k, v)
    BY <1>2, <2>4, ItemFine
  <2>6. QED
    BY <2>5, ExactWrites DEF Adds
<1>3. CASE ~InArray(s, k)
  <2>1. FindNode(s, k, FALSE) # Nowhere => s.node[FindNode(s, k, FALSE)].val = Empty
    BY <1>3, GetIs DEF HashGet
  <2>2. CASE k.kind = "str" /\ ~newindex
    <3>1. p = PSetShortStr(s, k, v)
      BY <1>3, <2>1, <2>2 DEF PSet
    <3> HIDE DEF p
    <3>2. QED
      BY <1>1, <1>3, <3>1, ShortStrAdds
  <2>3. CASE ~(k.kind = "str" /\ ~newindex)
    <3>1. p.hres = (IF FindNode(s, k, FALSE) = Nowhere THEN "not found" ELSE "node") /\ p.tab = s
      BY <1>3, <2>1, <2>3 DEF PSet
    <3> HIDE DEF p
    <3>2. CASE FindNode(s, k, FALSE) = Nowhere
      <4>1. u = FinishSet(s, k, v, "not found", alloc)
        BY <1>1, <3>1, <3>2
      <4>2. QED
        BY <1>3, <3>2, <4>1, NewAdds
    <3>3. CASE FindNode(s, k, FALSE) # Nowhere
      <4>1. u = FinishSet(s, k, v, "node", alloc)
        BY <1>1, <3>1, <3>3
      <4>2. QED
        BY <1>3, <3>3, <4>1, FillAdds
    <3>4. QED
      BY <3>2, <3>3
  <2>4. QED
    BY <2>2, <2>3
<1>4. QED
  BY <1>2, <1>3

(* One to a field that has a value: no field moves.                        *)
LEMMA SetReplaces ==
  ASSUME NEW s, Fine(s), NEW k \in Key, Get(s, k) # Empty, NEW v \in Value \cup {Empty},
         NEW newindex, NEW raw, NEW alloc, NEW u, u = Set(s, k, v, newindex, raw, alloc)
  PROVE  /\ Fine(u) /\ Stable(s, u)
         /\ Exact(s, u, k, v)
<1> DEFINE p == PSet(s, k, v, newindex)
<1>1. CASE InArray(s, k)
  <2>1. s.arr[k.id] # Empty
    BY <1>1, GetIs
  <2>2. p.hres = "ok" /\ p.tab = SetItem(s, k, v)
    BY <1>1, <2>1 DEF PSet, SetItem
  <2>3. u = SetItem(s, k, v)
    BY <2>2 DEF Set
  <2>4. QED
    BY <1>1, <2>3, ItemFine
<1>2. CASE ~InArray(s, k)
  <2> DEFINE i == FindNode(s, k, FALSE)
             w == SetVal(s, i, v)
  <2>1. i # Nowhere /\ s.node[i].val # Empty
    BY <1>2, GetIs DEF HashGet
  <2>2. p.hres = "ok" /\ p.tab = w
    BY <1>2, <2>1 DEF PSet, SetVal
  <2>3. u = w
    BY <2>2 DEF Set
  <2>4. /\ Fine(w) /\ Exact(s, w, k, v)
        /\ s.node[i].val # Empty => Stable(s, w)
    BY <1>2, <2>1, FieldFine
  <2> HIDE DEF w
  <2>5. QED
    BY <2>1, <2>3, <2>4
<1>3. QED
  BY <1>1, <1>2

(* What is not a key is nowhere.                                           *)
LEMMA NoKeyNowhere ==
  ASSUME NEW s, Sound(s), NEW k, k.hash \in Nat, k \notin Key
  PROVE  FindNode(s, k, FALSE) = Nowhere
<1>1. s \in Tables
  BY DEF Sound
<1>2. CASE k = NilKey
  BY <1>2 DEF FindNode
<1>3. CASE k # NilKey
  <2>1. \A i \in DOMAIN s.node : s.node[i].key # k
    BY <1>1, <1>3, NodeType
  <2>2. NotLive(s.node, k)
    BY <2>1 DEF NotLive
  <2>3. QED
    BY <2>2, FindNone
<1>4. QED
  BY <1>2, <1>3

(* One that raises an error or calls a metamethod instead.                 *)
LEMMA SetNothing ==
  ASSUME NEW s, Fine(s), NEW k, NEW v, NEW newindex \in BOOLEAN, NEW raw \in BOOLEAN, NEW alloc,
         k \in {NaN, NilKey} \/ (k \in Key /\ Get(s, k) = Empty /\ newindex /\ ~raw)
  PROVE  Set(s, k, v, newindex, raw, alloc) = s
<1> DEFINE p == PSet(s, k, v, newindex)
<1>1. CASE k \in {NaN, NilKey}
  <2>1. ~InArray(s, k) /\ k.kind # "str" /\ k.hash \in Nat /\ k \notin Key
    BY <1>1, KeyType DEF InArray, NaN, NilKey, KeyOf
  <2>2. FindNode(s, k, FALSE) = Nowhere
    <3>1. Sound(s)
      BY DEF Fine
    <3>2. QED
      BY <2>1, <3>1, NoKeyNowhere
  <2>3. p.hres = "not found" /\ p.tab = s
    BY <2>1, <2>2 DEF PSet
  <2>4. FinishSet(s, k, v, "not found", alloc) = s
    BY <1>1 DEF FinishSet
  <2>5. QED
    BY <2>3, <2>4 DEF Set
<1>2. CASE k \in Key /\ Get(s, k) = Empty /\ newindex /\ ~raw
  <2>1. InArray(s, k) => s.arr[k.id] = Empty
    BY <1>2, GetIs
  <2>2. ~InArray(s, k) /\ FindNode(s, k, FALSE) # Nowhere => s.node[FindNode(s, k, FALSE)].val = Empty
    BY <1>2, GetIs DEF HashGet
  <2>3. p.tab = s
    BY <1>2, <2>1, <2>2 DEF PSet
  <2>4. QED
    BY <1>2, <2>3 DEF Set
<1>3. QED
  BY <1>1, <1>2

-----------------------------------------------------------------------------
(* Constructors.                                                           *)
LEMMA ItemKey ==
  ASSUME NEW i \in 1 .. MaxItems
  PROVE  IntKey(i) \in Key
<1>1. IntKey(i) # NaN /\ IntKey(i) # NilKey
  BY DEF IntKey, NaN, NilKey, KeyOf
<1>2. IntKey(i) \in Item(MaxItems)
  BY DEF Item
<1>3. QED
  BY <1>1, <1>2 DEF Key

(* A new table is fine and has no fields.                                  *)
LEMMA FreshFine ==
  /\ Fine(FreshTable) /\ Len(FreshTable.arr) = 0 /\ SizeNode(FreshTable) = 0
  /\ \A y : Get(FreshTable, y) = Empty
<1> DEFINE s == FreshTable
<1>1. s.arr = <<>> /\ s.node = <<>> /\ s.lastfree = 0 /\ s.lenhint = 0
  BY DEF FreshTable
<1>2. SizeNode(s) = 0 /\ Len(s.arr) = 0 /\ DOMAIN s.node = {}
  <2>1. DOMAIN s.node = {}
    BY <1>1
  <2>2. QED
    BY <1>1, <2>1, FS_EmptySet DEF SizeNode
<1>3. s \in Tables
  <2>1. <<>> \in [0 .. 0 - 1 -> Node]
    OBVIOUS
  <2>2. <<>> \in Vectors
    BY <2>1 DEF Vectors
  <2>3. QED
    BY <2>2 DEF FreshTable, Tables
<1>4. IsDummy(s)
  BY <1>2 DEF IsDummy
<1> HIDE DEF s
<1>5. Chained(s.node, Home(s))
  <2>1. Descends(s.node, s.node, 0)
    <3>1. s.node \in [{} -> 0 .. 0]
      BY <1>1
    <3>2. QED
      BY <1>2, <3>1 DEF Descends
  <2>2. Ranked(s.node)
    BY <2>1 DEF Ranked
  <2>3. QED
    BY <1>2, <2>2 DEF Chained, LinksOk, OneBefore, AtHome, LiveFirst, ValuesOk
<1>6. FreeBelow(s)
  BY <1>1, <1>2 DEF FreeBelow
<1>7. PowerSize(s) /\ Apart(s) /\ ArrKeys(s) /\ Hinted(s)
  BY <1>2, <1>4 DEF PowerSize, Apart, ArrKeys, Hinted
<1>8. \A y : Get(s, y) = Empty
  <2>1. \A y : ~InArray(s, y)
    BY <1>2 DEF InArray
  <2>2. \A y : FindNode(s, y, FALSE) = Nowhere
    BY <1>4 DEF FindNode
  <2>3. QED
    BY <2>1, <2>2 DEF Get
<1>9. QED
  BY <1>2, <1>3, <1>5, <1>6, <1>7, <1>8 DEF Fine, Sound, s

(* A table of given sizes is fine and has no fields (OP_NEWTABLE).         *)
LEMMA ConstructIs ==
  ASSUME NEW na \in Nat, NEW nh \in Nat, NEW u, u = Resize(FreshTable, na, nh, AllOk)
  PROVE  Fine(u) /\ \A y \in Key : Get(u, y) = Empty
<1> DEFINE K == {}
<1>1. Fine(FreshTable) /\ \A y : Get(FreshTable, y) = Empty
  BY FreshFine
<1>2. Split(FreshTable, K, na, nh)
  BY <1>1, FS_EmptySet DEF Split
<1>3. AllOk.hash # "fail" /\ AllOk.array # "fail"
  BY DEF AllOk
<1> HIDE DEF K
<1>4. Fine(u) /\ Keeps(FreshTable, u)
  BY <1>1, <1>2, <1>3, ResizeIs
<1>5. QED
  BY <1>1, <1>4 DEF Keeps

(* The hash part has a node for each of its keys.                          *)
LEMMA HashKeysCount ==
  ASSUME NEW s, Fine(s)
  PROVE  /\ IsFiniteSet(HashKeys(s)) /\ Cardinality(HashKeys(s)) <= SizeNode(s)
         /\ SizeNode(s) \in Nat /\ Cardinality(HashKeys(s)) \in Nat
<1> DEFINE M == DOMAIN s.node
           L == {j \in M : s.node[j].val # Empty}
           f == [i \in L |-> s.node[i].key]
           H == HashKeys(s)
<1>1. SizeNode(s) \in Nat /\ M = 0 .. SizeNode(s) - 1 /\ SizeNode(s) = Cardinality(M)
  BY TableSize DEF Fine, Sound, SizeNode
<1>2. f \in [L -> H] /\ \A y \in H : \E i \in L : f[i] = y
  BY DEF HashKeys
<1>3. L \in SUBSET M
  OBVIOUS
<1> HIDE DEF M, L, f, H
<1>9. IsFiniteSet(M)
  BY <1>1, FS_Interval
<1>4. IsFiniteSet(L) /\ Cardinality(L) <= Cardinality(M)
  BY <1>3, <1>9, FS_Subset
<1>5. f \in Surjection(L, H)
  BY <1>2 DEF Surjection
<1>6. IsFiniteSet(H) /\ Cardinality(H) <= Cardinality(L)
  BY <1>4, <1>5, FS_Surjection
<1>7. Cardinality(H) \in Nat /\ Cardinality(L) \in Nat /\ Cardinality(M) \in Nat
  BY <1>4, <1>6, <1>9, FS_CardinalityType
<1>8. QED
  BY <1>1, <1>4, <1>6, <1>7 DEF H

(* OP_SETLIST.                                                             *)
Grown(s, n) == IF n > Len(s.arr) THEN Resize(s, n, SizeNode(s), AllOk) ELSE s
Listed(s, n, v) == [s EXCEPT !.arr = [i \in DOMAIN @ |-> IF i <= n THEN v ELSE @[i]]]

(* A table grows for the items of a constructor and keeps its fields.      *)
LEMMA GrownIs ==
  ASSUME NEW s, Fine(s), NEW n \in Nat, NEW u, u = Grown(s, n)
  PROVE  Fine(u) /\ Keeps(s, u) /\ n <= Len(u.arr)
<1>0. Len(s.arr) \in Nat
  BY DEF Fine, Sound, Tables
<1>1. CASE n > Len(s.arr)
  <2> DEFINE K == Outside(HashKeys(s), n)
  <2>1. u = Resize(s, n, SizeNode(s), AllOk)
    BY <1>1 DEF Grown
  <2>2. /\ IsFiniteSet(HashKeys(s)) /\ Cardinality(HashKeys(s)) <= SizeNode(s)
        /\ SizeNode(s) \in Nat /\ Cardinality(HashKeys(s)) \in Nat
    BY HashKeysCount
  <2>3. HashKeys(s) \subseteq Key
    BY FieldsIn
  <2>4. K \in SUBSET HashKeys(s)
    BY DEF Outside
  <2>5. IsFiniteSet(K) /\ Cardinality(K) <= Cardinality(HashKeys(s))
    <3> HIDE DEF K
    <3>1. QED
      BY <2>2, <2>4, FS_Subset
  <2>6. Cardinality(K) \in Nat
    BY <2>5, FS_CardinalityType
  <2>7. Cardinality(K) <= SizeNode(s)
    <3> HIDE DEF K
    <3>1. QED
      BY <2>2, <2>5, <2>6
  <2>8. ASSUME NEW y \in Key, Get(s, y) # Empty, ~InPart(y, n) PROVE y \in K
    <3>1. y \in HashKeys(s) \/ InArray(s, y)
      BY <2>8, FieldsIn
    <3>2. ~InArray(s, y)
      BY <1>0, <1>1, <2>8 DEF InArray, InPart
    <3>3. QED
      BY <2>8, <3>1, <3>2 DEF Outside
  <2>9. \A y \in K : ~InPart(y, n)
    BY DEF Outside
  <2> HIDE DEF K
  <2>10. Split(s, K, n, SizeNode(s))
    BY <2>2, <2>3, <2>4, <2>5, <2>7, <2>8, <2>9 DEF Split
  <2>11. AllOk.hash # "fail" /\ AllOk.array # "fail"
    BY DEF AllOk
  <2>12. Fine(u) /\ Keeps(s, u) /\ Len(u.arr) = n
    BY <2>1, <2>10, <2>11, ResizeIs
  <2>13. QED
    BY <2>12
<1>2. CASE ~(n > Len(s.arr))
  <2>1. u = s
    BY <1>2 DEF Grown
  <2>2. QED
    BY <1>0, <1>2, <2>1, KeepsSelf
<1>3. QED
  BY <1>1, <1>2

(* The items of a constructor become fields (OP_SETLIST).                  *)
LEMMA ListedIs ==
  ASSUME NEW s, Fine(s), NEW n \in 1 .. MaxItems, n <= Len(s.arr), NEW v \in Value,
         NEW u, u = Listed(s, n, v)
  PROVE  Fine(u) /\ \A y \in Key : Get(u, y) = IF InPart(y, n) THEN v ELSE Get(s, y)
<1> DEFINE A == [i \in DOMAIN s.arr |-> IF i <= n THEN v ELSE s.arr[i]]
<1>1. Sound(s) /\ s \in Tables /\ ArrKeys(s) /\ MaxItems \in Nat
  BY TableAssumption DEF Fine, Sound
<1>2. s.arr \in Seq(Value \cup {Empty}) /\ Len(s.arr) \in Nat
  BY <1>1 DEF Tables
<1>3. u = [s EXCEPT !.arr = A]
  BY DEF Listed
<1>4. A \in Seq(Value \cup {Empty}) /\ Len(A) = Len(s.arr)
      /\ \A i \in 1 .. Len(s.arr) : A[i] = IF i <= n THEN v ELSE s.arr[i]
  <2>1. DOMAIN s.arr = 1 .. Len(s.arr)
        /\ \A i \in 1 .. Len(s.arr) : s.arr[i] \in Value \cup {Empty}
    BY <1>2
  <2>2. A \in [1 .. Len(s.arr) -> Value \cup {Empty}]
    BY <2>1
  <2>3. QED
    BY <1>2, <2>1, <2>2
<1> HIDE DEF A
<1>5. /\ u \in Tables /\ u.arr = A /\ u.node = s.node /\ u.lastfree = s.lastfree
      /\ u.lenhint = s.lenhint
  BY <1>1, <1>3, <1>4 DEF Tables
<1>6. /\ SizeNode(u) = SizeNode(s) /\ Sound(u) /\ \A y : HashGet(u, y) = HashGet(s, y)
  BY <1>1, <1>5, SameNodes
<1>7. \A y : InArray(u, y) <=> InArray(s, y)
  BY <1>4, <1>5 DEF InArray
<1>8. ArrKeys(u)
  <2>1. ASSUME NEW i \in 1 .. Len(s.arr), A[i] # Empty PROVE IntKey(i) \in Key
    <3>1. CASE i <= n
      BY <1>1, <1>2, <3>1, ItemKey
    <3>2. CASE ~(i <= n)
      BY <1>1, <1>4, <2>1, <3>2 DEF ArrKeys
    <3>3. QED
      BY <3>1, <3>2
  <2>2. QED
    BY <1>4, <1>5, <2>1 DEF ArrKeys
<1>9. PowerSize(u) /\ Apart(u) /\ Hinted(u)
  BY <1>4, <1>5, <1>6, <1>7 DEF Fine, PowerSize, IsDummy, Apart, Hinted
<1>10. ASSUME NEW y \in Key PROVE Get(u, y) = IF InPart(y, n) THEN v ELSE Get(s, y)
  <2>1. CASE InArray(s, y)
    <3>1. y.kind = "int" /\ y.id \in 1 .. Len(s.arr)
      BY <2>1 DEF InArray
    <3>2. Get(u, y) = A[y.id] /\ Get(s, y) = s.arr[y.id]
      BY <1>5, <1>7, <2>1, GetIs
    <3>3. InPart(y, n) <=> y.id <= n
      BY <3>1 DEF InPart
    <3>4. QED
      BY <1>4, <3>1, <3>2, <3>3
  <2>2. CASE ~InArray(s, y)
    <3>1. ~InPart(y, n)
      BY <1>2, <2>2 DEF InPart, InArray
    <3>2. QED
      BY <1>6, <1>7, <2>2, <3>1, GetIs
  <2>3. QED
    BY <2>1, <2>2
<1>11. QED
  BY <1>6, <1>8, <1>9, <1>10 DEF Fine

-----------------------------------------------------------------------------
(* Traversals.                                                             *)
LEMMA MinIn ==
  ASSUME NEW S \in SUBSET Nat, S # {}
  PROVE  Min(S) \in S /\ \A x \in S : Min(S) <= x
<1>1. \E m \in S : \A x \in S : m <= x
  BY LeastNat
<1>2. QED
  BY <1>1 DEF Min

(* The positions of a table, and the keys that have one, dead or not.      *)
Positions(s) == 1 .. Len(s.arr) + SizeNode(s)
Held(s, k) == InArray(s, k) \/ \E i \in DOMAIN s.node : s.node[i].key = k

(* A traversal at key c has given exactly the fields up to c.              *)
Given(s, c, given) ==
  /\ c \in Key \cup {NilKey} /\ (c # NilKey => Held(s, c))
  /\ \A p \in Positions(s) : ValAt(s, p) # Empty =>
       (KeyAt(s, p) \in given <=> p <= FindIndex(s, c))

(* What is at a position.                                                  *)
LEMMA Parts ==
  ASSUME NEW s, Fine(s)
  PROVE  /\ Len(s.arr) \in Nat /\ SizeNode(s) \in Nat /\ DOMAIN s.node = 0 .. SizeNode(s) - 1
         /\ \A p \in Positions(s) :
              /\ p \in Nat
              /\ p <= Len(s.arr) => /\ p \in 1 .. Len(s.arr)
                                    /\ KeyAt(s, p) = IntKey(p) /\ ValAt(s, p) = s.arr[p]
              /\ p > Len(s.arr) => /\ p - Len(s.arr) - 1 \in DOMAIN s.node
                                   /\ KeyAt(s, p) = s.node[p - Len(s.arr) - 1].key
                                   /\ ValAt(s, p) = s.node[p - Len(s.arr) - 1].val
<1>1. Len(s.arr) \in Nat /\ s \in Tables
  BY DEF Fine, Sound, Tables
<1>2. SizeNode(s) \in Nat /\ DOMAIN s.node = 0 .. SizeNode(s) - 1
  BY <1>1, TableSize
<1>3. QED
  BY <1>1, <1>2 DEF Positions, KeyAt, ValAt

(* The key of a traversal is found (findindex raises no error).            *)
LEMMA IndexIs ==
  ASSUME NEW s, Fine(s), NEW k \in Key, Held(s, k)
  PROVE  FindIndex(s, k) \in Positions(s)
<1>1. /\ Len(s.arr) \in Nat /\ SizeNode(s) \in Nat /\ DOMAIN s.node = 0 .. SizeNode(s) - 1
      /\ Sound(s) /\ k.hash \in Nat /\ k # NilKey
  BY Parts, KeyType DEF Fine
<1>2. CASE InArray(s, k)
  BY <1>1, <1>2 DEF FindIndex, InArray, Positions
<1>3. CASE ~InArray(s, k)
  <2> DEFINE i == FindNode(s, k, TRUE)
  <2>1. PICK j \in DOMAIN s.node : s.node[j].key = k
    BY <1>3 DEF Held
  <2>2. FindNode(s, s.node[j].key, TRUE) # Nowhere
    BY <1>1, <2>1, FindDead
  <2>3. i # Nowhere
    BY <2>1, <2>2
  <2>4. i \in DOMAIN s.node
    BY <1>1, <2>3, FindMatches
  <2>5. FindIndex(s, k) = Len(s.arr) + i + 1
    BY <1>1, <1>3, <2>3 DEF FindIndex
  <2> HIDE DEF i
  <2>6. QED
    BY <1>1, <2>4, <2>5 DEF Positions
<1>4. QED
  BY <1>2, <1>3

(* Every field has one position, where its key is found.                   *)
LEMMA PositionIs ==
  ASSUME NEW s, Fine(s), NEW p \in Positions(s), ValAt(s, p) # Empty
  PROVE  /\ KeyAt(s, p) \in Key /\ Held(s, KeyAt(s, p))
         /\ FindIndex(s, KeyAt(s, p)) = p
         /\ Get(s, KeyAt(s, p)) # Empty
<1> DEFINE n == Len(s.arr)
<1>1. Sound(s) /\ Apart(s) /\ ArrKeys(s) /\ n \in Nat
  BY Parts DEF Fine
<1>2. CASE p <= n
  <2>1. p \in 1 .. n /\ KeyAt(s, p) = IntKey(p) /\ s.arr[p] # Empty
    BY <1>2, Parts
  <2>2. IntKey(p) \in Key /\ InArray(s, IntKey(p)) /\ IntKey(p).id = p /\ IntKey(p) # NilKey
    BY <1>1, <2>1 DEF ArrKeys, InArray, IntKey, KeyOf, NilKey
  <2>3. FindIndex(s, IntKey(p)) = p
    BY <2>2 DEF FindIndex
  <2>4. QED
    BY <2>1, <2>2, <2>3, GetIs DEF Held
<1>3. CASE p > n
  <2> DEFINE i == p - n - 1
  <2>1. i \in DOMAIN s.node /\ KeyAt(s, p) = s.node[i].key /\ s.node[i].val # Empty /\ p \in Nat
    BY <1>3, Parts
  <2> HIDE DEF i
  <2>2. s.node[i].key \in Key /\ ~s.node[i].dead /\ HashGet(s, s.node[i].key) # Empty
    BY <1>1, <2>1, HashHas
  <2>3. ~InArray(s, s.node[i].key) /\ s.node[i].key # NilKey
    BY <1>1, <2>1, <2>2, KeyType DEF Apart
  <2>4. FindNode(s, s.node[i].key, TRUE) = i
    BY <1>1, <2>1, <2>2, <2>3, FindLive
  <2>5. i # Nowhere
    BY <2>1, Parts DEF Nowhere
  <2>6. FindIndex(s, s.node[i].key) = n + i + 1
    BY <2>3, <2>4, <2>5 DEF FindIndex
  <2>7. n + i + 1 = p
    BY <1>1, <2>1 DEF i
  <2>8. QED
    BY <2>1, <2>2, <2>3, <2>6, <2>7, GetIs DEF Held
<1>4. QED
  BY <1>1, <1>2, <1>3, Parts

(* Every field has a position.                                             *)
LEMMA PresentAt ==
  ASSUME NEW s, Fine(s), NEW k \in Key, Get(s, k) # Empty
  PROVE  \E p \in Positions(s) : KeyAt(s, p) = k /\ ValAt(s, p) # Empty
<1> DEFINE n == Len(s.arr)
<1>1. Sound(s) /\ n \in Nat /\ SizeNode(s) \in Nat /\ DOMAIN s.node = 0 .. SizeNode(s) - 1
      /\ k.hash \in Nat /\ (k.kind = "int" => k = IntKey(k.id))
  BY Parts, KeyType DEF Fine
<1>2. CASE InArray(s, k)
  <2>1. k.id \in 1 .. n /\ k = IntKey(k.id) /\ s.arr[k.id] # Empty
    BY <1>1, <1>2, GetIs DEF InArray
  <2>2. k.id \in Positions(s) /\ k.id <= n
    BY <1>1, <2>1 DEF Positions
  <2>3. QED
    BY <2>1, <2>2 DEF KeyAt, ValAt
<1>3. CASE ~InArray(s, k)
  <2>1. PICK i \in DOMAIN s.node : s.node[i].key = k /\ s.node[i].val = HashGet(s, k)
    BY <1>1, <1>3, GetIs, HashFrom
  <2>2. s.node[i].val # Empty
    BY <1>3, <2>1, GetIs
  <2>3. n + i + 1 \in Positions(s) /\ ~(n + i + 1 <= n) /\ (n + i + 1) - n - 1 = i
    <3> DEFINE size == SizeNode(s)
    <3>1. i \in Nat /\ i <= size - 1 /\ n \in Nat /\ size \in Nat
      BY <1>1, <2>1
    <3>2. Positions(s) = 1 .. n + size
      BY DEF Positions
    <3> HIDE DEF n, size
    <3>3. QED
      BY <3>1, <3>2
  <2> HIDE DEF n
  <2>4. KeyAt(s, n + i + 1) = k /\ ValAt(s, n + i + 1) # Empty
    BY <2>1, <2>2, <2>3 DEF KeyAt, ValAt, n
  <2>5. QED
    BY <2>3, <2>4
<1>4. QED
  BY <1>2, <1>3

(* A step that moves no field leaves a traversal as it is.                 *)
LEMMA StableGiven ==
  ASSUME NEW s, Fine(s), NEW u, Fine(u), Stable(s, u), NEW c, NEW given, Given(s, c, given)
  PROVE  Given(u, c, given)
<1>1. /\ Alike(s, u) /\ Len(u.arr) = Len(s.arr)
      /\ (\A i \in 1 .. Len(s.arr) : u.arr[i] # Empty => s.arr[i] # Empty)
      /\ \A i \in DOMAIN s.node : u.node[i].val # Empty => s.node[i].val # Empty
  BY DEF Stable
<1>2. /\ DOMAIN u.node = DOMAIN s.node
      /\ \A i \in DOMAIN s.node : u.node[i].key = s.node[i].key
  BY <1>1 DEF Alike
<1>3. Sound(s) /\ SizeNode(u) = SizeNode(s)
  BY <1>1, AlikeSound DEF Fine
<1>4. Positions(u) = Positions(s) /\ \A k : InArray(u, k) <=> InArray(s, k)
  BY <1>1, <1>3 DEF Positions, InArray
<1>5. \A k : Held(u, k) <=> Held(s, k)
  BY <1>2, <1>4 DEF Held
<1>6. ASSUME NEW p \in Positions(s)
      PROVE  KeyAt(u, p) = KeyAt(s, p) /\ (ValAt(u, p) # Empty => ValAt(s, p) # Empty)
  <2>1. p \in Nat /\ Len(s.arr) \in Nat
    BY Parts
  <2>2. CASE p <= Len(s.arr)
    <3>1. p \in 1 .. Len(s.arr) /\ KeyAt(s, p) = IntKey(p) /\ ValAt(s, p) = s.arr[p]
      BY <2>2, Parts
    <3>2. KeyAt(u, p) = IntKey(p) /\ ValAt(u, p) = u.arr[p]
      BY <1>1, <2>2 DEF KeyAt, ValAt
    <3>3. QED
      BY <1>1, <3>1, <3>2
  <2>3. CASE p > Len(s.arr)
    <3> DEFINE i == p - Len(s.arr) - 1
    <3>1. i \in DOMAIN s.node /\ KeyAt(s, p) = s.node[i].key /\ ValAt(s, p) = s.node[i].val
      BY <2>3, Parts
    <3>2. KeyAt(u, p) = u.node[i].key /\ ValAt(u, p) = u.node[i].val
      BY <1>1, <2>1, <2>3 DEF KeyAt, ValAt
    <3> HIDE DEF i
    <3>3. QED
      BY <1>1, <1>2, <3>1, <3>2
  <2>4. QED
    BY <2>1, <2>2, <2>3
<1>7. c \in Key \cup {NilKey} /\ (c # NilKey => Held(s, c))
  BY DEF Given
<1>8. FindIndex(u, c) = FindIndex(s, c)
  <2>1. c.hash \in Nat
    BY <1>7, KeyType DEF NilKey, KeyOf
  <2>2. FindNode(u, c, TRUE) = FindNode(s, c, TRUE)
    BY <1>1, <1>3, <2>1, FindSame
  <2>3. QED
    BY <1>1, <1>4, <2>2 DEF FindIndex
<1>9. \A p \in Positions(s) : ValAt(s, p) # Empty =>
        (KeyAt(s, p) \in given <=> p <= FindIndex(s, c))
  BY DEF Given
<1>10. \A p \in Positions(u) : ValAt(u, p) # Empty =>
         (KeyAt(u, p) \in given <=> p <= FindIndex(u, c))
  BY <1>4, <1>6, <1>8, <1>9
<1>11. QED
  BY <1>5, <1>7, <1>10 DEF Given

(* A traversal that begins has given nothing.                              *)
LEMMA StartGiven ==
  ASSUME NEW s, Fine(s)
  PROVE  Given(s, NilKey, {})
<1>1. FindIndex(s, NilKey) = 0
  BY DEF FindIndex
<1>2. \A p \in Positions(s) : ~(p <= 0)
  BY Parts DEF Positions
<1>3. QED
  BY <1>1, <1>2 DEF Given

(* A traversal finds its place, and the fields after it.                   *)
LEMMA FollowingIs ==
  ASSUME NEW s, Fine(s), NEW c, NEW given, Given(s, c, given)
  PROVE  /\ FindIndex(s, c) \in Nat /\ FindIndex(s, c) # Nowhere
         /\ Following(s, c) \in SUBSET Nat
         /\ \A p : p \in Following(s, c) <=>
                p \in Positions(s) /\ p > FindIndex(s, c) /\ ValAt(s, p) # Empty
<1>1. c \in Key \cup {NilKey} /\ (c # NilKey => Held(s, c))
  BY DEF Given
<1>2. FindIndex(s, c) \in Nat
  <2>1. CASE c = NilKey
    BY <2>1 DEF FindIndex
  <2>2. CASE c # NilKey
    BY <1>1, <2>2, IndexIs, Parts DEF Positions
  <2>3. QED
    BY <2>1, <2>2
<1>3. Len(s.arr) + SizeNode(s) \in Nat
  BY Parts
<1>4. \A p : p \in FindIndex(s, c) + 1 .. Len(s.arr) + SizeNode(s) <=>
               p \in Positions(s) /\ p > FindIndex(s, c)
  BY <1>2, <1>3 DEF Positions
<1>5. \A p \in Positions(s) : p \in Nat
  BY Parts
<1>6. QED
  BY <1>2, <1>4, <1>5 DEF Following, Nowhere

(* 'next' gives a field it has not given yet.                              *)
LEMMA NextGiven ==
  ASSUME NEW s, Fine(s), NEW c, NEW given, Given(s, c, given), Following(s, c) # {},
         NEW k, k = KeyAt(s, Min(Following(s, c)))
  PROVE  k \in Key /\ Get(s, k) # Empty /\ k \notin given /\ Given(s, k, given \cup {k})
<1> DEFINE q == Min(Following(s, c))
           d == FindIndex(s, c)
<1>1. /\ d \in Nat /\ Following(s, c) \in SUBSET Nat
      /\ \A p : p \in Following(s, c) <=>
             p \in Positions(s) /\ p > d /\ ValAt(s, p) # Empty
  BY FollowingIs
<1>2. q \in Following(s, c) /\ \A p \in Following(s, c) : q <= p
  BY <1>1, MinIn
<1>3. \A p \in Positions(s) : ValAt(s, p) # Empty => (KeyAt(s, p) \in given <=> p <= d)
  BY DEF Given
<1>4. k = KeyAt(s, q)
  OBVIOUS
<1> HIDE DEF q, d
<1>5. q \in Positions(s) /\ q > d /\ ValAt(s, q) # Empty
  BY <1>1, <1>2
<1>6. k \in Key /\ Held(s, k) /\ FindIndex(s, k) = q /\ Get(s, k) # Empty
  BY <1>4, <1>5, PositionIs
<1>7. \A p \in Positions(s) : p \in Nat
  BY Parts
<1>8. k \notin given
  BY <1>1, <1>3, <1>4, <1>5, <1>7
<1>9. ASSUME NEW p \in Positions(s), ValAt(s, p) # Empty
      PROVE  KeyAt(s, p) \in given \cup {k} <=> p <= q
  <2>1. KeyAt(s, p) = k => p = q
    BY <1>6, <1>9, PositionIs
  <2>2. KeyAt(s, p) \in given <=> p <= d
    BY <1>3, <1>9
  <2>3. p > d => q <= p
    BY <1>1, <1>2, <1>9
  <2>4. p \in Nat /\ q \in Nat /\ d \in Nat
    BY <1>1, <1>5, <1>7
  <2>5. CASE p <= d
    BY <1>5, <2>2, <2>4, <2>5
  <2>6. CASE p > d /\ p = q
    BY <1>4, <2>4, <2>6
  <2>7. CASE p > d /\ p # q
    BY <2>1, <2>2, <2>3, <2>4, <2>7
  <2>8. QED
    BY <2>4, <2>5, <2>6, <2>7
<1>10. QED
  BY <1>6, <1>8, <1>9 DEF Given

(* It ends when every field was given.                                     *)
LEMMA EndGiven ==
  ASSUME NEW s, Fine(s), NEW c, NEW given, Given(s, c, given), Following(s, c) = {}
  PROVE  \A k \in Key : Get(s, k) # Empty => k \in given
<1>1. SUFFICES ASSUME NEW k \in Key, Get(s, k) # Empty PROVE k \in given
  OBVIOUS
<1>2. PICK p \in Positions(s) : KeyAt(s, p) = k /\ ValAt(s, p) # Empty
  BY <1>1, PresentAt
<1>3. FindIndex(s, c) \in Nat /\ ~(p > FindIndex(s, c)) /\ p \in Nat
  BY <1>2, FollowingIs, Parts
<1>4. p <= FindIndex(s, c)
  BY <1>3
<1>5. QED
  BY <1>2, <1>4 DEF Given

-----------------------------------------------------------------------------
(* The length.                                                             *)

Pairs(high) == (0 .. high) \X (0 .. high)
HalvedAt(s, W, p) == W[p] = IF p[2] - p[1] <= 1 THEN p[1] ELSE W[Half(s, p)]
HalvedUpTo(s, P, W, n) ==
  /\ W = [p \in P |-> W[p]]
  /\ \A p \in P : p[2] - p[1] <= n => HalvedAt(s, W, p)
Halves(s, P, W) == W = [p \in P |-> IF p[2] - p[1] <= 1 THEN p[1] ELSE W[Half(s, p)]]

(* A border: an absent index after one that is present, or after 0.        *)
Border(s, n) == (n = 0 \/ ~Absent(s, n)) /\ Absent(s, n + 1)
Brackets(s, p) == p[1] < p[2] /\ (p[1] = 0 \/ ~Absent(s, p[1])) /\ Absent(s, p[2])

(* The bounds of a pair.                                                   *)
LEMMA PairIs ==
  ASSUME NEW high \in Nat, NEW p \in Pairs(high)
  PROVE  /\ p[1] \in 0 .. high /\ p[2] \in 0 .. high
         /\ p[2] - p[1] \in Int /\ p[2] - p[1] <= high
BY DEF Pairs

(* Halving keeps an index that is present, or 0, below one that is absent, *)
(* and brings them nearer.                                                 *)
LEMMA HalfIs ==
  ASSUME NEW s, NEW high \in Nat, NEW p \in Pairs(high), p[2] - p[1] > 1
  PROVE  LET q == Half(s, p)
         IN  /\ q \in Pairs(high) /\ q[2] - q[1] < p[2] - p[1]
             /\ p[1] <= q[1] /\ q[1] < q[2] /\ q[2] <= p[2]
             /\ Brackets(s, p) => Brackets(s, q)
<1> DEFINE m == (p[1] + p[2]) \div 2
           q == Half(s, p)
<1>1. p[1] \in 0 .. high /\ p[2] \in 0 .. high
  BY PairIs
<1>2. m \in Int /\ p[1] < m /\ m < p[2]
  BY <1>1
<1>3. q = IF Absent(s, m) THEN <<p[1], m>> ELSE <<m, p[2]>>
  BY DEF Half
<1> HIDE DEF m, q
<1>4. CASE Absent(s, m)
  <2>1. q = <<p[1], m>> /\ q[1] = p[1] /\ q[2] = m
    BY <1>3, <1>4
  <2>2. q \in Pairs(high)
    BY <1>1, <1>2, <2>1 DEF Pairs
  <2>3. QED
    BY <1>1, <1>2, <1>4, <2>1, <2>2 DEF Brackets, q
<1>5. CASE ~Absent(s, m)
  <2>1. q = <<m, p[2]>> /\ q[1] = m /\ q[2] = p[2]
    BY <1>3, <1>5
  <2>2. q \in Pairs(high)
    BY <1>1, <1>2, <2>1 DEF Pairs
  <2>3. QED
    BY <1>1, <1>2, <1>5, <2>1, <2>2 DEF Brackets, q
<1>6. QED
  BY <1>4, <1>5

(* The search is defined for all gaps up to n, by induction on n.          *)
LEMMA HalvedStep ==
  ASSUME NEW s, NEW high \in Nat, NEW P, P = Pairs(high), NEW n \in Nat,
         NEW W, HalvedUpTo(s, P, W, n)
  PROVE  \E U : HalvedUpTo(s, P, U, n + 1)
<1> DEFINE U == [p \in P |-> IF p[2] - p[1] <= n THEN W[p]
                             ELSE IF p[2] - p[1] <= 1 THEN p[1] ELSE W[Half(s, p)]]
<1>1. \A p \in P : p[2] - p[1] <= n => HalvedAt(s, W, p)
  BY DEF HalvedUpTo
<1>2. U = [p \in P |-> U[p]]
  OBVIOUS
<1>3. \A p \in P : U[p] = IF p[2] - p[1] <= n THEN W[p]
                          ELSE IF p[2] - p[1] <= 1 THEN p[1] ELSE W[Half(s, p)]
  OBVIOUS
<1> HIDE DEF U
<1>4. ASSUME NEW p \in P, p[2] - p[1] <= n + 1
      PROVE  HalvedAt(s, U, p)
  <2> DEFINE q == Half(s, p)
  <2>1. U[p] = IF p[2] - p[1] <= 1 THEN p[1] ELSE W[q]
    <3>1. CASE p[2] - p[1] <= n
      <4>1. U[p] = W[p] /\ HalvedAt(s, W, p)
        BY <1>1, <1>3, <3>1
      <4>2. QED
        BY <4>1 DEF HalvedAt
    <3>2. CASE ~(p[2] - p[1] <= n)
      BY <1>3, <3>2
    <3>3. QED
      BY <3>1, <3>2
  <2>2. CASE p[2] - p[1] <= 1
    BY <2>1, <2>2 DEF HalvedAt
  <2>3. CASE ~(p[2] - p[1] <= 1)
    <3>1. p[2] - p[1] \in Int
      BY PairIs
    <3>2. p[2] - p[1] > 1
      BY <2>3, <3>1
    <3>3. q \in P /\ q[2] - q[1] < p[2] - p[1]
      BY <3>2, HalfIs
    <3>4. q[2] - q[1] \in Int
      BY <3>3, PairIs
    <3> HIDE DEF q
    <3>5. q[2] - q[1] <= n
      BY <1>4, <3>1, <3>3, <3>4
    <3>6. U[q] = W[q]
      BY <1>3, <3>3, <3>5
    <3>7. QED
      BY <2>1, <2>3, <3>6 DEF HalvedAt, q
  <2>4. QED
    BY <2>2, <2>3
<1>5. HalvedUpTo(s, P, U, n + 1)
  BY <1>2, <1>4 DEF HalvedUpTo
<1>6. QED
  BY <1>5

(* There is a function that halves until the two are neighbors.            *)
LEMMA HalvedAll ==
  ASSUME NEW s, NEW high \in Nat, NEW P, P = Pairs(high)
  PROVE  \E W : Halves(s, P, W)
<1> DEFINE E(n) == \E W : HalvedUpTo(s, P, W, n)
           B == {n \in Nat : ~E(n)}
<1>1. E(0)
  <2> DEFINE W == [p \in P |-> p[1]]
  <2>1. W = [p \in P |-> W[p]] /\ \A p \in P : W[p] = p[1]
    OBVIOUS
  <2> HIDE DEF W
  <2>2. \A p \in P : p[2] - p[1] <= 0 => p[2] - p[1] <= 1
    BY PairIs
  <2>3. HalvedUpTo(s, P, W, 0)
    BY <2>1, <2>2 DEF HalvedUpTo, HalvedAt
  <2>4. QED
    BY <2>3
<1>2. \A n \in Nat : E(n) => E(n + 1)
  BY HalvedStep
<1> HIDE DEF E
<1>3. B = {}
  <2>1. SUFFICES ASSUME B # {} PROVE FALSE
    OBVIOUS
  <2>2. B \in SUBSET Nat
    OBVIOUS
  <2>3. PICK n \in B : \A m \in B : n <= m
    BY <2>1, <2>2, LeastNat
  <2>4. n # 0 /\ n \in Nat
    BY <1>1
  <2>5. n - 1 \in Nat /\ E(n - 1)
    BY <2>3, <2>4
  <2>6. E((n - 1) + 1) /\ (n - 1) + 1 = n
    BY <1>2, <2>4, <2>5
  <2>7. QED
    BY <2>6
<1>4. E(high)
  BY <1>3
<1>5. PICK W : HalvedUpTo(s, P, W, high)
  BY <1>4 DEF E
<1>6. \A p \in P : HalvedAt(s, W, p)
  BY <1>5, PairIs DEF HalvedUpTo
<1>7. W = [p \in P |-> W[p]]
  BY <1>5 DEF HalvedUpTo
<1>8. Halves(s, P, W)
  BY <1>6, <1>7 DEF Halves, HalvedAt
<1>9. QED
  BY <1>8

(* A binary search finds a border between its bounds.                      *)
LEMMA BinSearchIs ==
  ASSUME NEW s, NEW low \in Nat, NEW high \in Nat, low <= high, NEW n, n = BinSearch(s, low, high)
  PROVE  n \in low .. high /\ (Brackets(s, <<low, high>>) => Border(s, n))
<1> DEFINE P == Pairs(high)
           W == CHOOSE U : Halves(s, P, U)
           Good(p) == W[p] \in p[1] .. p[2] /\ (Brackets(s, p) => Border(s, W[p]))
           B == {g \in Nat : \E p \in P : p[1] <= p[2] /\ p[2] - p[1] = g /\ ~Good(p)}
<1>1. Halves(s, P, W)
  BY HalvedAll
<1>2. n = W[<<low, high>>]
  BY DEF BinSearch, Halves, Pairs
<1> HIDE DEF W
<1>3. \A p \in P : HalvedAt(s, W, p)
  BY <1>1 DEF Halves, HalvedAt
<1>4. ASSUME NEW p \in P, p[1] <= p[2], ~Good(p)
      PROVE  \E g \in B : g < p[2] - p[1]
  <2> DEFINE q == Half(s, p)
  <2>1. p[1] \in 0 .. high /\ p[2] \in 0 .. high
    BY PairIs
  <2>2. p[2] - p[1] > 1
    <3>1. SUFFICES ASSUME p[2] - p[1] <= 1 PROVE FALSE
      BY <2>1
    <3>2. W[p] = p[1]
      BY <1>3, <3>1 DEF HalvedAt
    <3>3. Brackets(s, p) => Border(s, p[1])
      <4>1. p[1] < p[2] => p[1] + 1 = p[2]
        BY <2>1, <3>1
      <4>2. QED
        BY <4>1 DEF Brackets, Border
    <3>4. QED
      BY <1>4, <2>1, <3>2, <3>3
  <2>3. /\ q \in P /\ q[2] - q[1] < p[2] - p[1]
        /\ p[1] <= q[1] /\ q[1] < q[2] /\ q[2] <= p[2]
        /\ Brackets(s, p) => Brackets(s, q)
    BY <2>2, HalfIs
  <2>4. W[p] = W[q]
    BY <1>3, <2>1, <2>2 DEF HalvedAt
  <2> HIDE DEF q
  <2>5. q[1] \in 0 .. high /\ q[2] \in 0 .. high
    BY <2>3, PairIs
  <2>6. ~Good(q)
    BY <1>4, <2>1, <2>3, <2>4, <2>5
  <2>7. q[2] - q[1] \in B
    BY <2>3, <2>5, <2>6
  <2>8. QED
    BY <2>3, <2>7
<1>5. B \in SUBSET Nat
  OBVIOUS
<1>6. B = {}
  <2>1. SUFFICES ASSUME B # {} PROVE FALSE
    OBVIOUS
  <2>2. PICK g \in B : \A h \in B : g <= h
    BY <1>5, <2>1, LeastNat
  <2>3. PICK p \in P : p[1] <= p[2] /\ p[2] - p[1] = g /\ ~Good(p)
    OBVIOUS
  <2>4. PICK h \in B : h < g
    BY <1>4, <2>3
  <2>5. QED
    BY <1>5, <2>2, <2>4
<1>7. <<low, high>> \in P /\ high - low \in Nat
  BY DEF Pairs
<1>8. Good(<<low, high>>)
  BY <1>6, <1>7
<1>9. QED
  BY <1>2, <1>8

(* An index with a value is a key.                                         *)
LEMMA PresentKey ==
  ASSUME NEW s, Fine(s), NEW i \in Nat, ~Absent(s, i)
  PROVE  IntKey(i) \in Key
<1> DEFINE k == IntKey(i)
<1>1. Sound(s) /\ ArrKeys(s) /\ Get(s, k) # Empty
  BY DEF Fine, Absent
<1>2. k.hash = i /\ k.id = i /\ k.kind = "int" /\ k = IntKey(i)
  BY DEF IntKey, KeyOf
<1>3. CASE InArray(s, k)
  <2>1. i \in 1 .. Len(s.arr) /\ s.arr[i] # Empty
    BY <1>1, <1>2, <1>3, GetIs DEF InArray
  <2>2. QED
    BY <1>1, <2>1 DEF ArrKeys
<1>4. CASE ~InArray(s, k)
  <2>1. HashGet(s, k) # Empty /\ k.hash \in Nat
    BY <1>1, <1>2, <1>4, GetIs
  <2> HIDE DEF k
  <2>2. PICK j \in DOMAIN s.node : s.node[j].key = k /\ s.node[j].val = HashGet(s, k)
    BY <1>1, <2>1, HashFrom
  <2>3. k \in Key
    BY <1>1, <2>1, <2>2, HashHas
  <2>4. QED
    BY <2>3 DEF k
<1>5. QED
  BY <1>3, <1>4

(* Products of natural numbers.                                            *)
LEMMA Times ==
  ASSUME NEW c \in Nat \ {0}, NEW a \in Nat, NEW b \in Nat, a < b
  PROVE  c * a < c * b /\ c * a \in Nat /\ c * b \in Nat
OBVIOUS

(* n is the first doubling of c that is absent.                            *)
Doubling(s, c, n) ==
  Absent(s, c * TwoTo[n]) /\ \A m \in 1 .. n - 1 : ~Absent(s, c * TwoTo[m])

(* Doubling ends: there are fewer keys than doublings, so one of the       *)
(* indices is absent.                                                      *)
LEMMA DoublingEnds ==
  ASSUME NEW s, Fine(s), NEW c \in Nat \ {0}
  PROVE  \E n \in 1 .. Cardinality(Key) + 1 : Doubling(s, c, n)
<1> DEFINE N == Cardinality(Key) + 1
           S == {n \in 1 .. N : Absent(s, c * TwoTo[n])}
           f == [n \in 1 .. N |-> IntKey(c * TwoTo[n])]
<1>1. Cardinality(Key) \in Nat /\ N \in Nat /\ N > Cardinality(Key) /\ IsFiniteSet(Key)
  BY KeyFinite, FS_CardinalityType
<1>2. \A n \in 1 .. N : n \in Nat /\ TwoTo[n] \in Nat
  BY <1>1, TwoToPositive
<1>3. \A n \in 1 .. N : c * TwoTo[n] \in Nat
  BY <1>2
<1>4. \A m, n \in 1 .. N : m < n => c * TwoTo[m] < c * TwoTo[n]
  <2>1. SUFFICES ASSUME NEW m \in 1 .. N, NEW n \in 1 .. N, m < n
                 PROVE  c * TwoTo[m] < c * TwoTo[n]
    OBVIOUS
  <2>2. m \in Nat /\ n \in Nat /\ TwoTo[m] \in Nat /\ TwoTo[n] \in Nat
    BY <1>2
  <2>3. TwoTo[m] < TwoTo[n]
    BY <2>1, <2>2, TwoToGrows
  <2>4. QED
    BY <2>2, <2>3, Times
<1> HIDE DEF N
<1>5. S # {}
  <2>1. SUFFICES ASSUME \A n \in 1 .. N : ~Absent(s, c * TwoTo[n]) PROVE FALSE
    OBVIOUS
  <2>2. f \in [1 .. N -> Key]
    BY <1>3, <2>1, PresentKey
  <2>3. IsFiniteSet(1 .. N) /\ Cardinality(1 .. N) = N
    BY <1>1, FS_Interval
  <2>4. \A x, y \in 1 .. N : f[x] = f[y] => c * TwoTo[x] = c * TwoTo[y]
    BY DEF IntKey, KeyOf
  <2> HIDE DEF f
  <2>5. PICK x, y \in 1 .. N : x # y /\ f[x] = f[y]
    BY <1>1, <2>2, <2>3, FS_PigeonHole
  <2>6. x \in Nat /\ y \in Nat /\ c * TwoTo[x] \in Nat /\ c * TwoTo[y] \in Nat
    BY <1>2, <1>3
  <2>7. c * TwoTo[x] = c * TwoTo[y] /\ (x < y \/ y < x)
    BY <2>4, <2>5, <2>6
  <2>8. QED
    BY <1>4, <2>6, <2>7
<1>6. S \in SUBSET Nat
  OBVIOUS
<1>7. PICK n \in S : \A m \in S : n <= m
  <2> HIDE DEF S
  <2> QED
    BY <1>5, <1>6, LeastNat
<1>8. Doubling(s, c, n)
  <2>1. ASSUME NEW m \in 1 .. n - 1 PROVE ~Absent(s, c * TwoTo[m])
    <3>1. m \in 1 .. N /\ ~(n <= m)
      BY <1>1
    <3>2. m \notin S
      BY <1>7, <3>1
    <3>3. QED
      BY <3>1, <3>2
  <2>2. QED
    BY <2>1 DEF Doubling
<1>9. QED
  BY <1>7, <1>8 DEF N

(* The unbounded search finds a border.                                    *)
LEMMA HashSearchIs ==
  ASSUME NEW s, Fine(s), NEW j \in Nat, ~Absent(s, IF j = 0 THEN 1 ELSE j)
  PROVE  HashSearch(s, j) \in Nat /\ Border(s, HashSearch(s, j))
<1> DEFINE c == IF j = 0 THEN 1 ELSE j
           power == CHOOSE n \in 1 .. Cardinality(Key) + 1 : Doubling(s, c, n)
           low == c * TwoTo[power - 1]
           high == c * TwoTo[power]
<1>1. c \in Nat \ {0} /\ ~Absent(s, c)
  OBVIOUS
<1>2. HashSearch(s, j) = BinSearch(s, low, high)
  BY DEF HashSearch, Doubling
<1> HIDE DEF c
<1>3. power \in 1 .. Cardinality(Key) + 1 /\ Doubling(s, c, power)
  BY <1>1, DoublingEnds
<1>4. Cardinality(Key) \in Nat
  BY KeyFinite, FS_CardinalityType
<1> HIDE DEF power
<1>5. power \in Nat /\ power - 1 \in Nat /\ power - 1 < power
  BY <1>3, <1>4
<1>6. TwoTo[power - 1] \in Nat /\ TwoTo[power] \in Nat /\ TwoTo[power - 1] < TwoTo[power]
  BY <1>5, TwoToPositive, TwoToGrows
<1>7. low < high /\ low \in Nat /\ high \in Nat
  BY <1>1, <1>6, Times
<1>8. ~Absent(s, low)
  <2>1. CASE power = 1
    <3>1. TwoTo[power - 1] = 1
      BY <2>1, TwoToIs
    <3>2. low = c
      BY <1>1, <3>1
    <3>3. QED
      BY <1>1, <3>2
  <2>2. CASE power # 1
    <3>1. power - 1 \in 1 .. power - 1
      BY <1>5, <2>2
    <3>2. QED
      BY <1>3, <3>1 DEF Doubling
  <2>3. QED
    BY <2>1, <2>2
<1>9. Absent(s, high)
  BY <1>3 DEF Doubling
<1> HIDE DEF low, high
<1>10. Brackets(s, <<low, high>>)
  BY <1>7, <1>8, <1>9 DEF Brackets
<1>11. low <= high
  BY <1>7
<1>12. BinSearch(s, low, high) \in low .. high /\ Border(s, BinSearch(s, low, high))
  BY <1>7, <1>10, <1>11, BinSearchIs
<1>13. QED
  BY <1>2, <1>7, <1>12

(* The greater of two numbers.                                             *)
LEMMA MaxTwo ==
  ASSUME NEW a \in Int, NEW b \in Int
  PROVE  Max({a, b}) = IF a >= b THEN a ELSE b
<1> DEFINE m == IF a >= b THEN a ELSE b
           S == {a, b}
<1>1. m \in S /\ (\A y \in S : m >= y) /\ S \subseteq Int
  OBVIOUS
<1> HIDE DEF m, S
<1>2. Max(S) \in S /\ \A y \in S : Max(S) >= y
  BY <1>1 DEF Max
<1>3. Max(S) = m
  <2>1. Max(S) >= m /\ m >= Max(S)
    BY <1>1, <1>2
  <2>2. Max(S) \in Int /\ m \in Int
    BY <1>1, <1>2
  <2> HIDE DEF Max
  <2>3. QED
    BY <2>1, <2>2
<1>4. QED
  BY <1>3 DEF m, S

(* The less of two numbers.                                                *)
LEMMA MinTwo ==
  ASSUME NEW a \in Nat, NEW b \in Nat
  PROVE  Min({a, b}) = IF a <= b THEN a ELSE b
<1> DEFINE m == IF a <= b THEN a ELSE b
           S == {a, b}
<1>1. m \in S /\ (\A y \in S : m <= y) /\ S \in SUBSET Nat /\ S # {}
  OBVIOUS
<1> HIDE DEF m, S
<1>2. Min(S) \in S /\ \A y \in S : Min(S) <= y
  BY <1>1, MinIn
<1>3. Min(S) = m
  <2>1. Min(S) <= m /\ m <= Min(S)
    BY <1>1, <1>2
  <2>2. Min(S) \in Nat /\ m \in Nat
    BY <1>1, <1>2
  <2>3. QED
    BY <2>1, <2>2
<1>4. QED
  BY <1>3 DEF m, S

(* The border in the hash part, when the array part is full.               *)
InHash(s) ==
  IF IsDummy(s) \/ Absent(s, Len(s.arr) + 1) THEN Len(s.arr) ELSE HashSearch(s, Len(s.arr))

(* Where the array part is full, the search in the hash part finds a       *)
(* border.                                                                 *)
LEMMA InHashIs ==
  ASSUME NEW s, Fine(s), Len(s.arr) = 0 \/ ~Absent(s, Len(s.arr))
  PROVE  Border(s, InHash(s))
<1> DEFINE n == Len(s.arr)
<1>1. n \in Nat
  BY Parts
<1>2. CASE IsDummy(s) \/ Absent(s, n + 1)
  <2>1. Absent(s, n + 1)
    <3>1. SUFFICES ASSUME IsDummy(s) PROVE Absent(s, n + 1)
      BY <1>2
    <3>2. IntKey(n + 1).id = n + 1
      BY DEF IntKey, KeyOf
    <3>3. ~InArray(s, IntKey(n + 1))
      BY <1>1, <3>2 DEF InArray
    <3>4. FindNode(s, IntKey(n + 1), FALSE) = Nowhere
      BY <3>1 DEF FindNode
    <3>5. QED
      BY <3>3, <3>4 DEF Absent, Get
  <2>2. InHash(s) = n
    BY <1>2 DEF InHash
  <2>3. QED
    BY <2>1, <2>2 DEF Border
<1>3. CASE ~(IsDummy(s) \/ Absent(s, n + 1))
  <2>1. InHash(s) = HashSearch(s, n)
    BY <1>3 DEF InHash
  <2>2. ~Absent(s, IF n = 0 THEN 1 ELSE n)
    BY <1>1, <1>3
  <2> HIDE DEF n
  <2>3. Border(s, HashSearch(s, n))
    BY <1>1, <2>2, HashSearchIs
  <2>4. QED
    BY <2>1, <2>3
<1>4. QED
  BY <1>2, <1>3

(* The hint: the fields near it that are present below, or absent above.   *)
Limit(s) == IF s.lenhint = 0 THEN 1 ELSE s.lenhint
Below(s) == {i \in 1 .. Limit(s) - 1 : i >= Limit(s) - MaxVicinity /\ ~Absent(s, i)}
Above(s) == {i \in Limit(s) + 1 .. Len(s.arr) : i <= Limit(s) + MaxVicinity /\ Absent(s, i)}

(* The hint, corrected, is in the array part.                              *)
LEMMA LimitIs ==
  ASSUME NEW s, Fine(s), Len(s.arr) # 0
  PROVE  Limit(s) \in 1 .. Len(s.arr) /\ Len(s.arr) \in Nat /\ MaxVicinity \in Nat \ {0}
<1>1. s.lenhint \in Nat /\ s.lenhint <= Len(s.arr) /\ Len(s.arr) \in Nat
  BY DEF Fine, Sound, Tables, Hinted
<1>2. QED
  BY <1>1, TableAssumption DEF Limit

(* A border below an absent hint.                                          *)
LEMMA BelowIs ==
  ASSUME NEW s, Fine(s), Len(s.arr) # 0, Absent(s, Limit(s)),
         NEW n, n = IF Below(s) # {} THEN Max(Below(s))
                    ELSE BinSearch(s, 0, Max({1, Limit(s) - MaxVicinity}))
  PROVE  Border(s, n) /\ n \in 0 .. Len(s.arr)
<1> DEFINE l == Limit(s)
           v == MaxVicinity
           S == Below(s)
<1>1. l \in 1 .. Len(s.arr) /\ Len(s.arr) \in Nat /\ v \in Nat \ {0} /\ l \in Nat
  BY LimitIs
<1>2. \A i : i \in S <=> i \in 1 .. l - 1 /\ i >= l - v /\ ~Absent(s, i)
  BY DEF Below
<1>3. Absent(s, l)
  OBVIOUS
<1>4. CASE S # {}
  <2>1. n = Max(S) /\ S \in SUBSET (0 .. l)
    BY <1>1, <1>2, <1>4
  <2> HIDE DEF S, l, v
  <2>2. n \in S /\ \A x \in S : n >= x
    BY <1>1, <1>4, <2>1, MaxIn
  <2>3. n \in 1 .. l - 1 /\ n >= l - v /\ ~Absent(s, n)
    BY <1>2, <2>2
  <2>4. n + 1 \notin S
    <3>1. n \in Int
      BY <2>3
    <3>2. ~(n >= n + 1)
      BY <3>1
    <3>3. QED
      BY <2>2, <3>2
  <2>5. n + 1 = l \/ (n + 1 \in 1 .. l - 1 /\ n + 1 >= l - v)
    BY <1>1, <2>3
  <2>6. Absent(s, n + 1)
    BY <1>2, <1>3, <2>4, <2>5
  <2>7. QED
    BY <1>1, <2>3, <2>6 DEF Border
<1>5. CASE S = {}
  <2> DEFINE h == Max({1, l - v})
  <2>1. n = BinSearch(s, 0, h)
    BY <1>5
  <2>2. h = IF 1 >= l - v THEN 1 ELSE l - v
    <3> HIDE DEF l, v
    <3>1. l - v \in Int /\ 1 \in Int
      BY <1>1
    <3>2. QED
      BY <3>1, MaxTwo
  <2> HIDE DEF S, l, v, h
  <2>3. h \in 1 .. l /\ h >= l - v
    BY <1>1, <2>2
  <2>4. Absent(s, h)
    <3>1. h = l \/ h \in 1 .. l - 1
      BY <1>1, <2>3
    <3>2. QED
      BY <1>2, <1>3, <1>5, <2>3, <3>1
  <2>5. h \in Nat /\ 0 < h /\ 0 <= h
    BY <1>1, <2>3
  <2>6. Brackets(s, <<0, h>>)
    BY <2>4, <2>5 DEF Brackets
  <2>7. n \in 0 .. h /\ Border(s, n)
    BY <2>1, <2>5, <2>6, BinSearchIs
  <2>8. QED
    BY <1>1, <2>3, <2>7
<1>6. QED
  BY <1>4, <1>5

(* A border above a present hint, in the array part.                       *)
LEMMA AboveIs ==
  ASSUME NEW s, Fine(s), Len(s.arr) # 0, ~Absent(s, Limit(s)),
         NEW n, \/ Above(s) # {} /\ n = Min(Above(s)) - 1
                \/ /\ Above(s) = {} /\ Absent(s, Len(s.arr))
                   /\ n = BinSearch(s, Min({Limit(s) + MaxVicinity, Len(s.arr)}), Len(s.arr))
  PROVE  Border(s, n) /\ n \in 0 .. Len(s.arr)
<1> DEFINE l == Limit(s)
           v == MaxVicinity
           S == Above(s)
           a == Len(s.arr)
<1>1. l \in 1 .. a /\ a \in Nat /\ v \in Nat \ {0} /\ l \in Nat
  BY LimitIs
<1>2. \A i : i \in S <=> i \in l + 1 .. a /\ i <= l + v /\ Absent(s, i)
  BY DEF Above
<1>3. ~Absent(s, l)
  OBVIOUS
<1>4. CASE S # {}
  <2> DEFINE m == Min(S)
  <2>1. n = m - 1 /\ S \in SUBSET Nat
    BY <1>1, <1>2, <1>4
  <2>2. m \in S /\ \A x \in S : m <= x
    <3> HIDE DEF S
    <3>1. QED
      BY <1>4, <2>1, MinIn
  <2> HIDE DEF S, l, v, m, a
  <2>3. m \in l + 1 .. a /\ m <= l + v /\ Absent(s, m)
    BY <1>2, <2>2
  <2>4. m - 1 \notin S
    BY <1>1, <2>2, <2>3
  <2>5. m - 1 = l \/ (m - 1 \in l + 1 .. a /\ m - 1 <= l + v)
    BY <1>1, <2>3
  <2>6. ~Absent(s, m - 1)
    BY <1>2, <1>3, <2>4, <2>5
  <2>7. n + 1 = m /\ n \in 0 .. a
    BY <1>1, <2>1, <2>3
  <2>8. QED
    BY <2>1, <2>3, <2>6, <2>7 DEF Border, a
<1>5. CASE S = {}
  <2> DEFINE h == Min({l + v, a})
  <2>1. n = BinSearch(s, h, a) /\ Absent(s, a)
    BY <1>5
  <2>2. h = IF l + v <= a THEN l + v ELSE a
    <3> HIDE DEF l, v, a
    <3>1. l + v \in Nat /\ a \in Nat
      BY <1>1
    <3>2. QED
      BY <3>1, MinTwo
  <2> HIDE DEF S, l, v, h, a
  <2>3. a # l /\ a \notin S
    BY <1>3, <1>5, <2>1
  <2>4. ~(a <= l + v)
    BY <1>1, <1>2, <2>1, <2>3
  <2>5. h = l + v /\ h < a /\ h \in Nat
    BY <1>1, <2>2, <2>4
  <2>6. ~Absent(s, h)
    BY <1>1, <1>2, <1>5, <2>5
  <2>7. Brackets(s, <<h, a>>)
    BY <2>1, <2>5, <2>6 DEF Brackets
  <2>8. n \in h .. a /\ Border(s, n)
    BY <1>1, <2>1, <2>5, <2>7, BinSearchIs
  <2>9. QED
    BY <1>1, <2>5, <2>8 DEF a
<1>6. QED
  BY <1>4, <1>5

(* The length is a border, and the new hint is inside the array part.      *)
LEMMA LengthIs ==
  ASSUME NEW s, Fine(s), NEW r, r = Length(s)
  PROVE  Border(s, r.n) /\ r.hint \in Nat /\ (Len(s.arr) > 0 => r.hint <= Len(s.arr))
<1> DEFINE a == Len(s.arr)
           low == IF Below(s) # {} THEN Max(Below(s))
                  ELSE BinSearch(s, 0, Max({1, Limit(s) - MaxVicinity}))
           mid == Min(Above(s)) - 1
           top == BinSearch(s, Min({Limit(s) + MaxVicinity, a}), a)
<1>1. r = IF a = 0 THEN [n |-> InHash(s), hint |-> s.lenhint]
          ELSE IF Absent(s, Limit(s)) THEN [n |-> low, hint |-> low]
          ELSE IF Above(s) # {} THEN [n |-> mid, hint |-> mid]
          ELSE IF Absent(s, a) THEN [n |-> top, hint |-> top]
          ELSE [n |-> InHash(s), hint |-> a]
  BY DEF Length, InHash, Below, Above, Limit
<1>2. s.lenhint \in Nat /\ a \in Nat
  BY DEF Fine, Sound, Tables
<1>3. CASE a = 0
  <2>1. r.n = InHash(s) /\ r.hint = s.lenhint
    BY <1>1, <1>3
  <2>2. QED
    BY <1>2, <1>3, <2>1, InHashIs
<1>4. CASE a # 0 /\ Absent(s, Limit(s))
  <2>1. Border(s, low) /\ low \in 0 .. a
    BY <1>4, BelowIs
  <2> HIDE DEF low
  <2>2. r.n = low /\ r.hint = low
    BY <1>1, <1>4
  <2>3. QED
    BY <1>2, <2>1, <2>2
<1>5. CASE a # 0 /\ ~Absent(s, Limit(s)) /\ Above(s) # {}
  <2>1. Border(s, mid) /\ mid \in 0 .. a
    BY <1>5, AboveIs
  <2> HIDE DEF mid, low
  <2>2. r.n = mid /\ r.hint = mid
    BY <1>1, <1>5
  <2>3. QED
    BY <1>2, <2>1, <2>2
<1>6. CASE a # 0 /\ ~Absent(s, Limit(s)) /\ Above(s) = {} /\ Absent(s, a)
  <2>1. Border(s, top) /\ top \in 0 .. a
    BY <1>6, AboveIs
  <2> HIDE DEF top, mid, low
  <2>2. r.n = top /\ r.hint = top
    BY <1>1, <1>6
  <2>3. QED
    BY <1>2, <2>1, <2>2
<1>7. CASE a # 0 /\ ~Absent(s, Limit(s)) /\ Above(s) = {} /\ ~Absent(s, a)
  <2>1. Border(s, InHash(s))
    BY <1>7, InHashIs
  <2> HIDE DEF top, mid, low
  <2>2. r.n = InHash(s) /\ r.hint = a
    BY <1>1, <1>7
  <2>3. QED
    BY <1>2, <2>1, <2>2
<1>8. QED
  BY <1>3, <1>4, <1>5, <1>6, <1>7

-----------------------------------------------------------------------------
(* The steps.  The fields are what they were, or those that a weak table   *)
(* did not lose; a traversal may go on if no field is new.                 *)
HintSet(s, h) == [s EXCEPT !.lenhint = h]

(* A new hint changes no field.                                            *)
LEMMA HintFine ==
  ASSUME NEW s, Fine(s), NEW h \in Nat, Len(s.arr) > 0 => h <= Len(s.arr),
         NEW u, u = HintSet(s, h)
  PROVE  Fine(u) /\ Stable(s, u) /\ \A y \in Key : Get(u, y) = Get(s, y)
<1>1. s \in Tables /\ Sound(s) /\ PowerSize(s) /\ Apart(s) /\ ArrKeys(s)
  BY DEF Fine, Sound
<1>2. /\ u \in Tables /\ u.arr = s.arr /\ u.node = s.node
      /\ u.lastfree = s.lastfree /\ u.lenhint = h
  BY <1>1 DEF Tables, HintSet
<1>3. Sound(u) /\ SizeNode(u) = SizeNode(s) /\ IsDummy(u) = IsDummy(s)
  BY <1>1, <1>2, SameNodes
<1>4. \A y : HashGet(u, y) = HashGet(s, y)
  BY <1>1, <1>2, SameNodes
<1>5. \A y : InArray(u, y) <=> InArray(s, y)
  BY <1>2 DEF InArray
<1>6. PowerSize(u)
  BY <1>1, <1>3 DEF PowerSize
<1>7. Apart(u) /\ ArrKeys(u) /\ Hinted(u)
  BY <1>1, <1>2, <1>5 DEF Apart, ArrKeys, Hinted
<1>8. Alike(s, u)
  BY <1>1, <1>2, NodesAlike
<1>9. Stable(s, u)
  BY <1>2, <1>8 DEF Stable
<1>10. \A y \in Key : Get(u, y) = Get(s, y)
  BY <1>2, <1>4, <1>5, GetIs
<1>11. QED
  BY <1>3, <1>6, <1>7, <1>9, <1>10 DEF Fine

(* A collection keeps every key where it is.                               *)
LEMMA CollectedFine ==
  ASSUME NEW s, Fine(s), NEW u, u = Collected(s)
  PROVE  Fine(u) /\ Stable(s, u) /\ Keeps(s, u)
<1>1. Sound(s) /\ s \in Tables
  BY DEF Fine, Sound
<1>2. Swept(s, u)
  BY <1>1, CollectedIs
<1>3. Fine(u) /\ Keeps(s, u) /\ Alike(s, u)
  BY <1>1, <1>2, SweptFine, SweptAlike
<1>4. Stable(s, u)
  BY <1>2, <1>3 DEF Stable, Swept
<1>5. QED
  BY <1>3, <1>4

(* A traversal of a table without fields is at its start.                  *)
LEMMA EmptyGiven ==
  ASSUME NEW c, NEW given, Given(FreshTable, c, given),
         NEW u, Fine(u), \A y \in Key : Get(u, y) = Empty
  PROVE  Given(u, c, given)
<1>1. c = NilKey
  <2>1. ~InArray(FreshTable, c)
    BY DEF InArray, FreshTable
  <2>2. DOMAIN FreshTable.node = {}
    BY DEF FreshTable
  <2>3. ~Held(FreshTable, c)
    BY <2>1, <2>2 DEF Held
  <2>4. QED
    BY <2>3 DEF Given
<1>2. ASSUME NEW p \in Positions(u), ValAt(u, p) # Empty PROVE FALSE
  <2>1. KeyAt(u, p) \in Key /\ Get(u, KeyAt(u, p)) # Empty
    BY <1>2, PositionIs
  <2>2. QED
    BY <2>1
<1>3. QED
  BY <1>1, <1>2 DEF Given

(* An argument is a key, or nil or NaN.                                    *)
LEMMA ArgKey ==
  ASSUME NEW p \in Programs, NEW arg \in p.args
  PROVE  Normalized(arg) \in Key \/ Normalized(arg) \in {NaN, NilKey}
<1>1. arg \in Arg
  BY DEF Arg
<1>2. QED
  BY <1>1 DEF Key

(* The value of a field is a value.                                        *)
LEMMA GetType ==
  ASSUME NEW s, Fine(s), NEW k \in Key
  PROVE  Get(s, k) \in Value \cup {Empty}
<1>1. Sound(s) /\ s.arr \in Seq(Value \cup {Empty}) /\ k.hash \in Nat
  BY KeyType DEF Fine, Sound, Tables
<1>2. CASE InArray(s, k)
  BY <1>1, <1>2, GetIs DEF InArray
<1>3. CASE ~InArray(s, k) /\ HashGet(s, k) # Empty
  <2>1. PICK i \in DOMAIN s.node : s.node[i].key = k /\ s.node[i].val = HashGet(s, k)
    BY <1>1, <1>3, HashFrom
  <2>2. s.node[i].val \in Value
    BY <1>1, <1>3, <2>1, HashHas
  <2>3. QED
    BY <1>3, <2>1, <2>2, GetIs
<1>4. QED
  BY <1>2, <1>3, GetIs

-----------------------------------------------------------------------------
(* The inductive invariant.                                                *)
VarsOk == /\ prog \in Programs /\ cur \in Key \cup {NilKey, Idle} /\ seen \subseteq Key
          /\ live \subseteq Value /\ freed \subseteq Value
Traversed(s, c, given) == IF c = Idle THEN given = {} ELSE Given(s, c, given)
TableInv == VarsOk /\ Fine(t) /\ Traversed(t, cur, seen)

(* What an assignment does: nothing, or a new value for a field, or a new  *)
(* field, which ends the traversal.                                        *)
Replaced(k, v) ==
  /\ Get(t, k) # Empty /\ Stable(t, t') /\ Exact(t, t', k, v)
  /\ UNCHANGED <<cur, seen>>
Added(k, v) ==
  /\ Get(t, k) = Empty /\ (\E alloc : Adds(t, t', k, v, alloc))
  /\ Stops

(* An assignment, with or without a metamethod, a rehash, an emergency     *)
(* collection and a failed allocation.                                     *)
LEMMA AssignIs ==
  ASSUME TableInv, Assign
  PROVE  /\ Fine(t') /\ live' \subseteq Value /\ freed' \subseteq Value
         /\ \/ UNCHANGED <<t, cur, seen>>
            \/ \E k \in Key, v \in Value \cup {Empty} : Replaced(k, v) \/ Added(k, v)
<1>1. VarsOk /\ Fine(t)
  BY DEF TableInv
<1>2. prog \in Programs /\ live \subseteq Value /\ freed \subseteq Value
  BY <1>1 DEF VarsOk
<1>3. PICK arg \in prog.args, v \in live \cup {Empty}, raw \in {~HasNewIndex, TRUE} :
        LET k == Normalized(arg)
            adds == k \in Key /\ Get(t, k) = Empty /\ raw
        IN \E alloc \in IF adds THEN Allocations(k, v) ELSE {AllOk} :
             /\ t' = Set(t, k, v, HasNewIndex, raw, alloc)
             /\ IF adds THEN Stops ELSE UNCHANGED <<cur, seen>>
             /\ freed' = IF alloc = AllOk THEN freed ELSE Freed(t')
             /\ UNCHANGED live
  BY DEF Assign
<1> DEFINE k == Normalized(arg)
           adds == k \in Key /\ Get(t, k) = Empty /\ raw
<1>4. PICK alloc : /\ t' = Set(t, k, v, HasNewIndex, raw, alloc)
                   /\ IF adds THEN Stops ELSE UNCHANGED <<cur, seen>>
                   /\ freed' = IF alloc = AllOk THEN freed ELSE Freed(t')
                   /\ UNCHANGED live
  BY <1>3
<1>5. k \in Key \/ k \in {NaN, NilKey}
  BY <1>2, ArgKey
<1>6. v \in Value \cup {Empty} /\ HasNewIndex \in BOOLEAN /\ raw \in BOOLEAN
  <2>1. v \in Value \cup {Empty}
    BY <1>2
  <2>2. HasNewIndex \in BOOLEAN
    BY DEF HasNewIndex
  <2>3. raw = ~HasNewIndex \/ raw = TRUE
    BY Zenon
  <2>4. raw \in BOOLEAN
    BY <2>3, Zenon
  <2>5. QED
    BY <2>1, <2>2, <2>4
<1>7. live' \subseteq Value /\ freed' \subseteq Value
  BY <1>2, <1>4 DEF Freed
<1> HIDE DEF k
<1>8. CASE adds
  <2>1. t' = Set(t, k, v, HasNewIndex, TRUE, alloc) /\ Stops
    BY <1>4, <1>8
  <2>2. Adds(t, t', k, v, alloc)
    BY <1>1, <1>6, <1>8, <2>1, SetAdds
  <2>3. Added(k, v) /\ Fine(t')
    BY <1>8, <2>1, <2>2 DEF Added, Adds
  <2>4. QED
    BY <1>6, <1>7, <1>8, <2>3
<1>9. CASE k \in Key /\ Get(t, k) # Empty
  <2>1. UNCHANGED <<cur, seen>>
    BY <1>4, <1>9
  <2>2. Fine(t') /\ Stable(t, t') /\ Exact(t, t', k, v)
    BY <1>1, <1>4, <1>6, <1>9, SetReplaces
  <2>3. Replaced(k, v)
    BY <1>9, <2>1, <2>2 DEF Replaced
  <2>4. QED
    BY <1>6, <1>7, <1>9, <2>2, <2>3
<1>10. CASE ~adds /\ ~(k \in Key /\ Get(t, k) # Empty)
  <2>1. UNCHANGED <<cur, seen>>
    BY <1>4, <1>10
  <2>2. k \in {NaN, NilKey} \/ (k \in Key /\ Get(t, k) = Empty /\ HasNewIndex /\ ~raw)
    BY <1>5, <1>10
  <2>3. t' = t
    BY <1>1, <1>4, <1>6, <2>2, SetNothing
  <2>4. QED
    BY <1>1, <1>7, <2>1, <2>3
<1>11. QED
  BY <1>8, <1>9, <1>10

(* A table is built anew, before it has fields.                            *)
LEMMA ConstructStep ==
  ASSUME TableInv, Construct
  PROVE  Fine(t') /\ (\A y \in Key : Get(t', y) = Empty /\ Get(t, y) = Empty)
         /\ Traversed(t', cur, seen) /\ UNCHANGED <<cur, seen, live, freed>>
<1>1. t = FreshTable /\ UNCHANGED <<cur, seen, live, freed>>
  BY DEF Construct
<1>2. PICK na \in 0 .. MaxItems, nh \in 0 .. MaxItems : t' = Resize(t, na, nh, AllOk)
  BY DEF Construct
<1>3. na \in Nat /\ nh \in Nat
  OBVIOUS
<1>4. t' = Resize(FreshTable, na, nh, AllOk)
  BY <1>1, <1>2
<1>5. Fine(t') /\ \A y \in Key : Get(t', y) = Empty
  BY <1>3, <1>4, ConstructIs
<1>6. \A y \in Key : Get(t, y) = Empty
  BY <1>1, FreshFine
<1>7. Traversed(t, cur, seen)
  BY DEF TableInv
<1>8. Traversed(t', cur, seen)
  BY <1>1, <1>5, <1>7, EmptyGiven DEF Traversed
<1>9. QED
  BY <1>1, <1>5, <1>6, <1>8

(* The items of a constructor, over what the table kept.                   *)
ListedOver(s, u, n, v) ==
  \E g : /\ Keeps(s, g)
         /\ \A y \in Key : Get(u, y) = IF InPart(y, n) THEN v ELSE Get(g, y)

(* A constructor stores its items and ends the traversal.                  *)
LEMMA SetListStep ==
  ASSUME TableInv, SetList
  PROVE  /\ Fine(t') /\ Stops /\ UNCHANGED <<live, freed>>
         /\ \E n \in 1 .. MaxItems, v \in Value : ListedOver(t, t', n, v)
<1>1. Fine(t) /\ live \subseteq Value
  BY DEF TableInv, VarsOk
<1>2. Stops /\ UNCHANGED <<live, freed>>
  BY DEF SetList
<1>3. PICK n \in 1 .. MaxItems, v \in live : t' = Listed(Grown(t, n), n, v)
  BY DEF SetList, Listed, Grown
<1> DEFINE g == Grown(t, n)
<1>4. n \in Nat /\ v \in Value
  BY <1>1
<1>5. Fine(g) /\ Keeps(t, g) /\ n <= Len(g.arr)
  BY <1>1, <1>4, GrownIs
<1>6. t' = Listed(g, n, v)
  BY <1>3
<1> HIDE DEF g
<1>7. Fine(t') /\ \A y \in Key : Get(t', y) = IF InPart(y, n) THEN v ELSE Get(g, y)
  BY <1>4, <1>5, <1>6, ListedIs
<1>8. ListedOver(t, t', n, v)
  BY <1>5, <1>7 DEF ListedOver
<1>9. QED
  BY <1>2, <1>4, <1>7, <1>8

(* The length moves the hint.                                              *)
LEMMA TakeLengthStep ==
  ASSUME TableInv, TakeLength
  PROVE  /\ Fine(t') /\ Stable(t, t') /\ (\A y \in Key : Get(t', y) = Get(t, y))
         /\ UNCHANGED <<cur, seen, live, freed>>
<1>1. Fine(t)
  BY DEF TableInv
<1>2. t' = HintSet(t, Length(t).hint) /\ UNCHANGED <<cur, seen, live, freed>>
  BY DEF TakeLength, HintSet
<1>3. Length(t).hint \in Nat /\ (Len(t.arr) > 0 => Length(t).hint <= Len(t.arr))
  BY <1>1, LengthIs
<1>4. QED
  BY <1>1, <1>2, <1>3, HintFine

(* A collection keeps the table and its traversal.                         *)
LEMMA CollectStep ==
  ASSUME TableInv, Collect
  PROVE  /\ Fine(t') /\ Stable(t, t') /\ Keeps(t, t') /\ freed' \subseteq Value
         /\ UNCHANGED <<cur, seen, live>>
<1>1. Fine(t) /\ freed \subseteq Value
  BY DEF TableInv, VarsOk
<1>2. t' = Collected(t) /\ freed' = Freed(t') /\ UNCHANGED <<cur, seen, live>>
  BY DEF Collect
<1>3. Fine(t') /\ Stable(t, t') /\ Keeps(t, t')
  BY <1>1, <1>2, CollectedFine
<1>4. freed' \subseteq Value
  BY <1>1, <1>2 DEF Freed
<1>5. QED
  BY <1>2, <1>3, <1>4

(* The end of a traversal: it has given every field.  Otherwise it gives a *)
(* field that it has not given.                                            *)
Ended == (\A k \in Key : Get(t, k) # Empty => k \in seen) /\ Stops
GivenNow(k) == /\ Get(t, k) # Empty /\ k \notin seen
               /\ cur' = k /\ seen' = seen \cup {k} /\ Given(t, k, seen \cup {k})

(* One call of next.                                                       *)
LEMMA NextKeyStep ==
  ASSUME TableInv, NextKey
  PROVE  /\ cur # Idle /\ UNCHANGED <<t, live, freed>>
         /\ Ended \/ \E k \in Key : GivenNow(k)
<1>1. Fine(t) /\ Traversed(t, cur, seen)
  BY DEF TableInv
<1>2. cur # Idle /\ UNCHANGED <<t, live, freed>>
  BY DEF NextKey
<1>3. Given(t, cur, seen)
  BY <1>1, <1>2 DEF Traversed
<1>4. CASE Following(t, cur) = {}
  <2>1. Stops
    BY <1>4 DEF NextKey
  <2>2. \A k \in Key : Get(t, k) # Empty => k \in seen
    BY <1>1, <1>3, <1>4, EndGiven
  <2>3. QED
    BY <1>2, <2>1, <2>2 DEF Ended
<1>5. CASE Following(t, cur) # {}
  <2> DEFINE k == KeyAt(t, Min(Following(t, cur)))
  <2>1. cur' = k /\ seen' = seen \cup {k}
    BY <1>5 DEF NextKey
  <2>2. k \in Key /\ Get(t, k) # Empty /\ k \notin seen /\ Given(t, k, seen \cup {k})
    BY <1>1, <1>3, <1>5, NextGiven
  <2> HIDE DEF k
  <2>3. QED
    BY <1>2, <2>1, <2>2 DEF GivenNow
<1>6. QED
  BY <1>4, <1>5

-----------------------------------------------------------------------------
(* The invariant holds at the start.                                       *)
LEMMA InitInv == Init => TableInv
<1> SUFFICES ASSUME Init PROVE TableInv
  OBVIOUS
<1>1. Fine(t)
  BY FreshFine DEF Init
<1>2. VarsOk /\ cur = Idle /\ seen = {}
  BY DEF Init, VarsOk
<1>3. Traversed(t, cur, seen)
  BY <1>2 DEF Traversed
<1>4. QED
  BY <1>1, <1>2, <1>3 DEF TableInv

(* A traversal goes on over a table whose keys stay where they are.        *)
LEMMA TraversedStable ==
  ASSUME NEW s, Fine(s), NEW u, Fine(u), Stable(s, u), NEW c, NEW given, Traversed(s, c, given)
  PROVE  Traversed(u, c, given)
BY StableGiven DEF Traversed

(* No traversal.                                                           *)
LEMMA TraversedIdle ==
  ASSUME NEW s, NEW c, NEW given, c = Idle, given = {}
  PROVE  Traversed(s, c, given)
BY DEF Traversed

(* Every action keeps the invariant.                                       *)
LEMMA NextInv == TableInv /\ [Next]_vars => TableInv'
<1> SUFFICES ASSUME TableInv, [Next]_vars PROVE TableInv'
  OBVIOUS
<1>1. VarsOk /\ Fine(t) /\ Traversed(t, cur, seen)
  BY DEF TableInv
<1>2. /\ prog \in Programs /\ cur \in Key \cup {NilKey, Idle} /\ seen \subseteq Key
      /\ live \subseteq Value /\ freed \subseteq Value
  BY <1>1 DEF VarsOk
<1>3. SUFFICES /\ Fine(t') /\ Traversed(t', cur', seen')
               /\ prog' \in Programs /\ cur' \in Key \cup {NilKey, Idle} /\ seen' \subseteq Key
               /\ live' \subseteq Value /\ freed' \subseteq Value
  BY DEF TableInv, VarsOk, Fine, Traversed
<1>4. prog' \in Programs
  BY <1>2 DEF Next, vars
<1>5. CASE Assign
  <2>1. /\ Fine(t') /\ live' \subseteq Value /\ freed' \subseteq Value
        /\ \/ UNCHANGED <<t, cur, seen>>
           \/ \E k \in Key, v \in Value \cup {Empty} : Replaced(k, v) \/ Added(k, v)
    BY <1>5, AssignIs
  <2>2. CASE UNCHANGED <<t, cur, seen>>
    BY <1>1, <1>2, <1>4, <2>1, <2>2
  <2>3. CASE \E k \in Key, v \in Value \cup {Empty} : Replaced(k, v)
    <3>1. Stable(t, t') /\ cur' = cur /\ seen' = seen
      BY <2>3 DEF Replaced
    <3>2. Traversed(t', cur', seen')
      BY <1>1, <2>1, <3>1, TraversedStable
    <3>3. QED
      BY <1>2, <1>4, <2>1, <3>1, <3>2
  <2>4. CASE \E k \in Key, v \in Value \cup {Empty} : Added(k, v)
    <3>1. cur' = Idle /\ seen' = {}
      BY <2>4 DEF Added, Stops
    <3>2. QED
      BY <1>4, <2>1, <3>1, TraversedIdle
  <2>5. QED
    BY <2>1, <2>2, <2>3, <2>4
<1>6. CASE Construct
  BY <1>2, <1>4, <1>6, ConstructStep
<1>7. CASE SetList
  BY <1>2, <1>4, <1>7, SetListStep, TraversedIdle DEF Stops
<1>8. CASE TakeLength
  BY <1>1, <1>2, <1>4, <1>8, TakeLengthStep, TraversedStable
<1>9. CASE StartNext
  <2>1. t' = t /\ cur' = NilKey /\ seen' = {} /\ live' = live /\ freed' = freed
    BY <1>9 DEF StartNext
  <2>2. Given(t, NilKey, {})
    BY <1>1, StartGiven
  <2>3. NilKey # Idle
    BY TableAssumption DEF TableAssumption
  <2>4. Traversed(t', cur', seen')
    BY <2>1, <2>2, <2>3 DEF Traversed
  <2>5. QED
    BY <1>1, <1>2, <1>4, <2>1, <2>4
<1>10. CASE NextKey
  <2>1. /\ t' = t /\ live' = live /\ freed' = freed
        /\ Ended \/ \E k \in Key : GivenNow(k)
    BY <1>10, NextKeyStep
  <2>2. CASE Ended
    BY <1>1, <1>2, <1>4, <2>1, <2>2, TraversedIdle DEF Ended, Stops
  <2>3. CASE \E k \in Key : GivenNow(k)
    <3>1. PICK k \in Key : cur' = k /\ seen' = seen \cup {k} /\ Given(t, k, seen \cup {k})
      BY <2>3 DEF GivenNow
    <3>2. k # Idle
      BY KeyType
    <3>3. Traversed(t', cur', seen')
      BY <2>1, <3>1, <3>2 DEF Traversed
    <3>4. QED
      BY <1>1, <1>2, <1>4, <2>1, <3>1, <3>3
  <2>4. QED
    BY <2>1, <2>2, <2>3
<1>11. CASE Collect
  BY <1>1, <1>2, <1>4, <1>11, CollectStep, TraversedStable
<1>12. CASE Release
  BY <1>1, <1>2, <1>4, <1>12 DEF Release
<1>13. CASE Fetch
  <2>1. t' = t /\ cur' = cur /\ seen' = seen /\ freed' = freed
    BY <1>13 DEF Fetch
  <2>2. PICK k \in Key : Get(t, k) # Empty /\ live' = live \cup {Get(t, k)}
    BY <1>13 DEF Fetch
  <2>3. Get(t, k) \in Value
    BY <1>1, <2>2, GetType
  <2>4. QED
    BY <1>1, <1>2, <1>4, <2>1, <2>2, <2>3
<1>14. CASE UNCHANGED vars
  BY <1>1, <1>2, <1>14 DEF vars
<1>15. QED
  BY <1>5, <1>6, <1>7, <1>8, <1>9, <1>10, <1>11, <1>12, <1>13, <1>14 DEF Next

(* The invariant holds in every reachable state.                           *)
THEOREM Invariance == Spec => []TableInv
BY InitInv, NextInv, PTL DEF Spec

-----------------------------------------------------------------------------
(* The variables keep their types: node vectors have sizes that are powers *)
(* of 2 and 'lastfree' and the hint stay in range (ltable.c).              *)
THEOREM TypeCorrect == Spec => []TypeOK
<1>1. TableInv => TypeOK
  <2> SUFFICES ASSUME TableInv PROVE TypeOK
    OBVIOUS
  <2>1. VarsOk /\ t \in Tables /\ PowerSize(t) /\ Hinted(t) /\ FreeBelow(t)
    BY DEF TableInv, Fine, Sound
  <2>2. SizeNode(t) \in Nat /\ t.node \in [0 .. SizeNode(t) - 1 -> Node]
    BY <2>1, TableSize
  <2>3. t.arr \in Seq(Value \cup {Empty}) /\ t.lastfree \in Nat /\ t.lenhint \in Nat
    BY <2>1 DEF Tables
  <2>4. Len(t.arr) \in Nat
    BY <2>3
  <2>5. t.lastfree \in 0 .. SizeNode(t)
    BY <2>1, <2>2, <2>3 DEF FreeBelow
  <2>6. Len(t.arr) > 0 => t.lenhint \in 0 .. Len(t.arr)
    BY <2>1, <2>3, <2>4 DEF Hinted
  <2>7. ~IsDummy(t) => SizeNode(t) = TwoTo[CeilLog2(SizeNode(t))]
    BY <2>1 DEF PowerSize
  <2>8. DOMAIN t.node = 0 .. SizeNode(t) - 1 /\ \A i \in DOMAIN t.node : t.node[i] \in Node
    BY <2>2
  <2>9. QED
    BY <2>1, <2>3, <2>5, <2>6, <2>7, <2>8 DEF TypeOK, VarsOk
<1>2. QED
  BY <1>1, Invariance, PTL

(* Every field is found from the main position of its key, chains never    *)
(* merge or leave the vector, and no free node is lost (insertkey).        *)
THEOREM ChainsAreSound == Spec => []ChainsSound
<1>1. TableInv => ChainsSound
  <2> SUFFICES ASSUME TableInv PROVE ChainsSound
    OBVIOUS
  <2>1. Sound(t) /\ Apart(t)
    BY DEF TableInv, Fine
  <2>2. LinksOk(t.node) /\ OneBefore(t.node) /\ ValuesOk(t.node) /\ FreeBelow(t)
    BY <2>1 DEF Sound, Chained
  <2>3. ASSUME NEW i \in DOMAIN t.node
        PROVE  /\ t.node[i].next # 0 => i + t.node[i].next \in DOMAIN t.node
               /\ t.node[i].val # Empty => t.node[i].key # NilKey /\ ~t.node[i].dead
               /\ t.node[i].val # Empty => FindNode(t, t.node[i].key, FALSE) = i
               /\ t.node[i].val # Empty => ~InArray(t, t.node[i].key)
               /\ t.node[i].key = NilKey /\ HasLastFree(t) => i < t.lastfree
    <3>1. t.node[i].next # 0 => i + t.node[i].next \in DOMAIN t.node
      BY <2>2 DEF LinksOk
    <3>2. t.node[i].val # Empty => t.node[i].key # NilKey /\ ~t.node[i].dead
      BY <2>2 DEF ValuesOk
    <3>3. t.node[i].val # Empty => FindNode(t, t.node[i].key, FALSE) = i
      BY <2>1, <3>2, FindLive
    <3>4. t.node[i].val # Empty => ~InArray(t, t.node[i].key)
      BY <2>1 DEF Apart
    <3>5. t.node[i].key = NilKey /\ HasLastFree(t) => i < t.lastfree
      BY <2>2 DEF FreeBelow
    <3>6. QED
      BY <3>1, <3>2, <3>3, <3>4, <3>5
  <2>4. \A i, j \in {n \in DOMAIN t.node : t.node[n].next # 0} :
          i + t.node[i].next = j + t.node[j].next => i = j
    BY <2>2 DEF OneBefore
  <2>5. QED
    BY <2>3, <2>4 DEF ChainsSound
<1>2. QED
  BY <1>1, Invariance, PTL

(* A traversal never loses its place, whatever is assigned to its fields   *)
(* and collected on the way (findindex).                                   *)
THEOREM TraversalsGoOn == Spec => []NextNeverFails
<1>1. TableInv => NextNeverFails
  <2> SUFFICES ASSUME TableInv, cur # Idle PROVE FindIndex(t, cur) # Nowhere
    BY DEF NextNeverFails
  <2>1. Fine(t) /\ Given(t, cur, seen)
    BY DEF TableInv, Traversed
  <2>2. QED
    BY <2>1, FollowingIs
<1>2. QED
  BY <1>1, Invariance, PTL

(* The length is a border, wherever the hint is (ilyaH_getn).              *)
THEOREM LengthsAreBorders == Spec => []LengthIsBorder
<1>1. TableInv => LengthIsBorder
  <2> SUFFICES ASSUME TableInv PROVE LengthIsBorder
    OBVIOUS
  <2>1. Fine(t)
    BY DEF TableInv
  <2>2. Border(t, Length(t).n)
    BY <2>1, LengthIs
  <2>3. QED
    BY <2>2 DEF Border, LengthIsBorder
<1>2. QED
  BY <1>1, Invariance, PTL

(* The best size, in the terms of SizesOptimal.                            *)
LEMMA NewSizesBest ==
  ASSUME NEW s, Fine(s), NEW k \in Key, Get(s, k) = Empty, NEW n, n = NewSizes(s, k),
         NEW C, C = [size \in Nat |-> Cardinality({j \in Wanted(s, k) : InPart(j, size)})]
  PROVE  /\ n.array + n.hash >= 1 /\ n.array \in Nat
         /\ Cardinality(Wanted(s, k)) - C[n.array] <= n.hash
         /\ n.array # Len(s.arr) =>
              /\ n.array <= 3 * C[n.array]
              /\ \A i \in 0 .. TopBit(IndicesOf(Wanted(s, k))) + 1 :
                   TwoTo[i] <= 3 * C[TwoTo[i]] => C[TwoTo[i]] <= C[n.array]
<1> DEFINE W == Wanted(s, k)
           I == IndicesOf(W)
           a == n.array
           h == n.hash
           O == Outside(W, a)
<1>1. /\ a \in Nat /\ h \in Nat /\ Cardinality(O) <= h
      /\ a # Len(s.arr) => BestSize(I, a)
  BY NewSizesIs
<1>2. W \subseteq Key /\ k \in W
  BY WantedCount DEF Wanted
<1>3. IsFiniteSet(W) /\ Indices(I) /\ \A m \in Nat : C[m] = UpTo(I, m)
  BY <1>2, IndicesCount
<1>4. /\ Cardinality(O) \in Nat /\ Cardinality(W) \in Nat
      /\ Cardinality(W) = UpTo(I, a) + Cardinality(O)
  BY <1>1, <1>2, OutsideCount
<1>5. Cardinality(W) >= 1
  <2> HIDE DEF W
  <2>1. W # {}
    BY <1>2
  <2>2. Cardinality(W) # 0
    BY <1>3, <2>1, FS_EmptySet
  <2>3. QED
    BY <1>4, <2>2
<1>6. UpTo(I, a) \in Nat
  BY <1>1, <1>3, UpToType
<1>7. a = 0 => UpTo(I, a) = 0
  <2>1. I \cap (1 .. 0) = {}
    OBVIOUS
  <2>2. QED
    BY <2>1, FS_EmptySet DEF UpTo
<1>8. TopBit(I) \in Nat
  BY <1>3, TopBitIs
<1>9. \A i \in 0 .. TopBit(I) + 1 : TwoTo[i] \in Nat
  BY <1>8, TwoToPositive
<1>10. C[a] = UpTo(I, a)
  BY <1>1, <1>3
<1> HIDE DEF O, W, I, a, h
<1>11. a + h >= 1
  BY <1>1, <1>4, <1>5, <1>6, <1>7
<1>12. Cardinality(W) - C[a] <= h
  BY <1>1, <1>4, <1>6, <1>10
<1>13. ASSUME a # Len(s.arr)
       PROVE  /\ a <= 3 * C[a]
              /\ \A i \in 0 .. TopBit(I) + 1 : TwoTo[i] <= 3 * C[TwoTo[i]] => C[TwoTo[i]] <= C[a]
  <2>1. BestSize(I, a)
    BY <1>1, <1>13
  <2>2. \A i \in 0 .. TopBit(I) + 1 : C[TwoTo[i]] = UpTo(I, TwoTo[i])
    BY <1>3, <1>9
  <2>3. QED
    BY <1>10, <2>1, <2>2 DEF BestSize
<1>14. QED
  BY <1>1, <1>11, <1>12, <1>13 DEF W, I, a, h

(* rehash takes the size for the array part that holds the most elements   *)
(* among those worth it, and leaves room for all others (computesizes).    *)
THEOREM SizesAreOptimal == Spec => []SizesOptimal
<1>1. TableInv => SizesOptimal
  <2> SUFFICES ASSUME TableInv, NEW k \in {j \in Key : Get(t, j) = Empty}
               PROVE  LET n == NewSizes(t, k)
                          keys == {j \in Key : Get(t, j) # Empty} \cup {k}
                          C(size) == Cardinality({j \in keys : j.kind = "int" /\ j.id \in 1 .. size})
                          worth == {TwoTo[i] : i \in 0 .. TopBit(IndicesOf(keys)) + 1}
                      IN /\ n.array + n.hash >= 1
                         /\ Cardinality(keys) - C(n.array) <= n.hash
                         /\ n.array # Len(t.arr) =>
                              /\ n.array = 0 \/ n.array <= 3 * C(n.array)
                              /\ \A size \in worth : size <= 3 * C(size) => C(size) <= C(n.array)
    BY DEF SizesOptimal
  <2> DEFINE n == NewSizes(t, k)
             keys == {j \in Key : Get(t, j) # Empty} \cup {k}
             C(size) == Cardinality({j \in keys : j.kind = "int" /\ j.id \in 1 .. size})
             worth == {TwoTo[i] : i \in 0 .. TopBit(IndicesOf(keys)) + 1}
             F == [size \in Nat |-> Cardinality({j \in Wanted(t, k) : InPart(j, size)})]
  <2>1. Fine(t) /\ k \in Key /\ Get(t, k) = Empty
    BY DEF TableInv
  <2>2. keys = Wanted(t, k)
    BY DEF Wanted
  <2>3. \A m \in Nat : F[m] = C(m)
    BY <2>2 DEF InPart
  <2>4. /\ n.array + n.hash >= 1 /\ n.array \in Nat
        /\ Cardinality(keys) - F[n.array] <= n.hash
        /\ n.array # Len(t.arr) =>
             /\ n.array <= 3 * F[n.array]
             /\ \A i \in 0 .. TopBit(IndicesOf(keys)) + 1 :
                  TwoTo[i] <= 3 * F[TwoTo[i]] => F[TwoTo[i]] <= F[n.array]
    BY <2>1, <2>2, NewSizesBest
  <2>5. \A i \in 0 .. TopBit(IndicesOf(keys)) + 1 : TwoTo[i] \in Nat
    <3>1. keys \subseteq Key
      BY <2>1
    <3> HIDE DEF keys
    <3>2. TopBit(IndicesOf(keys)) \in Nat
      BY <3>1, IndicesCount, TopBitIs
    <3>3. QED
      BY <3>2, TwoToPositive
  <2>6. F[n.array] = C(n.array)
    BY <2>3, <2>4
  <2>7. \A i \in 0 .. TopBit(IndicesOf(keys)) + 1 : F[TwoTo[i]] = C(TwoTo[i])
    BY <2>3, <2>5
  <2> HIDE DEF n, F, C, keys
  <2>8. n.array # Len(t.arr) => \A size \in worth : size <= 3 * C(size) => C(size) <= C(n.array)
    BY <2>4, <2>6, <2>7
  <2>9. /\ n.array + n.hash >= 1 /\ Cardinality(keys) - C(n.array) <= n.hash
        /\ n.array # Len(t.arr) => n.array = 0 \/ n.array <= 3 * C(n.array)
    BY <2>4, <2>6
  <2>10. QED
    BY <2>8, <2>9 DEF n, C, keys
<1>2. QED
  BY <1>1, Invariance, PTL

-----------------------------------------------------------------------------
(* The refinement: the fields of the table are a map.                      *)
MapOf(s) == [k \in Key |-> Get(s, k)]
SameFields(s, u) == \A y \in Key : Get(u, y) = Get(s, y)

(* Tables with the same fields are the same map.                           *)
LEMMA SameMap ==
  ASSUME NEW s, NEW u, SameFields(s, u)
  PROVE  MapOf(u) = MapOf(s)
BY DEF MapOf, SameFields

(* Tables without weak values keep all fields.                             *)
LEMMA KeepsFields ==
  ASSUME Weak = FALSE, NEW s, NEW u, Keeps(s, u)
  PROVE  SameFields(s, u)
BY DEF Keeps, SameFields

(* A change of one field is one of the map.                                *)
LEMMA ExactMap ==
  ASSUME NEW s, NEW u, NEW k \in Key, NEW v, Exact(s, u, k, v)
  PROVE  MapOf(u) = [MapOf(s) EXCEPT ![k] = v]
BY DEF Exact, MapOf

(* A new field that could not be allocated is the assignment of Empty.     *)
LEMMA AddsExact ==
  ASSUME Weak = FALSE, NEW s, NEW u, NEW k \in Key, NEW v \in Value \cup {Empty}, NEW alloc,
         Get(s, k) = Empty, Adds(s, u, k, v, alloc)
  PROVE  \E w \in Value \cup {Empty} : Exact(s, u, k, w)
<1>1. CASE Writes(s, u, k, v)
  <2>1. Exact(s, u, k, v)
    BY <1>1 DEF Writes, Exact
  <2>2. QED
    BY <2>1
<1>2. CASE Keeps(s, u)
  <2>1. SameFields(s, u)
    BY <1>2, KeepsFields
  <2>2. Exact(s, u, k, Empty)
    BY <2>1 DEF SameFields, Exact
  <2>3. QED
    BY <2>2
<1>3. QED
  BY <1>1, <1>2 DEF Adds

(* The items of a constructor, as a map from keys to values.               *)
ItemsOf(n, v) == [y \in Item(n) |-> v]

(* The keys of n items.                                                    *)
LEMMA ItemsIs ==
  ASSUME NEW n \in 1 .. MaxItems, NEW v
  PROVE  \A y \in Key : y \in Item(n) <=> InPart(y, n)
<1>1. ASSUME NEW y \in Key, y \in Item(n) PROVE InPart(y, n)
  <2>1. PICK i \in 1 .. n : y = IntKey(i)
    BY <1>1 DEF Item
  <2>2. QED
    BY <2>1 DEF IntKey, KeyOf, InPart
<1>2. ASSUME NEW y \in Key, InPart(y, n) PROVE y \in Item(n)
  <2>1. y = IntKey(y.id) /\ y.id \in 1 .. n
    BY <1>2, KeyType DEF InPart
  <2>2. QED
    BY <2>1 DEF Item
<1>3. QED
  BY <1>1, <1>2

(* A map with the items of a constructor.                                  *)
WithItems(s, u, items) ==
  MapOf(u) = [k \in Key |-> IF k \in DOMAIN items THEN items[k] ELSE MapOf(s)[k]]
MapItems == UNION {[Item(m) -> Value] : m \in 1 .. MaxItems}

(* A constructor stores such items.                                        *)
LEMMA ListedMap ==
  ASSUME Weak = FALSE, NEW s, NEW u, NEW n \in 1 .. MaxItems, NEW v \in Value,
         ListedOver(s, u, n, v)
  PROVE  ItemsOf(n, v) \in MapItems /\ WithItems(s, u, ItemsOf(n, v))
<1> DEFINE items == ItemsOf(n, v)
<1>1. items \in [Item(n) -> Value] /\ DOMAIN items = Item(n) /\ \A y \in Item(n) : items[y] = v
  BY DEF ItemsOf
<1>2. PICK g : /\ Keeps(s, g)
               /\ \A y \in Key : Get(u, y) = IF InPart(y, n) THEN v ELSE Get(g, y)
  BY DEF ListedOver
<1>3. SameFields(s, g)
  BY <1>2, KeepsFields
<1>4. \A y \in Key : y \in Item(n) <=> InPart(y, n)
  BY ItemsIs
<1> HIDE DEF items
<1>5. ASSUME NEW y \in Key
      PROVE  Get(u, y) = IF y \in DOMAIN items THEN items[y] ELSE MapOf(s)[y]
  BY <1>1, <1>2, <1>3, <1>4 DEF SameFields, MapOf
<1>6. WithItems(s, u, items)
  BY <1>5 DEF MapOf, WithItems
<1>7. items \in MapItems
  BY <1>1 DEF MapItems
<1>8. QED
  BY <1>6, <1>7 DEF items

(* The steps of the map (Dict), in terms of the table.                     *)
MapAssign(k, v) ==
  /\ MapOf(t') = [MapOf(t) EXCEPT ![k] = v]
  /\ (cur' # Idle) = ((cur # Idle) /\ Get(t, k) # Empty)
  /\ seen' = IF cur' # Idle THEN seen ELSE {}
MapStays == MapOf(t') = MapOf(t) /\ seen' = seen /\ (cur' # Idle) = (cur # Idle)

(* An assignment to the table is one to the map.                           *)
LEMMA AssignMaps ==
  ASSUME NEW k \in Key, NEW v \in Value \cup {Empty}, MapAssign(k, v)
  PROVE  D!Next
<1>1. k \in D!Present <=> Get(t, k) # Empty
  BY DEF D!Present
<1>2. D!Assign(k, v)
  BY <1>1, Zenon DEF MapAssign, MapOf, D!Assign
<1>3. QED
  BY <1>2 DEF D!Next

(* The map and its traversal stay.                                         *)
LEMMA StayMaps ==
  ASSUME MapStays
  PROVE  UNCHANGED <<[k \in Key |-> Get(t, k)], cur # Idle, seen>>
BY DEF MapStays, MapOf

(* Every step of the table is one of the map, or leaves it as it is.       *)
LEMMA StepMaps ==
  ASSUME Weak = FALSE, TableInv, [Next]_vars
  PROVE  D!Next \/ MapStays
<1>1. Fine(t) /\ Traversed(t, cur, seen)
  BY DEF TableInv
<1>2. cur = Idle => seen = {}
  BY <1>1 DEF Traversed
<1>3. CASE Assign
  <2>1. \/ UNCHANGED <<t, cur, seen>>
        \/ \E k \in Key, v \in Value \cup {Empty} : Replaced(k, v) \/ Added(k, v)
    BY <1>3, AssignIs
  <2>2. CASE UNCHANGED <<t, cur, seen>>
    BY <2>2 DEF MapStays
  <2>3. ASSUME NEW k \in Key, NEW v \in Value \cup {Empty}, Replaced(k, v)
        PROVE  MapAssign(k, v)
    <3>1. Get(t, k) # Empty /\ Exact(t, t', k, v) /\ cur' = cur /\ seen' = seen
      BY <2>3 DEF Replaced
    <3>2. MapOf(t') = [MapOf(t) EXCEPT ![k] = v]
      BY <3>1, ExactMap
    <3>3. seen' = IF cur' # Idle THEN seen ELSE {}
      BY <1>2, <3>1
    <3>4. (cur' # Idle) = ((cur # Idle) /\ Get(t, k) # Empty)
      BY <3>1
    <3>5. QED
      BY <3>2, <3>3, <3>4 DEF MapAssign
  <2>4. ASSUME NEW k \in Key, NEW v \in Value \cup {Empty}, Added(k, v)
        PROVE  \E w \in Value \cup {Empty} : MapAssign(k, w)
    <3>1. Get(t, k) = Empty /\ cur' = Idle /\ seen' = {}
      BY <2>4 DEF Added, Stops
    <3>2. PICK alloc : Adds(t, t', k, v, alloc)
      BY <2>4 DEF Added
    <3>3. PICK w \in Value \cup {Empty} : Exact(t, t', k, w)
      BY <3>1, <3>2, AddsExact
    <3>4. MapOf(t') = [MapOf(t) EXCEPT ![k] = w]
      BY <3>3, ExactMap
    <3>5. (cur' # Idle) = ((cur # Idle) /\ Get(t, k) # Empty)
      BY <3>1
    <3>6. seen' = IF cur' # Idle THEN seen ELSE {}
      BY <3>1
    <3>7. QED
      BY <3>4, <3>5, <3>6 DEF MapAssign
  <2>5. QED
    BY <2>1, <2>2, <2>3, <2>4, AssignMaps
<1>4. CASE Construct
  <2>1. SameFields(t, t') /\ cur' = cur /\ seen' = seen
    BY <1>4, ConstructStep DEF SameFields
  <2>2. QED
    BY <2>1, SameMap DEF MapStays
<1>5. CASE SetList
  <2>1. Stops /\ \E n \in 1 .. MaxItems, v \in Value : ListedOver(t, t', n, v)
    BY <1>5, SetListStep
  <2>2. PICK n \in 1 .. MaxItems, v \in Value : ListedOver(t, t', n, v)
    BY <2>1
  <2> DEFINE items == ItemsOf(n, v)
  <2>3. items \in MapItems /\ WithItems(t, t', items)
    BY <2>2, ListedMap
  <2> HIDE DEF items
  <2>4. (cur' # Idle) = FALSE /\ seen' = {}
    BY <2>1 DEF Stops
  <2>5. D!AssignItems(items)
    BY <2>3, <2>4 DEF D!AssignItems, MapOf, WithItems
  <2>6. QED
    BY <2>3, <2>5 DEF D!Next, MapItems
<1>6. CASE TakeLength
  <2>1. SameFields(t, t') /\ cur' = cur /\ seen' = seen
    BY <1>6, TakeLengthStep DEF SameFields
  <2>2. QED
    BY <2>1, SameMap DEF MapStays
<1>7. CASE StartNext
  <2>1. t' = t /\ cur' = NilKey /\ seen' = {}
    BY <1>7 DEF StartNext
  <2>2. (cur' # Idle) = TRUE
    BY <2>1, TableAssumption DEF TableAssumption
  <2>3. D!Begin
    BY <2>1, <2>2 DEF D!Begin
  <2>4. QED
    BY <2>3 DEF D!Next
<1>8. CASE NextKey
  <2>1. /\ cur # Idle /\ t' = t
        /\ Ended \/ \E k \in Key : GivenNow(k)
    BY <1>8, NextKeyStep
  <2>2. CASE Ended
    <3>1. \A k \in Key : Get(t, k) # Empty => k \in seen
      BY <2>2 DEF Ended
    <3>2. (cur' # Idle) = FALSE /\ seen' = {}
      BY <2>2 DEF Ended, Stops
    <3>3. D!Present \subseteq seen
      BY <3>1 DEF D!Present
    <3>4. D!End
      BY <2>1, <3>2, <3>3 DEF D!End
    <3>5. QED
      BY <3>4 DEF D!Next
  <2>3. CASE \E k \in Key : GivenNow(k)
    <3>1. PICK k \in Key : Get(t, k) # Empty /\ k \notin seen /\ cur' = k /\ seen' = seen \cup {k}
      BY <2>3 DEF GivenNow
    <3>2. k # Idle
      BY KeyType
    <3>3. (cur' # Idle) = (cur # Idle)
      BY <2>1, <3>1, <3>2
    <3>4. k \in D!Present \ seen
      BY <3>1 DEF D!Present
    <3>5. D!Visit
      BY <2>1, <3>1, <3>3, <3>4 DEF D!Visit
    <3>6. QED
      BY <3>5 DEF D!Next
  <2>4. QED
    BY <2>1, <2>2, <2>3
<1>9. CASE Collect
  <2>1. Keeps(t, t') /\ cur' = cur /\ seen' = seen
    BY <1>9, CollectStep
  <2>2. SameFields(t, t')
    BY <2>1, KeepsFields
  <2>3. QED
    BY <2>1, <2>2, SameMap DEF MapStays
<1>10. CASE Release \/ Fetch \/ UNCHANGED vars
  <2>1. t' = t /\ cur' = cur /\ seen' = seen
    BY <1>10 DEF Release, Fetch, vars
  <2>2. QED
    BY <2>1 DEF MapStays
<1>11. QED
  BY <1>3, <1>4, <1>5, <1>6, <1>7, <1>8, <1>9, <1>10 DEF Next

(* A table whose values are not weak is a map with traversals: the two     *)
(* parts, the collisions, the sizes, the failed allocations and the        *)
(* collections in between do not show (ltable.c).                          *)
THEOREM TableIsDict ==
  ASSUME Weak = FALSE
  PROVE  Spec => IsDict
<1>1. Init => D!Init
  <2> SUFFICES ASSUME Init PROVE D!Init
    OBVIOUS
  <2>1. t = FreshTable /\ (cur # Idle) = FALSE /\ seen = {}
    BY DEF Init
  <2>2. \A y : Get(t, y) = Empty
    BY <2>1, FreshFine
  <2>3. QED
    BY <2>1, <2>2 DEF D!Init
<1>2. TableInv /\ [Next]_vars
        => D!Next \/ UNCHANGED <<[k \in Key |-> Get(t, k)], cur # Idle, seen>>
  BY StepMaps, StayMaps
<1>3. QED
  BY <1>1, <1>2, Invariance, PTL DEF Spec, IsDict, D!Spec
=============================================================================
