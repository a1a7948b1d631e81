--------------------------- MODULE Upvals_proofs ---------------------------
(***************************************************************************)
(* Proofs about Upvals, for every stack size, MAXDELTA and set of values.  *)
(*                                                                         *)
(* The inductive invariant adds to the properties of Upvals what the code  *)
(* takes for granted: how frames and closing loops nest, that the slots    *)
(* between a closing loop and the method it called belong to nobody, and   *)
(* that the slot of a called function is not a variable.                   *)
(***************************************************************************)
EXTENDS Upvals, TLAPS, SequenceTheorems, WellFoundedInduction

Values == Vals \cup {Nil}
Record == [k : Frames \cup Closes, at : Nat, pos : Nat, val : Values]

(* Methods run on closing loops, everything else on frames; each part of   *)
(* the stack begins above the one before, results included.                *)
Nesting ==
  /\ Len(ctl) >= 1
  /\ \A i \in 1 .. Len(ctl) :
       /\ i = 1 <=> ctl[i].k = "thread"
       /\ i = 1 => ctl[i].at = 0
       /\ ctl[i].at <= Top
       /\ ctl[i].k = "return" => ctl[i].pos \in ctl[i].at .. Top
  /\ \A i \in 2 .. Len(ctl) :
       /\ ctl[i].k = "method" => ctl[i - 1].k \in Closes
       /\ ctl[i].k # "method" => ctl[i - 1].k \in Frames
       /\ ctl[i].k = "return" => i > 2 /\ ctl[i].at = ctl[i - 1].at + 1
  /\ \A i, j \in 1 .. Len(ctl) : i < j =>
       /\ ctl[i].at < ctl[j].at
       /\ ctl[i].k = "return" => ctl[i].pos < ctl[j].at

(* A slot of variables: above every frame's function, and not among what   *)
(* a closing loop keeps for itself.                                        *)
Owned(s, c, top) ==
  /\ s \in 1 .. top
  /\ \A i \in 1 .. Len(c) :
       /\ c[i].k \in Frames => s # c[i].at
       /\ c[i].k \in Closes /\ s >= c[i].at => i < Len(c) /\ s > c[i + 1].at

Captures ==
  /\ \A i \in 1 .. Len(openupval) : uv[openupval[i]].made
  /\ \A u \in UpvIds : uv[u].slot > 0 =>
       /\ uv[u].made /\ Owned(uv[u].slot, ctl, Top)
       /\ \E i \in 1 .. Len(openupval) : openupval[i] = u

(* The tbc variables, in order, each with a link that is no dummy.         *)
TbcOrder ==
  /\ \A i \in 1 .. Len(pending) :
       /\ pending[i][1] \in 1 .. MaxSlot
       /\ delta[pending[i][1]] \in 1 .. pending[i][1]
       /\ \A j \in 1 .. Len(ctl) : ctl[j].k \in Frames => pending[i][1] # ctl[j].at
  /\ \A i, j \in 1 .. Len(pending) : i < j => pending[i][1] < pending[j][1]

(* The error of a loop that waits for its method is right below it.        *)
ErrorKept ==
  \A i \in 1 .. Len(ctl) - 1 :
    ctl[i].k = "error" => /\ ctl[i].at < ctl[i + 1].at
                          /\ stk[ctl[i + 1].at - 1] = ctl[i].val

IInv ==
  /\ TypeOK /\ Nesting /\ Captures /\ TbcOrder /\ ErrorKept
  /\ OpenListSorted /\ UpvalSeesVariable /\ TbcListExact /\ PendingIntact /\ OutcomeIntact
-----------------------------------------------------------------------------
(***************************************************************************)
(* What the searches of the code find.                                     *)
(***************************************************************************)

(* A set of naturals that is not empty has a least element.                *)
LEMMA LeastNat ==
  ASSUME NEW T \in SUBSET Nat, T # {}
  PROVE  \E m \in T : \A n \in T : m <= n
<1> DEFINE Less == {p \in Nat \X Nat : p[1] < p[2]}
<1>1. IsWellFoundedOn(Less, Nat)
  BY NatLessThanWellFounded DEF OpToRel
<1>2. \A m, n \in Nat : n < m => <<n, m>> \in Less
  OBVIOUS
<1> HIDE DEF Less
<1>3. PICK m \in T : \A n \in T : ~(<<n, m>> \in Less)
  BY <1>1, WFMin
<1>4. \A n \in T : ~(n < m)
  BY <1>2, <1>3
<1> QED
  BY <1>4

(* A walk from the first of n positions stops at the first not in P.       *)
LEMMA WalkStops ==
  ASSUME NEW n \in Nat, NEW P
  PROVE  \E k \in 0 .. n : (\A i \in 1 .. k : i \in P) /\ (k < n => k + 1 \notin P)
<1> DEFINE T == {k \in 0 .. n : k < n => k + 1 \notin P}
<1>1. PICK k \in T : \A m \in T : k <= m
  <2>1. T \in SUBSET Nat /\ n \in T
    OBVIOUS
  <2> QED
    BY <2>1, LeastNat
<1>2. \A i \in 1 .. k : i \in P
  <2>1. SUFFICES ASSUME NEW i \in 1 .. k, i \notin P PROVE FALSE
    OBVIOUS
  <2>2. i - 1 \in T
    BY <2>1
  <2> QED
    BY <1>1, <2>1, <2>2
<1> QED
  BY <1>1, <1>2

(* The last of n positions, the first of which is in P.                    *)
LEMMA LastIn ==
  ASSUME NEW n \in Nat, n > 0, NEW P, 1 \in P
  PROVE  \E k \in 1 .. n : k \in P /\ \A i \in k + 1 .. n : i \notin P
<1> DEFINE T == {m \in 0 .. n - 1 : n - m \in P}
<1>1. PICK m \in T : \A i \in T : m <= i
  <2>1. T \in SUBSET Nat /\ n - 1 \in T
    OBVIOUS
  <2> QED
    BY <2>1, LeastNat
<1>2. \A i \in n - m + 1 .. n : i \notin P
  <2>1. SUFFICES ASSUME NEW i \in n - m + 1 .. n, i \in P PROVE FALSE
    OBVIOUS
  <2>2. n - i \in T
    BY <2>1, <1>1
  <2> QED
    BY <1>1, <2>1, <2>2
<1> QED
  BY <1>1, <1>2

(* ilyaF_findupval and ilyaF_closeupval: where their loops end.            *)
LEMMA AboveStops ==
  ASSUME TypeOK, NEW l \in Nat
  PROVE  /\ Above(l) \in 0 .. Len(openupval)
         /\ \A i \in 1 .. Above(l) : uv[openupval[i]].slot > l
         /\ Above(l) < Len(openupval) => uv[openupval[Above(l) + 1]].slot <= l
<1> DEFINE P == {i \in 1 .. Len(openupval) : uv[openupval[i]].slot > l}
           Q(n) == /\ \A i \in 1 .. n : uv[openupval[i]].slot > l
                   /\ n < Len(openupval) => uv[openupval[n + 1]].slot <= l
<1>1. Len(openupval) \in Nat /\ \A i \in 1 .. Len(openupval) : uv[openupval[i]].slot \in Nat
  BY ConstantsAssumption DEF TypeOK, Slots
<1>2. PICK n \in 0 .. Len(openupval) : (\A i \in 1 .. n : i \in P) /\ (n < Len(openupval) => n + 1 \notin P)
  <2> HIDE DEF P
  <2> QED
    BY <1>1, WalkStops
<1>3. Q(n)
  BY <1>1, <1>2
<1> HIDE DEF Q
<1>4. (CHOOSE m \in 0 .. Len(openupval) : Q(m)) \in 0 .. Len(openupval) /\ Q(CHOOSE m \in 0 .. Len(openupval) : Q(m))
  BY <1>3
<1> QED
  BY <1>4 DEF Above, Q

(* ... and the loop of ilyaF_closeupval, at the first upvalue below.       *)
LEMMA ClosingStops ==
  ASSUME TypeOK, NEW l \in Nat
  PROVE  /\ Closing(l) \in 0 .. Len(openupval)
         /\ \A i \in 1 .. Closing(l) : uv[openupval[i]].slot >= l
         /\ Closing(l) < Len(openupval) => uv[openupval[Closing(l) + 1]].slot < l
<1> DEFINE P == {i \in 1 .. Len(openupval) : uv[openupval[i]].slot >= l}
           Q(n) == /\ \A i \in 1 .. n : uv[openupval[i]].slot >= l
                   /\ n < Len(openupval) => uv[openupval[n + 1]].slot < l
<1>1. Len(openupval) \in Nat /\ \A i \in 1 .. Len(openupval) : uv[openupval[i]].slot \in Nat
  BY ConstantsAssumption DEF TypeOK, Slots
<1>2. PICK n \in 0 .. Len(openupval) : (\A i \in 1 .. n : i \in P) /\ (n < Len(openupval) => n + 1 \notin P)
  <2> HIDE DEF P
  <2> QED
    BY <1>1, WalkStops
<1>3. Q(n)
  BY <1>1, <1>2
<1> HIDE DEF Q
<1>4. (CHOOSE m \in 0 .. Len(openupval) : Q(m)) \in 0 .. Len(openupval) /\ Q(CHOOSE m \in 0 .. Len(openupval) : Q(m))
  BY <1>3
<1> QED
  BY <1>4 DEF Closing, Q

(* ilyaF_newtbcupval: the distance left fits the field of an entry, and is *)
(* not the zero that marks a dummy node.                                   *)
LEMMA DummiesFit ==
  ASSUME NEW l \in Nat, tbclist \in Nat, tbclist < l
  PROVE  /\ Dummies(l) \in 0 .. l
         /\ l - (tbclist + Dummies(l) * MAXDELTA) \in 1 .. MAXDELTA
<1> USE ConstantsAssumption
<1> DEFINE Left(n) == l - (tbclist + n * MAXDELTA)
           T == {n \in 0 .. l : Left(n) <= MAXDELTA}
           Q(n) == Left(n) <= MAXDELTA /\ \A m \in 0 .. n - 1 : Left(m) > MAXDELTA
<1>1. \A n \in Nat : Left(n) \in Int
  OBVIOUS
<1>2. l \in T
  <2>1. l * MAXDELTA >= l
    OBVIOUS
  <2> QED
    BY <2>1
<1>3. PICK n \in T : \A m \in T : n <= m
  <2>1. T \in SUBSET Nat
    OBVIOUS
  <2> HIDE DEF T
  <2> QED
    BY <1>2, <2>1, LeastNat
<1>4. n \in 0 .. l /\ Q(n)
  <2>1. \A m \in 0 .. n - 1 : m \notin T /\ m \in 0 .. l
    BY <1>3
  <2> QED
    BY <1>1, <1>3, <2>1
<1> DEFINE d == CHOOSE m \in 0 .. l : Q(m)
<1>5. d \in 0 .. l /\ Q(d)
  <2> HIDE DEF Q
  <2> QED
    BY <1>4
<1>6. Left(d) > 0
  <2>1. CASE d = 0
    BY <1>5, <2>1
  <2>2. CASE d > 0
    <3>1. Left(d - 1) > MAXDELTA
      BY <1>5, <2>2
    <3>2. Left(d - 1) = Left(d) + MAXDELTA
      BY <1>5
    <3> QED
      BY <1>1, <1>5, <3>1, <3>2
  <2> QED
    BY <1>5, <2>1, <2>2
<1>7. Dummies(l) = d
  BY DEF Dummies
<1> HIDE DEF d
<1> QED
  BY <1>1, <1>5, <1>6, <1>7

(* poptbclist over an array d of deltas, from entry t.                     *)
HopsIn(t, d) == {j \in 0 .. t : t - j * MAXDELTA <= 0 \/ d[t - j * MAXDELTA] # 0}
Least(H) == CHOOSE j \in H : \A i \in H : j <= i
PopIn(t, d) == (t - d[t]) - Least(HopsIn(t - d[t], d)) * MAXDELTA

(* Its walk over the dummy nodes stops at the first entry that is none.    *)
LEMMA FirstHop ==
  ASSUME NEW d, NEW t \in Nat, NEW n \in 0 .. t,
         t - n * MAXDELTA <= 0 \/ d[t - n * MAXDELTA] # 0,
         \A m \in 0 .. n - 1 : t - m * MAXDELTA > 0 /\ d[t - m * MAXDELTA] = 0
  PROVE  Least(HopsIn(t, d)) = n
<1> USE ConstantsAssumption
<1> DEFINE H == HopsIn(t, d)
<1>1. n \in H
  BY DEF HopsIn
<1>2. \A i \in H : n <= i
  <2>1. SUFFICES ASSUME NEW i \in H, i < n PROVE FALSE
    BY DEF HopsIn
  <2>2. i \in 0 .. n - 1
    BY <2>1 DEF HopsIn
  <2>3. t - i * MAXDELTA > 0 /\ d[t - i * MAXDELTA] = 0
    BY <2>2
  <2>5. t - i * MAXDELTA \in Int
    BY <2>2
  <2>4. t - i * MAXDELTA <= 0 \/ d[t - i * MAXDELTA] # 0
    BY <2>1 DEF HopsIn
  <2> DEFINE x == t - i * MAXDELTA
  <2> HIDE DEF x
  <2> QED
    BY <2>3, <2>4, <2>5 DEF x
<1>3. \A j \in H : j \in Int
  BY DEF HopsIn
<1> HIDE DEF H
<1> DEFINE c == CHOOSE j \in H : \A i \in H : j <= i
<1>4. c \in H /\ \A i \in H : c <= i
  BY <1>1, <1>2
<1> HIDE DEF c
<1>5. c = n
  BY <1>1, <1>2, <1>3, <1>4
<1> QED
  BY <1>5 DEF Least, H, c
-----------------------------------------------------------------------------
(***************************************************************************)
(* What the types say of the elements.                                     *)
(***************************************************************************)

(* The stack, the frames and the lists have lengths and typed elements.    *)
LEMMA Elements ==
  ASSUME TypeOK
  PROVE  /\ Len(stk) \in Nat /\ \A s \in 1 .. Len(stk) : stk[s] \in Values
         /\ Len(ctl) \in Nat
         /\ \A i \in 1 .. Len(ctl) :
              ctl[i] \in Record /\ ctl[i].at \in Nat /\ ctl[i].pos \in Nat /\ ctl[i].k \in Frames \cup Closes
         /\ Len(openupval) \in Nat /\ \A i \in 1 .. Len(openupval) : openupval[i] \in UpvIds
         /\ \A u \in UpvIds : uv[u].slot \in Slots /\ uv[u].slot \in Nat
         /\ Len(pending) \in Nat
         /\ \A i \in 1 .. Len(pending) : pending[i] \in Slots \X Vals /\ pending[i][1] \in Nat
         /\ tbclist \in Nat
<1>1. \A i \in 1 .. Len(ctl) : ctl[i] \in Record
  BY ElementOfSeq DEF TypeOK, Record, Values
<1>2. \A i \in 1 .. Len(pending) : pending[i] \in Slots \X Vals
  BY ElementOfSeq DEF TypeOK
<1>3. \A i \in 1 .. Len(pending) : pending[i][1] \in Nat
  BY <1>2, ConstantsAssumption DEF Slots
<1>4. \A r \in Record : r.at \in Nat /\ r.pos \in Nat /\ r.k \in Frames \cup Closes
  BY DEF Record
<1>5. /\ Len(stk) \in Nat /\ \A s \in 1 .. Len(stk) : stk[s] \in Values
      /\ Len(ctl) \in Nat /\ Len(pending) \in Nat /\ Len(openupval) \in Nat
      /\ \A i \in 1 .. Len(openupval) : openupval[i] \in UpvIds
  BY ElementOfSeq DEF TypeOK, Values
<1>6. \A u \in UpvIds : uv[u].slot \in Slots
  BY DEF TypeOK
<1>7. Slots \subseteq Nat /\ tbclist \in Slots
  BY ConstantsAssumption DEF Slots, TypeOK
<1> QED
  BY <1>1, <1>2, <1>3, <1>4, <1>5, <1>6, <1>7

(* A prefix of a sequence, and one with a new last element.                *)
LEMMA Prefix ==
  ASSUME NEW S, NEW s \in Seq(S), NEW n \in 0 .. Len(s), NEW e \in S
  PROVE  /\ SubSeq(s, 1, n) \in Seq(S) /\ Len(SubSeq(s, 1, n)) = n
         /\ \A i \in 1 .. n : SubSeq(s, 1, n)[i] = s[i]
         /\ Append(SubSeq(s, 1, n), e) \in Seq(S) /\ Len(Append(SubSeq(s, 1, n), e)) = n + 1
         /\ \A i \in 1 .. n : Append(SubSeq(s, 1, n), e)[i] = s[i]
         /\ Append(SubSeq(s, 1, n), e)[n + 1] = e
<1>1. Len(s) \in Nat /\ \A i \in 1 .. n : s[i] \in S
  BY ElementOfSeq, LenProperties
<1>2. /\ SubSeq(s, 1, n) \in Seq(S) /\ Len(SubSeq(s, 1, n)) = n
      /\ \A i \in 1 .. n : SubSeq(s, 1, n)[i] = s[i]
  BY <1>1, SubSeqProperties
<1> DEFINE t == SubSeq(s, 1, n)
<1> HIDE DEF t
<1>3. t \in Seq(S) /\ Len(t) = n /\ \A i \in 1 .. n : t[i] = s[i]
  BY <1>2 DEF t
<1>4. /\ Append(t, e) \in Seq(S) /\ Len(Append(t, e)) = n + 1
      /\ \A i \in 1 .. n : Append(t, e)[i] = s[i]
      /\ Append(t, e)[n + 1] = e
  BY <1>3, AppendProperties
<1> QED
  BY <1>2, <1>4 DEF t
-----------------------------------------------------------------------------
(***************************************************************************)
(* Frames and closing loops: pushing an entry on the first n, and leaving  *)
(* only the first n.                                                       *)
(***************************************************************************)

(* Entries below entry n: their types and their order.                     *)
LEMMA Ordered ==
  ASSUME TypeOK, Nesting, NEW n \in 1 .. Len(ctl)
  PROVE  /\ Len(ctl) \in Nat /\ n \in Nat
         /\ \A i \in 1 .. n : i \in 1 .. Len(ctl) /\ ctl[i].at \in Nat /\ ctl[i].pos \in Nat
         /\ \A i \in 1 .. n : ctl[i].at <= ctl[n].at /\ (i # n => ctl[i].at < ctl[n].at)
         /\ \A i \in 2 .. n : ctl[i].at > 0
<1>1. Len(ctl) \in Nat /\ n \in Nat
  BY Elements
<1>2. \A i \in 1 .. n : i \in 1 .. Len(ctl) /\ ctl[i].at \in Nat /\ ctl[i].pos \in Nat
  BY <1>1, Elements
<1>3. \A i, j \in 1 .. Len(ctl) : i < j => ctl[i].at < ctl[j].at
  BY DEF Nesting
<1>4. \A i \in 1 .. n : ctl[i].at <= ctl[n].at /\ (i # n => ctl[i].at < ctl[n].at)
  BY <1>1, <1>2, <1>3
<1>5. \A i \in 2 .. n : ctl[i].at > 0
  <2> TAKE i \in 2 .. n
  <2>1. 1 \in 1 .. Len(ctl) /\ i \in 1 .. Len(ctl) /\ 1 \in 1 .. n /\ i \in 1 .. n
    BY <1>1
  <2>2. ctl[1].at < ctl[i].at /\ ctl[1].at \in Nat /\ ctl[i].at \in Nat
    BY <1>2, <1>3, <2>1
  <2> QED
    BY <2>2
<1> QED
  BY <1>1, <1>2, <1>4, <1>5

(* What a new entry e on the first n must respect.                         *)
PushOrder(n, e) ==
  /\ Len(ctl') = n + 1 /\ ctl'[n + 1] = e /\ \A i \in 1 .. n : ctl'[i] = ctl[i]
  /\ Len(stk') \in Nat /\ ctl[n].at < e.at /\ e.at <= Len(stk')
  /\ e.k # "thread"
  /\ e.k = "method" => ctl[n].k \in Closes
  /\ e.k # "method" => ctl[n].k \in Frames
  /\ e.k = "return" => n > 1 /\ e.at = ctl[n].at + 1 /\ e.pos \in e.at .. Len(stk')
  /\ ctl[n].k = "return" => ctl[n].pos < e.at
PushValues(n, e) ==
  /\ e.k = "return" => stk'[e.pos] = e.val
  /\ e.k = "error" => stk'[Len(stk')] = e.val
  /\ ctl[n].k = "return" => stk'[ctl[n].pos] = stk[ctl[n].pos]
  /\ ctl[n].k = "error" => stk'[e.at - 1] = ctl[n].val
  /\ \A s \in 1 .. ctl[n].at : stk'[s] = stk[s]

(* Pushing such an entry keeps the nesting of frames and loops.            *)
LEMMA PushNests ==
  ASSUME TypeOK, Nesting, NEW n \in 1 .. Len(ctl), NEW e \in Record, PushOrder(n, e)
  PROVE  Nesting'
<1>1. /\ Len(ctl) \in Nat /\ n \in Nat
      /\ \A i \in 1 .. n : i \in 1 .. Len(ctl) /\ ctl[i].at \in Nat /\ ctl[i].pos \in Nat
      /\ \A i \in 1 .. n : ctl[i].at <= ctl[n].at
  BY Ordered
<1>2. /\ Len(ctl') = n + 1 /\ ctl'[n + 1] = e /\ \A i \in 1 .. n : ctl'[i] = ctl[i]
      /\ Len(stk') \in Nat /\ ctl[n].at < e.at /\ e.at <= Len(stk')
  BY DEF PushOrder
<1>3. e.at \in Nat /\ e.pos \in Nat
  BY DEF Record
<1>4. \A i, j \in 1 .. Len(ctl) : i < j => ctl[i].at < ctl[j].at /\ (ctl[i].k = "return" => ctl[i].pos < ctl[j].at)
  BY DEF Nesting
<1>5. \A i \in 1 .. n : ctl[i].k = "return" => ctl[i].pos < e.at
  <2> TAKE i \in 1 .. n
  <2>1. CASE i = n
    BY <2>1 DEF PushOrder
  <2>2. CASE i < n /\ ctl[i].k = "return"
    <3>1. ctl[i].pos < ctl[n].at
      BY <1>1, <1>4, <2>2
    <3> QED
      BY <1>1, <1>2, <1>3, <3>1
  <2> QED
    BY <1>1, <2>1, <2>2
<1>6. \A i \in 1 .. n + 1 :
        /\ i = 1 <=> ctl'[i].k = "thread"
        /\ i = 1 => ctl'[i].at = 0
        /\ ctl'[i].at <= Len(stk')
        /\ ctl'[i].k = "return" => ctl'[i].pos \in ctl'[i].at .. Len(stk')
  <2> TAKE i \in 1 .. n + 1
  <2>1. CASE i = n + 1
    BY <1>1, <1>2, <2>1 DEF PushOrder
  <2>2. CASE i \in 1 .. n
    <3>1. /\ i = 1 <=> ctl[i].k = "thread"
          /\ i = 1 => ctl[i].at = 0
          /\ ctl[i].k = "return" => ctl[i].pos \in ctl[i].at .. Top
      BY <1>1, <2>2 DEF Nesting
    <3>2. ctl[i].at <= Len(stk')
      BY <1>1, <1>2, <1>3, <2>2
    <3>3. ctl[i].k = "return" => ctl[i].pos \in ctl[i].at .. Len(stk')
      <4>1. CASE ctl[i].k = "return"
        <5>1. ctl[i].at <= ctl[i].pos
          BY <1>1, <2>2, <3>1, <4>1
        <5>2. ctl[i].pos < e.at
          BY <1>5, <2>2, <4>1
        <5> QED
          BY <1>1, <1>2, <1>3, <2>2, <5>1, <5>2
      <4> QED
        BY <4>1
    <3> QED
      BY <1>2, <2>2, <3>1, <3>2, <3>3
  <2> QED
    BY <1>1, <2>1, <2>2
<1>7. \A i \in 2 .. n + 1 :
        /\ ctl'[i].k = "method" => ctl'[i - 1].k \in Closes
        /\ ctl'[i].k # "method" => ctl'[i - 1].k \in Frames
        /\ ctl'[i].k = "return" => i > 2 /\ ctl'[i].at = ctl'[i - 1].at + 1
  <2> TAKE i \in 2 .. n + 1
  <2>1. CASE i = n + 1
    <3>1. i - 1 = n /\ n \in 1 .. n
      BY <1>1, <2>1
    <3> QED
      BY <1>1, <1>2, <2>1, <3>1 DEF PushOrder
  <2>2. CASE i \in 2 .. n
    <3>1. i \in 2 .. Len(ctl) /\ i \in 1 .. n /\ i - 1 \in 1 .. n
      BY <1>1, <2>2
    <3>2. ctl'[i] = ctl[i] /\ ctl'[i - 1] = ctl[i - 1]
      BY <1>2, <3>1
    <3> QED
      BY <3>1, <3>2 DEF Nesting
  <2> QED
    BY <1>1, <2>1, <2>2
<1>8. \A i, j \in 1 .. n + 1 : i < j =>
        /\ ctl'[i].at < ctl'[j].at
        /\ ctl'[i].k = "return" => ctl'[i].pos < ctl'[j].at
  <2> TAKE i, j \in 1 .. n + 1
  <2>1. CASE j = n + 1 /\ i < j
    <3>1. i \in 1 .. n
      BY <1>1, <2>1
    <3>2. ctl[i].at < e.at
      BY <1>1, <1>2, <1>3, <3>1
    <3> QED
      BY <1>2, <1>5, <2>1, <3>1, <3>2
  <2>2. CASE j \in 1 .. n /\ i < j
    <3>1. i \in 1 .. n /\ i \in 1 .. Len(ctl) /\ j \in 1 .. Len(ctl)
      BY <1>1, <2>2
    <3> QED
      BY <1>2, <1>4, <2>2, <3>1
  <2> QED
    BY <1>1, <2>1, <2>2
<1> QED
  BY <1>1, <1>2, <1>6, <1>7, <1>8 DEF Nesting, Top

(* ... and the results and errors that wait.                               *)
LEMMA PushKeeps ==
  ASSUME TypeOK, Nesting, ErrorKept, OutcomeIntact, NEW n \in 1 .. Len(ctl), NEW e \in Record,
         PushOrder(n, e), PushValues(n, e)
  PROVE  ErrorKept' /\ OutcomeIntact'
<1>1. /\ Len(ctl) \in Nat /\ n \in Nat
      /\ \A i \in 1 .. n : i \in 1 .. Len(ctl) /\ ctl[i].at \in Nat /\ ctl[i].pos \in Nat
      /\ \A i \in 1 .. n : ctl[i].at <= ctl[n].at
      /\ \A i \in 2 .. n : ctl[i].at > 0
  BY Ordered
<1>2. Len(ctl') = n + 1 /\ ctl'[n + 1] = e /\ \A i \in 1 .. n : ctl'[i] = ctl[i]
  BY DEF PushOrder
<1>3. \A s \in 1 .. ctl[n].at : stk'[s] = stk[s]
  BY DEF PushValues
<1>4. ErrorKept'
  <2> SUFFICES ASSUME NEW i \in 1 .. n, ctl[i].k = "error"
               PROVE  ctl'[i].at < ctl'[i + 1].at /\ stk'[ctl'[i + 1].at - 1] = ctl'[i].val
    BY <1>1, <1>2 DEF ErrorKept
  <2>1. CASE i = n
    BY <1>2, <2>1 DEF PushOrder, PushValues
  <2>2. CASE i < n
    <3>1. i + 1 \in 2 .. n /\ i + 1 \in 1 .. n /\ i \in 1 .. Len(ctl) - 1
      BY <1>1, <2>2
    <3>2. ctl[i].at < ctl[i + 1].at /\ stk[ctl[i + 1].at - 1] = ctl[i].val
      BY <3>1 DEF ErrorKept
    <3>3. i # 1
      BY <1>1 DEF Nesting
    <3>4. ctl[i].at > 0 /\ ctl[i].at \in Nat /\ ctl[i + 1].at \in Nat /\ ctl[i + 1].at <= ctl[n].at /\ ctl[n].at \in Nat
      BY <1>1, <3>1, <3>3
    <3>5. ctl[i + 1].at - 1 \in 1 .. ctl[n].at
      BY <3>2, <3>4
    <3> QED
      BY <1>2, <1>3, <3>1, <3>2, <3>5
  <2> QED
    BY <1>1, <2>1, <2>2
<1>5. \A i \in 1 .. n + 1 : ctl'[i].k = "return" => stk'[ctl'[i].pos] = ctl'[i].val
  <2> TAKE i \in 1 .. n + 1
  <2>1. CASE i = n + 1
    BY <1>2, <2>1 DEF PushValues
  <2>2. CASE i = n
    BY <1>1, <1>2, <2>2 DEF OutcomeIntact, PushValues
  <2>3. CASE i \in 1 .. n - 1 /\ ctl[i].k = "return"
    <3>1. i \in 1 .. n /\ i \in 1 .. Len(ctl) /\ i < n /\ n \in 1 .. Len(ctl) /\ i \in 2 .. n
      BY <1>1, <2>3 DEF Nesting
    <3>2. ctl[i].pos < ctl[n].at /\ ctl[i].pos \in ctl[i].at .. Top
      BY <2>3, <3>1 DEF Nesting
    <3>3. ctl[i].at > 0 /\ ctl[i].at \in Nat /\ ctl[i].pos \in Nat /\ ctl[n].at \in Nat
      BY <1>1, <3>1
    <3>4. ctl[i].pos \in 1 .. ctl[n].at
      BY <3>2, <3>3
    <3> QED
      BY <1>2, <1>3, <2>3, <3>1, <3>4 DEF OutcomeIntact
  <2> QED
    BY <1>1, <1>2, <2>1, <2>2, <2>3
<1> QED
  BY <1>1, <1>2, <1>4, <1>5 DEF OutcomeIntact, Cur, Top, PushValues

(* The first n entries are left, and the stack is cut or grows above them. *)
PopOrder(n) ==
  /\ Len(ctl') = n /\ \A i \in 1 .. n : ctl'[i] = ctl[i]
  /\ Len(stk') \in Nat /\ ctl[n].at <= Len(stk')
  /\ ctl[n].k \in Closes => n < Len(ctl) /\ Len(stk') = ctl[n + 1].at - 1
PopValues(n) ==
  \A s \in 1 .. Len(stk') :
    ~Owned(s, ctl, Top) /\ (s <= ctl[n].at \/ ctl[n].k \in Closes) => stk'[s] = stk[s]

(* Leaving entries keeps the nesting of those that remain.                 *)
LEMMA PopNests ==
  ASSUME TypeOK, Nesting, NEW n \in 1 .. Len(ctl), PopOrder(n)
  PROVE  Nesting'
<1>1. /\ Len(ctl) \in Nat /\ n \in Nat
      /\ \A i \in 1 .. n : i \in 1 .. Len(ctl) /\ ctl[i].at \in Nat /\ ctl[i].pos \in Nat
      /\ \A i \in 1 .. n : ctl[i].at <= ctl[n].at
  BY Ordered
<1>2. /\ Len(ctl') = n /\ \A i \in 1 .. n : ctl'[i] = ctl[i]
      /\ Len(stk') \in Nat /\ ctl[n].at <= Len(stk')
  BY DEF PopOrder
<1>3. \A i, j \in 1 .. Len(ctl) : i < j => ctl[i].at < ctl[j].at /\ (ctl[i].k = "return" => ctl[i].pos < ctl[j].at)
  BY DEF Nesting
<1>4. \A i \in 1 .. n :
        /\ i = 1 <=> ctl'[i].k = "thread"
        /\ i = 1 => ctl'[i].at = 0
        /\ ctl'[i].at <= Len(stk')
        /\ ctl'[i].k = "return" => ctl'[i].pos \in ctl'[i].at .. Len(stk')
  <2> TAKE i \in 1 .. n
  <2>1. /\ i = 1 <=> ctl[i].k = "thread"
        /\ i = 1 => ctl[i].at = 0
        /\ ctl[i].k = "return" => ctl[i].pos \in ctl[i].at .. Top
    BY <1>1 DEF Nesting
  <2>2. ctl[i].at <= Len(stk')
    BY <1>1, <1>2
  <2>3. ctl[i].k = "return" => ctl[i].pos <= Len(stk')
    <3>1. CASE i < n /\ ctl[i].k = "return"
      <4>1. ctl[i].pos < ctl[n].at
        BY <1>1, <1>3, <3>1
      <4> QED
        BY <1>1, <1>2, <4>1
    <3>2. CASE i = n /\ ctl[i].k = "return"
      <4>1. n < Len(ctl) /\ Len(stk') = ctl[n + 1].at - 1
        BY <3>2 DEF PopOrder, Closes
      <4>2. n + 1 \in 1 .. Len(ctl) /\ ctl[n].pos < ctl[n + 1].at
        BY <1>1, <1>3, <3>2, <4>1
      <4>3. ctl[n + 1].at \in Nat
        BY <4>2, Elements
      <4> QED
        BY <1>1, <3>2, <4>1, <4>2, <4>3
    <3> QED
      BY <1>1, <3>1, <3>2
  <2>4. ctl[i].at \in Nat /\ ctl[i].pos \in Nat /\ ctl'[i] = ctl[i]
    BY <1>1, <1>2
  <2> QED
    BY <1>2, <2>1, <2>2, <2>3, <2>4
<1>5. \A i \in 2 .. n :
        /\ ctl'[i].k = "method" => ctl'[i - 1].k \in Closes
        /\ ctl'[i].k # "method" => ctl'[i - 1].k \in Frames
        /\ ctl'[i].k = "return" => i > 2 /\ ctl'[i].at = ctl'[i - 1].at + 1
  <2> TAKE i \in 2 .. n
  <2>1. i \in 2 .. Len(ctl) /\ i \in 1 .. n /\ i - 1 \in 1 .. n
    BY <1>1
  <2>2. ctl'[i] = ctl[i] /\ ctl'[i - 1] = ctl[i - 1]
    BY <1>2, <2>1
  <2> QED
    BY <2>1, <2>2 DEF Nesting
<1>6. \A i, j \in 1 .. n : i < j =>
        /\ ctl'[i].at < ctl'[j].at
        /\ ctl'[i].k = "return" => ctl'[i].pos < ctl'[j].at
  BY <1>1, <1>2, <1>3
<1> QED
  BY <1>1, <1>2, <1>4, <1>5, <1>6 DEF Nesting, Top

(* What a closing loop keeps for itself is no variable's slot.             *)
LEMMA NotOwned ==
  ASSUME TypeOK, Nesting, NEW i \in 1 .. Len(ctl) - 1
  PROVE  /\ ctl[i].k = "error" => ~Owned(ctl[i + 1].at - 1, ctl, Top)
         /\ ctl[i].k = "return" => ~Owned(ctl[i].pos, ctl, Top)
<1>1. /\ Len(ctl) \in Nat /\ i \in 1 .. Len(ctl) /\ i + 1 \in 1 .. Len(ctl)
      /\ ctl[i].at \in Nat /\ ctl[i + 1].at \in Nat /\ ctl[i].pos \in Nat
  BY Elements
<1>2. ctl[i].at < ctl[i + 1].at /\ (ctl[i].k = "return" => ctl[i].pos < ctl[i + 1].at)
  <2>1. \A a, b \in 1 .. Len(ctl) : a < b => ctl[a].at < ctl[b].at /\ (ctl[a].k = "return" => ctl[a].pos < ctl[b].at)
    BY DEF Nesting
  <2>2. i < i + 1
    BY <1>1
  <2> QED
    BY <1>1, <2>1, <2>2
<1>3. ctl[i].k = "return" => ctl[i].at <= ctl[i].pos
  BY <1>1 DEF Nesting
<1> QED
  BY <1>1, <1>2, <1>3 DEF Owned, Closes

(* ... and the results and errors that wait.                               *)
LEMMA PopKeeps ==
  ASSUME TypeOK, Nesting, ErrorKept, OutcomeIntact, NEW n \in 1 .. Len(ctl), PopOrder(n), PopValues(n)
  PROVE  ErrorKept' /\ OutcomeIntact'
<1>1. /\ Len(ctl) \in Nat /\ n \in Nat
      /\ \A i \in 1 .. n : i \in 1 .. Len(ctl) /\ ctl[i].at \in Nat /\ ctl[i].pos \in Nat
      /\ \A i \in 1 .. n : ctl[i].at <= ctl[n].at
      /\ \A i \in 2 .. n : ctl[i].at > 0
  BY Ordered
<1>2. /\ Len(ctl') = n /\ \A i \in 1 .. n : ctl'[i] = ctl[i]
      /\ Len(stk') \in Nat /\ ctl[n].at <= Len(stk')
  BY DEF PopOrder
<1>3. ErrorKept'
  <2> SUFFICES ASSUME NEW i \in 1 .. n - 1, ctl[i].k = "error"
               PROVE  ctl'[i].at < ctl'[i + 1].at /\ stk'[ctl'[i + 1].at - 1] = ctl'[i].val
    BY <1>1, <1>2 DEF ErrorKept
  <2>1. i \in 1 .. n /\ i + 1 \in 2 .. n /\ i + 1 \in 1 .. n /\ i \in 1 .. Len(ctl) - 1
    BY <1>1
  <2>2. ctl[i].at < ctl[i + 1].at /\ stk[ctl[i + 1].at - 1] = ctl[i].val
    BY <2>1 DEF ErrorKept
  <2>3. i # 1
    BY <1>1 DEF Nesting
  <2>4. ctl[i].at > 0 /\ ctl[i].at \in Nat /\ ctl[i + 1].at \in Nat /\ ctl[i + 1].at <= ctl[n].at /\ ctl[n].at \in Nat
    BY <1>1, <2>1, <2>3
  <2>5. ctl[i + 1].at - 1 \in 1 .. Len(stk') /\ ctl[i + 1].at - 1 <= ctl[n].at
    BY <1>2, <2>2, <2>4
  <2>6. ~Owned(ctl[i + 1].at - 1, ctl, Top)
    BY <2>1, NotOwned
  <2>7. stk'[ctl[i + 1].at - 1] = stk[ctl[i + 1].at - 1]
    BY <2>5, <2>6 DEF PopValues
  <2> QED
    BY <1>2, <2>1, <2>2, <2>7
<1>4. \A i \in 1 .. n : ctl'[i].k = "return" => stk'[ctl'[i].pos] = ctl'[i].val
  <2> SUFFICES ASSUME NEW i \in 1 .. n, ctl[i].k = "return"
               PROVE  stk'[ctl[i].pos] = ctl[i].val
    BY <1>2
  <2>1. i \in 2 .. n /\ i \in 1 .. Len(ctl) /\ ctl[i].pos \in ctl[i].at .. Top /\ stk[ctl[i].pos] = ctl[i].val
    BY <1>1 DEF Nesting, OutcomeIntact
  <2>2. ctl[i].at > 0 /\ ctl[i].at \in Nat /\ ctl[i].pos \in Nat /\ ctl[n].at \in Nat
    BY <1>1, <2>1
  <2>3. i \in 1 .. Len(ctl) - 1 /\ ctl[i].pos <= Len(stk') /\ (ctl[i].pos <= ctl[n].at \/ ctl[n].k \in Closes)
    <3>1. CASE i < n
      <4>1. ctl[i].pos < ctl[n].at
        BY <1>1, <2>1, <3>1 DEF Nesting
      <4> QED
        BY <1>1, <1>2, <2>2, <3>1, <4>1
    <3>2. CASE i = n
      <4>1. ctl[n].k \in Closes /\ n < Len(ctl) /\ Len(stk') = ctl[n + 1].at - 1
        BY <3>2 DEF PopOrder, Closes
      <4>2. n + 1 \in 1 .. Len(ctl) /\ ctl[n].pos < ctl[n + 1].at
        BY <1>1, <3>2, <4>1 DEF Nesting
      <4>3. ctl[n + 1].at \in Nat
        BY <4>2, Elements
      <4> QED
        BY <1>1, <2>2, <3>2, <4>1, <4>2, <4>3
    <3> QED
      BY <1>1, <3>1, <3>2
  <2>4. ~Owned(ctl[i].pos, ctl, Top) /\ ctl[i].pos \in 1 .. Len(stk')
    BY <1>2, <2>1, <2>2, <2>3, NotOwned
  <2> QED
    BY <2>1, <2>3, <2>4 DEF PopValues
<1>5. ctl[n].k = "error" => stk'[Len(stk')] = ctl[n].val
  <2> HAVE ctl[n].k = "error"
  <2>1. ctl[n].k \in Closes /\ n \in 1 .. Len(ctl) - 1 /\ Len(stk') = ctl[n + 1].at - 1
    BY <1>1 DEF PopOrder, Closes
  <2>2. stk[ctl[n + 1].at - 1] = ctl[n].val /\ ~Owned(ctl[n + 1].at - 1, ctl, Top)
    BY <2>1, NotOwned DEF ErrorKept
  <2>3. n \in 2 .. n
    BY <1>1 DEF Nesting
  <2>4. Len(stk') \in 1 .. Len(stk')
    BY <1>1, <1>2, <2>3
  <2> QED
    BY <2>1, <2>2, <2>4 DEF PopValues
<1> QED
  BY <1>1, <1>2, <1>3, <1>4, <1>5 DEF OutcomeIntact, Cur, Top

(* Which slots of variables remain such.                                   *)
LEMMA PushOwned ==
  ASSUME TypeOK, NEW n \in 1 .. Len(ctl), NEW e \in Record, PushOrder(n, e),
         n < Len(ctl) => ctl[n].k \in Frames,
         NEW s, Owned(s, ctl, Top), s <= Len(stk'), e.k \in Frames => s # e.at, e.k \in Closes => s < e.at
  PROVE  Owned(s, ctl', Len(stk'))
<1>1. Len(ctl) \in Nat /\ n \in Nat /\ s \in 1 .. Len(stk')
  BY Elements DEF Owned, PushOrder, Top
<1>2. Len(ctl') = n + 1 /\ ctl'[n + 1] = e /\ \A i \in 1 .. n : ctl'[i] = ctl[i]
  BY DEF PushOrder
<1>3. \A i \in 1 .. n + 1 :
        /\ ctl'[i].k \in Frames => s # ctl'[i].at
        /\ ctl'[i].k \in Closes /\ s >= ctl'[i].at => i < n + 1 /\ s > ctl'[i + 1].at
  <2> TAKE i \in 1 .. n + 1
  <2>1. CASE i = n + 1
    <3>1. e.at \in Nat /\ s \in Nat
      BY <1>1 DEF Record
    <3> QED
      BY <1>1, <1>2, <2>1, <3>1
  <2>2. CASE i \in 1 .. n
    <3>1. /\ ctl[i].k \in Frames => s # ctl[i].at
          /\ ctl[i].k \in Closes /\ s >= ctl[i].at => i < Len(ctl) /\ s > ctl[i + 1].at
      BY <1>1, <2>2 DEF Owned
    <3>2. CASE i = n
      BY <1>1, <1>2, <3>1, <3>2 DEF Frames, Closes
    <3>3. CASE i < n
      <4>1. i \in 1 .. n /\ i + 1 \in 1 .. n
        BY <1>1, <2>2, <3>3
      <4> QED
        BY <1>1, <1>2, <3>1, <3>3, <4>1
    <3> QED
      BY <1>1, <2>2, <3>2, <3>3
  <2> QED
    BY <1>1, <2>1, <2>2
<1> QED
  BY <1>1, <1>2, <1>3 DEF Owned, Top

(* ... and when entries are left.                                          *)
LEMMA PopOwned ==
  ASSUME TypeOK, NEW n \in 1 .. Len(ctl), PopOrder(n), NEW s, Owned(s, ctl, Top), s <= Len(stk')
  PROVE  Owned(s, ctl', Len(stk'))
<1>1. Len(ctl) \in Nat /\ n \in Nat /\ s \in 1 .. Len(stk') /\ \A i \in 1 .. Len(ctl) : ctl[i].at \in Nat
  BY Elements DEF Owned, PopOrder, Top
<1>2. Len(ctl') = n /\ \A i \in 1 .. n : ctl'[i] = ctl[i]
  BY DEF PopOrder
<1>3. \A i \in 1 .. n :
        /\ ctl'[i].k \in Frames => s # ctl'[i].at
        /\ ctl'[i].k \in Closes /\ s >= ctl'[i].at => i < n /\ s > ctl'[i + 1].at
  <2> TAKE i \in 1 .. n
  <2>1. /\ ctl[i].k \in Frames => s # ctl[i].at
        /\ ctl[i].k \in Closes /\ s >= ctl[i].at => i < Len(ctl) /\ s > ctl[i + 1].at
    BY <1>1 DEF Owned
  <2>2. CASE i = n
    <3>1. ctl[i].k \in Closes => i + 1 \in 1 .. Len(ctl) /\ s < ctl[i + 1].at
      BY <1>1, <2>2 DEF PopOrder
    <3> QED
      BY <1>1, <1>2, <2>1, <2>2, <3>1
  <2>3. CASE i < n
    <3>1. i + 1 \in 1 .. n
      BY <1>1, <2>3
    <3> QED
      BY <1>1, <1>2, <2>1, <2>3, <3>1
  <2> QED
    BY <1>1, <2>2, <2>3
<1> QED
  BY <1>1, <1>2, <1>3 DEF Owned, Top
-----------------------------------------------------------------------------
(***************************************************************************)
(* Upvalues: when none is closed, and when those from a level up are.      *)
(***************************************************************************)
UvType == [UpvIds -> [made : BOOLEAN, slot : Slots, val : Values]]

KeepsUpvals ==
  /\ openupval' = openupval /\ inst' = inst /\ (openupval # <<>> => intwups')
  /\ \A u \in UpvIds : uv'[u].made = uv[u].made /\ uv'[u].slot = uv[u].slot
  /\ \A u \in UpvIds : uv[u].slot > 0 => Owned(uv[u].slot, ctl', Len(stk'))
  /\ \A u \in UpvIds : uv[u].made =>
       cell'[u] = (IF uv[u].slot > 0 THEN stk'[uv[u].slot] ELSE uv'[u].val)

(* Upvalues see their variables if their slots and values are kept.        *)
LEMMA UpvalsKept ==
  ASSUME TypeOK, Captures, OpenListSorted, UpvalSeesVariable, KeepsUpvals, inst' \in [Slots -> UpvIds \cup {None}]
  PROVE  Captures' /\ OpenListSorted' /\ UpvalSeesVariable'
<1>1. /\ openupval' = openupval /\ inst' = inst /\ (openupval # <<>> => intwups')
      /\ \A u \in UpvIds : uv'[u].made = uv[u].made /\ uv'[u].slot = uv[u].slot
  BY DEF KeepsUpvals
<1>2. \A i \in 1 .. Len(openupval) : openupval[i] \in UpvIds
  BY Elements
<1>3. Captures'
  BY <1>1, <1>2 DEF Captures, KeepsUpvals, Top
<1>4. OpenListSorted'
  <2>1. \A u \in UpvIds : uv[u].slot > 0 => uv[u].slot \in 1 .. Len(stk')
    BY DEF KeepsUpvals, Owned, Top
  <2>2. \A i \in 1 .. Len(openupval) : uv[openupval[i]].slot > 0
    BY <1>2, Elements DEF OpenListSorted
  <2> QED
    BY <1>1, <1>2, <2>1, <2>2 DEF OpenListSorted, Top
<1>5. UpvalSeesVariable'
  <2>1. \A s \in Slots : inst[s] # None => inst[s] \in UpvIds
    BY <1>1
  <2>2. \A u \in UpvIds : uv'[u].made =>
          cell'[u] = (IF uv'[u].slot > 0 THEN stk'[uv'[u].slot] ELSE uv'[u].val)
    BY <1>1 DEF KeepsUpvals
  <2>3. \A s \in Slots : inst'[s] # None <=> \E u \in UpvIds : uv'[u].slot = s /\ s > 0
    BY <1>1 DEF UpvalSeesVariable
  <2>4. \A s \in Slots : inst'[s] # None => uv'[inst'[s]].slot = s
    BY <1>1, <2>1 DEF UpvalSeesVariable
  <2> QED
    BY <2>2, <2>3, <2>4 DEF UpvalSeesVariable
<1> QED
  BY <1>3, <1>4, <1>5

(* ilyaF_closeupval closes exactly the upvalues from its level up, each    *)
(* with the value its variable has.                                        *)
LEMMA CloseEffect ==
  ASSUME TypeOK, Captures, OpenListSorted, NEW l \in Nat, l > 0, CloseUpval(l)
  PROVE  /\ \A u \in UpvIds : uv[u].slot < l => uv'[u] = uv[u]
         /\ \A u \in UpvIds : uv[u].slot >= l =>
              uv'[u].made = uv[u].made /\ uv'[u].slot = 0 /\ uv'[u].val = stk[uv[u].slot]
         /\ Closing(l) \in 0 .. Len(openupval)
         /\ openupval' \in Seq(UpvIds) /\ Len(openupval') = Len(openupval) - Closing(l)
         /\ \A i \in 1 .. Len(openupval') : openupval'[i] = openupval[i + Closing(l)]
         /\ \A i \in 1 .. Len(openupval) : uv[openupval[i]].slot < l <=> i > Closing(l)
         /\ uv' \in UvType /\ inst' \in [Slots -> UpvIds \cup {None}]
<1> DEFINE c == Closing(l)
<1>1. /\ c \in 0 .. Len(openupval)
      /\ \A i \in 1 .. c : uv[openupval[i]].slot >= l
      /\ c < Len(openupval) => uv[openupval[c + 1]].slot < l
  BY ClosingStops
<1> HIDE DEF c
<1>2. /\ Len(openupval) \in Nat /\ \A i \in 1 .. Len(openupval) : openupval[i] \in UpvIds
      /\ \A u \in UpvIds : uv[u].slot \in Nat
  BY Elements
<1>3. \A i \in 1 .. Len(openupval) : uv[openupval[i]].slot < l <=> i > c
  <2> TAKE i \in 1 .. Len(openupval)
  <2>1. CASE i <= c
    BY <1>1, <1>2, <2>1
  <2>2. CASE i = c + 1
    BY <1>1, <1>2, <2>2
  <2>3. CASE i > c + 1
    <3>1. uv[openupval[c + 1]].slot < l /\ c + 1 \in 1 .. Len(openupval)
      BY <1>1, <1>2, <2>3
    <3>2. uv[openupval[i]].slot < uv[openupval[c + 1]].slot
      BY <1>1, <1>2, <2>3, <3>1 DEF OpenListSorted
    <3> QED
      BY <1>1, <1>2, <2>3, <3>1, <3>2
  <2> QED
    BY <1>1, <1>2, <2>1, <2>2, <2>3
<1>4. \A u \in UpvIds : u \in Closed(l) <=> uv[u].slot >= l
  <2> TAKE u \in UpvIds
  <2>1. u \in Closed(l) => uv[u].slot >= l
    BY <1>1 DEF Closed, c
  <2>2. ASSUME uv[u].slot >= l PROVE u \in Closed(l)
    <3>1. PICK i \in 1 .. Len(openupval) : openupval[i] = u
      BY <1>2, <2>2 DEF Captures
    <3>2. i \in 1 .. c
      BY <1>1, <1>2, <1>3, <2>2, <3>1
    <3> QED
      BY <3>1, <3>2 DEF Closed, c
  <2> QED
    BY <2>1, <2>2
<1>5. \A u \in UpvIds : uv[u] \in [made : BOOLEAN, slot : Slots, val : Values]
  BY DEF TypeOK, Values
<1>6. \A u \in UpvIds : uv'[u] = IF u \in Closed(l)
                                 THEN [uv[u] EXCEPT !.slot = 0, !.val = stk[uv[u].slot]]
                                 ELSE uv[u]
  BY DEF CloseUpval
<1>7. \A u \in UpvIds : ~(uv[u].slot >= l) => uv'[u] = uv[u]
  BY <1>4, <1>6
<1>8. \A u \in UpvIds : uv[u].slot < l => uv'[u] = uv[u]
  BY <1>2, <1>7
<1>9. \A u \in UpvIds : uv[u].slot >= l =>
        /\ uv'[u].made = uv[u].made /\ uv'[u].slot = 0 /\ uv'[u].val = stk[uv[u].slot]
        /\ uv'[u] \in [made : BOOLEAN, slot : Slots, val : Values]
  <2> TAKE u \in UpvIds
  <2> HAVE uv[u].slot >= l
  <2>1. uv[u].slot \in 1 .. Len(stk)
    BY <1>2 DEF Captures, Owned, Top
  <2>2. stk[uv[u].slot] \in Values /\ 0 \in Slots
    BY <2>1, Elements, ConstantsAssumption DEF Slots
  <2>3. uv'[u] = [uv[u] EXCEPT !.slot = 0, !.val = stk[uv[u].slot]]
    BY <1>4, <1>6
  <2> QED
    BY <1>5, <2>2, <2>3
<1>10. /\ openupval' \in Seq(UpvIds) /\ Len(openupval') = Len(openupval) - c
       /\ \A i \in 1 .. Len(openupval') : openupval'[i] = openupval[i + c]
  <2>1. openupval' = SubSeq(openupval, c + 1, Len(openupval))
    BY DEF CloseUpval, c
  <2>2. c + 1 \in Int /\ Len(openupval) \in Int /\ \A i \in c + 1 .. Len(openupval) : openupval[i] \in UpvIds
    BY <1>1, <1>2
  <2>3. /\ SubSeq(openupval, c + 1, Len(openupval)) \in Seq(UpvIds)
        /\ Len(SubSeq(openupval, c + 1, Len(openupval))) = IF c + 1 <= Len(openupval) THEN Len(openupval) - (c + 1) + 1 ELSE 0
        /\ \A i \in 1 .. Len(openupval) - (c + 1) + 1 : SubSeq(openupval, c + 1, Len(openupval))[i] = openupval[(c + 1) + i - 1]
    BY <2>2, SubSeqProperties
  <2>4. Len(openupval') = Len(openupval) - c
    BY <1>1, <1>2, <2>1, <2>3
  <2>5. \A i \in 1 .. Len(openupval) - c : openupval'[i] = openupval[i + c]
    <3> TAKE i \in 1 .. Len(openupval) - c
    <3>1. i \in 1 .. Len(openupval) - (c + 1) + 1 /\ (c + 1) + i - 1 = i + c
      BY <1>1, <1>2
    <3> QED
      BY <2>1, <2>3, <3>1
  <2> QED
    BY <2>1, <2>3, <2>4, <2>5
<1>11. uv' \in UvType
  <2>1. \A u \in UpvIds : uv'[u] \in [made : BOOLEAN, slot : Slots, val : Values]
    <3> TAKE u \in UpvIds
    <3>1. CASE uv[u].slot < l
      BY <1>8, <3>1 DEF TypeOK, Values
    <3>2. CASE uv[u].slot >= l
      BY <1>9, <3>2
    <3> QED
      BY <1>2, <3>1, <3>2
  <2>2. uv' = [u \in UpvIds |-> uv'[u]]
    BY DEF CloseUpval
  <2> QED
    BY <2>1, <2>2 DEF UvType
<1>12. inst' \in [Slots -> UpvIds \cup {None}]
  BY DEF CloseUpval, TypeOK
<1> QED
  BY <1>1, <1>3, <1>8, <1>9, <1>10, <1>11, <1>12 DEF c

(* ... and after those from level l up were closed.                        *)
LEMMA UpvalsClosed ==
  ASSUME TypeOK, Captures, OpenListSorted, UpvalSeesVariable, NEW l \in Nat, l > 0, CloseUpval(l),
         intwups' = intwups, cell' = cell,
         \A s \in 1 .. l - 1 : Owned(s, ctl, Top) => Owned(s, ctl', Len(stk')) /\ stk'[s] = stk[s]
  PROVE  Captures' /\ OpenListSorted' /\ UpvalSeesVariable'
<1> DEFINE c == Closing(l)
<1>1. /\ \A u \in UpvIds : uv[u].slot < l => uv'[u] = uv[u]
      /\ \A u \in UpvIds : uv[u].slot >= l =>
           uv'[u].made = uv[u].made /\ uv'[u].slot = 0 /\ uv'[u].val = stk[uv[u].slot]
      /\ c \in 0 .. Len(openupval) /\ Len(openupval') = Len(openupval) - c
      /\ \A i \in 1 .. Len(openupval') : openupval'[i] = openupval[i + c]
      /\ \A i \in 1 .. Len(openupval) : uv[openupval[i]].slot < l <=> i > c
  BY CloseEffect
<1> HIDE DEF c
<1>2. /\ Len(openupval) \in Nat /\ \A i \in 1 .. Len(openupval) : openupval[i] \in UpvIds
      /\ \A u \in UpvIds : uv[u].slot \in Nat
  BY Elements
<1>3. \A i \in 1 .. Len(openupval') : /\ i + c \in 1 .. Len(openupval) /\ openupval'[i] = openupval[i + c]
                                      /\ uv'[openupval'[i]] = uv[openupval[i + c]]
                                      /\ uv[openupval[i + c]].slot < l /\ openupval'[i] \in UpvIds
  <2> TAKE i \in 1 .. Len(openupval')
  <2>1. i + c \in 1 .. Len(openupval) /\ i + c > c /\ openupval'[i] = openupval[i + c]
    BY <1>1, <1>2
  <2> QED
    BY <1>1, <1>2, <2>1
<1>4. \A u \in UpvIds : uv'[u].slot > 0 => uv[u].slot < l /\ uv'[u] = uv[u]
  <2> TAKE u \in UpvIds
  <2>1. CASE uv[u].slot >= l
    BY <1>1, <2>1
  <2>2. CASE uv[u].slot < l
    BY <1>1, <2>2
  <2> QED
    BY <1>2, <2>1, <2>2
<1>5. \A u \in UpvIds : uv[u].slot > 0 /\ uv[u].slot < l =>
        Owned(uv[u].slot, ctl', Len(stk')) /\ stk'[uv[u].slot] = stk[uv[u].slot]
  <2> TAKE u \in UpvIds
  <2> HAVE uv[u].slot > 0 /\ uv[u].slot < l
  <2>1. uv[u].slot \in 1 .. l - 1 /\ Owned(uv[u].slot, ctl, Top)
    BY <1>2 DEF Captures
  <2> QED
    BY <2>1
<1>6. Captures'
  <2>1. \A i \in 1 .. Len(openupval') : uv'[openupval'[i]].made
    BY <1>3 DEF Captures
  <2>2. ASSUME NEW u \in UpvIds, uv'[u].slot > 0
        PROVE  uv'[u].made /\ Owned(uv'[u].slot, ctl', Len(stk')) /\ \E i \in 1 .. Len(openupval') : openupval'[i] = u
    <3>1. uv[u].slot < l /\ uv'[u] = uv[u]
      BY <1>4, <2>2
    <3>2. PICK j \in 1 .. Len(openupval) : openupval[j] = u
      BY <2>2, <3>1 DEF Captures
    <3>3. j - c \in 1 .. Len(openupval') /\ (j - c) + c = j
      BY <1>1, <1>2, <3>1, <3>2
    <3>4. uv'[u].made /\ Owned(uv'[u].slot, ctl', Len(stk'))
      BY <1>5, <2>2, <3>1 DEF Captures
    <3>5. openupval'[j - c] = u
      BY <1>1, <3>2, <3>3
    <3> QED
      BY <3>3, <3>4, <3>5
  <2> QED
    BY <2>1, <2>2 DEF Captures, Top
<1>7. OpenListSorted'
  <2>1. \A i \in 1 .. Len(openupval') : uv'[openupval'[i]].slot \in 1 .. Len(stk')
    <3> TAKE i \in 1 .. Len(openupval')
    <3>1. uv[openupval[i + c]].slot > 0
      BY <1>2, <1>3 DEF OpenListSorted
    <3>2. Owned(uv[openupval[i + c]].slot, ctl', Len(stk'))
      BY <1>2, <1>3, <1>5, <3>1
    <3> QED
      BY <1>3, <3>2 DEF Owned, Top
  <2>2. \A i \in 1 .. Len(openupval') : \A j \in i + 1 .. Len(openupval') :
          uv'[openupval'[i]].slot > uv'[openupval'[j]].slot
    <3> TAKE i \in 1 .. Len(openupval')
    <3> TAKE j \in i + 1 .. Len(openupval')
    <3>1. i + c \in 1 .. Len(openupval) /\ j + c \in (i + c) + 1 .. Len(openupval) /\ j \in 1 .. Len(openupval')
      BY <1>1, <1>2, <1>3
    <3> QED
      BY <1>3, <3>1 DEF OpenListSorted
  <2>3. openupval' # <<>> => intwups'
    <3> HAVE openupval' # <<>>
    <3>1. openupval' \in Seq(UpvIds)
      BY CloseEffect
    <3>2. Len(openupval') \in Nat \ {0}
      BY <3>1, EmptySeq
    <3>3. openupval # <<>>
      BY <1>1, <1>2, <3>2, EmptySeq
    <3> QED
      BY <3>3 DEF OpenListSorted
  <2> QED
    BY <2>1, <2>2, <2>3 DEF OpenListSorted, Top
<1>8. UpvalSeesVariable'
  <2>1. ASSUME NEW u \in UpvIds, uv'[u].made
        PROVE  cell'[u] = (IF uv'[u].slot > 0 THEN stk'[uv'[u].slot] ELSE uv'[u].val)
    <3>1. CASE uv[u].slot >= l
      <4>1. uv[u].slot > 0 /\ uv[u].made
        BY <1>1, <1>2, <2>1, <3>1
      <4>2. cell[u] = stk[uv[u].slot]
        BY <4>1 DEF UpvalSeesVariable
      <4>3. uv'[u].slot = 0 /\ uv'[u].val = stk[uv[u].slot]
        BY <1>1, <3>1
      <4> QED
        BY <4>2, <4>3
    <3>2. CASE uv[u].slot < l
      <4>1. uv'[u] = uv[u]
        BY <1>1, <3>2
      <4>2. cell[u] = (IF uv[u].slot > 0 THEN stk[uv[u].slot] ELSE uv[u].val)
        BY <2>1, <4>1 DEF UpvalSeesVariable
      <4>3. uv[u].slot > 0 => stk'[uv[u].slot] = stk[uv[u].slot]
        BY <1>5, <3>2
      <4> QED
        BY <4>1, <4>2, <4>3
    <3> QED
      BY <1>2, <3>1, <3>2
  <2>2. \A s \in Slots : inst'[s] = IF s >= l THEN None ELSE inst[s]
    BY DEF CloseUpval
  <2>3. \A s \in Slots : s \in Nat /\ (inst[s] # None => inst[s] \in UpvIds)
    BY ConstantsAssumption DEF Slots, TypeOK
  <2>4. ASSUME NEW s \in Slots
        PROVE  inst'[s] # None <=> \E u \in UpvIds : uv'[u].slot = s /\ s > 0
    <3>1. CASE s >= l
      <4>1. \A u \in UpvIds : ~(uv'[u].slot = s /\ s > 0)
        BY <1>2, <1>4, <2>3, <3>1
      <4> QED
        BY <2>2, <3>1, <4>1
    <3>2. CASE s < l
      <4>1. \A u \in UpvIds : (uv'[u].slot = s /\ s > 0) <=> (uv[u].slot = s /\ s > 0)
        BY <1>1, <1>4, <2>3, <3>2
      <4>2. inst[s] # None <=> \E u \in UpvIds : uv[u].slot = s /\ s > 0
        BY DEF UpvalSeesVariable
      <4>3. inst'[s] = inst[s]
        BY <2>2, <2>3, <3>2
      <4> QED
        BY <4>1, <4>2, <4>3
    <3> QED
      BY <2>3, <3>1, <3>2
  <2>5. ASSUME NEW s \in Slots, inst'[s] # None
        PROVE  uv'[inst'[s]].slot = s
    <3>1. s < l /\ inst'[s] = inst[s]
      BY <2>2, <2>3, <2>5
    <3>2. inst[s] \in UpvIds /\ uv[inst[s]].slot = s
      BY <2>3, <2>5, <3>1 DEF UpvalSeesVariable
    <3> QED
      BY <1>1, <3>1, <3>2
  <2> QED
    BY <2>1, <2>4, <2>5 DEF UpvalSeesVariable
<1> QED
  BY <1>6, <1>7, <1>8
-----------------------------------------------------------------------------
(***************************************************************************)
(* The list threaded through the deltas: poptbclist over an array d.       *)
(***************************************************************************)
(* TbcListExact in terms of PopIn, now and after a step.                   *)
LEMMA ListNow ==
  TbcListExact <=>
    /\ tbclist = IF pending = <<>> THEN 0 ELSE pending[Len(pending)][1]
    /\ \A i \in 1 .. Len(pending) :
         PopIn(pending[i][1], delta) = IF i = 1 THEN 0 ELSE pending[i - 1][1]
<1>1. \A t : PopTbc(t) = PopIn(t, delta)
  BY DEF PopTbc, AfterDummies, Hops, PopIn, HopsIn, Least
<1> QED
  BY <1>1 DEF TbcListExact

(* The list after a step, over the deltas the step leaves.                 *)
LEMMA ListNext ==
  TbcListExact' <=>
    /\ tbclist' = IF pending' = <<>> THEN 0 ELSE pending'[Len(pending')][1]
    /\ \A i \in 1 .. Len(pending') :
         PopIn(pending'[i][1], delta') = IF i = 1 THEN 0 ELSE pending'[i - 1][1]
  BY DEF TbcListExact, PopTbc, AfterDummies, Hops, PopIn, HopsIn, Least

(* Only the deltas up to an entry decide where the entry leads.            *)
LEMMA PopSame ==
  ASSUME NEW d, NEW e, NEW t \in Nat, d[t] \in 1 .. t, \A s \in 1 .. t : e[s] = d[s]
  PROVE  PopIn(t, e) = PopIn(t, d)
<1> USE ConstantsAssumption
<1>1. t \in 1 .. t /\ e[t] = d[t]
  OBVIOUS
<1>2. PICK u \in Nat : u = t - d[t] /\ u <= t
  OBVIOUS
<1>3. HopsIn(u, e) = HopsIn(u, d)
  <2>1. \A j \in 0 .. u : u - j * MAXDELTA <= 0 \/ u - j * MAXDELTA \in 1 .. t
    BY <1>2
  <2>2. \A j \in 0 .. u : j \in HopsIn(u, e) <=> j \in HopsIn(u, d)
    <3> TAKE j \in 0 .. u
    <3> DEFINE x == u - j * MAXDELTA
    <3>1. x <= 0 \/ e[x] = d[x]
      BY <2>1
    <3>2. j \in HopsIn(u, e) <=> x <= 0 \/ e[x] # 0
      BY DEF HopsIn
    <3>3. j \in HopsIn(u, d) <=> x <= 0 \/ d[x] # 0
      BY DEF HopsIn
    <3> HIDE DEF x
    <3> QED
      BY <3>1, <3>2, <3>3
  <2>3. HopsIn(u, e) \subseteq 0 .. u /\ HopsIn(u, d) \subseteq 0 .. u
    BY DEF HopsIn
  <2> QED
    BY <2>2, <2>3
<1> QED
  BY <1>1, <1>2, <1>3 DEF PopIn

(* ilyaF_newtbcupval: the new entry leads, over its dummy nodes, to the    *)
(* variable that was the innermost one before.                             *)
LEMMA NewEntry ==
  ASSUME TypeOK, NEW l \in Slots, tbclist < l, tbclist > 0 => delta[tbclist] # 0,
         delta' = [s \in Slots |->
                     IF s = l THEN l - (tbclist + Dummies(l) * MAXDELTA)
                     ELSE IF IsDummy(s, l) THEN 0 ELSE delta[s]]
  PROVE  /\ PopIn(l, delta') = tbclist
         /\ delta'[l] \in 1 .. l
         /\ delta' \in [Slots -> 0 .. MAXDELTA]
         /\ \A s \in 1 .. tbclist : delta'[s] = delta[s]
<1> USE ConstantsAssumption
<1> DEFINE n == Dummies(l)
           w == n * MAXDELTA
           t == tbclist + w
<1>1. l \in Nat /\ tbclist \in Nat /\ l <= MaxSlot /\ \A s \in Slots : s \in Nat
  BY Elements DEF Slots
<1>2. n \in 0 .. l /\ l - t \in 1 .. MAXDELTA
  BY <1>1, DummiesFit
<1> HIDE DEF n
<1>3. n \in Nat /\ w \in Nat /\ n <= w /\ (n = 0 => w = 0)
  BY <1>1, <1>2
<1>4. \A s : IsDummy(s, l) <=> \E j \in 1 .. n : s = tbclist + j * MAXDELTA
  BY DEF IsDummy, n
<1>5. \A j \in 1 .. n : j * MAXDELTA \in Nat /\ j * MAXDELTA > 0 /\ j * MAXDELTA <= w
  <2> TAKE j \in 1 .. n
  <2>1. j * MAXDELTA \in Nat /\ j * MAXDELTA > 0
    BY <1>3
  <2>2. (n - j) * MAXDELTA >= 0
    BY <1>3
  <2>3. (n - j) * MAXDELTA = w - j * MAXDELTA
    BY <1>3
  <2> QED
    BY <1>3, <2>1, <2>2, <2>3
<1>6. \A s \in Slots : delta'[s] = IF s = l THEN l - t
                                   ELSE IF IsDummy(s, l) THEN 0 ELSE delta[s]
  BY DEF n
<1> HIDE DEF w
<1>7. l - t \in Nat /\ t \in Nat /\ t < l
  BY <1>1, <1>2, <1>3
<1>8. \A s \in 1 .. tbclist : delta'[s] = delta[s]
  <2> TAKE s \in 1 .. tbclist
  <2>1. s \in Slots /\ s # l
    BY <1>1 DEF Slots
  <2>2. ~IsDummy(s, l)
    <3> SUFFICES ASSUME NEW j \in 1 .. n, s = tbclist + j * MAXDELTA PROVE FALSE
      BY <1>4
    <3> QED
      BY <1>1, <1>5
  <2> QED
    BY <1>6, <2>1, <2>2
<1>9. delta'[l] = l - t
  BY <1>6
<1>10. delta' \in [Slots -> 0 .. MAXDELTA]
  <2>1. \A s \in Slots : delta'[s] \in 0 .. MAXDELTA
    BY <1>2, <1>6 DEF TypeOK
  <2>2. delta' = [s \in Slots |-> delta'[s]]
    OBVIOUS
  <2> QED
    BY <2>1, <2>2
<1>11. Least(HopsIn(t, delta')) = n
  <2>1. n \in 0 .. t
    BY <1>1, <1>3
  <2>2. t - n * MAXDELTA = tbclist
    BY <1>1, <1>3 DEF w
  <2>3. tbclist <= 0 \/ delta'[tbclist] # 0
    BY <1>1, <1>8
  <2>4. \A m \in 0 .. n - 1 : t - m * MAXDELTA > 0 /\ delta'[t - m * MAXDELTA] = 0
    <3> TAKE m \in 0 .. n - 1
    <3>1. n - m \in 1 .. n /\ (n - m) * MAXDELTA = w - m * MAXDELTA
      BY <1>3 DEF w
    <3>2. m * MAXDELTA \in Nat
      BY <1>3
    <3> DEFINE x == t - m * MAXDELTA
    <3>3. x = tbclist + (n - m) * MAXDELTA
      BY <1>1, <1>3, <3>1, <3>2
    <3>4. (n - m) * MAXDELTA \in Nat /\ (n - m) * MAXDELTA > 0 /\ (n - m) * MAXDELTA <= w
      BY <1>5, <3>1
    <3>5. IsDummy(x, l)
      BY <1>4, <3>1, <3>3
    <3>6. x > 0 /\ x \in Slots /\ x # l
      BY <1>1, <1>3, <1>7, <3>3, <3>4 DEF Slots
    <3> HIDE DEF x
    <3>7. delta'[x] = 0
      BY <1>6, <3>5, <3>6
    <3> QED
      BY <3>6, <3>7 DEF x
  <2>5. t - n * MAXDELTA <= 0 \/ delta'[t - n * MAXDELTA] # 0
    BY <2>2, <2>3
  <2> HIDE DEF t
  <2> QED
    BY <1>7, <2>1, <2>4, <2>5, FirstHop
<1>12. PopIn(l, delta') = tbclist
  <2>1. l - delta'[l] = t
    BY <1>1, <1>7, <1>9
  <2>2. t - n * MAXDELTA = tbclist
    BY <1>1, <1>3 DEF w
  <2> HIDE DEF t
  <2> QED
    BY <1>11, <2>1, <2>2 DEF PopIn
<1>13. delta'[l] \in 1 .. l
  BY <1>1, <1>2, <1>3, <1>9
<1> QED
  BY <1>8, <1>10, <1>12, <1>13

(* A step that neither opens nor closes a tbc variable.                    *)
KeepsTbc ==
  /\ pending' = pending /\ tbclist' = tbclist /\ delta' = delta
  /\ \A i \in 1 .. Len(pending) :
       pending[i][1] <= Len(stk') /\ stk'[pending[i][1]] = stk[pending[i][1]]
  /\ \A i \in 1 .. Len(pending), j \in 1 .. Len(ctl') :
       ctl'[j].k \in Frames => pending[i][1] # ctl'[j].at

(* Such a step keeps the list, its order and the variables' values.        *)
LEMMA TbcKept ==
  ASSUME TypeOK, TbcOrder, TbcListExact, PendingIntact, KeepsTbc
  PROVE  TbcOrder' /\ TbcListExact' /\ PendingIntact'
<1>1. pending' = pending /\ tbclist' = tbclist /\ delta' = delta
  BY DEF KeepsTbc
<1>2. TbcOrder'
  BY <1>1 DEF TbcOrder, KeepsTbc
<1>3. TbcListExact'
  BY <1>1, ListNow, ListNext
<1>4. PendingIntact'
  BY <1>1 DEF PendingIntact, KeepsTbc, Top
<1> QED
  BY <1>2, <1>3, <1>4
-----------------------------------------------------------------------------
(***************************************************************************)
(* Facts about a state of the invariant.                                   *)
(***************************************************************************)

(* The variables of a running frame are nobody else's.                     *)
LEMMA LocalsOwned ==
  ASSUME TypeOK, Nesting, Running
  PROVE  /\ Len(ctl) \in 1 .. Len(ctl) /\ Top \in Nat /\ Cur.at \in Nat /\ Cur.at <= Top
         /\ \A s \in Locals : s \in Nat /\ s > 0 /\ s <= Top /\ Owned(s, ctl, Top)
<1>1. Len(ctl) \in Nat /\ Len(ctl) \in 1 .. Len(ctl) /\ Top \in Nat
  BY Elements DEF Nesting, Top
<1>2. /\ \A i \in 1 .. Len(ctl) : ctl[i].at \in Nat
      /\ \A i \in 1 .. Len(ctl) : ctl[i].at <= ctl[Len(ctl)].at
  BY <1>1, Ordered
<1>3. Cur.at \in Nat /\ Cur.at <= Top /\ Cur.at = ctl[Len(ctl)].at
  BY <1>1, <1>2 DEF Cur, Nesting
<1>4. ASSUME NEW s \in Locals
      PROVE  s \in Nat /\ s > 0 /\ s <= Top /\ Owned(s, ctl, Top)
  <2>1. s \in Nat /\ s > Cur.at /\ s > 0 /\ s <= Top
    BY <1>1, <1>3 DEF Locals
  <2>2. \A i \in 1 .. Len(ctl) : s > ctl[i].at
    BY <1>2, <1>3, <2>1
  <2>3. \A i \in 1 .. Len(ctl) : ctl[i].k \in Closes => i < Len(ctl) /\ i + 1 \in 1 .. Len(ctl)
    <3> TAKE i \in 1 .. Len(ctl)
    <3>1. i = Len(ctl) => ctl[i].k \in Frames
      BY DEF Running, Cur
    <3>2. ctl[i].k \in Closes => ctl[i].k \notin Frames
      BY DEF Closes, Frames
    <3> QED
      BY <1>1, <3>1, <3>2
  <2> QED
    BY <1>1, <1>2, <2>1, <2>2, <2>3 DEF Owned
<1> QED
  BY <1>1, <1>3, <1>4

(* No two open upvalues refer to one slot.                                 *)
LEMMA OneUpval ==
  ASSUME TypeOK, Captures, OpenListSorted, NEW u \in UpvIds, NEW w \in UpvIds,
         uv[u].slot = uv[w].slot, uv[u].slot > 0
  PROVE  u = w
<1>1. PICK i \in 1 .. Len(openupval) : openupval[i] = u
  BY DEF Captures
<1>2. PICK j \in 1 .. Len(openupval) : openupval[j] = w
  BY DEF Captures
<1>3. Len(openupval) \in Nat /\ uv[u].slot \in Nat
  BY Elements
<1>4. ~(i < j) /\ ~(j < i)
  BY <1>1, <1>2, <1>3 DEF OpenListSorted
<1> QED
  BY <1>1, <1>2, <1>3, <1>4

(* The head of the tbc list is the last variable to close, the highest.    *)
LEMMA TbcTop ==
  ASSUME TypeOK, TbcOrder, TbcListExact
  PROVE  /\ \A i \in 1 .. Len(pending) : pending[i][1] \in Nat /\ pending[i][1] <= tbclist
         /\ tbclist > 0 => /\ Len(pending) \in 1 .. Len(pending)
                           /\ tbclist = pending[Len(pending)][1]
                           /\ delta[tbclist] \in 1 .. tbclist
<1>1. /\ Len(pending) \in Nat /\ (pending # <<>> => Len(pending) > 0)
      /\ (pending = <<>> => Len(pending) = 0)
      /\ \A i \in 1 .. Len(pending) : pending[i][1] \in Nat
      /\ tbclist \in Nat
  BY Elements, EmptySeq DEF TypeOK
<1>2. pending # <<>> => tbclist = pending[Len(pending)][1]
  BY DEF TbcListExact
<1>3. tbclist > 0 => pending # <<>>
  BY DEF TbcListExact
<1>4. ASSUME NEW i \in 1 .. Len(pending) PROVE pending[i][1] <= tbclist
  <2>1. i = Len(pending) \/ pending[i][1] < pending[Len(pending)][1]
    BY <1>1 DEF TbcOrder
  <2> QED
    BY <1>1, <1>2, <2>1
<1>5. tbclist > 0 => /\ Len(pending) \in 1 .. Len(pending)
                     /\ tbclist = pending[Len(pending)][1]
                     /\ delta[tbclist] \in 1 .. tbclist
  BY <1>1, <1>2, <1>3 DEF TbcOrder
<1> QED
  BY <1>1, <1>4, <1>5

(* A step that leaves the frames and the stack alone.                      *)
LEMMA FramesSame ==
  ASSUME Nesting, ErrorKept, OutcomeIntact, UNCHANGED <<stk, ctl>>
  PROVE  Nesting' /\ ErrorKept' /\ OutcomeIntact'
  BY DEF Nesting, ErrorKept, OutcomeIntact, Cur, Top

(* A step that leaves the frames alone and the stack up to the running     *)
(* frame, but for variables.                                               *)
LEMMA FramesKept ==
  ASSUME TypeOK, Nesting, ErrorKept, OutcomeIntact, Running, ctl' = ctl,
         Len(stk') \in Nat, Cur.at <= Len(stk'),
         \A s \in 1 .. Len(stk') : ~Owned(s, ctl, Top) /\ s <= Cur.at => stk'[s] = stk[s]
  PROVE  /\ Nesting' /\ ErrorKept' /\ OutcomeIntact'
         /\ \A s : Owned(s, ctl, Top) /\ s <= Len(stk') => Owned(s, ctl', Len(stk'))
<1> DEFINE n == Len(ctl)
<1>1. n \in 1 .. Len(ctl)
  BY LocalsOwned
<1>2. ctl[n].k \notin Closes /\ ctl[n].at = Cur.at
  BY DEF Running, Cur, Frames, Closes
<1>3. PopOrder(n) /\ PopValues(n)
  BY <1>2 DEF PopOrder, PopValues
<1> HIDE DEF n
<1>4. Nesting' /\ ErrorKept' /\ OutcomeIntact'
  BY <1>1, <1>3, PopNests, PopKeeps
<1>5. \A s : Owned(s, ctl, Top) /\ s <= Len(stk') => Owned(s, ctl', Len(stk'))
  BY <1>1, <1>3, PopOwned
<1> QED
  BY <1>4, <1>5
-----------------------------------------------------------------------------
(***************************************************************************)
(* The steps of a running frame.                                           *)
(***************************************************************************)

(* A step that changes nothing.                                            *)
LEMMA StutterStep ==
  ASSUME IInv, UNCHANGED vars
  PROVE  IInv'
<1>1. /\ TypeOK /\ Nesting /\ Captures /\ TbcOrder /\ ErrorKept
      /\ OpenListSorted /\ UpvalSeesVariable /\ TbcListExact /\ PendingIntact /\ OutcomeIntact
  BY DEF IInv
<1>2. UNCHANGED <<stk, ctl, openupval, uv, intwups, tbclist, delta, inst, cell, pending>>
  BY DEF vars
<1>3. TypeOK'
  BY <1>1, <1>2 DEF TypeOK
<1>4. Captures' /\ OpenListSorted' /\ UpvalSeesVariable'
  <2>1. KeepsUpvals
    BY <1>1, <1>2 DEF KeepsUpvals, Captures, UpvalSeesVariable, OpenListSorted, Top
  <2> QED
    BY <1>1, <1>3, <2>1, UpvalsKept DEF TypeOK
<1>5. TbcOrder' /\ TbcListExact' /\ PendingIntact'
  <2>1. KeepsTbc
    BY <1>1, <1>2 DEF KeepsTbc, TbcOrder, PendingIntact, Top
  <2> QED
    BY <1>1, <2>1, TbcKept
<1>6. Nesting' /\ ErrorKept' /\ OutcomeIntact'
  BY <1>1, <1>2, FramesSame
<1> QED
  BY <1>3, <1>4, <1>5, <1>6 DEF IInv

(* Declare: the stack grows by a variable.                                 *)
LEMMA DeclareStep ==
  ASSUME IInv, NEW v \in Vals, Declare(v)
  PROVE  IInv'
<1>1. /\ TypeOK /\ Nesting /\ Captures /\ TbcOrder /\ ErrorKept
      /\ OpenListSorted /\ UpvalSeesVariable /\ TbcListExact /\ PendingIntact /\ OutcomeIntact
  BY DEF IInv
<1>2. /\ Running /\ stk' = Append(stk, v)
      /\ UNCHANGED <<ctl, openupval, uv, intwups, tbclist, delta, inst, cell, pending>>
  BY DEF Declare
<1>3. stk \in Seq(Values) /\ v \in Values
  BY <1>1 DEF TypeOK, Values
<1>4. /\ stk' \in Seq(Values) /\ Len(stk') = Top + 1 /\ Top \in Nat
      /\ \A s \in 1 .. Top : stk'[s] = stk[s]
  BY <1>2, <1>3, AppendProperties, LenProperties DEF Top
<1>5. TypeOK'
  BY <1>1, <1>2, <1>4 DEF TypeOK, Values
<1>6. /\ Nesting' /\ ErrorKept' /\ OutcomeIntact'
      /\ \A s : Owned(s, ctl, Top) => Owned(s, ctl', Len(stk'))
  <2>1. Cur.at \in Nat /\ Cur.at <= Top
    BY <1>1, <1>2, LocalsOwned
  <2>2. \A s : Owned(s, ctl, Top) => s <= Len(stk')
    BY <1>4 DEF Owned
  <2>3. Len(stk') \in Nat /\ Cur.at <= Len(stk') /\ \A s \in 1 .. Len(stk') : s <= Cur.at => stk'[s] = stk[s]
    BY <1>4, <2>1
  <2> QED
    BY <1>1, <1>2, <2>2, <2>3, FramesKept
<1>7. Captures' /\ OpenListSorted' /\ UpvalSeesVariable'
  <2>1. \A u \in UpvIds : uv[u].slot > 0 => Owned(uv[u].slot, ctl, Top) /\ stk'[uv[u].slot] = stk[uv[u].slot]
    BY <1>1, <1>4 DEF Captures, Owned
  <2>2. \A u \in UpvIds : uv[u].made => cell[u] = (IF uv[u].slot > 0 THEN stk[uv[u].slot] ELSE uv[u].val)
    BY <1>1 DEF UpvalSeesVariable
  <2>3. KeepsUpvals
    BY <1>1, <1>2, <1>6, <2>1, <2>2 DEF KeepsUpvals, OpenListSorted, Top
  <2> QED
    BY <1>1, <1>5, <2>3, UpvalsKept DEF TypeOK
<1>8. TbcOrder' /\ TbcListExact' /\ PendingIntact'
  <2>1. \A i \in 1 .. Len(pending) : pending[i][1] \in 1 .. Top
    BY <1>1, <1>4, Elements DEF PendingIntact, TbcOrder
  <2>2. KeepsTbc
    BY <1>1, <1>2, <1>4, <2>1 DEF KeepsTbc, TbcOrder
  <2> QED
    BY <1>1, <2>2, TbcKept
<1> QED
  BY <1>5, <1>6, <1>7, <1>8 DEF IInv

(* LeaveTwups: only a thread without open upvalues leaves twups.           *)
LEMMA LeaveTwupsStep ==
  ASSUME IInv, LeaveTwups
  PROVE  IInv'
<1>1. /\ TypeOK /\ Nesting /\ Captures /\ TbcOrder /\ ErrorKept
      /\ OpenListSorted /\ UpvalSeesVariable /\ TbcListExact /\ PendingIntact /\ OutcomeIntact
  BY DEF IInv
<1>2. /\ openupval = <<>> /\ intwups' = FALSE
      /\ UNCHANGED <<stk, ctl, openupval, uv, tbclist, delta, inst, cell, pending>>
  BY DEF LeaveTwups
<1>3. TypeOK'
  BY <1>1, <1>2 DEF TypeOK
<1>4. Captures' /\ OpenListSorted' /\ UpvalSeesVariable'
  <2>1. KeepsUpvals
    BY <1>1, <1>2 DEF KeepsUpvals, Captures, UpvalSeesVariable, Top
  <2> QED
    BY <1>1, <1>3, <2>1, UpvalsKept DEF TypeOK
<1>5. TbcOrder' /\ TbcListExact' /\ PendingIntact'
  <2>1. KeepsTbc
    BY <1>1, <1>2 DEF KeepsTbc, TbcOrder, PendingIntact, Top
  <2> QED
    BY <1>1, <2>1, TbcKept
<1>6. Nesting' /\ ErrorKept' /\ OutcomeIntact'
  BY <1>1, <1>2, FramesSame
<1> QED
  BY <1>3, <1>4, <1>5, <1>6 DEF IInv

(* SetLocal: the one upvalue of the variable, if any, sees its new value.  *)
LEMMA SetLocalStep ==
  ASSUME IInv, NEW l \in Slots, NEW v \in Vals, SetLocal(l, v)
  PROVE  IInv'
<1>1. /\ TypeOK /\ Nesting /\ Captures /\ TbcOrder /\ ErrorKept
      /\ OpenListSorted /\ UpvalSeesVariable /\ TbcListExact /\ PendingIntact /\ OutcomeIntact
  BY DEF IInv
<1>2. /\ Running /\ l \in Locals /\ ~IsTbc(l) /\ stk' = [stk EXCEPT ![l] = v]
      /\ cell' = IF inst[l] # None THEN [cell EXCEPT ![inst[l]] = v] ELSE cell
      /\ UNCHANGED <<ctl, openupval, uv, intwups, tbclist, delta, inst, pending>>
  BY DEF SetLocal
<1>3. Owned(l, ctl, Top) /\ l \in 1 .. Top /\ l > Cur.at /\ Cur.at \in Nat /\ Cur.at <= Top /\ Top \in Nat /\ l > 0
  <2>1. l \in Nat /\ l > 0 /\ l <= Top /\ Owned(l, ctl, Top) /\ Top \in Nat /\ Cur.at \in Nat /\ Cur.at <= Top
    BY <1>1, <1>2, LocalsOwned
  <2> QED
    BY <1>2, <2>1 DEF Locals
<1>4. /\ stk' \in Seq(Values) /\ Len(stk') = Top
      /\ \A s \in 1 .. Top : stk'[s] = IF s = l THEN v ELSE stk[s]
  <2>1. stk \in Seq(Values) /\ v \in Values /\ l \in 1 .. Len(stk)
    BY <1>1, <1>3 DEF TypeOK, Values, Top
  <2> QED
    BY <1>2, <2>1, ExceptSeq DEF Top
<1>5. cell' \in [UpvIds -> Values] /\ (inst[l] # None => inst[l] \in UpvIds)
  <2>1. inst[l] # None => inst[l] \in UpvIds
    BY <1>1 DEF TypeOK
  <2> QED
    BY <1>1, <1>2, <2>1 DEF TypeOK, Values
<1>6. TypeOK'
  BY <1>1, <1>2, <1>4, <1>5 DEF TypeOK, Values
<1>7. /\ Nesting' /\ ErrorKept' /\ OutcomeIntact'
      /\ \A s : Owned(s, ctl, Top) => Owned(s, ctl', Len(stk'))
  <2>1. \A s : Owned(s, ctl, Top) => s <= Len(stk')
    BY <1>3, <1>4 DEF Owned
  <2>2. Len(stk') \in Nat /\ Cur.at <= Len(stk') /\ \A s \in 1 .. Len(stk') : s <= Cur.at => stk'[s] = stk[s]
    BY <1>3, <1>4
  <2> QED
    BY <1>1, <1>2, <2>1, <2>2, FramesKept
<1>8. Captures' /\ OpenListSorted' /\ UpvalSeesVariable'
  <2>1. ASSUME NEW u \in UpvIds, uv[u].slot > 0
        PROVE  Owned(uv[u].slot, ctl, Top) /\ uv[u].slot \in 1 .. Top
    BY <1>1, <2>1 DEF Captures, Owned
  <2>2. ASSUME NEW u \in UpvIds, uv[u].made
        PROVE  cell'[u] = (IF uv[u].slot > 0 THEN stk'[uv[u].slot] ELSE uv[u].val)
    <3>1. cell[u] = (IF uv[u].slot > 0 THEN stk[uv[u].slot] ELSE uv[u].val)
      BY <1>1, <2>2 DEF UpvalSeesVariable
    <3>2. CASE uv[u].slot = l
      <4>1. inst[l] # None /\ inst[l] \in UpvIds /\ uv[inst[l]].slot = l
        BY <1>1, <1>3, <1>5, <3>2 DEF UpvalSeesVariable
      <4>2. inst[l] = u
        BY <1>1, <1>3, <3>2, <4>1, OneUpval
      <4>3. cell'[u] = v
        BY <1>1, <1>2, <4>1, <4>2 DEF TypeOK
      <4> QED
        BY <1>3, <1>4, <3>2, <4>3
    <3>3. CASE uv[u].slot # l
      <4>1. inst[l] # None => inst[l] # u
        BY <1>1, <3>3 DEF UpvalSeesVariable
      <4>2. cell'[u] = cell[u]
        BY <1>1, <1>2, <1>5, <4>1 DEF TypeOK
      <4>3. uv[u].slot > 0 => stk'[uv[u].slot] = stk[uv[u].slot]
        BY <1>4, <2>1, <3>3
      <4> QED
        BY <3>1, <4>2, <4>3
    <3> QED
      BY <3>2, <3>3
  <2>3. KeepsUpvals
    BY <1>1, <1>2, <1>7, <2>1, <2>2 DEF KeepsUpvals, OpenListSorted, Top
  <2> QED
    BY <1>1, <1>6, <2>3, UpvalsKept DEF TypeOK
<1>9. TbcOrder' /\ TbcListExact' /\ PendingIntact'
  <2>1. \A i \in 1 .. Len(pending) : pending[i][1] \in 1 .. Top /\ pending[i][1] # l
    BY <1>1, <1>2, <1>3, Elements DEF PendingIntact, TbcOrder, IsTbc
  <2>2. KeepsTbc
    BY <1>1, <1>2, <1>3, <1>4, <2>1 DEF KeepsTbc, TbcOrder
  <2> QED
    BY <1>1, <2>2, TbcKept
<1> QED
  BY <1>6, <1>7, <1>8, <1>9 DEF IInv

(* SetUpval: no other upvalue has that slot, and no tbc variable changes.  *)
LEMMA SetUpvalStep ==
  ASSUME IInv, NEW u \in UpvIds, NEW v \in Vals, SetUpval(u, v)
  PROVE  IInv'
<1>1. /\ TypeOK /\ Nesting /\ Captures /\ TbcOrder /\ ErrorKept
      /\ OpenListSorted /\ UpvalSeesVariable /\ TbcListExact /\ PendingIntact /\ OutcomeIntact
  BY DEF IInv
<1>2. /\ Running /\ uv[u].made /\ ~IsTbc(uv[u].slot)
      /\ cell' = [cell EXCEPT ![u] = v]
      /\ UNCHANGED <<ctl, openupval, intwups, tbclist, delta, inst, pending>>
  BY DEF SetUpval
<1>3. /\ \A w \in UpvIds : cell'[w] = IF w = u THEN v ELSE cell[w]
      /\ cell' \in [UpvIds -> Values]
  BY <1>1, <1>2 DEF TypeOK, Values
<1>4. /\ Top \in Nat /\ Cur.at \in Nat /\ Cur.at <= Top /\ \A w \in UpvIds : uv[w].slot \in Nat
      /\ \A w \in UpvIds : uv[w].slot > 0 => Owned(uv[w].slot, ctl, Top) /\ uv[w].slot \in 1 .. Top
      /\ \A i \in 1 .. Len(pending) : pending[i][1] \in 1 .. Top
  BY <1>1, <1>2, LocalsOwned, Elements DEF Captures, Owned, PendingIntact, TbcOrder
<1>5. \A w \in UpvIds : uv[w].made => cell[w] = (IF uv[w].slot > 0 THEN stk[uv[w].slot] ELSE uv[w].val)
  BY <1>1 DEF UpvalSeesVariable
<1>6. CASE uv[u].slot > 0
  <2>1. stk' = [stk EXCEPT ![uv[u].slot] = v] /\ uv' = uv
    BY <1>6 DEF SetUpval
  <2>2. PICK l \in 1 .. Top : l = uv[u].slot /\ Owned(l, ctl, Top)
    BY <1>4, <1>6
  <2>3. /\ stk' \in Seq(Values) /\ Len(stk') = Top
        /\ \A s \in 1 .. Top : stk'[s] = IF s = l THEN v ELSE stk[s]
    <3>1. stk \in Seq(Values) /\ v \in Values /\ l \in 1 .. Len(stk)
      BY <1>1, <2>2 DEF TypeOK, Values, Top
    <3>2. stk' = [stk EXCEPT ![l] = v]
      BY <2>1, <2>2
    <3> QED
      BY <3>1, <3>2, ExceptSeq DEF Top
  <2>4. TypeOK'
    BY <1>1, <1>2, <1>3, <2>1, <2>3 DEF TypeOK, Values
  <2>5. /\ Nesting' /\ ErrorKept' /\ OutcomeIntact'
        /\ \A s : Owned(s, ctl, Top) => Owned(s, ctl', Len(stk'))
    <3>1. \A s : Owned(s, ctl, Top) => s <= Len(stk')
      BY <1>4, <2>3 DEF Owned
    <3>2. Len(stk') \in Nat /\ Cur.at <= Len(stk') /\ \A s \in 1 .. Len(stk') : ~Owned(s, ctl, Top) => stk'[s] = stk[s]
      BY <1>4, <2>2, <2>3
    <3> QED
      BY <1>1, <1>2, <3>1, <3>2, FramesKept
  <2>6. Captures' /\ OpenListSorted' /\ UpvalSeesVariable'
    <3>1. ASSUME NEW w \in UpvIds, uv[w].made
          PROVE  cell'[w] = (IF uv[w].slot > 0 THEN stk'[uv[w].slot] ELSE uv'[w].val)
      <4>1. CASE w = u
        BY <1>3, <1>6, <2>2, <2>3, <4>1
      <4>2. CASE w # u
        <5>1. uv[w].slot # l
          BY <1>1, <1>6, <2>2, <4>2, OneUpval
        <5>2. cell'[w] = cell[w] /\ uv'[w] = uv[w]
          BY <1>3, <2>1, <4>2
        <5>3. uv[w].slot > 0 => stk'[uv[w].slot] = stk[uv[w].slot]
          BY <1>4, <2>3, <5>1
        <5> QED
          BY <1>5, <3>1, <5>2, <5>3
      <4> QED
        BY <4>1, <4>2
    <3>2. KeepsUpvals
      BY <1>1, <1>2, <1>4, <2>1, <2>5, <3>1 DEF KeepsUpvals, OpenListSorted, Top
    <3> QED
      BY <1>1, <2>4, <3>2, UpvalsKept DEF TypeOK
  <2>7. TbcOrder' /\ TbcListExact' /\ PendingIntact'
    <3>1. \A i \in 1 .. Len(pending) : pending[i][1] # l
      BY <1>2, <2>2 DEF IsTbc
    <3>2. \A i \in 1 .. Len(pending) :
            pending[i][1] <= Len(stk') /\ stk'[pending[i][1]] = stk[pending[i][1]]
      BY <1>4, <2>3, <3>1
    <3>3. KeepsTbc
      BY <1>1, <1>2, <3>2 DEF KeepsTbc, TbcOrder
    <3> QED
      BY <1>1, <3>3, TbcKept
  <2> QED
    BY <2>4, <2>5, <2>6, <2>7 DEF IInv
<1>7. CASE uv[u].slot = 0
  <2>1. uv' = [uv EXCEPT ![u].val = v] /\ stk' = stk
    BY <1>7 DEF SetUpval
  <2>2. \A w \in UpvIds : /\ uv'[w].made = uv[w].made /\ uv'[w].slot = uv[w].slot
                          /\ uv'[w].val = IF w = u THEN v ELSE uv[w].val
    BY <1>1, <2>1 DEF TypeOK
  <2>3. uv' \in UvType
    BY <1>1, <2>1 DEF TypeOK, UvType, Values
  <2>4. TypeOK'
    BY <1>1, <1>2, <1>3, <2>1, <2>3 DEF TypeOK, Values, UvType
  <2>5. Nesting' /\ ErrorKept' /\ OutcomeIntact'
    BY <1>1, <1>2, <2>1, FramesSame
  <2>6. Captures' /\ OpenListSorted' /\ UpvalSeesVariable'
    <3>1. ASSUME NEW w \in UpvIds, uv[w].made
          PROVE  cell'[w] = (IF uv[w].slot > 0 THEN stk'[uv[w].slot] ELSE uv'[w].val)
      <4>1. CASE w = u
        BY <1>3, <1>7, <2>2, <4>1
      <4>2. CASE w # u
        BY <1>3, <1>5, <2>1, <2>2, <3>1, <4>2
      <4> QED
        BY <4>1, <4>2
    <3>2. KeepsUpvals
      BY <1>1, <1>2, <1>4, <2>1, <2>2, <3>1 DEF KeepsUpvals, OpenListSorted, Top
    <3> QED
      BY <1>1, <2>4, <3>2, UpvalsKept DEF TypeOK
  <2>7. TbcOrder' /\ TbcListExact' /\ PendingIntact'
    <3>1. KeepsTbc
      BY <1>1, <1>2, <1>4, <2>1 DEF KeepsTbc, TbcOrder, Top
    <3> QED
      BY <1>1, <3>1, TbcKept
  <2> QED
    BY <2>4, <2>5, <2>6, <2>7 DEF IInv
<1> QED
  BY <1>4, <1>6, <1>7

(* CaptureOld: the upvalue found is the one that captured the variable.    *)
LEMMA CaptureOldStep ==
  ASSUME IInv, NEW l \in Slots, CaptureOld(l)
  PROVE  IInv'
<1>1. /\ TypeOK /\ Nesting /\ Captures /\ TbcOrder /\ ErrorKept
      /\ OpenListSorted /\ UpvalSeesVariable /\ TbcListExact /\ PendingIntact /\ OutcomeIntact
  BY DEF IInv
<1>2. /\ Running /\ l \in Locals /\ Found(l)
      /\ inst' = [inst EXCEPT ![l] = openupval[Above(l) + 1]]
      /\ UNCHANGED <<stk, ctl, openupval, uv, intwups, tbclist, delta, cell, pending>>
  BY DEF CaptureOld
<1>3. l \in Nat /\ l > 0
  BY <1>1, <1>2, LocalsOwned
<1>4. PICK u \in UpvIds : u = openupval[Above(l) + 1] /\ uv[u].slot = l
  <2>1. Above(l) \in 0 .. Len(openupval) /\ Len(openupval) \in Nat
    BY <1>1, <1>3, AboveStops, Elements
  <2>2. Above(l) + 1 \in 1 .. Len(openupval) /\ uv[openupval[Above(l) + 1]].slot = l
    BY <1>2, <2>1 DEF Found
  <2> QED
    BY <1>1, <2>2, Elements
<1>5. inst' = inst
  <2>1. inst[l] # None /\ inst[l] \in UpvIds /\ uv[inst[l]].slot = l
    BY <1>1, <1>3, <1>4 DEF UpvalSeesVariable, TypeOK
  <2>2. inst[l] = u
    BY <1>1, <1>3, <1>4, <2>1, OneUpval
  <2> QED
    BY <1>1, <1>2, <1>4, <2>2 DEF TypeOK
<1> QED
  BY <1>2, <1>5, StutterStep DEF vars

(* CaptureNew: the new upvalue goes between those above and those below.   *)
LEMMA CaptureNewStep ==
  ASSUME IInv, NEW l \in Slots, NEW u \in UpvIds, CaptureNew(l, u)
  PROVE  IInv'
<1>1. /\ TypeOK /\ Nesting /\ Captures /\ TbcOrder /\ ErrorKept
      /\ OpenListSorted /\ UpvalSeesVariable /\ TbcListExact /\ PendingIntact /\ OutcomeIntact
  BY DEF IInv
<1> DEFINE a == Above(l)
<1>2. /\ Running /\ l \in Locals /\ ~Found(l) /\ ~uv[u].made
      /\ openupval' = (SubSeq(openupval, 1, a) \o <<u>>) \o SubSeq(openupval, a + 1, Len(openupval))
      /\ uv' = [uv EXCEPT ![u] = [made |-> TRUE, slot |-> l, val |-> Nil]]
      /\ intwups' = TRUE /\ inst' = [inst EXCEPT ![l] = u] /\ cell' = [cell EXCEPT ![u] = stk[l]]
      /\ UNCHANGED <<stk, ctl, tbclist, delta, pending>>
  BY DEF CaptureNew
<1>3. l \in 1 .. Top /\ Owned(l, ctl, Top) /\ Top \in Nat /\ l \in Nat /\ l > 0 /\ stk[l] \in Values
  <2>1. l \in Nat /\ l > 0 /\ l <= Top /\ Owned(l, ctl, Top) /\ Top \in Nat
    BY <1>1, <1>2, LocalsOwned
  <2> QED
    BY <1>1, <2>1, Elements DEF Top
<1>4. /\ a \in 0 .. Len(openupval)
      /\ \A i \in 1 .. a : uv[openupval[i]].slot > l
      /\ a < Len(openupval) => uv[openupval[a + 1]].slot < l
  <2>1. /\ a \in 0 .. Len(openupval)
        /\ \A i \in 1 .. a : uv[openupval[i]].slot > l
        /\ a < Len(openupval) => uv[openupval[a + 1]].slot <= l
    BY <1>1, <1>3, AboveStops
  <2>2. a < Len(openupval) => uv[openupval[a + 1]].slot # l
    BY <1>2 DEF Found
  <2>3. a < Len(openupval) => uv[openupval[a + 1]].slot \in Nat
    BY <1>1, <2>1, Elements
  <2> QED
    BY <1>3, <2>1, <2>2, <2>3
<1> HIDE DEF a
<1>5. /\ Len(openupval) \in Nat /\ a \in Nat /\ \A i \in 1 .. Len(openupval) : openupval[i] \in UpvIds
      /\ \A w \in UpvIds : uv[w].slot \in Nat
  BY <1>1, <1>4, Elements
<1>6. \A i \in a + 1 .. Len(openupval) : uv[openupval[i]].slot < l
  <2> TAKE i \in a + 1 .. Len(openupval)
  <2>1. a + 1 \in 1 .. Len(openupval) /\ i \in 1 .. Len(openupval) /\ uv[openupval[a + 1]].slot < l
    BY <1>4, <1>5
  <2>2. i = a + 1 \/ i \in (a + 1) + 1 .. Len(openupval)
    BY <1>5
  <2>3. i = a + 1 \/ uv[openupval[a + 1]].slot > uv[openupval[i]].slot
    BY <1>1, <2>1, <2>2 DEF OpenListSorted
  <2> QED
    BY <1>3, <1>5, <2>1, <2>3
<1>7. uv[u].slot = 0 /\ \A i \in 1 .. Len(openupval) : openupval[i] # u
  BY <1>1, <1>2, <1>5 DEF Captures
<1>8. /\ openupval' \in Seq(UpvIds) /\ Len(openupval') = Len(openupval) + 1
      /\ \A i \in 1 .. a : openupval'[i] = openupval[i]
      /\ openupval'[a + 1] = u
      /\ \A i \in a + 2 .. Len(openupval) + 1 : openupval'[i] = openupval[i - 1]
  <2> DEFINE p == SubSeq(openupval, 1, a)
             q == SubSeq(openupval, a + 1, Len(openupval))
             r == p \o <<u>>
  <2>1. p \in Seq(UpvIds) /\ Len(p) = a /\ \A i \in 1 .. a : p[i] = openupval[i]
    BY <1>1, <1>4, Prefix DEF TypeOK
  <2>2. q \in Seq(UpvIds) /\ Len(q) = Len(openupval) - a /\ \A i \in 1 .. Len(openupval) - a : q[i] = openupval[a + i]
    <3>1. a + 1 \in Int /\ Len(openupval) \in Int /\ \A i \in a + 1 .. Len(openupval) : openupval[i] \in UpvIds
      BY <1>5
    <3>2. /\ q \in Seq(UpvIds)
          /\ Len(q) = IF a + 1 <= Len(openupval) THEN Len(openupval) - (a + 1) + 1 ELSE 0
          /\ \A i \in 1 .. Len(openupval) - (a + 1) + 1 : q[i] = openupval[(a + 1) + i - 1]
      BY <3>1, SubSeqProperties
    <3> HIDE DEF q
    <3>3. Len(q) = Len(openupval) - a
      BY <1>4, <1>5, <3>2
    <3>4. ASSUME NEW i \in 1 .. Len(openupval) - a PROVE q[i] = openupval[a + i]
      <4>1. i \in 1 .. Len(openupval) - (a + 1) + 1 /\ (a + 1) + i - 1 = a + i
        BY <1>5
      <4> QED
        BY <3>2, <4>1
    <3> QED
      BY <3>2, <3>3, <3>4
  <2> HIDE DEF p, q
  <2>3. r \in Seq(UpvIds) /\ Len(r) = a + 1 /\ (\A i \in 1 .. a : r[i] = openupval[i]) /\ r[a + 1] = u
    <3>1. r = Append(p, u)
      BY <2>1, AppendIsConcat
    <3> HIDE DEF r
    <3> QED
      BY <2>1, <3>1, AppendProperties
  <2> HIDE DEF r
  <2>4. openupval' = r \o q
    BY <1>2 DEF p, q, r
  <2>5. /\ openupval' \in Seq(UpvIds) /\ Len(openupval') = Len(r) + Len(q)
        /\ \A i \in 1 .. Len(r) + Len(q) : openupval'[i] = IF i <= Len(r) THEN r[i] ELSE q[i - Len(r)]
    BY <2>2, <2>3, <2>4, ConcatProperties
  <2>6. Len(openupval') = Len(openupval) + 1
    BY <1>5, <2>2, <2>3, <2>5
  <2>7. (\A i \in 1 .. a : openupval'[i] = openupval[i]) /\ openupval'[a + 1] = u
    <3>1. \A i \in 1 .. a + 1 : i \in 1 .. Len(r) + Len(q) /\ i <= Len(r)
      BY <1>4, <1>5, <2>2, <2>3
    <3>2. \A i \in 1 .. a + 1 : openupval'[i] = r[i]
      BY <2>5, <3>1
    <3>3. a + 1 \in 1 .. a + 1 /\ \A i \in 1 .. a : i \in 1 .. a + 1
      BY <1>5
    <3> QED
      BY <2>3, <3>2, <3>3
  <2>8. ASSUME NEW i \in a + 2 .. Len(openupval) + 1 PROVE openupval'[i] = openupval[i - 1]
    <3>1. i \in 1 .. Len(r) + Len(q) /\ ~(i <= Len(r)) /\ i - Len(r) = i - (a + 1)
      BY <1>5, <2>2, <2>3
    <3>2. i - (a + 1) \in 1 .. Len(openupval) - a /\ a + (i - (a + 1)) = i - 1
      BY <1>5
    <3> QED
      BY <2>2, <2>5, <3>1, <3>2
  <2> QED
    BY <2>5, <2>6, <2>7, <2>8
<1>9. /\ uv'[u].made /\ uv'[u].slot = l /\ uv' \in UvType
       /\ \A w \in UpvIds : w # u => uv'[w] = uv[w]
  BY <1>1, <1>2 DEF TypeOK, UvType, Values
<1>10. TypeOK'
  <2>1. inst' \in [Slots -> UpvIds \cup {None}] /\ cell' \in [UpvIds -> Values] /\ intwups' \in BOOLEAN
    BY <1>1, <1>2, <1>3 DEF TypeOK, Values
  <2> QED
    BY <1>1, <1>2, <1>8, <1>9, <2>1 DEF TypeOK, Values, UvType
<1>11. Nesting' /\ ErrorKept' /\ OutcomeIntact'
  BY <1>1, <1>2, FramesSame
<1>12. TbcOrder' /\ TbcListExact' /\ PendingIntact'
  <2>1. KeepsTbc
    BY <1>1, <1>2 DEF KeepsTbc, TbcOrder, PendingIntact, Top
  <2> QED
    BY <1>1, <2>1, TbcKept
<1>13. Captures'
  <2>1. ASSUME NEW i \in 1 .. Len(openupval') PROVE uv'[openupval'[i]].made
    <3>1. i \in 1 .. a \/ i = a + 1 \/ i \in a + 2 .. Len(openupval) + 1
      BY <1>5, <1>8
    <3>2. CASE i \in 1 .. a
      BY <1>1, <1>4, <1>5, <1>7, <1>8, <1>9, <3>2 DEF Captures
    <3>3. CASE i = a + 1
      BY <1>8, <1>9, <3>3
    <3>4. CASE i \in a + 2 .. Len(openupval) + 1
      <4>1. i - 1 \in 1 .. Len(openupval)
        BY <1>5, <3>4
      <4> QED
        BY <1>1, <1>5, <1>7, <1>8, <1>9, <3>4, <4>1 DEF Captures
    <3> QED
      BY <3>1, <3>2, <3>3, <3>4
  <2>2. ASSUME NEW w \in UpvIds, uv'[w].slot > 0
        PROVE  uv'[w].made /\ Owned(uv'[w].slot, ctl', Len(stk')) /\ \E i \in 1 .. Len(openupval') : openupval'[i] = w
    <3>1. CASE w = u
      <4>1. a + 1 \in 1 .. Len(openupval')
        BY <1>4, <1>5, <1>8
      <4> QED
        BY <1>2, <1>3, <1>8, <1>9, <3>1, <4>1 DEF Top
    <3>2. CASE w # u
      <4>1. uv'[w] = uv[w] /\ uv[w].made /\ Owned(uv[w].slot, ctl, Top)
        BY <1>1, <1>9, <2>2, <3>2 DEF Captures
      <4>2. PICK i \in 1 .. Len(openupval) : openupval[i] = w
        BY <1>1, <2>2, <4>1 DEF Captures
      <4>3. i \in 1 .. a \/ (i + 1 \in a + 2 .. Len(openupval) + 1 /\ (i + 1) - 1 = i)
        BY <1>5
      <4>4. /\ \A j \in 1 .. a : j \in 1 .. Len(openupval')
            /\ \A j \in a + 2 .. Len(openupval) + 1 : j \in 1 .. Len(openupval')
        BY <1>4, <1>5, <1>8
      <4>5. \E j \in 1 .. Len(openupval') : openupval'[j] = w
        BY <1>8, <4>2, <4>3, <4>4
      <4> QED
        BY <1>2, <4>1, <4>5 DEF Top
    <3> QED
      BY <3>1, <3>2
  <2> QED
    BY <2>1, <2>2 DEF Captures, Top
<1>14. OpenListSorted'
  <2> DEFINE S(i) == uv'[openupval'[i]].slot
  <2>1. /\ \A i \in 1 .. a : S(i) = uv[openupval[i]].slot /\ S(i) > l
        /\ S(a + 1) = l
        /\ \A i \in a + 2 .. Len(openupval) + 1 : S(i) = uv[openupval[i - 1]].slot /\ S(i) < l
    <3>1. ASSUME NEW i \in 1 .. a PROVE S(i) = uv[openupval[i]].slot /\ S(i) > l
      <4>1. i \in 1 .. Len(openupval)
        BY <1>4, <1>5
      <4> QED
        BY <1>4, <1>5, <1>7, <1>8, <1>9, <4>1
    <3>2. S(a + 1) = l
      BY <1>8, <1>9
    <3>3. ASSUME NEW i \in a + 2 .. Len(openupval) + 1
          PROVE  S(i) = uv[openupval[i - 1]].slot /\ S(i) < l
      <4>1. i - 1 \in a + 1 .. Len(openupval) /\ i - 1 \in 1 .. Len(openupval)
        BY <1>5
      <4>2. uv[openupval[i - 1]].slot < l /\ openupval[i - 1] # u /\ openupval[i - 1] \in UpvIds
        BY <1>5, <1>6, <1>7, <4>1
      <4>3. openupval'[i] = openupval[i - 1]
        BY <1>8
      <4> QED
        BY <1>9, <4>2, <4>3
    <3> QED
      BY <3>1, <3>2, <3>3
  <2> HIDE DEF S
  <2>2. \A i \in 1 .. Len(openupval') : S(i) \in 1 .. Top
    <3> TAKE i \in 1 .. Len(openupval')
    <3>1. i \in 1 .. a \/ i = a + 1 \/ i \in a + 2 .. Len(openupval) + 1
      BY <1>5, <1>8
    <3>2. \A j \in 1 .. Len(openupval) : uv[openupval[j]].slot \in 1 .. Top
      BY <1>1 DEF OpenListSorted
    <3>3. CASE i \in 1 .. a
      BY <1>4, <1>5, <2>1, <3>2, <3>3
    <3>4. CASE i = a + 1
      BY <1>3, <2>1, <3>4
    <3>5. CASE i \in a + 2 .. Len(openupval) + 1
      <4>1. i - 1 \in 1 .. Len(openupval)
        BY <1>5, <3>5
      <4> QED
        BY <2>1, <3>2, <3>5, <4>1
    <3> QED
      BY <3>1, <3>3, <3>4, <3>5
  <2>3. \A i \in 1 .. Len(openupval') : \A j \in i + 1 .. Len(openupval') : S(i) > S(j)
    <3> TAKE i \in 1 .. Len(openupval')
    <3> TAKE j \in i + 1 .. Len(openupval')
    <3>0. /\ S(i) \in Nat /\ S(j) \in Nat
          /\ \A x \in 1 .. Len(openupval) : \A y \in x + 1 .. Len(openupval) :
               uv[openupval[x]].slot > uv[openupval[y]].slot
      BY <1>1, <1>3, <1>5, <1>8, <2>2 DEF OpenListSorted
    <3>1. CASE i \in 1 .. a /\ j \in 1 .. a
      <4>1. i \in 1 .. Len(openupval) /\ j \in i + 1 .. Len(openupval)
        BY <1>4, <1>5, <3>1
      <4> QED
        BY <2>1, <3>0, <3>1, <4>1
    <3>2. CASE i \in 1 .. a /\ (j = a + 1 \/ j \in a + 2 .. Len(openupval) + 1)
      BY <1>3, <2>1, <3>0, <3>2
    <3>3. CASE i = a + 1 /\ j \in a + 2 .. Len(openupval) + 1
      BY <1>3, <2>1, <3>0, <3>3
    <3>4. CASE i \in a + 2 .. Len(openupval) + 1 /\ j \in a + 2 .. Len(openupval) + 1
      <4>1. i - 1 \in 1 .. Len(openupval) /\ j - 1 \in (i - 1) + 1 .. Len(openupval)
        BY <1>5, <3>4
      <4> QED
        BY <2>1, <3>0, <3>4, <4>1
    <3> QED
      BY <1>5, <1>8, <3>1, <3>2, <3>3, <3>4
  <2>4. stk' = stk /\ intwups'
    BY <1>2
  <2> QED
    BY <2>2, <2>3, <2>4 DEF OpenListSorted, Top, S
<1>15. UpvalSeesVariable'
  <2>1. \A s \in Slots : inst'[s] = IF s = l THEN u ELSE inst[s]
    BY <1>1, <1>2 DEF TypeOK
  <2>2. ASSUME NEW w \in UpvIds, uv'[w].made
        PROVE  cell'[w] = (IF uv'[w].slot > 0 THEN stk'[uv'[w].slot] ELSE uv'[w].val)
    <3>1. CASE w = u
      BY <1>1, <1>2, <1>3, <1>9, <3>1 DEF TypeOK
    <3>2. CASE w # u
      <4>1. uv'[w] = uv[w] /\ cell'[w] = cell[w] /\ stk' = stk
        BY <1>1, <1>2, <1>9, <3>2 DEF TypeOK
      <4> QED
        BY <1>1, <2>2, <4>1 DEF UpvalSeesVariable
    <3> QED
      BY <3>1, <3>2
  <2>3. ASSUME NEW s \in Slots
        PROVE  inst'[s] # None <=> \E w \in UpvIds : uv'[w].slot = s /\ s > 0
    <3>1. CASE s = l
      BY <1>3, <1>9, <2>1, <3>1, ConstantsAssumption
    <3>2. CASE s # l
      <4>1. \A w \in UpvIds : (uv'[w].slot = s /\ s > 0) <=> (uv[w].slot = s /\ s > 0)
        BY <1>7, <1>9, <3>2
      <4>2. inst[s] # None <=> \E w \in UpvIds : uv[w].slot = s /\ s > 0
        BY <1>1 DEF UpvalSeesVariable
      <4> QED
        BY <2>1, <3>2, <4>1, <4>2
    <3> QED
      BY <3>1, <3>2
  <2>4. ASSUME NEW s \in Slots, inst'[s] # None
        PROVE  uv'[inst'[s]].slot = s
    <3>1. CASE s = l
      BY <1>9, <2>1, <3>1
    <3>2. CASE s # l
      <4>1. inst[s] # None /\ inst[s] \in UpvIds /\ uv[inst[s]].slot = s /\ s > 0
        BY <1>1, <2>1, <2>4, <3>2 DEF UpvalSeesVariable, TypeOK
      <4>2. inst[s] # u
        BY <1>7, <4>1
      <4> QED
        BY <1>9, <2>1, <3>2, <4>1, <4>2
    <3> QED
      BY <3>1, <3>2
  <2> QED
    BY <2>2, <2>3, <2>4 DEF UpvalSeesVariable
<1> QED
  BY <1>10, <1>11, <1>12, <1>13, <1>14, <1>15 DEF IInv

(* NewTbc: the new entry leads to the old head of the list.                *)
LEMMA NewTbcStep ==
  ASSUME IInv, NEW l \in Slots, NewTbc(l)
  PROVE  IInv'
<1>1. /\ TypeOK /\ Nesting /\ Captures /\ TbcOrder /\ ErrorKept
      /\ OpenListSorted /\ UpvalSeesVariable /\ TbcListExact /\ PendingIntact /\ OutcomeIntact
  BY DEF IInv
<1>2. /\ Running /\ l \in Locals /\ l > tbclist /\ stk[l] \in Closable
      /\ delta' = [s \in Slots |->
                     IF s = l THEN l - (tbclist + Dummies(l) * MAXDELTA)
                     ELSE IF IsDummy(s, l) THEN 0 ELSE delta[s]]
      /\ tbclist' = l /\ pending' = Append(pending, <<l, stk[l]>>)
      /\ UNCHANGED <<stk, ctl, openupval, uv, intwups, inst, cell>>
  BY DEF NewTbc
<1>3. l \in 1 .. Top /\ Owned(l, ctl, Top) /\ Top \in Nat /\ l \in 1 .. MaxSlot
  <2>1. l \in Nat /\ l > 0 /\ l <= Top /\ Owned(l, ctl, Top) /\ Top \in Nat
    BY <1>1, <1>2, LocalsOwned
  <2> QED
    BY <2>1, ConstantsAssumption DEF Slots
<1>4. /\ \A i \in 1 .. Len(pending) : pending[i][1] \in Nat /\ pending[i][1] <= tbclist
      /\ tbclist > 0 => /\ Len(pending) \in 1 .. Len(pending)
                        /\ tbclist = pending[Len(pending)][1]
                        /\ delta[tbclist] \in 1 .. tbclist
      /\ tbclist \in Nat /\ Len(pending) \in Nat
  BY <1>1, TbcTop, Elements
<1>5. /\ PopIn(l, delta') = tbclist
      /\ delta'[l] \in 1 .. l
      /\ delta' \in [Slots -> 0 .. MAXDELTA]
      /\ \A s \in 1 .. tbclist : delta'[s] = delta[s]
  <2>1. tbclist < l /\ (tbclist > 0 => delta[tbclist] # 0)
    BY <1>2, <1>3, <1>4
  <2> QED
    BY <1>1, <1>2, <2>1, NewEntry
<1>6. /\ pending' \in Seq(Slots \X Vals) /\ Len(pending') = Len(pending) + 1
      /\ \A i \in 1 .. Len(pending) : pending'[i] = pending[i]
      /\ pending'[Len(pending) + 1] = <<l, stk[l]>> /\ pending' # <<>>
  <2>1. <<l, stk[l]>> \in Slots \X Vals /\ pending \in Seq(Slots \X Vals)
    BY <1>1, <1>2, ConstantsAssumption DEF TypeOK
  <2> QED
    BY <1>2, <2>1, AppendProperties
<1>7. TypeOK'
  BY <1>1, <1>2, <1>5, <1>6 DEF TypeOK
<1>8. Nesting' /\ ErrorKept' /\ OutcomeIntact'
  BY <1>1, <1>2, FramesSame
<1>9. Captures' /\ OpenListSorted' /\ UpvalSeesVariable'
  <2>1. KeepsUpvals
    BY <1>1, <1>2 DEF KeepsUpvals, Captures, UpvalSeesVariable, OpenListSorted, Top
  <2> QED
    BY <1>1, <1>7, <2>1, UpvalsKept DEF TypeOK
<1>10. \A i \in 1 .. Len(pending') : i = Len(pending) + 1 \/ i \in 1 .. Len(pending)
  BY <1>4, <1>6
<1>11. TbcOrder'
  <2>1. ASSUME NEW i \in 1 .. Len(pending')
        PROVE  /\ pending'[i][1] \in 1 .. MaxSlot
               /\ delta'[pending'[i][1]] \in 1 .. pending'[i][1]
               /\ \A j \in 1 .. Len(ctl') : ctl'[j].k \in Frames => pending'[i][1] # ctl'[j].at
    <3>1. CASE i = Len(pending) + 1
      BY <1>2, <1>3, <1>5, <1>6, <3>1 DEF Owned
    <3>2. CASE i \in 1 .. Len(pending)
      <4>1. pending[i][1] \in 1 .. tbclist
        BY <1>1, <1>4, <3>2 DEF TbcOrder
      <4> QED
        BY <1>1, <1>2, <1>5, <1>6, <3>2, <4>1 DEF TbcOrder
    <3> QED
      BY <1>10, <3>1, <3>2
  <2>2. ASSUME NEW i \in 1 .. Len(pending'), NEW j \in 1 .. Len(pending'), i < j
        PROVE  pending'[i][1] < pending'[j][1]
    <3>1. i \in 1 .. Len(pending)
      BY <1>4, <1>6, <2>2
    <3>2. CASE j = Len(pending) + 1
      BY <1>2, <1>3, <1>4, <1>6, <3>1, <3>2
    <3>3. CASE j \in 1 .. Len(pending)
      BY <1>1, <1>6, <2>2, <3>1, <3>3 DEF TbcOrder
    <3> QED
      BY <1>10, <3>2, <3>3
  <2> QED
    BY <2>1, <2>2 DEF TbcOrder
<1>12. TbcListExact'
  <2>1. tbclist' = pending'[Len(pending')][1]
    BY <1>2, <1>6
  <2>2. ASSUME NEW i \in 1 .. Len(pending')
        PROVE  PopIn(pending'[i][1], delta') = IF i = 1 THEN 0 ELSE pending'[i - 1][1]
    <3>1. CASE i = Len(pending) + 1
      <4>1. PopIn(pending'[i][1], delta') = tbclist
        BY <1>5, <1>6, <3>1
      <4>2. CASE i = 1
        BY <1>4, <3>1, <4>1, <4>2
      <4>3. CASE i # 1
        <5>1. i - 1 = Len(pending) /\ Len(pending) \in 1 .. Len(pending)
          BY <1>4, <3>1, <4>3
        <5>2. tbclist = pending[Len(pending)][1]
          BY <1>1, <5>1 DEF TbcListExact
        <5> QED
          BY <1>6, <4>1, <4>3, <5>1, <5>2
      <4> QED
        BY <4>2, <4>3
    <3>2. CASE i \in 1 .. Len(pending)
      <4> DEFINE p == pending[i][1]
      <4>1. p \in 1 .. tbclist /\ p \in Nat /\ delta[p] \in 1 .. p
        BY <1>1, <1>4, <3>2 DEF TbcOrder
      <4>2. \A s \in 1 .. p : delta'[s] = delta[s]
        BY <1>4, <1>5, <4>1
      <4>3. PopIn(p, delta') = PopIn(p, delta)
        <5> HIDE DEF p
        <5> QED
          BY <4>1, <4>2, PopSame
      <4>4. PopIn(p, delta) = IF i = 1 THEN 0 ELSE pending[i - 1][1]
        BY <1>1, <3>2, ListNow
      <4>5. pending'[i] = pending[i] /\ (i # 1 => pending'[i - 1] = pending[i - 1])
        BY <1>4, <1>6, <3>2
      <4> QED
        BY <4>3, <4>4, <4>5
    <3> QED
      BY <1>10, <3>1, <3>2
  <2> QED
    BY <1>6, <2>1, <2>2, ListNext
<1>13. PendingIntact'
  BY <1>1, <1>2, <1>3, <1>6, <1>10 DEF PendingIntact, Top
<1> QED
  BY <1>7, <1>8, <1>9, <1>11, <1>12, <1>13 DEF IInv

(* A running frame calls a function or starts to close its variables.      *)
LEMMA RunningPush ==
  ASSUME TypeOK, Nesting, ErrorKept, OutcomeIntact, Running, NEW e \in Record, ctl' = Append(ctl, e),
         Len(stk') \in Nat, Cur.at < e.at, e.at <= Len(stk'), e.k \notin {"thread", "method", "error"},
         e.k = "return" => /\ Cur.k # "thread" /\ e.at = Cur.at + 1
                           /\ e.pos \in e.at .. Len(stk') /\ stk'[e.pos] = e.val,
         \A s \in 1 .. Cur.at : stk'[s] = stk[s]
  PROVE  /\ Nesting' /\ ErrorKept' /\ OutcomeIntact'
         /\ ctl' \in Seq(Record) /\ Len(ctl') = Len(ctl) + 1
         /\ ctl'[Len(ctl) + 1] = e /\ \A i \in 1 .. Len(ctl) : ctl'[i] = ctl[i]
         /\ \A s : /\ Owned(s, ctl, Top) /\ s <= Len(stk')
                   /\ e.k \in Frames => s # e.at
                   /\ e.k \in Closes => s < e.at
                   => Owned(s, ctl', Len(stk'))
<1> DEFINE n == Len(ctl)
<1>1. n \in 1 .. Len(ctl) /\ n \in Nat
  BY LocalsOwned, Elements
<1>2. /\ ctl[n].at = Cur.at /\ ctl[n].k = Cur.k /\ ctl[n].k \in Frames
      /\ ctl[n].k # "return" /\ ctl[n].k # "error"
  BY DEF Running, Cur, Frames
<1>3. ctl' \in Seq(Record) /\ Len(ctl') = n + 1 /\ ctl'[n + 1] = e /\ \A i \in 1 .. n : ctl'[i] = ctl[i]
  <2>1. ctl \in Seq(Record)
    BY DEF TypeOK, Record, Values
  <2> QED
    BY <2>1, AppendProperties
<1>4. e.k = "return" => n > 1
  BY <1>1, <1>2 DEF Nesting
<1>5. PushOrder(n, e) /\ PushValues(n, e)
  BY <1>2, <1>3, <1>4 DEF PushOrder, PushValues
<1>6. n < Len(ctl) => ctl[n].k \in Frames
  BY <1>2
<1> HIDE DEF n
<1>7. Nesting' /\ ErrorKept' /\ OutcomeIntact'
  BY <1>1, <1>5, PushNests, PushKeeps
<1>8. \A s : /\ Owned(s, ctl, Top) /\ s <= Len(stk')
             /\ e.k \in Frames => s # e.at
             /\ e.k \in Closes => s < e.at
             => Owned(s, ctl', Len(stk'))
  BY <1>1, <1>5, <1>6, PushOwned
<1> QED
  BY <1>3, <1>7, <1>8 DEF n

(* Call: the slot of the called function is no variable.                   *)
LEMMA CallStep ==
  ASSUME IInv, NEW k \in {"call", "pcall"}, Call(k)
  PROVE  IInv'
<1>1. /\ TypeOK /\ Nesting /\ Captures /\ TbcOrder /\ ErrorKept
      /\ OpenListSorted /\ UpvalSeesVariable /\ TbcListExact /\ PendingIntact /\ OutcomeIntact
  BY DEF IInv
<1> DEFINE e == Frame(k, Top + 1)
<1>2. /\ Running /\ stk' = Append(stk, Nil) /\ ctl' = Append(ctl, e)
      /\ UNCHANGED <<openupval, uv, intwups, tbclist, delta, inst, cell, pending>>
  BY DEF Call
<1>3. Top \in Nat /\ Cur.at \in Nat /\ Cur.at <= Top
  BY <1>1, <1>2, LocalsOwned
<1>4. /\ e.at = Top + 1 /\ e.k = k /\ e \in Record
      /\ e.k \in Frames /\ e.k \notin Closes /\ e.k \notin {"thread", "method", "error", "return"}
  BY <1>3 DEF Frame, Entry, Record, Frames, Closes, Values
<1> HIDE DEF e
<1>5. /\ stk' \in Seq(Values) /\ Len(stk') = Top + 1
      /\ \A s \in 1 .. Top : stk'[s] = stk[s]
  <2>1. stk \in Seq(Values) /\ Nil \in Values
    BY <1>1 DEF TypeOK, Values
  <2> QED
    BY <1>2, <2>1, AppendProperties DEF Top
<1>6. /\ Nesting' /\ ErrorKept' /\ OutcomeIntact'
      /\ ctl' \in Seq(Record) /\ Len(ctl') = Len(ctl) + 1
      /\ ctl'[Len(ctl) + 1] = e /\ \A i \in 1 .. Len(ctl) : ctl'[i] = ctl[i]
      /\ \A s : Owned(s, ctl, Top) /\ s <= Len(stk') /\ s # e.at => Owned(s, ctl', Len(stk'))
  <2>1. /\ Len(stk') \in Nat /\ Cur.at < e.at /\ e.at <= Len(stk')
        /\ \A s \in 1 .. Cur.at : stk'[s] = stk[s]
    BY <1>3, <1>4, <1>5
  <2> QED
    BY <1>1, <1>2, <1>4, <2>1, RunningPush
<1>7. TypeOK'
  BY <1>1, <1>2, <1>5, <1>6 DEF TypeOK, Record, Values
<1>8. Captures' /\ OpenListSorted' /\ UpvalSeesVariable'
  <2>1. ASSUME NEW u \in UpvIds, uv[u].slot > 0
        PROVE  Owned(uv[u].slot, ctl', Len(stk')) /\ stk'[uv[u].slot] = stk[uv[u].slot]
    <3>1. Owned(uv[u].slot, ctl, Top) /\ uv[u].slot \in 1 .. Top
      BY <1>1, <2>1 DEF Captures, Owned
    <3>2. uv[u].slot <= Len(stk') /\ uv[u].slot # e.at
      BY <1>3, <1>4, <1>5, <3>1
    <3> QED
      BY <1>5, <1>6, <3>1, <3>2
  <2>2. KeepsUpvals
    BY <1>1, <1>2, <2>1 DEF KeepsUpvals, UpvalSeesVariable, OpenListSorted, Top
  <2> QED
    BY <1>1, <1>7, <2>2, UpvalsKept DEF TypeOK
<1>9. TbcOrder' /\ TbcListExact' /\ PendingIntact'
  <2>1. \A i \in 1 .. Len(pending) : pending[i][1] \in 1 .. Top
    BY <1>1, <1>3, Elements DEF PendingIntact, TbcOrder
  <2>2. ASSUME NEW i \in 1 .. Len(pending), NEW j \in 1 .. Len(ctl'), ctl'[j].k \in Frames
        PROVE  pending[i][1] # ctl'[j].at
    <3>1. j = Len(ctl) + 1 \/ j \in 1 .. Len(ctl)
      BY <1>1, <1>6, Elements
    <3>2. CASE j = Len(ctl) + 1
      BY <1>3, <1>4, <1>6, <2>1, <3>2
    <3>3. CASE j \in 1 .. Len(ctl)
      BY <1>1, <1>6, <2>2, <3>3 DEF TbcOrder
    <3> QED
      BY <3>1, <3>2, <3>3
  <2>3. \A i \in 1 .. Len(pending) :
          pending[i][1] <= Len(stk') /\ stk'[pending[i][1]] = stk[pending[i][1]]
    BY <1>3, <1>5, <2>1
  <2>4. KeepsTbc
    BY <1>2, <2>2, <2>3 DEF KeepsTbc
  <2> QED
    BY <1>1, <2>4, TbcKept
<1> QED
  BY <1>6, <1>7, <1>8, <1>9 DEF IInv

(* TailCall: nothing of the frame is left to close.                        *)
LEMMA TailCallStep ==
  ASSUME IInv, TailCall
  PROVE  IInv'
<1>1. /\ TypeOK /\ Nesting /\ Captures /\ TbcOrder /\ ErrorKept
      /\ OpenListSorted /\ UpvalSeesVariable /\ TbcListExact /\ PendingIntact /\ OutcomeIntact
  BY DEF IInv
<1> DEFINE l == Cur.at + 1
<1>2. /\ Running /\ tbclist <= Cur.at /\ CloseUpval(l) /\ stk' = SubSeq(stk, 1, Cur.at)
      /\ UNCHANGED <<ctl, intwups, tbclist, delta, cell, pending>>
  BY DEF TailCall
<1>3. Top \in Nat /\ Cur.at \in Nat /\ Cur.at <= Top /\ l \in Nat /\ l > 0 /\ l - 1 = Cur.at
  BY <1>1, <1>2, LocalsOwned
<1> HIDE DEF l
<1>4. /\ stk' \in Seq(Values) /\ Len(stk') = Cur.at
      /\ \A s \in 1 .. Cur.at : stk'[s] = stk[s]
  <2>1. stk \in Seq(Values) /\ Nil \in Values /\ Cur.at \in 0 .. Len(stk)
    BY <1>1, <1>3 DEF TypeOK, Values, Top
  <2> QED
    BY <1>2, <2>1, Prefix
<1>5. /\ uv' \in UvType /\ inst' \in [Slots -> UpvIds \cup {None}] /\ openupval' \in Seq(UpvIds)
  BY <1>1, <1>2, <1>3, CloseEffect
<1>6. TypeOK'
  BY <1>1, <1>2, <1>4, <1>5 DEF TypeOK, Values, UvType
<1>7. /\ Nesting' /\ ErrorKept' /\ OutcomeIntact'
      /\ \A s : Owned(s, ctl, Top) /\ s <= Len(stk') => Owned(s, ctl', Len(stk'))
  <2>1. Len(stk') \in Nat /\ Cur.at <= Len(stk') /\ \A s \in 1 .. Len(stk') : stk'[s] = stk[s]
    BY <1>3, <1>4
  <2> QED
    BY <1>1, <1>2, <2>1, FramesKept
<1>8. Captures' /\ OpenListSorted' /\ UpvalSeesVariable'
  <2>1. \A s \in 1 .. l - 1 : Owned(s, ctl, Top) => Owned(s, ctl', Len(stk')) /\ stk'[s] = stk[s]
    BY <1>3, <1>4, <1>7
  <2> QED
    BY <1>1, <1>2, <1>3, <2>1, UpvalsClosed
<1>9. TbcOrder' /\ TbcListExact' /\ PendingIntact'
  <2>1. \A i \in 1 .. Len(pending) : pending[i][1] \in 1 .. Cur.at
    BY <1>1, <1>2, <1>3, TbcTop, Elements DEF TbcOrder
  <2>2. KeepsTbc
    BY <1>1, <1>2, <1>3, <1>4, <2>1 DEF KeepsTbc, TbcOrder
  <2> QED
    BY <1>1, <2>2, TbcKept
<1> QED
  BY <1>6, <1>7, <1>8, <1>9 DEF IInv

(* LeaveBlock: the block's upvalues are closed before its tbc variables.   *)
LEMMA LeaveBlockStep ==
  ASSUME IInv, NEW l \in Slots, LeaveBlock(l)
  PROVE  IInv'
<1>1. /\ TypeOK /\ Nesting /\ Captures /\ TbcOrder /\ ErrorKept
      /\ OpenListSorted /\ UpvalSeesVariable /\ TbcListExact /\ PendingIntact /\ OutcomeIntact
  BY DEF IInv
<1> DEFINE e == Entry("block", l, 0, Nil)
<1>2. /\ Running /\ l \in Locals /\ CloseUpval(l) /\ ctl' = Append(ctl, e)
      /\ UNCHANGED <<stk, intwups, tbclist, delta, cell, pending>>
  BY DEF LeaveBlock
<1>3. l \in Nat /\ l > 0 /\ l <= Top /\ l > Cur.at /\ Top \in Nat /\ Cur.at \in Nat /\ Cur.at <= Top
  BY <1>1, <1>2, LocalsOwned DEF Locals
<1>4. /\ e.at = l /\ e.k = "block" /\ e \in Record
      /\ e.k \notin Frames /\ e.k \in Closes
  BY <1>3 DEF Entry, Record, Frames, Closes, Values
<1> HIDE DEF e
<1>5. /\ Nesting' /\ ErrorKept' /\ OutcomeIntact'
      /\ ctl' \in Seq(Record) /\ Len(ctl') = Len(ctl) + 1
      /\ ctl'[Len(ctl) + 1] = e /\ \A i \in 1 .. Len(ctl) : ctl'[i] = ctl[i]
      /\ \A s : Owned(s, ctl, Top) /\ s <= Len(stk') /\ s < l => Owned(s, ctl', Len(stk'))
  <2>1. /\ Len(stk') \in Nat /\ Cur.at < e.at /\ e.at <= Len(stk')
        /\ \A s \in 1 .. Cur.at : stk'[s] = stk[s]
    BY <1>2, <1>3, <1>4 DEF Top
  <2> QED
    BY <1>1, <1>2, <1>4, <2>1, RunningPush
<1>6. /\ uv' \in UvType /\ inst' \in [Slots -> UpvIds \cup {None}] /\ openupval' \in Seq(UpvIds)
  BY <1>1, <1>2, <1>3, CloseEffect
<1>7. TypeOK'
  BY <1>1, <1>2, <1>5, <1>6 DEF TypeOK, Record, Values, UvType
<1>8. Captures' /\ OpenListSorted' /\ UpvalSeesVariable'
  <2>1. \A s \in 1 .. l - 1 : Owned(s, ctl, Top) => Owned(s, ctl', Len(stk')) /\ stk'[s] = stk[s]
    BY <1>2, <1>3, <1>5 DEF Top
  <2> QED
    BY <1>1, <1>2, <1>3, <2>1, UpvalsClosed
<1>9. TbcOrder' /\ TbcListExact' /\ PendingIntact'
  <2>1. ASSUME NEW i \in 1 .. Len(pending), NEW j \in 1 .. Len(ctl'), ctl'[j].k \in Frames
        PROVE  pending[i][1] # ctl'[j].at
    <3>1. j = Len(ctl) + 1 \/ j \in 1 .. Len(ctl)
      BY <1>1, <1>5, Elements
    <3>2. j \in 1 .. Len(ctl)
      BY <1>4, <1>5, <2>1, <3>1
    <3> QED
      BY <1>1, <1>5, <2>1, <3>2 DEF TbcOrder
  <2>2. KeepsTbc
    BY <1>1, <1>2, <2>1 DEF KeepsTbc, PendingIntact, Top
  <2> QED
    BY <1>1, <2>2, TbcKept
<1> QED
  BY <1>5, <1>7, <1>8, <1>9 DEF IInv

(* Return: the result waits above the frame's variables.                   *)
LEMMA ReturnStep ==
  ASSUME IInv, NEW v \in Vals, Return(v)
  PROVE  IInv'
<1>1. /\ TypeOK /\ Nesting /\ Captures /\ TbcOrder /\ ErrorKept
      /\ OpenListSorted /\ UpvalSeesVariable /\ TbcListExact /\ PendingIntact /\ OutcomeIntact
  BY DEF IInv
<1> DEFINE l == Cur.at + 1
           e == Entry("return", l, Top + 1, v)
<1>2. /\ Running /\ Cur.k # "thread" /\ CloseUpval(l)
      /\ stk' = Append(stk, v) /\ ctl' = Append(ctl, e)
      /\ UNCHANGED <<intwups, tbclist, delta, cell, pending>>
  BY DEF Return
<1>3. Top \in Nat /\ Cur.at \in Nat /\ Cur.at <= Top /\ l \in Nat /\ l > 0 /\ l - 1 = Cur.at /\ l > Cur.at
  BY <1>1, <1>2, LocalsOwned
<1>4. /\ e.at = l /\ e.k = "return" /\ e.pos = Top + 1 /\ e.val = v /\ e \in Record
      /\ e.k \notin Frames /\ e.k \in Closes
  BY <1>3 DEF Entry, Record, Frames, Closes, Values
<1>5. l = Cur.at + 1
  OBVIOUS
<1> HIDE DEF e, l
<1>6. /\ stk' \in Seq(Values) /\ Len(stk') = Top + 1
      /\ \A s \in 1 .. Top : stk'[s] = stk[s]
      /\ stk'[Top + 1] = v
  <2>1. stk \in Seq(Values) /\ v \in Values
    BY <1>1 DEF TypeOK, Values
  <2> QED
    BY <1>2, <2>1, AppendProperties DEF Top
<1>7. /\ Nesting' /\ ErrorKept' /\ OutcomeIntact'
      /\ ctl' \in Seq(Record) /\ Len(ctl') = Len(ctl) + 1
      /\ ctl'[Len(ctl) + 1] = e /\ \A i \in 1 .. Len(ctl) : ctl'[i] = ctl[i]
      /\ \A s : Owned(s, ctl, Top) /\ s <= Len(stk') /\ s < l => Owned(s, ctl', Len(stk'))
  <2>1. /\ Len(stk') \in Nat /\ Cur.at < e.at /\ e.at <= Len(stk')
        /\ \A s \in 1 .. Cur.at : stk'[s] = stk[s]
    BY <1>3, <1>4, <1>5, <1>6
  <2>2. e.at = Cur.at + 1 /\ e.pos \in e.at .. Len(stk') /\ stk'[e.pos] = e.val
    BY <1>3, <1>4, <1>5, <1>6
  <2> QED
    BY <1>1, <1>2, <1>4, <2>1, <2>2, RunningPush
<1>8. /\ uv' \in UvType /\ inst' \in [Slots -> UpvIds \cup {None}] /\ openupval' \in Seq(UpvIds)
  BY <1>1, <1>2, <1>3, CloseEffect
<1>9. TypeOK'
  BY <1>1, <1>2, <1>6, <1>7, <1>8 DEF TypeOK, Record, Values, UvType
<1>10. Captures' /\ OpenListSorted' /\ UpvalSeesVariable'
  <2>1. \A s \in 1 .. l - 1 : Owned(s, ctl, Top) => Owned(s, ctl', Len(stk')) /\ stk'[s] = stk[s]
    BY <1>3, <1>6, <1>7
  <2> QED
    BY <1>1, <1>2, <1>3, <2>1, UpvalsClosed
<1>11. TbcOrder' /\ TbcListExact' /\ PendingIntact'
  <2>1. ASSUME NEW i \in 1 .. Len(pending), NEW j \in 1 .. Len(ctl'), ctl'[j].k \in Frames
        PROVE  pending[i][1] # ctl'[j].at
    <3>1. j = Len(ctl) + 1 \/ j \in 1 .. Len(ctl)
      BY <1>1, <1>7, Elements
    <3>2. j \in 1 .. Len(ctl)
      BY <1>4, <1>7, <2>1, <3>1
    <3> QED
      BY <1>1, <1>7, <2>1, <3>2 DEF TbcOrder
  <2>2. \A i \in 1 .. Len(pending) : pending[i][1] \in 1 .. Top
    BY <1>1, <1>3, Elements DEF PendingIntact, TbcOrder
  <2>3. \A i \in 1 .. Len(pending) :
          pending[i][1] <= Len(stk') /\ stk'[pending[i][1]] = stk[pending[i][1]]
    BY <1>3, <1>6, <2>2
  <2>4. KeepsTbc
    BY <1>2, <2>1, <2>3 DEF KeepsTbc
  <2> QED
    BY <1>1, <2>4, TbcKept
<1> QED
  BY <1>7, <1>9, <1>10, <1>11 DEF IInv

(* Some entry catches an error.                                            *)
LEMMA CatcherFound ==
  ASSUME TypeOK, Nesting
  PROVE  Catcher \in 1 .. Len(ctl) /\ ctl[Catcher].k \in {"pcall", "error", "thread"}
<1> DEFINE P == {i \in 1 .. Len(ctl) : ctl[i].k \in {"pcall", "error", "thread"}}
           Q(i) == /\ ctl[i].k \in {"pcall", "error", "thread"}
                   /\ \A j \in i + 1 .. Len(ctl) : ctl[j].k \notin {"pcall", "error"}
<1>1. Len(ctl) \in Nat /\ Len(ctl) > 0 /\ 1 \in P
  BY Elements DEF Nesting
<1>2. PICK i \in 1 .. Len(ctl) : i \in P /\ \A j \in i + 1 .. Len(ctl) : j \notin P
  <2> HIDE DEF P
  <2> QED
    BY <1>1, LastIn
<1>3. Q(i)
  <2>1. \A j \in i + 1 .. Len(ctl) : j \in 1 .. Len(ctl)
    BY <1>1
  <2> QED
    BY <1>2, <2>1
<1> HIDE DEF Q
<1>4. (CHOOSE m \in 1 .. Len(ctl) : Q(m)) \in 1 .. Len(ctl) /\ Q(CHOOSE m \in 1 .. Len(ctl) : Q(m))
  BY <1>3
<1> QED
  BY <1>4 DEF Catcher, Q

(* Throw: everything above the catching level is left.                     *)
LEMMA ThrowStep ==
  ASSUME IInv, NEW v \in Vals, Throw(v)
  PROVE  IInv'
<1>1. /\ TypeOK /\ Nesting /\ Captures /\ TbcOrder /\ ErrorKept
      /\ OpenListSorted /\ UpvalSeesVariable /\ TbcListExact /\ PendingIntact /\ OutcomeIntact
  BY DEF IInv
<1> DEFINE l == CloseLevel
           n == IF ctl[Catcher].k = "thread" THEN Catcher ELSE Catcher - 1
           e == Entry("error", l, 0, v)
<1>2. /\ Running /\ stk' = Append(stk, v) /\ CloseUpval(l)
      /\ ctl' = Append(SubSeq(ctl, 1, n), e)
      /\ UNCHANGED <<intwups, tbclist, delta, cell, pending>>
  BY DEF Throw, Unwound
<1>3. /\ n \in 1 .. Len(ctl) /\ ctl[n].k \in Frames /\ ctl[n].at \in Nat
      /\ ctl[n].at < l /\ l \in Nat /\ l <= Top + 1 /\ Top \in Nat
  <2>1. Catcher \in 1 .. Len(ctl) /\ ctl[Catcher].k \in {"pcall", "error", "thread"}
    BY <1>1, CatcherFound
  <2>2. Len(ctl) \in Nat /\ Top \in Nat /\ \A i \in 1 .. Len(ctl) : ctl[i].at \in Nat
    BY <1>1, Elements DEF Top
  <2> DEFINE c == Catcher
  <2>3. CASE ctl[c].k = "thread"
    <3>1. n = 1 /\ l = 1 /\ ctl[1].k = "thread" /\ 1 \in 1 .. Len(ctl) /\ ctl[1].at = 0
      BY <1>1, <2>1, <2>2, <2>3 DEF Nesting, CloseLevel
    <3> HIDE DEF n, l
    <3> QED
      BY <2>2, <3>1 DEF Frames
  <2>4. CASE ctl[c].k # "thread"
    <3>1. n = c - 1 /\ l = ctl[c].at /\ c \in 2 .. Len(ctl)
      BY <1>1, <2>1, <2>2, <2>4 DEF Nesting, CloseLevel
    <3> HIDE DEF n, l, c
    <3>2. ctl[c].k # "method"
      BY <2>1 DEF c
    <3>3. n \in 1 .. Len(ctl) /\ c \in 1 .. Len(ctl) /\ n < c
      BY <2>2, <3>1
    <3>4. ctl[n].k \in Frames
      BY <1>1, <3>1, <3>2 DEF Nesting
    <3>5. \A i, j \in 1 .. Len(ctl) : i < j => ctl[i].at < ctl[j].at
      BY <1>1 DEF Nesting
    <3>6. ctl[c].at <= Top
      BY <1>1, <3>3 DEF Nesting
    <3> QED
      BY <2>2, <3>1, <3>3, <3>4, <3>5, <3>6
  <2> QED
    BY <2>3, <2>4
<1> HIDE DEF l, n
<1>4. /\ e.at = l /\ e.k = "error" /\ e.val = v /\ e \in Record
      /\ e.k \notin Frames /\ e.k \in Closes
  BY <1>3 DEF Entry, Record, Frames, Closes, Values
<1> HIDE DEF e
<1>5. /\ stk' \in Seq(Values) /\ Len(stk') = Top + 1
      /\ \A s \in 1 .. Top : stk'[s] = stk[s]
      /\ stk'[Top + 1] = v
  <2>1. stk \in Seq(Values) /\ v \in Values
    BY <1>1 DEF TypeOK, Values
  <2> QED
    BY <1>2, <2>1, AppendProperties DEF Top
<1>6. /\ ctl' \in Seq(Record) /\ Len(ctl') = n + 1 /\ ctl'[n + 1] = e
      /\ \A i \in 1 .. n : ctl'[i] = ctl[i]
  <2>1. ctl \in Seq(Record) /\ n \in 0 .. Len(ctl)
    BY <1>1, <1>3, Elements DEF TypeOK, Record, Values
  <2> QED
    BY <1>2, <1>4, <2>1, Prefix
<1>7. PushOrder(n, e)
  <2>1. Len(stk') \in Nat /\ ctl[n].at < e.at /\ e.at <= Len(stk')
    BY <1>3, <1>4, <1>5
  <2>2. ctl[n].k # "return"
    BY <1>3 DEF Frames
  <2> QED
    BY <1>3, <1>4, <1>6, <2>1, <2>2 DEF PushOrder
<1>8. PushValues(n, e)
  <2>1. ctl[n].k # "return" /\ ctl[n].k # "error"
    BY <1>3 DEF Frames
  <2>2. \A s \in 1 .. ctl[n].at : stk'[s] = stk[s]
    BY <1>3, <1>5
  <2> QED
    BY <1>4, <1>5, <2>1, <2>2 DEF PushValues
<1>9. Nesting' /\ ErrorKept' /\ OutcomeIntact'
  BY <1>1, <1>3, <1>4, <1>7, <1>8, PushNests, PushKeeps
<1>10. /\ uv' \in UvType /\ inst' \in [Slots -> UpvIds \cup {None}] /\ openupval' \in Seq(UpvIds)
  BY <1>1, <1>2, <1>3, CloseEffect
<1>11. TypeOK'
  BY <1>1, <1>2, <1>5, <1>6, <1>10 DEF TypeOK, Record, Values, UvType
<1>12. Captures' /\ OpenListSorted' /\ UpvalSeesVariable'
  <2>1. ASSUME NEW s \in 1 .. l - 1, Owned(s, ctl, Top)
        PROVE  Owned(s, ctl', Len(stk')) /\ stk'[s] = stk[s]
    <3>1. s < l /\ s <= Len(stk') /\ s \in 1 .. Top
      BY <1>3, <1>5
    <3> QED
      BY <1>1, <1>3, <1>4, <1>5, <1>7, <2>1, <3>1, PushOwned DEF Top
  <2>2. l > 0
    BY <1>3
  <2> QED
    BY <1>1, <1>2, <1>3, <2>1, <2>2, UpvalsClosed
<1>13. TbcOrder' /\ TbcListExact' /\ PendingIntact'
  <2>1. ASSUME NEW i \in 1 .. Len(pending), NEW j \in 1 .. Len(ctl'), ctl'[j].k \in Frames
        PROVE  pending[i][1] # ctl'[j].at
    <3>1. j = n + 1 \/ (j \in 1 .. n /\ j \in 1 .. Len(ctl))
      BY <1>1, <1>3, <1>6, Elements
    <3>2. j \in 1 .. n /\ j \in 1 .. Len(ctl)
      BY <1>4, <1>6, <2>1, <3>1
    <3> QED
      BY <1>1, <1>6, <2>1, <3>2 DEF TbcOrder
  <2>2. \A i \in 1 .. Len(pending) : pending[i][1] \in 1 .. Top
    BY <1>1, <1>3, Elements DEF PendingIntact, TbcOrder
  <2>3. \A i \in 1 .. Len(pending) :
          pending[i][1] <= Len(stk') /\ stk'[pending[i][1]] = stk[pending[i][1]]
    BY <1>3, <1>5, <2>2
  <2>4. KeepsTbc
    BY <1>2, <2>1, <2>3 DEF KeepsTbc
  <2> QED
    BY <1>1, <2>4, TbcKept
<1> QED
  BY <1>9, <1>11, <1>12, <1>13 DEF IInv
-----------------------------------------------------------------------------
(***************************************************************************)
(* The steps of a closing loop.                                            *)
(***************************************************************************)

(* CloseMethod: the method runs above the result or the error that waits.  *)
LEMMA CloseMethodStep ==
  ASSUME IInv, CloseMethod
  PROVE  IInv'
<1>1. /\ TypeOK /\ Nesting /\ Captures /\ TbcOrder /\ ErrorKept
      /\ OpenListSorted /\ UpvalSeesVariable /\ TbcListExact /\ PendingIntact /\ OutcomeIntact
  BY DEF IInv
<1> DEFINE n == Len(ctl)
           e == Frame("method", Len(stk'))
<1>2. /\ Cur.k \in Closes /\ tbclist >= Cur.at /\ tbclist' = PopTbc(tbclist)
      /\ stk' = MethodCalled /\ ctl' = Append(ctl, e)
      /\ pending' = SubSeq(pending, 1, Len(pending) - 1)
      /\ UNCHANGED <<openupval, uv, intwups, delta, inst, cell>>
  BY DEF CloseMethod
<1>3. /\ n \in 1 .. Len(ctl) /\ n \in Nat /\ ctl[n] = Cur /\ Cur.at \in Nat /\ Cur.at > 0
      /\ Cur.k \notin Frames /\ tbclist \in Nat /\ tbclist > 0 /\ Top \in Nat
      /\ Cur.k = "return" => Cur.pos \in Cur.at .. Top /\ Cur.pos \in Nat
  <2>1. n \in 1 .. Len(ctl) /\ n \in Nat /\ Top \in Nat /\ tbclist \in Nat
    BY <1>1, Elements DEF Nesting, Top
  <2>2. Cur.at \in Nat /\ Cur.pos \in Nat /\ ctl[n] = Cur
    BY <1>1, <2>1, Elements DEF Cur
  <2>3. Cur.k \notin Frames /\ Cur.k # "thread"
    BY <1>2 DEF Frames, Closes
  <2>4. n \in 2 .. n
    BY <1>1, <2>1, <2>2, <2>3 DEF Nesting
  <2>5. Cur.at > 0
    BY <1>1, <2>1, <2>2, <2>4, Ordered
  <2>6. Cur.k = "return" => Cur.pos \in Cur.at .. Top
    BY <1>1, <2>1, <2>2 DEF Nesting
  <2> QED
    BY <1>2, <2>1, <2>2, <2>3, <2>5, <2>6
<1>4. /\ Len(pending) \in 1 .. Len(pending) /\ Len(pending) \in Nat /\ Len(pending) >= 1
      /\ tbclist = pending[Len(pending)][1] /\ tbclist <= Top
  BY <1>1, <1>3, TbcTop, Elements DEF PendingIntact
<1>5. /\ stk' \in Seq(Values) /\ Len(stk') \in Nat /\ Len(stk') > tbclist
      /\ \A s \in 1 .. tbclist : stk'[s] = stk[s]
      /\ Cur.k = "error" => stk'[Len(stk') - 1] = Cur.val
      /\ Cur.k = "return" => Len(stk') = Top + 1 /\ \A s \in 1 .. Top : stk'[s] = stk[s]
  <2>1. stk \in Seq(Values) /\ Nil \in Values /\ tbclist \in 0 .. Len(stk)
    BY <1>1, <1>3, <1>4 DEF TypeOK, Values, Top
  <2>2. CASE Cur.k = "return"
    <3>1. stk' = Append(stk, Nil)
      BY <1>2, <2>2 DEF MethodCalled
    <3>2. stk' \in Seq(Values) /\ Len(stk') = Top + 1 /\ \A s \in 1 .. Top : stk'[s] = stk[s]
      BY <2>1, <3>1, AppendProperties DEF Top
    <3> QED
      BY <1>3, <1>4, <2>2, <3>2
  <2>3. CASE Cur.k # "return"
    <3> DEFINE x == IF Cur.k = "error" THEN stk[Top] ELSE Nil
               p == SubSeq(stk, 1, tbclist)
    <3>1. stk' = p \o <<x, Nil>>
      BY <1>2, <2>3 DEF MethodCalled, AfterVariable
    <3>2. x \in Values
      BY <1>1, <1>3, <1>4, <2>1, Elements DEF Top
    <3>3. p \in Seq(Values) /\ Len(p) = tbclist /\ \A s \in 1 .. tbclist : p[s] = stk[s]
      BY <2>1, Prefix
    <3>4. Cur.k = "error" => x = Cur.val
      BY <1>1 DEF OutcomeIntact
    <3> HIDE DEF x, p
    <3>5. <<x, Nil>> \in Seq(Values) /\ Len(<<x, Nil>>) = 2 /\ <<x, Nil>>[1] = x
      BY <2>1, <3>2
    <3> DEFINE q == <<x, Nil>>
    <3> HIDE DEF q
    <3>6. q \in Seq(Values) /\ Len(q) = 2 /\ q[1] = x /\ stk' = p \o q
      BY <3>1, <3>5 DEF q
    <3>7. /\ stk' \in Seq(Values) /\ Len(stk') = tbclist + 2
          /\ \A s \in 1 .. tbclist + 2 : stk'[s] = IF s <= tbclist THEN p[s] ELSE q[s - tbclist]
      <4>1. /\ p \o q \in Seq(Values) /\ Len(p \o q) = Len(p) + Len(q)
            /\ \A s \in 1 .. Len(p) + Len(q) : (p \o q)[s] = IF s <= Len(p) THEN p[s] ELSE q[s - Len(p)]
        BY <3>3, <3>6, ConcatProperties
      <4>2. Len(p) = tbclist /\ Len(q) = 2 /\ p \o q = stk'
        BY <3>3, <3>6
      <4> QED
        BY <4>1, <4>2
    <3>8. \A s \in 1 .. tbclist : stk'[s] = stk[s]
      BY <1>3, <3>3, <3>7
    <3>9. tbclist + 1 \in 1 .. tbclist + 2 /\ ~(tbclist + 1 <= tbclist) /\ (tbclist + 1) - tbclist = 1
      BY <1>3
    <3>10. stk'[tbclist + 1] = x /\ Len(stk') - 1 = tbclist + 1
      BY <1>3, <3>6, <3>7, <3>9
    <3> QED
      BY <1>3, <2>3, <3>4, <3>7, <3>8, <3>10
  <2> QED
    BY <2>2, <2>3
<1>6. /\ e.at = Len(stk') /\ e.k = "method" /\ e \in Record
      /\ e.k \in Frames /\ e.k \notin Closes
  BY <1>5 DEF Frame, Entry, Record, Frames, Closes, Values
<1> HIDE DEF e
<1>7. /\ ctl' \in Seq(Record) /\ Len(ctl') = n + 1 /\ ctl'[n + 1] = e
      /\ \A i \in 1 .. n : ctl'[i] = ctl[i]
  <2>1. ctl \in Seq(Record)
    BY <1>1 DEF TypeOK, Record, Values
  <2> QED
    BY <1>2, <1>6, <2>1, AppendProperties
<1> HIDE DEF n
<1>8. PushOrder(n, e)
  <2>1. ctl[n].at < e.at /\ e.at <= Len(stk')
    BY <1>2, <1>3, <1>5, <1>6
  <2>2. ctl[n].k = "return" => ctl[n].pos < e.at
    BY <1>3, <1>5, <1>6
  <2> QED
    BY <1>2, <1>3, <1>5, <1>6, <1>7, <2>1, <2>2 DEF PushOrder
<1>9. PushValues(n, e)
  <2>1. ctl[n].k = "return" => stk'[ctl[n].pos] = stk[ctl[n].pos]
    BY <1>3, <1>5
  <2>2. \A s \in 1 .. ctl[n].at : stk'[s] = stk[s]
    BY <1>2, <1>3, <1>5
  <2> QED
    BY <1>3, <1>5, <1>6, <2>1, <2>2 DEF PushValues
<1>10. Nesting' /\ ErrorKept' /\ OutcomeIntact'
  BY <1>1, <1>3, <1>6, <1>8, <1>9, PushNests, PushKeeps
<1>11. /\ pending' \in Seq(Slots \X Vals) /\ Len(pending') = Len(pending) - 1
       /\ \A i \in 1 .. Len(pending) - 1 : pending'[i] = pending[i] /\ i \in 1 .. Len(pending)
  <2> DEFINE m == Len(pending) - 1
  <2>1. pending \in Seq(Slots \X Vals) /\ m \in 0 .. Len(pending) /\ pending[1] \in Slots \X Vals
    BY <1>1, <1>4, Elements DEF TypeOK
  <2>2. \A i \in 1 .. m : i \in 1 .. Len(pending)
    BY <1>4
  <2>3. pending' = SubSeq(pending, 1, m)
    BY <1>2
  <2> HIDE DEF m
  <2>4. pending' \in Seq(Slots \X Vals) /\ Len(pending') = m /\ \A i \in 1 .. m : pending'[i] = pending[i]
    BY <2>1, <2>3, Prefix
  <2> QED
    BY <2>2, <2>4 DEF m
<1>12. tbclist' = IF Len(pending) = 1 THEN 0 ELSE pending[Len(pending) - 1][1]
  BY <1>1, <1>2, <1>4 DEF TbcListExact
<1>13. TypeOK'
  <2>1. tbclist' \in Slots
    <3>1. CASE Len(pending) = 1
      BY <1>12, <3>1, ConstantsAssumption DEF Slots
    <3>2. CASE Len(pending) # 1
      <4>1. Len(pending) - 1 \in 1 .. Len(pending)
        <5>1. \A k \in Nat : k >= 1 /\ k # 1 => k - 1 \in 1 .. k
          OBVIOUS
        <5> QED
          BY <1>4, <3>2, <5>1
      <4>2. pending[Len(pending) - 1][1] \in Slots
        BY <1>1, <4>1, Elements
      <4> QED
        BY <1>12, <3>2, <4>2
    <3> QED
      BY <3>1, <3>2
  <2> QED
    BY <1>1, <1>2, <1>5, <1>7, <1>11, <2>1 DEF TypeOK, Record, Values
<1>14. Captures' /\ OpenListSorted' /\ UpvalSeesVariable'
  <2>1. ASSUME NEW u \in UpvIds, uv[u].slot > 0
        PROVE  Owned(uv[u].slot, ctl', Len(stk')) /\ stk'[uv[u].slot] = stk[uv[u].slot]
    <3>1. PICK s \in Nat : s = uv[u].slot /\ s > 0
      BY <1>1, <2>1, Elements
    <3>2. Owned(s, ctl, Top)
      BY <1>1, <3>1 DEF Captures
    <3>3. s < Cur.at
      BY <1>2, <1>3, <3>1, <3>2 DEF Owned, n
    <3>4. s \in 1 .. tbclist /\ s <= Len(stk') /\ s # e.at
      BY <1>2, <1>3, <1>5, <1>6, <3>1, <3>3
    <3>5. n < Len(ctl) => ctl[n].k \in Frames
      BY DEF n
    <3>6. Owned(s, ctl', Len(stk'))
      BY <1>1, <1>3, <1>6, <1>8, <3>2, <3>4, <3>5, PushOwned DEF Top
    <3> QED
      BY <1>5, <3>1, <3>4, <3>6
  <2>2. KeepsUpvals
    BY <1>1, <1>2, <2>1 DEF KeepsUpvals, UpvalSeesVariable, OpenListSorted, Top
  <2> QED
    BY <1>1, <1>13, <2>2, UpvalsKept DEF TypeOK
<1>15. \A i \in 1 .. Len(pending') : /\ i \in 1 .. Len(pending) /\ pending'[i] = pending[i]
                                     /\ pending[i][1] \in 1 .. tbclist
  <2> TAKE i \in 1 .. Len(pending')
  <2>1. i \in 1 .. Len(pending) /\ pending'[i] = pending[i]
    BY <1>4, <1>11
  <2>2. pending[i][1] \in 1 .. MaxSlot /\ pending[i][1] <= tbclist
    BY <1>1, <2>1, TbcTop DEF TbcOrder
  <2> QED
    BY <1>3, <2>1, <2>2
<1>16. TbcOrder'
  <2>1. ASSUME NEW i \in 1 .. Len(pending'), NEW j \in 1 .. Len(ctl'), ctl'[j].k \in Frames
        PROVE  pending'[i][1] # ctl'[j].at
    <3>1. j = n + 1 \/ j \in 1 .. n
      BY <1>3, <1>7
    <3>2. CASE j = n + 1
      BY <1>3, <1>5, <1>6, <1>7, <1>15, <3>2
    <3>3. CASE j \in 1 .. n
      BY <1>1, <1>3, <1>7, <1>15, <2>1, <3>3 DEF TbcOrder, n
    <3> QED
      BY <3>1, <3>2, <3>3
  <2>2. \A i, j \in 1 .. Len(pending') : i < j => pending'[i][1] < pending'[j][1]
    BY <1>1, <1>15 DEF TbcOrder
  <2>3. \A i \in 1 .. Len(pending') : pending'[i][1] \in 1 .. MaxSlot /\ delta'[pending'[i][1]] \in 1 .. pending'[i][1]
    BY <1>1, <1>2, <1>15 DEF TbcOrder
  <2> QED
    BY <2>1, <2>2, <2>3 DEF TbcOrder
<1>17. TbcListExact'
  <2>1. tbclist' = IF pending' = <<>> THEN 0 ELSE pending'[Len(pending')][1]
    <3>1. CASE Len(pending) = 1
      <4>1. pending' = <<>>
        BY <1>11, <3>1, EmptySeq
      <4> QED
        BY <1>12, <3>1, <4>1
    <3>2. CASE Len(pending) # 1
      <4>1. Len(pending) - 1 \in 1 .. Len(pending') /\ Len(pending') # 0
        BY <1>4, <1>11, <3>2
      <4>2. pending' # <<>>
        BY <4>1
      <4> QED
        BY <1>11, <1>12, <1>15, <3>2, <4>1, <4>2
    <3> QED
      BY <3>1, <3>2
  <2>2. \A i \in 1 .. Len(pending') :
          PopIn(pending'[i][1], delta') = IF i = 1 THEN 0 ELSE pending'[i - 1][1]
    <3> TAKE i \in 1 .. Len(pending')
    <3>1. PopIn(pending[i][1], delta) = IF i = 1 THEN 0 ELSE pending[i - 1][1]
      BY <1>1, <1>15, ListNow
    <3>2. i # 1 => i - 1 \in 1 .. Len(pending')
      BY <1>4, <1>11
    <3> QED
      BY <1>2, <1>15, <3>1, <3>2
  <2> QED
    BY <2>1, <2>2, ListNext
<1>18. PendingIntact'
  <2>1. \A i \in 1 .. Len(pending') :
          pending'[i][1] <= Len(stk') /\ stk'[pending'[i][1]] = pending'[i][2]
    <3> TAKE i \in 1 .. Len(pending')
    <3>1. pending[i][1] \in 1 .. tbclist /\ stk[pending[i][1]] = pending[i][2] /\ pending'[i] = pending[i]
      BY <1>1, <1>15 DEF PendingIntact
    <3> QED
      BY <1>3, <1>5, <3>1
  <2> QED
    BY <2>1 DEF PendingIntact, Top
<1> QED
  BY <1>10, <1>13, <1>14, <1>16, <1>17, <1>18 DEF IInv

(* Entries are left, and the stack is cut to what is below them.           *)
LEMMA PopStep ==
  ASSUME IInv, NEW n \in 1 .. Len(ctl), ctl' = SubSeq(ctl, 1, n), stk' \in Seq(Values),
         ctl[n].at <= Len(stk'),
         ctl[n].k \in Closes => n < Len(ctl) /\ Len(stk') = ctl[n + 1].at - 1,
         UNCHANGED <<openupval, uv, intwups, tbclist, delta, inst, cell, pending>>,
         NEW m \in Nat, m <= Len(stk'), m <= Top, \A s \in 1 .. m : stk'[s] = stk[s],
         ctl[n].at <= m, ctl[n].k \in Closes => m = Len(stk'),
         \A s : Owned(s, ctl, Top) => s <= m,
         \A i \in 1 .. Len(pending) : pending[i][1] <= m
  PROVE  IInv'
<1>1. /\ TypeOK /\ Nesting /\ Captures /\ TbcOrder /\ ErrorKept
      /\ OpenListSorted /\ UpvalSeesVariable /\ TbcListExact /\ PendingIntact /\ OutcomeIntact
  BY DEF IInv
<1>2. /\ Len(stk') \in Nat /\ Len(ctl) \in Nat /\ n \in Nat /\ ctl[n].at \in Nat
      /\ \A u \in UpvIds : uv[u].slot \in Nat
      /\ \A i \in 1 .. Len(pending) : pending[i][1] \in Nat
  BY <1>1, Elements
<1>3. /\ ctl' \in Seq(Record) /\ Len(ctl') = n
      /\ \A i \in 1 .. n : ctl'[i] = ctl[i]
  <2>1. ctl \in Seq(Record) /\ n \in 0 .. Len(ctl) /\ ctl[n] \in Record
    BY <1>1, <1>2, Elements DEF TypeOK, Record, Values
  <2> QED
    BY <2>1, Prefix
<1>4. PopOrder(n)
  BY <1>2, <1>3 DEF PopOrder
<1>5. PopValues(n)
  <2> SUFFICES ASSUME NEW s \in 1 .. Len(stk'), s <= ctl[n].at \/ ctl[n].k \in Closes
               PROVE  stk'[s] = stk[s]
    BY DEF PopValues
  <2>1. s <= m
    BY <1>2
  <2> QED
    BY <1>2, <2>1
<1>6. Nesting' /\ ErrorKept' /\ OutcomeIntact'
  BY <1>1, <1>4, <1>5, PopNests, PopKeeps
<1>7. TypeOK'
  BY <1>1, <1>3 DEF TypeOK, Record, Values
<1>8. Captures' /\ OpenListSorted' /\ UpvalSeesVariable'
  <2>1. ASSUME NEW u \in UpvIds, uv[u].slot > 0
        PROVE  Owned(uv[u].slot, ctl', Len(stk')) /\ stk'[uv[u].slot] = stk[uv[u].slot]
    <3>1. PICK s \in Nat : s = uv[u].slot /\ s > 0
      BY <1>2, <2>1
    <3>2. Owned(s, ctl, Top)
      BY <1>1, <3>1 DEF Captures
    <3>3. s \in 1 .. m /\ s <= Len(stk')
      BY <1>2, <3>1, <3>2
    <3>4. Owned(s, ctl', Len(stk'))
      BY <1>1, <1>4, <3>2, <3>3, PopOwned
    <3> QED
      BY <3>1, <3>3, <3>4
  <2>2. KeepsUpvals
    BY <1>1, <2>1 DEF KeepsUpvals, UpvalSeesVariable, OpenListSorted, Top
  <2> QED
    BY <1>1, <1>7, <2>2, UpvalsKept DEF TypeOK
<1>9. TbcOrder' /\ TbcListExact' /\ PendingIntact'
  <2>1. \A i \in 1 .. Len(pending) : pending[i][1] \in 1 .. m
    BY <1>1, <1>2 DEF TbcOrder
  <2>2. \A i \in 1 .. Len(pending) :
          pending[i][1] <= Len(stk') /\ stk'[pending[i][1]] = stk[pending[i][1]]
    BY <1>2, <2>1
  <2>3. \A i \in 1 .. n : i \in 1 .. Len(ctl)
    BY <1>2
  <2>4. KeepsTbc
    BY <1>1, <1>3, <2>2, <2>3 DEF KeepsTbc, TbcOrder
  <2> QED
    BY <1>1, <2>4, TbcKept
<1> QED
  BY <1>6, <1>7, <1>8, <1>9 DEF IInv

(* CloseDone: nothing of what remains lies in the slots given up.          *)
LEMMA CloseDoneStep ==
  ASSUME IInv, CloseDone
  PROVE  IInv'
<1>1. /\ TypeOK /\ Nesting /\ Captures /\ TbcOrder /\ ErrorKept
      /\ OpenListSorted /\ UpvalSeesVariable /\ TbcListExact /\ PendingIntact /\ OutcomeIntact
  BY DEF IInv
<1> DEFINE N == Len(ctl)
<1>2. /\ Cur.k \in Closes /\ tbclist < Cur.at
      /\ UNCHANGED <<openupval, uv, intwups, tbclist, delta, inst, cell, pending>>
  BY DEF CloseDone
<1>3. /\ N \in 2 .. N /\ N \in Nat /\ N \in 1 .. N /\ ctl[N] = Cur /\ Cur.at \in Nat /\ Cur.at > 0
      /\ Top \in Nat /\ Cur.at <= Top /\ Cur.k \notin Frames /\ Cur.k # "method"
      /\ stk \in Seq(Values) /\ Nil \in Values
      /\ \A i, j \in 1 .. N : i < j => ctl[i].at < ctl[j].at
      /\ \A i \in 1 .. N : ctl[i].at \in Nat
  <2>1. N \in 1 .. N /\ N \in Nat /\ Top \in Nat /\ Cur.at \in Nat /\ ctl[N] = Cur /\ \A i \in 1 .. N : ctl[i].at \in Nat
    BY <1>1, Elements DEF Nesting, Top, Cur
  <2>2. Cur.k \notin Frames /\ Cur.k # "thread" /\ Cur.k # "method"
    BY <1>2 DEF Frames, Closes
  <2>3. N \in 2 .. N
    BY <1>1, <2>1, <2>2 DEF Nesting
  <2>4. Cur.at > 0 /\ Cur.at <= Top
    BY <1>1, <2>1, <2>3, Ordered DEF Nesting
  <2>5. stk \in Seq(Values) /\ Nil \in Values
    BY <1>1 DEF TypeOK, Values
  <2>6. \A i, j \in 1 .. N : i < j => ctl[i].at < ctl[j].at
    BY <1>1 DEF Nesting
  <2> QED
    BY <2>1, <2>2, <2>3, <2>4, <2>5, <2>6
<1>4. \A s : Owned(s, ctl, Top) => s \in Nat /\ s < Cur.at
  BY <1>2, <1>3 DEF Owned
<1>5. \A i \in 1 .. Len(pending) : pending[i][1] \in Nat /\ pending[i][1] < Cur.at
  <2>1. tbclist \in Nat /\ \A i \in 1 .. Len(pending) : pending[i][1] \in Nat /\ pending[i][1] <= tbclist
    BY <1>1, TbcTop, Elements
  <2> QED
    BY <1>2, <1>3, <2>1
<1>6. ctl[N - 1].k \in Frames /\ N - 1 \in 1 .. N
  <2>1. \A i \in 2 .. N : ctl[i].k # "method" => ctl[i - 1].k \in Frames
    BY <1>1 DEF Nesting
  <2> QED
    BY <1>3, <2>1
<1>7. \A k \in Closes : k \notin Frames
  BY DEF Closes, Frames
<1>8. ASSUME Cur.k # "return" PROVE IInv'
  <2> DEFINE n == N - 1
             m == Cur.at - 1
             p == SubSeq(stk, 1, m)
             x == stk[Top]
  <2>1. ctl' = SubSeq(ctl, 1, n) /\ (stk' = p \/ stk' = Append(p, x))
    BY <1>8 DEF CloseDone, Below
  <2>2. n \in 1 .. N /\ ctl[n].k \notin Closes /\ ctl[n].at <= m /\ m \in Nat /\ m <= Top
    BY <1>3, <1>6, <1>7
  <2>3. m \in 0 .. Len(stk) /\ x \in Values
    BY <1>1, <1>3, <2>2, Elements DEF Top
  <2> HIDE DEF n, m, p, x
  <2>4. /\ stk' \in Seq(Values) /\ (Len(stk') = m \/ Len(stk') = m + 1)
        /\ \A s \in 1 .. m : stk'[s] = stk[s]
    <3>1. /\ p \in Seq(Values) /\ Len(p) = m /\ \A s \in 1 .. m : p[s] = stk[s]
          /\ Append(p, x) \in Seq(Values) /\ Len(Append(p, x)) = m + 1
          /\ \A s \in 1 .. m : Append(p, x)[s] = stk[s]
      BY <1>3, <2>3, Prefix DEF p
    <3>2. CASE stk' = p
      BY <3>1, <3>2
    <3>3. CASE stk' = Append(p, x)
      BY <3>1, <3>3
    <3> QED
      BY <2>1, <3>2, <3>3
  <2>5. ctl[n].at <= Len(stk') /\ m <= Len(stk')
    BY <1>3, <2>2, <2>4
  <2>6. (\A s : Owned(s, ctl, Top) => s <= m) /\ \A i \in 1 .. Len(pending) : pending[i][1] <= m
    BY <1>3, <1>4, <1>5 DEF m
  <2> QED
    BY <1>2, <2>1, <2>2, <2>4, <2>5, <2>6, PopStep
<1>9. ASSUME Cur.k = "return" PROVE IInv'
  <2> DEFINE n == N - 2
             f == N - 1
             m == Cur.at - 2
             p == SubSeq(stk, 1, m)
             x == stk[Cur.pos]
  <2>1. /\ ctl' = SubSeq(ctl, 1, n)
        /\ stk' = p \o IF ctl[f].k = "method" THEN <<>> ELSE <<x>>
    BY <1>9 DEF CloseDone
  <2>2. N > 2 /\ Cur.at = ctl[f].at + 1 /\ Cur.pos \in Cur.at .. Top
    BY <1>1, <1>3, <1>9 DEF Nesting
  <2>3. n \in 1 .. N /\ n < N /\ n < f /\ f \in 2 .. N /\ f \in 1 .. N /\ n + 1 = f /\ f - 1 = n
    BY <1>3, <2>2
  <2>4. ctl[n].at < ctl[f].at /\ ctl[n].at \in Nat /\ ctl[f].at \in Nat
    BY <1>3, <2>3
  <2>5. m = ctl[f].at - 1 /\ ctl[n].at <= m /\ m \in Nat /\ m <= Top
    <3>1. Cur.at \in Nat /\ Top \in Nat /\ Cur.at <= Top /\ Cur.at = ctl[f].at + 1
      BY <1>3, <2>2
    <3> HIDE DEF f, n
    <3> QED
      BY <2>4, <3>1
  <2>6. /\ ctl[f].k = "method" => ctl[n].k \in Closes
        /\ ctl[f].k # "method" => ctl[n].k \notin Closes
    BY <1>1, <1>7, <2>3 DEF Nesting
  <2>7. m \in 0 .. Len(stk) /\ x \in Values
    BY <1>1, <1>3, <2>2, <2>5, Elements DEF Top
  <2>8. ctl[f].k \in Frames
    BY <1>6
  <2> HIDE DEF n, f, m, p, x
  <2>9. p \in Seq(Values) /\ Len(p) = m /\ \A s \in 1 .. m : p[s] = stk[s]
    BY <1>3, <2>7, Prefix DEF p
  <2>10. /\ stk' \in Seq(Values) /\ Len(stk') = (IF ctl[f].k = "method" THEN m ELSE m + 1)
         /\ \A s \in 1 .. m : stk'[s] = stk[s]
    <3>1. CASE ctl[f].k = "method"
      <4>1. stk' = p
        BY <2>1, <2>9, <3>1, ConcatEmptySeq
      <4> QED
        BY <2>9, <3>1, <4>1
    <3>2. CASE ctl[f].k # "method"
      <4>1. stk' = Append(p, x)
        BY <2>1, <2>7, <2>9, <3>2, AppendIsConcat
      <4> QED
        BY <2>7, <2>9, <3>2, <4>1, AppendProperties
    <3> QED
      BY <3>1, <3>2
  <2>11. ctl[n].at <= Len(stk') /\ m <= Len(stk')
    BY <2>4, <2>5, <2>10
  <2>12. ctl[n].k \in Closes => n < N /\ Len(stk') = ctl[n + 1].at - 1 /\ m = Len(stk')
    BY <2>3, <2>5, <2>6, <2>10
  <2>13. (\A s : Owned(s, ctl, Top) => s <= m) /\ \A i \in 1 .. Len(pending) : pending[i][1] <= m
    <3>1. \A s : Owned(s, ctl, Top) => s # ctl[f].at
      BY <2>3, <2>8 DEF Owned
    <3>2. \A i \in 1 .. Len(pending) : pending[i][1] # ctl[f].at
      BY <1>1, <2>3, <2>8 DEF TbcOrder
    <3>3. Cur.at = ctl[f].at + 1
      BY <2>2
    <3>4. ASSUME NEW s \in Nat, s < Cur.at, s # ctl[f].at PROVE s <= m
      BY <2>4, <2>5, <3>3, <3>4
    <3> QED
      BY <1>4, <1>5, <3>1, <3>2, <3>4
  <2> QED
    BY <1>2, <2>1, <2>3, <2>5, <2>10, <2>11, <2>12, <2>13, PopStep
<1> QED
  BY <1>8, <1>9
-----------------------------------------------------------------------------
(***************************************************************************)
(* The invariant, and what follows from it.                                *)
(***************************************************************************)

(* A new thread satisfies the invariant.                                   *)
LEMMA InitIInv ==
  ASSUME Init
  PROVE  IInv
<1>1. /\ stk = <<>> /\ ctl = <<Frame("thread", 0)>> /\ openupval = <<>>
      /\ uv = [u \in UpvIds |-> [made |-> FALSE, slot |-> 0, val |-> Nil]]
      /\ intwups = FALSE /\ tbclist = 0 /\ inst = [s \in Slots |-> None]
      /\ cell = [u \in UpvIds |-> Nil] /\ pending = <<>>
  BY DEF Init
<1>2. PICK d \in 0 .. MAXDELTA : delta = [s \in Slots |-> d]
  BY DEF Init
<1> DEFINE e == Frame("thread", 0)
<1>3. /\ e \in Record /\ e.k = "thread" /\ e.at = 0 /\ e.k \in Frames
      /\ e.k \notin {"return", "error"}
  BY DEF Frame, Entry, Record, Frames, Values
<1> HIDE DEF e
<1>4. ctl \in Seq(Record) /\ Len(ctl) = 1 /\ ctl[1] = e /\ \A i \in 1 .. Len(ctl) : i = 1
  BY <1>1, <1>3 DEF e
<1>5. stk \in Seq(Values) /\ Len(stk) = 0 /\ openupval \in Seq(UpvIds) /\ Len(openupval) = 0
      /\ pending \in Seq(Slots \X Vals) /\ Len(pending) = 0
  BY <1>1, EmptySeq
<1>6. 0 \in Slots
  BY ConstantsAssumption DEF Slots
<1>7. uv \in UvType /\ \A u \in UpvIds : uv[u].made = FALSE /\ uv[u].slot = 0
  BY <1>1, <1>6 DEF UvType, Values
<1>8. TypeOK
  BY <1>1, <1>2, <1>4, <1>5, <1>6, <1>7 DEF TypeOK, Record, UvType, Values
<1>9. Nesting /\ ErrorKept /\ OutcomeIntact
  BY <1>3, <1>4, <1>5 DEF Nesting, ErrorKept, OutcomeIntact, Cur, Top
<1>10. Captures /\ OpenListSorted /\ UpvalSeesVariable
  BY <1>1, <1>5, <1>7 DEF Captures, OpenListSorted, UpvalSeesVariable
<1>11. TbcOrder /\ TbcListExact /\ PendingIntact
  BY <1>1, <1>5 DEF TbcOrder, TbcListExact, PendingIntact
<1> QED
  BY <1>8, <1>9, <1>10, <1>11 DEF IInv

(* Every step keeps it.                                                    *)
LEMMA NextIInv ==
  ASSUME IInv, [Next]_vars
  PROVE  IInv'
<1>1. ASSUME NEW v \in Vals, Declare(v) PROVE IInv'
  BY <1>1, DeclareStep
<1>2. ASSUME NEW v \in Vals, Return(v) PROVE IInv'
  BY <1>2, ReturnStep
<1>3. ASSUME NEW v \in Vals, Throw(v) PROVE IInv'
  BY <1>3, ThrowStep
<1>4. ASSUME NEW l \in Slots, NEW v \in Vals, SetLocal(l, v) PROVE IInv'
  BY <1>4, SetLocalStep
<1>5. ASSUME NEW u \in UpvIds, NEW v \in Vals, SetUpval(u, v) PROVE IInv'
  BY <1>5, SetUpvalStep
<1>6. ASSUME NEW l \in Slots, CaptureOld(l) PROVE IInv'
  BY <1>6, CaptureOldStep
<1>7. ASSUME NEW l \in Slots, NewTbc(l) PROVE IInv'
  BY <1>7, NewTbcStep
<1>8. ASSUME NEW l \in Slots, LeaveBlock(l) PROVE IInv'
  BY <1>8, LeaveBlockStep
<1>9. ASSUME NEW l \in Slots, NEW u \in UpvIds, CaptureNew(l, u) PROVE IInv'
  BY <1>9, CaptureNewStep
<1>10. ASSUME NEW k \in {"call", "pcall"}, Call(k) PROVE IInv'
  BY <1>10, CallStep
<1>11. CASE LeaveTwups
  BY <1>11, LeaveTwupsStep
<1>12. CASE TailCall
  BY <1>12, TailCallStep
<1>13. CASE CloseMethod
  BY <1>13, CloseMethodStep
<1>14. CASE CloseDone
  BY <1>14, CloseDoneStep
<1>15. CASE UNCHANGED vars
  BY <1>15, StutterStep
<1> QED
  BY <1>1, <1>2, <1>3, <1>4, <1>5, <1>6, <1>7, <1>8, <1>9, <1>10,
     <1>11, <1>12, <1>13, <1>14, <1>15 DEF Next

(* The inductive invariant holds in every behaviour.                       *)
THEOREM Invariance == Spec => []IInv
<1>1. Init => IInv
  BY InitIInv
<1>2. IInv /\ [Next]_vars => IInv'
  BY NextIInv
<1> QED
  BY <1>1, <1>2, PTL DEF Spec

(* Whatever functions are called, blocks left and errors thrown, stack     *)
(* slots, upvalues, tbc entries and frames keep their types: in particular *)
(* no 'delta' overflows its field and no upvalue points outside the stack. *)
THEOREM TypeCorrect == Spec => []TypeOK
  BY Invariance, PTL DEF IInv

(* ilyaF_findupval may stop at the first upvalue not above its level, and  *)
(* ilyaF_closeupval at the first below it: the list is always descending.  *)
THEOREM OpenListIsSorted == Spec => []OpenListSorted
  BY Invariance, PTL DEF IInv

(* A captured variable is one variable: in the stack, after its scope was  *)
(* closed, and for every closure that shares it.                           *)
THEOREM UpvaluesSeeVariables == Spec => []UpvalSeesVariable
  BY Invariance, PTL DEF IInv

(* The delta-encoded list is exactly the variables that remain to close.   *)
THEOREM TbcListIsExact == Spec => []TbcListExact
  BY Invariance, PTL DEF IInv

(* A variable keeps its slot and value until its closing method is called. *)
THEOREM PendingStaysIntact == Spec => []PendingIntact
  BY Invariance, PTL DEF IInv

(* Closing methods, and the errors they throw and catch themselves, do not *)
(* disturb the result or the error that is on its way.                     *)
THEOREM OutcomeStaysIntact == Spec => []OutcomeIntact
  BY Invariance, PTL DEF IInv
=============================================================================
