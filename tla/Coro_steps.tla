----------------------------- MODULE Coro_steps -----------------------------
(***************************************************************************)
(* How a step of a thread keeps the inductive invariant of Coro: only the  *)
(* activations on top and the thread that runs have to be looked at. At    *)
(* first facts about sequences and the types of a state.                   *)
(***************************************************************************)
EXTENDS CoroInv, TLAPS, SequenceTheorems, WellFoundedInduction

(* The elements of a sequence.                                             *)
LEMMA SeqElem ==
  ASSUME NEW S, NEW q \in Seq(S)
  PROVE  Len(q) \in Nat /\ \A i \in 1 .. Len(q) : q[i] \in S
OBVIOUS

(* Append.                                                                 *)
LEMMA SeqAppend ==
  ASSUME NEW S, NEW q \in Seq(S), NEW e \in S
  PROVE  /\ Append(q, e) \in Seq(S) /\ Len(Append(q, e)) = Len(q) + 1
         /\ \A i \in 1 .. Len(q) : Append(q, e)[i] = q[i]
         /\ Append(q, e)[Len(q) + 1] = e
OBVIOUS

(* The first n elements of a sequence.                                     *)
LEMMA SeqCut ==
  ASSUME NEW S, NEW q \in Seq(S), NEW n \in 0 .. Len(q)
  PROVE  /\ SubSeq(q, 1, n) \in Seq(S) /\ Len(SubSeq(q, 1, n)) = n
         /\ \A i \in 1 .. n : SubSeq(q, 1, n)[i] = q[i]
BY SubSeqProperties

(* Front and Last of a sequence that is not empty.                         *)
LEMMA SeqFront ==
  ASSUME NEW S, NEW q \in Seq(S), q # <<>>
  PROVE  /\ Len(q) > 0 /\ Last(q) = q[Len(q)] /\ Last(q) \in S
         /\ Front(q) \in Seq(S) /\ Len(Front(q)) = Len(q) - 1
         /\ \A i \in 1 .. Len(q) - 1 : Front(q)[i] = q[i]
<1>1. Len(q) \in Nat /\ Len(q) > 0
  OBVIOUS
<1>2. Len(q) - 1 \in 0 .. Len(q)
  BY <1>1
<1>3. QED
  BY <1>1, <1>2, SeqCut, SMTT(20) DEF Front, Last

(* A sequence with another element at n.                                   *)
LEMMA SeqPut ==
  ASSUME NEW S, NEW q \in Seq(S), NEW n \in 1 .. Len(q), NEW e \in S
  PROVE  /\ [q EXCEPT ![n] = e] \in Seq(S) /\ Len([q EXCEPT ![n] = e]) = Len(q)
         /\ \A i \in 1 .. Len(q) : [q EXCEPT ![n] = e][i] = IF i = n THEN e ELSE q[i]
OBVIOUS

(* Sequences with the same elements are equal.                             *)
LEMMA SeqSame ==
  ASSUME NEW S, NEW p \in Seq(S), NEW q \in Seq(S), Len(p) = Len(q),
         \A i \in 1 .. Len(p) : p[i] = q[i]
  PROVE  p = q
BY SeqEqual

(* A nonempty set of natural numbers has a least element, and a greatest   *)
(* one when it is bounded.                                                 *)
LEMMA LeastNat ==
  ASSUME NEW T \in SUBSET Nat, T # {}
  PROVE  \E m \in T : \A n \in T : m <= n
<1> DEFINE Less == {p \in Nat \X Nat : p[1] < p[2]}
<1>1. IsWellFoundedOn(Less, Nat)
  BY NatLessThanWellFounded DEF OpToRel
<1>2. \A m, n \in Nat : n < m => <<n, m>> \in Less
  OBVIOUS
<1> HIDE DEF Less
<1>3. PICK m \in T : \A n \in T : ~(<<n, m>> \in Less)
  BY <1>1, WFMin
<1>4. \A n \in T : ~(n < m)
  BY <1>2, <1>3
<1>5. QED
  BY <1>4

(* The maximum of a set of bounded numbers.                                *)
LEMMA MaxIn ==
  ASSUME NEW n \in Nat, NEW T \in SUBSET (0 .. n), T # {}
  PROVE  Max(T) \in T /\ \A x \in T : Max(T) >= x
<1> DEFINE D == {d \in 0 .. n : n - d \in T}
<1>1. D \in SUBSET Nat /\ D # {}
  <2>1. PICK x \in T : TRUE
    OBVIOUS
  <2>2. x \in 0 .. n /\ n - (n - x) = x
    OBVIOUS
  <2>3. n - x \in D
    BY <2>2
  <2>4. D \subseteq Nat
    OBVIOUS
  <2>5. QED
    BY <2>3, <2>4
<1>2. PICK d \in D : \A e \in D : d <= e
  BY <1>1, LeastNat
<1>3. n - d \in T
  OBVIOUS
<1>4. ASSUME NEW x \in T
      PROVE  n - d >= x
  <2>1. n - x \in D
    <3>1. x \in 0 .. n /\ n - (n - x) = x
      OBVIOUS
    <3>2. QED
      BY <3>1
  <2>2. d <= n - x
    BY <2>1, <1>2
  <2>3. QED
    BY <2>2
<1>5. \E x \in T : \A y \in T : x >= y
  BY <1>3, <1>4
<1>6. QED
  BY <1>5 DEF Max

-----------------------------------------------------------------------------
(* The fields of an activation, by its kind.                               *)
LEMMA ActivationType ==
  ASSUME NEW a \in Activation
  PROVE  /\ a.t \in Thr /\ a.inc \in {0, 1} /\ a.ny \in {0, 1}
         /\ a.at \in {"exec", "errormsg", "handling", "cfun", "try", "close", "unroll"}
         /\ a.at = "try" => /\ a.level \in Nat /\ a.slot \in Nat /\ a.ccalls \in Nat
                            /\ a.nny \in Nat /\ a.status \in Status
                            /\ a.why \in {"resume", "pcall", "closep"} /\ a.ny = 0
         /\ a.at = "cfun" => a.ok \in BOOLEAN /\ a.co \in Thr /\ a.inc = 0 /\ a.ny = 0
         /\ a.at = "close" => /\ a.slot \in Nat /\ a.yy \in BOOLEAN
                              /\ a.why \in {"closep", "return", "pcallk"}
                              /\ a.inc = 0 /\ a.ny = 0
         /\ a.at = "unroll" => a.inc = 0 /\ a.ny = 0
BY DEF Activation

(* The fields of a state.                                                  *)
LEMMA StateType ==
  ASSUME NEW u \in State
  PROVE  /\ u.th \in [Thr -> Thread] /\ u.cs \in Seq(Activation) /\ u.wrong \in BOOLEAN
         /\ Len(u.cs) \in Nat
         /\ \A k \in 1 .. Len(u.cs) : u.cs[k] \in Activation /\ u.cs[k].t \in Thr
         /\ u.cs # <<>> => Top(u) = u.cs[Len(u.cs)] /\ Len(u.cs) > 0 /\ Running(u) = Top(u).t
<1>1. u.th \in [Thr -> Thread] /\ u.cs \in Seq(Activation) /\ u.wrong \in BOOLEAN
  BY DEF State
<1>2. Len(u.cs) \in Nat /\ \A k \in 1 .. Len(u.cs) : u.cs[k] \in Activation
  BY <1>1, SeqElem
<1>3. u.cs # <<>> => Top(u) = u.cs[Len(u.cs)] /\ Len(u.cs) > 0
  BY <1>1, SeqFront DEF Top
<1>4. QED
  BY <1>1, <1>2, <1>3, ActivationType DEF Running

(* The fields of a thread.                                                 *)
LEMMA ThreadType ==
  ASSUME NEW h \in Thread
  PROVE  /\ h.ci \in Seq(Frame) /\ h.tbc \in Seq(Variable)
         /\ h.status \in Status /\ h.fn \in BOOLEAN /\ h.errfunc \in BOOLEAN
         /\ h.ccalls \in Nat /\ h.nny \in Nat
         /\ Len(h.ci) \in Nat /\ Len(h.tbc) \in Nat
         /\ \A i \in 1 .. Len(h.ci) : h.ci[i] \in Frame /\ h.ci[i].base \in Nat
         /\ \A j \in 1 .. Len(h.tbc) : h.tbc[j] \in Variable /\ h.tbc[j].slot \in Nat
<1>1. /\ h.ci \in Seq(Frame) /\ h.tbc \in Seq(Variable)
      /\ h.status \in Status /\ h.fn \in BOOLEAN /\ h.errfunc \in BOOLEAN
      /\ h.ccalls \in Nat /\ h.nny \in Nat
  BY DEF Thread
<1>2. Len(h.ci) \in Nat /\ \A i \in 1 .. Len(h.ci) : h.ci[i] \in Frame
  BY <1>1, SeqElem
<1>3. Len(h.tbc) \in Nat /\ \A j \in 1 .. Len(h.tbc) : h.tbc[j] \in Variable
  BY <1>1, SeqElem
<1>4. \A i \in 1 .. Len(h.ci) : h.ci[i].base \in Nat
  BY <1>2 DEF Frame
<1>5. \A j \in 1 .. Len(h.tbc) : h.tbc[j].slot \in Nat
  BY <1>3 DEF Variable
<1>6. QED
  BY <1>1, <1>2, <1>3, <1>4, <1>5

(* v is u with the record h for thread t.                                  *)
Put(u, v, t, h) ==
  /\ v \in State /\ v.cs = u.cs /\ v.wrong = u.wrong
  /\ v.th[t] = h /\ \A x \in Thr : x # t => v.th[x] = u.th[x]

(* A thread with other frames.                                             *)
LEMMA PutCI ==
  ASSUME NEW u \in State, NEW t \in Thr, NEW F \in Seq(Frame)
  PROVE  Put(u, [u EXCEPT !.th[t].ci = F], t, [u.th[t] EXCEPT !.ci = F])
BY DEF State, Thread, Put

(* A thread that is set twice.                                             *)
LEMMA PutTwice ==
  ASSUME NEW u, NEW v, NEW w, NEW t, NEW h, NEW k, Put(u, v, t, h), Put(v, w, t, k)
  PROVE  Put(u, w, t, k)
BY DEF Put

(* A thread with other counts of calls.                                    *)
LEMMA PutCounts ==
  ASSUME NEW u \in State, NEW t \in Thr, NEW p \in Nat, NEW q \in Nat
  PROVE  Put(u, [u EXCEPT !.th[t].ccalls = p, !.th[t].nny = q], t,
             [u.th[t] EXCEPT !.ccalls = p, !.nny = q])
<1> DEFINE v == [u EXCEPT !.th[t].ccalls = p]
<1>1. Put(u, v, t, [u.th[t] EXCEPT !.ccalls = p])
  BY DEF State, Thread, Put
<1>2. v \in State
  BY <1>1 DEF Put
<1> HIDE DEF v
<1>3. Put(v, [v EXCEPT !.th[t].nny = q], t, [v.th[t] EXCEPT !.nny = q])
  BY <1>2, ZenonT(30) DEF State, Thread, Put
<1>4. v.th[t] = [u.th[t] EXCEPT !.ccalls = p]
  BY <1>1 DEF Put
<1>5. Put(u, [v EXCEPT !.th[t].nny = q], t, [[u.th[t] EXCEPT !.ccalls = p] EXCEPT !.nny = q])
  BY <1>1, <1>3, <1>4, PutTwice
<1>6. QED
  BY <1>5 DEF v

(* Push adds an activation and changes nothing else.                       *)
LEMMA PushFields ==
  ASSUME NEW u \in State, NEW a \in Activation
  PROVE  /\ Push(u, a) \in State /\ Push(u, a).th = u.th /\ Push(u, a).wrong = u.wrong
         /\ Push(u, a).cs = Append(u.cs, a)
BY DEF State, Push

(* Pop takes one off.                                                      *)
LEMMA PopFields ==
  ASSUME NEW u \in State, u.cs # <<>>
  PROVE  /\ Pop(u) \in State /\ Pop(u).th = u.th /\ Pop(u).wrong = u.wrong
         /\ Pop(u).cs = Front(u.cs)
<1>1. Front(u.cs) \in Seq(Activation)
  BY StateType, SeqFront
<1>2. QED
  BY <1>1 DEF State, Pop

-----------------------------------------------------------------------------
(* What the invariant says of the activations below m and of the other     *)
(* threads is still true when only the activations of t above m and the    *)
(* frames of t that these serve change; of a C function at m the result    *)
(* 'ok' may change too.                                                    *)
Kept(th, cs, g, th2, cs2, g2, t, m) ==
  /\ Len(cs) \in Nat /\ Len(cs2) \in Nat
  /\ m \in Nat /\ m <= Len(cs) /\ m <= Len(cs2)
  /\ \A k \in 1 .. m : g[k].b \in Nat /\ g2[k] = g[k]
  /\ \A k \in 1 .. m - 1 : cs2[k] = cs[k]
  /\ m > 0 => /\ cs2[m].t = cs[m].t /\ cs2[m].at = cs[m].at
              /\ cs[m].at # "cfun" => cs2[m] = cs[m]
  /\ \A k \in 1 .. m : cs[k].t \in Thr
  /\ \A k \in m + 1 .. Len(cs) : cs[k].t = t
  /\ \A k \in m + 1 .. Len(cs2) : cs2[k].t = t
  /\ \A x \in Thr : x # t => th2[x] = th[x]
  /\ \/ \A k \in 1 .. m : cs[k].t # t
     \/ /\ m > 0 /\ cs[m].t = t
        /\ \A i \in 1 .. g[m].b : th2[t].ci[i] = th[t].ci[i]

(* The activations below m still serve what they did.                      *)
LEMMA KeptLocal ==
  ASSUME NEW th, NEW th2, NEW cs, NEW cs2, NEW g, NEW g2, NEW t, NEW m,
         Kept(th, cs, g, th2, cs2, g2, t, m),
         \A x \in Thr : Nested(th, cs, g, x), t \in Thr,
         NEW k \in 1 .. m - 1, Local(th, cs, g, k)
  PROVE  Local(th2, cs2, g2, k)
<1>1. /\ Len(cs) \in Nat /\ Len(cs2) \in Nat
      /\ m \in Nat /\ m <= Len(cs) /\ m <= Len(cs2)
      /\ k \in Nat /\ k < m /\ k >= 1 /\ k + 1 <= m
      /\ g2[k] = g[k] /\ g2[k + 1] = g[k + 1]
      /\ k > 1 => g2[k - 1] = g[k - 1]
      /\ cs2[k] = cs[k] /\ cs2[k + 1].t = cs[k + 1].t /\ cs2[k + 1].at = cs[k + 1].at
      /\ k > 1 => cs2[k - 1] = cs[k - 1]
  BY DEF Kept
<1>2. Same(cs2, k) <=> Same(cs, k)
  BY <1>1 DEF Same
<1>3. CASE cs[k].t # t
  <2>1. th2[cs[k].t] = th[cs[k].t]
    BY <1>1, <1>3 DEF Kept
  <2>2. End(th2, cs2, g2, k) = End(th, cs, g, k) /\ Fr(th2, cs2, k) = Fr(th, cs, k)
    BY <1>1, <1>2, <2>1 DEF End, Fr
  <2>3. Counted(th2, cs2, g2, k) /\ FirstOK(th2, cs2, g2, k) /\ UnrollOK(th2, cs2, g2, k)
    BY <1>1, <1>2, <2>1, <2>2 DEF Local, Serves, Counted, FirstOK, UnrollOK
  <2>4. ExecOK(th2, cs2, g2, k) /\ CFunOK(th2, cs2, g2, k)
    BY <1>1, <1>2, <2>1, <2>2 DEF Local, Serves, ExecOK, CFunOK
  <2>5. TryOK(th2, cs2, g2, k) /\ CloseOK(th2, cs2, g2, k) /\ MsgOK(th2, cs2, g2, k)
    BY <1>1, <1>2, <2>1, <2>2 DEF Local, Serves, TryOK, CloseOK, MsgOK
  <2>6. QED
    BY <2>3, <2>4, <2>5 DEF Local, Serves
<1>4. CASE cs[k].t = t
  <2>1. cs[m].t = t /\ \A i \in 1 .. g[m].b : th2[t].ci[i] = th[t].ci[i]
    BY <1>1, <1>4 DEF Kept
  <2>2. k \in Of(cs, t) /\ m \in Of(cs, t) /\ k + 1 \in Of(cs, t)
    <3>1. k \in Of(cs, t) /\ m \in Of(cs, t)
      BY <1>1, <1>4, <2>1 DEF Of
    <3>2. QED
      BY <3>1, <1>1 DEF Nested, Of
  <2>3. Same(cs, k) /\ Same(cs2, k)
    BY <1>1, <2>2, <1>4, <1>2 DEF Same, Of
  <2>4. g[k].b <= g[k + 1].b /\ g[k + 1].b <= g[m].b /\ g[k].b \in Nat /\ g[k + 1].b \in Nat /\ g[m].b \in Nat
    <3>1. g[k].b \in Nat /\ g[k + 1].b \in Nat /\ g[m].b \in Nat
      BY <1>1 DEF Kept
    <3>2. g[k].b <= g[k + 1].b
      BY <2>2, <1>1 DEF Nested
    <3>3. k + 1 = m \/ g[k + 1].b <= g[m].b
      BY <2>2, <1>1 DEF Nested
    <3>4. QED
      BY <3>1, <3>2, <3>3
  <2>5. End(th, cs, g, k) = g[k + 1].b /\ End(th2, cs2, g2, k) = g[k + 1].b
    BY <2>3, <1>1 DEF End
  <2> DEFINE F == Fr(th, cs, k)
             F2 == Fr(th2, cs2, k)
             e == g[k + 1].b
  <2>6. \A i \in 1 .. e : F2[i] = F[i]
    BY <2>1, <2>4, <1>1, <1>4 DEF Fr
  <2>7. Counted(th2, cs2, g2, k) /\ UnrollOK(th2, cs2, g2, k)
    BY <1>1, <2>3 DEF Counted, UnrollOK, Local, Serves
  <2>8. FirstOK(th2, cs2, g2, k)
    <3>1. k = 1 => Fr(th2, cs2, 1)[1] = Fr(th, cs, 1)[1]
      <4>1. k = 1 => e = 1
        BY <2>5, <1>1, <2>4 DEF Local, Serves, FirstOK, CFunOK
      <4>2. QED
        BY <4>1, <2>6
    <3>2. QED
      BY <1>1, <3>1 DEF Local, Serves, FirstOK
  <2>9. ExecOK(th2, cs2, g2, k)
    <3>1. cs[k].at = "exec" => g[k].b < e /\ F2[g[k].b + 1] = F[g[k].b + 1] /\ F2[e] = F[e]
                            /\ (g[k].b > 0 => F2[g[k].b] = F[g[k].b])
      BY <2>4, <2>5, <2>6 DEF Local, Serves, ExecOK
    <3>2. cs[k].at = "exec" => \A i \in g[k].b + 2 .. e : F2[i] = F[i]
      BY <2>4, <2>6
    <3>3. Called(F, g[k].b, cs[k - 1], cs[k]) /\ cs[k].at = "exec"
            => Called(F2, g[k].b, cs[k - 1], cs[k])
      BY <3>1, <2>4 DEF Called
    <3>4. QED
      BY <1>1, <2>3, <2>4, <2>5, <3>1, <3>2, <3>3 DEF Local, Serves, ExecOK
  <2>10. CFunOK(th2, cs2, g2, k)
    <3>1. cs[k].at = "cfun" => F2[e] = F[e]
      BY <2>4, <2>5, <2>6 DEF Local, Serves, CFunOK
    <3>2. QED
      BY <1>1, <2>3, <2>4, <2>5, <3>1 DEF Local, Serves, CFunOK
  <2>11. TryOK(th2, cs2, g2, k)
    <3>1. cs[k].at = "try" /\ cs[k].level > 0 => F2[cs[k].level] = F[cs[k].level]
      BY <2>4, <2>5, <2>6 DEF Local, Serves, TryOK
    <3>2. QED
      BY <1>1, <2>3, <2>4, <2>5, <3>1 DEF Local, Serves, TryOK
  <2>12. CloseOK(th2, cs2, g2, k) /\ MsgOK(th2, cs2, g2, k)
    <3>1. g[k].b > 0 => F2[g[k].b] = F[g[k].b]
      BY <2>4, <2>6
    <3>2. QED
      BY <1>1, <2>3, <2>4, <2>5, <3>1 DEF Local, Serves, CloseOK, MsgOK, Called
  <2>13. QED
    BY <2>7, <2>8, <2>9, <2>10, <2>11, <2>12 DEF Local, Serves
<1>5. QED
  BY <1>3, <1>4

(* The other threads have the same activations, frames and variables.      *)
LEMMA KeptGlobal ==
  ASSUME NEW th, NEW th2, NEW cs, NEW cs2, NEW g, NEW g2, NEW t, NEW m,
         Kept(th, cs, g, th2, cs2, g2, t, m),
         NEW x \in Thr, x # t, Global(th, cs, g, x)
  PROVE  /\ Global(th2, cs2, g2, x)
         /\ Of(cs2, x) = Of(cs, x)
<1>1. /\ Len(cs) \in Nat /\ Len(cs2) \in Nat
      /\ m \in Nat /\ m <= Len(cs) /\ m <= Len(cs2)
  BY DEF Kept
<1>2. \A k \in Of(cs, x) : k \in 1 .. m
  BY <1>1 DEF Kept, Of
<1>3. \A k \in Of(cs2, x) : k \in 1 .. m
  BY <1>1 DEF Kept, Of
<1>4. \A k \in 1 .. m : /\ cs2[k].t = cs[k].t /\ cs2[k].at = cs[k].at
                        /\ cs[k].at # "cfun" => cs2[k] = cs[k]
                        /\ g2[k] = g[k]
  BY <1>1 DEF Kept
<1>5. Of(cs2, x) = Of(cs, x)
  BY <1>1, <1>2, <1>3, <1>4 DEF Of
<1>6. th2[x] = th[x]
  BY DEF Kept
<1>7. Nested(th2, cs2, g2, x)
  <2>1. \A k \in Of(cs, x) : g[k].b <= Len(th[x].ci)
    BY DEF Global, Nested
  <2>2. ASSUME NEW j \in Of(cs, x), NEW k \in Of(cs, x), j < k
        PROVE  g2[j].b <= g2[k].b /\ g2[j].q <= g2[k].q /\ \A i \in j .. k : cs2[i].t = x
    <3>1. g[j].b <= g[k].b /\ g[j].q <= g[k].q /\ \A i \in j .. k : cs[i].t = x
      BY <2>2 DEF Global, Nested
    <3>2. \A i \in j .. k : i \in 1 .. m
      BY <1>1, <1>2
    <3>3. QED
      BY <3>1, <3>2, <1>2, <1>4
  <2>3. QED
    BY <2>1, <2>2, <1>2, <1>4, <1>5, <1>6 DEF Nested
<1>8. FramesOK(th2[x].ci)
  BY <1>6 DEF Global
<1>9. Backed(th2, cs2, g2, x)
  <2>1. Backed(th, cs, g, x)
    BY DEF Global
  <2>2. QED
    BY <2>1, <1>2, <1>4, <1>5, <1>6 DEF Backed
<1>10. Ordered(th2, cs2, x)
  <2>1. Ordered(th, cs, x)
    BY DEF Global
  <2>2. QED
    BY <2>1, <1>2, <1>4, <1>5, <1>6 DEF Ordered
<1>11. Owned(th2, cs2, x)
  <2>1. Owned(th, cs, x)
    BY DEF Global
  <2>2. Closing(cs, x) => Closing(cs2, x)
    BY <1>2, <1>4, <1>5 DEF Closing
  <2>3. QED
    BY <2>1, <2>2, <1>6 DEF Owned
<1>12. StatusOK(th2, cs2, x)
  BY <1>5, <1>6 DEF Global, StatusOK
<1>13. QED
  BY <1>5, <1>7, <1>8, <1>9, <1>10, <1>11, <1>12 DEF Global

(* The activations of t are nested if those from m on are.                 *)
LEMMA KeptNested ==
  ASSUME NEW th, NEW th2, NEW cs, NEW cs2, NEW g, NEW g2, NEW t,  NEW m,
         Kept(th, cs, g, th2, cs2, g2, t, m),
         Nested(th, cs, g, t), Len(th2[t].ci) \in Nat,
         \A k \in 1 .. Len(cs2) : g2[k].b \in Nat /\ g2[k].q \in Nat,
         \A k \in m .. Len(cs2) : k > 0 /\ cs2[k].t = t => g2[k].b <= Len(th2[t].ci),
         \A j, k \in m .. Len(cs2) :
           j > 0 /\ j < k /\ cs2[j].t = t => g2[j].b <= g2[k].b /\ g2[j].q <= g2[k].q
  PROVE  Nested(th2, cs2, g2, t)
<1>1. /\ Len(cs) \in Nat /\ Len(cs2) \in Nat
      /\ m \in Nat /\ m <= Len(cs) /\ m <= Len(cs2)
  BY DEF Kept
<1>2. \A k \in 1 .. m : cs2[k].t = cs[k].t /\ g2[k] = g[k]
  BY <1>1 DEF Kept
<1>3. \A k \in m + 1 .. Len(cs2) : cs2[k].t = t
  BY <1>1 DEF Kept
<1>4. ASSUME NEW j \in Of(cs2, t), NEW k \in Of(cs2, t), j < k
      PROVE  g2[j].b <= g2[k].b /\ g2[j].q <= g2[k].q /\ \A i \in j .. k : cs2[i].t = t
  <2>1. j \in 1 .. Len(cs2) /\ k \in 1 .. Len(cs2) /\ cs2[j].t = t /\ cs2[k].t = t
    BY DEF Of
  <2>2. CASE j > m
    BY <1>1, <2>1, <2>2, <1>3, <1>4
  <2>3. CASE j <= m
    <3>1. j \in Of(cs, t) /\ m \in Of(cs, t)
      BY <1>1, <1>2, <2>1, <2>3 DEF Kept, Of
    <3>2. CASE k <= m
      <4>1. k \in Of(cs, t)
        BY <1>1, <1>2, <2>1, <3>2 DEF Of
      <4>2. g[j].b <= g[k].b /\ g[j].q <= g[k].q /\ \A i \in j .. k : cs[i].t = t
        BY <4>1, <3>1, <1>4 DEF Nested
      <4>3. \A i \in j .. k : i \in 1 .. m
        BY <2>1, <3>2, <1>1
      <4>4. g2[j] = g[j] /\ g2[k] = g[k]
        BY <2>1, <3>2, <1>1, <1>2, <2>3
      <4>5. \A i \in j .. k : cs2[i].t = cs[i].t
        BY <4>3, <1>2
      <4>6. QED
        BY <4>2, <4>4, <4>5
    <3>3. CASE k > m
      <4>1. \A i \in m .. k : cs2[i].t = t
        <5>1. cs2[m].t = t
          BY <1>1, <1>2, <3>1 DEF Of
        <5>2. QED
          BY <5>1, <1>1, <1>3, <2>1
      <4>2. g2[m].b <= g2[k].b /\ g2[m].q <= g2[k].q
        BY <1>1, <2>1, <3>3, <2>3, <4>1
      <4>3. j < m => g[j].b <= g[m].b /\ g[j].q <= g[m].q /\ \A i \in j .. m : cs[i].t = t
        BY <3>1 DEF Nested
      <4>4. \A i \in j .. k : cs2[i].t = t
        BY <4>1, <4>3, <1>1, <1>2, <2>1, <2>3
      <4>5. g2[j].b <= g2[m].b /\ g2[j].q <= g2[m].q
        BY <4>3, <1>1, <1>2, <2>1, <2>3
      <4>6. QED
        BY <4>2, <4>4, <4>5, <2>1, <1>1, <2>3, SMTT(20)
    <3>4. QED
      BY <3>2, <3>3, <2>1, <1>1
  <2>4. QED
    BY <2>1, <2>2, <2>3, <1>1
<1>5. ASSUME NEW k \in Of(cs2, t)
      PROVE  g2[k].b <= Len(th2[t].ci)
  <2>1. k \in 1 .. Len(cs2) /\ cs2[k].t = t
    BY DEF Of
  <2>2. CASE k >= m
    BY <2>1, <2>2, <1>1
  <2>3. CASE k < m
    <3>1. k \in Of(cs, t) /\ m \in Of(cs, t)
      BY <1>1, <1>2, <2>1, <2>3 DEF Kept, Of
    <3>2. m \in Of(cs2, t)
      BY <3>1, <1>1, <1>2 DEF Of
    <3>3. g2[k].b <= g2[m].b /\ g2[m].b <= Len(th2[t].ci)
      BY <3>2, <1>4, <1>1, <2>3 DEF Of
    <3>4. QED
      BY <3>3, <2>1, <1>1, <2>3
  <2>4. QED
    BY <2>2, <2>3, <2>1, <1>1
<1>6. QED
  BY <1>4, <1>5 DEF Nested

(* How a step of thread t keeps the invariant.                             *)
Rebuilt(u, u2, g, g2, t, m) ==
  /\ u2 \in State /\ ~u2.wrong /\ g2 \in Seq(Ghost) /\ Len(g2) = Len(u2.cs) /\ t \in Thr
  /\ Kept(u.th, u.cs, g, u2.th, u2.cs, g2, t, m)
  /\ \A k \in m .. Len(u2.cs) : k > 0 => Local(u2.th, u2.cs, g2, k)
  /\ \A k \in m .. Len(u2.cs) : k > 0 /\ u2.cs[k].t = t => g2[k].b <= Len(u2.th[t].ci)
  /\ \A j, k \in m .. Len(u2.cs) :
       j > 0 /\ j < k /\ u2.cs[j].t = t => g2[j].b <= g2[k].b /\ g2[j].q <= g2[k].q
  /\ FramesOK(u2.th[t].ci) /\ Backed(u2.th, u2.cs, g2, t)
  /\ Ordered(u2.th, u2.cs, t) /\ Owned(u2.th, u2.cs, t) /\ StatusOK(u2.th, u2.cs, t)

(* Then the invariant holds again when it does from m on and for t.        *)
LEMMA Rebuild ==
  ASSUME NEW u, NEW g, Inv(u, g), NEW u2, NEW g2, NEW t, NEW m, Rebuilt(u, u2, g, g2, t, m)
  PROVE  Inv(u2, g2)
<1>0. /\ u2 \in State /\ ~u2.wrong /\ g2 \in Seq(Ghost) /\ Len(g2) = Len(u2.cs) /\ t \in Thr
      /\ Kept(u.th, u.cs, g, u2.th, u2.cs, g2, t, m)
  BY DEF Rebuilt
<1>1. /\ Len(u.cs) \in Nat /\ Len(u2.cs) \in Nat
      /\ m \in Nat /\ m <= Len(u.cs) /\ m <= Len(u2.cs)
  BY <1>0 DEF Kept
<1>2. /\ \A k \in 1 .. Len(u.cs) : Local(u.th, u.cs, g, k)
      /\ \A x \in Thr : Global(u.th, u.cs, g, x)
  BY DEF Inv, Shape
<1>3. \A x \in Thr : Nested(u.th, u.cs, g, x)
  BY <1>2 DEF Global
<1>4. ASSUME NEW k \in 1 .. Len(u2.cs)
      PROVE  Local(u2.th, u2.cs, g2, k)
  <2>1. CASE k < m
    <3>1. k \in 1 .. m - 1 /\ Local(u.th, u.cs, g, k)
      BY <1>1, <1>2, <2>1
    <3>2. QED
      BY <3>1, <1>0, <1>3, KeptLocal
  <2>2. CASE k >= m
    BY <2>2, <1>1 DEF Rebuilt
  <2>3. QED
    BY <2>1, <2>2, <1>1
<1>5. Nested(u2.th, u2.cs, g2, t)
  <2>1. \A k \in 1 .. Len(u2.cs) : g2[k].b \in Nat /\ g2[k].q \in Nat
    <3>1. \A k \in 1 .. Len(g2) : g2[k] \in Ghost
      BY <1>0, SeqElem
    <3>2. QED
      BY <3>1, <1>0 DEF Ghost
  <2>2. Len(u2.th[t].ci) \in Nat
    BY <1>0, StateType, ThreadType
  <2>3. /\ \A k \in m .. Len(u2.cs) : k > 0 /\ u2.cs[k].t = t => g2[k].b <= Len(u2.th[t].ci)
        /\ \A j, k \in m .. Len(u2.cs) :
              j > 0 /\ j < k /\ u2.cs[j].t = t => g2[j].b <= g2[k].b /\ g2[j].q <= g2[k].q
    BY DEF Rebuilt
  <2>4. QED
    BY <1>0, <1>3, <2>1, <2>2, <2>3, KeptNested
<1>6. ASSUME NEW x \in Thr
      PROVE  Global(u2.th, u2.cs, g2, x)
  <2>1. CASE x = t
    BY <1>5, <2>1 DEF Global, Rebuilt
  <2>2. CASE x # t
    BY <1>0, <1>2, <2>2, KeptGlobal
  <2>3. QED
    BY <2>1, <2>2
<1>7. QED
  BY <1>0, <1>4, <1>6 DEF Inv, Shape

-----------------------------------------------------------------------------
(* A new slot is above every frame and every variable.                     *)
LEMMA TopSlotAbove ==
  ASSUME NEW u \in State, NEW t \in Thr, FramesOK(u.th[t].ci), Owned(u.th, u.cs, t)
  PROVE  /\ TopSlot(u, t) \in Nat
         /\ \A i \in 1 .. Len(u.th[t].ci) : u.th[t].ci[i].base <= TopSlot(u, t)
         /\ \A j \in 1 .. Len(u.th[t].tbc) : u.th[t].tbc[j].slot <= TopSlot(u, t)
<1> DEFINE F == u.th[t].ci
           T == u.th[t].tbc
           S == {0} \cup {v.slot : v \in Range(T)} \cup {F[i].base : i \in DOMAIN F}
           last == IF Len(F) = 0 THEN 0 ELSE F[Len(F)].base
           top == IF Len(T) = 0 THEN 0 ELSE T[Len(T)].slot
<1>1. /\ F \in Seq(Frame) /\ Len(F) \in Nat /\ \A i \in 1 .. Len(F) : F[i].base \in Nat
      /\ T \in Seq(Variable) /\ Len(T) \in Nat /\ \A j \in 1 .. Len(T) : T[j].slot \in Nat
  BY StateType, ThreadType
<1>2. \A i \in 1 .. Len(F) : F[i].base <= last
  <2>1. ASSUME NEW i \in 1 .. Len(F)
        PROVE  F[i].base <= F[Len(F)].base
    <3>1. i < Len(F) => F[i].base < F[Len(F)].base
      BY <1>1 DEF FramesOK
    <3>2. i \in Nat /\ F[i].base \in Nat /\ (i = Len(F) \/ i < Len(F))
      BY <1>1
    <3>3. Len(F) \in 1 .. Len(F)
      BY <1>1
    <3>4. F[Len(F)].base \in Nat
      BY <1>1, <3>3
    <3>5. QED
      BY <3>1, <3>2, <3>4
  <2>2. QED
    BY <2>1, <1>1
<1>3. \A j \in 1 .. Len(T) : T[j].slot <= top
  <2>1. ASSUME NEW j \in 1 .. Len(T)
        PROVE  T[j].slot <= T[Len(T)].slot
    <3>1. j < Len(T) => T[j].slot < T[Len(T)].slot
      BY <1>1 DEF Owned
    <3>2. j \in Nat /\ T[j].slot \in Nat /\ (j = Len(T) \/ j < Len(T))
      BY <1>1
    <3>3. Len(T) \in 1 .. Len(T)
      BY <1>1
    <3>4. T[Len(T)].slot \in Nat
      BY <1>1, <3>3
    <3>5. QED
      BY <3>1, <3>2, <3>4
  <2>2. QED
    BY <2>1, <1>1
<1>4. last \in Nat /\ top \in Nat
  BY <1>1
<1> HIDE DEF last, top
<1>5. DOMAIN F = 1 .. Len(F) /\ DOMAIN T = 1 .. Len(T)
  BY <1>1, LenProperties
<1>6. \A x \in S : x \in 0 .. last + top
  <2>1. \A i \in DOMAIN F : F[i].base \in 0 .. last + top
    BY <1>1, <1>2, <1>4, <1>5
  <2>2. \A j \in DOMAIN T : T[j].slot \in 0 .. last + top
    BY <1>1, <1>3, <1>4, <1>5
  <2>3. \A v \in Range(T) : v.slot \in 0 .. last + top
    BY <2>2 DEF Range
  <2>4. 0 \in 0 .. last + top
    BY <1>4
  <2>5. QED
    BY <2>1, <2>3, <2>4
<1>7. S \in SUBSET (0 .. last + top) /\ S # {}
  BY <1>6
<1> HIDE DEF F, T
<1>8. Max(S) \in S /\ \A x \in S : Max(S) >= x
  <2>1. last + top \in Nat
    BY <1>4
  <2>2. QED
    BY <1>7, <2>1, MaxIn
<1>9. Max(S) \in Nat
  <2>1. Max(S) \in 0 .. last + top
    BY <1>6, <1>8
  <2>2. QED
    BY <2>1, <1>4
<1>10. \A i \in 1 .. Len(F) : F[i].base \in S
  BY <1>5
<1>11. \A j \in 1 .. Len(T) : T[j].slot \in S
  BY <1>5 DEF Range
<1>12. TopSlot(u, t) = Max(S)
  BY DEF TopSlot, F, T, CI
<1> HIDE DEF S
<1>13. QED
  BY <1>1, <1>8, <1>9, <1>10, <1>11, <1>12 DEF F, T

(* What is known of the thread that runs.                                  *)
LEMMA RunFacts ==
  ASSUME NEW u, NEW g, Inv(u, g), u.cs # <<>>
  PROVE  LET n == Len(u.cs)
             a == u.cs[n]
             h == u.th[a.t]
         IN /\ n \in Nat /\ n > 0 /\ a \in Activation /\ a.t \in Thr /\ Top(u) = a /\ Running(u) = a.t
            /\ g \in Seq(Ghost) /\ Len(g) = n /\ \A k \in 1 .. n : g[k] \in Ghost
            /\ g[n].p \in Nat /\ g[n].q \in Nat /\ g[n].b \in Nat
            /\ h \in Thread /\ h.status = "ok" /\ ~h.fn
            /\ Local(u.th, u.cs, g, n) /\ Global(u.th, u.cs, g, a.t)
            /\ ~Same(u.cs, n) /\ Fr(u.th, u.cs, n) = h.ci /\ End(u.th, u.cs, g, n) = Len(h.ci)
            /\ g[n].b <= Len(h.ci) /\ h.ccalls = g[n].p /\ h.nny = g[n].q
            /\ g[n].p < ErrCCalls /\ n \in Of(u.cs, a.t)
<1> DEFINE n == Len(u.cs)
           a == u.cs[n]
           h == u.th[a.t]
<1>1. u \in State /\ g \in Seq(Ghost) /\ Len(g) = n /\ Shape(u.th, u.cs, g)
  BY DEF Inv
<1>2. /\ n \in Nat /\ n > 0 /\ n \in 1 .. n /\ a \in Activation /\ a.t \in Thr
      /\ Top(u) = a /\ Running(u) = a.t /\ u.th \in [Thr -> Thread]
  BY <1>1, StateType
<1>3. \A k \in 1 .. n : g[k] \in Ghost
  BY <1>1, SeqElem
<1>4. g[n].p \in Nat /\ g[n].q \in Nat /\ g[n].b \in Nat
  BY <1>2, <1>3 DEF Ghost
<1>5. Local(u.th, u.cs, g, n) /\ Global(u.th, u.cs, g, a.t)
  BY <1>1, <1>2 DEF Shape
<1>6. ~Same(u.cs, n) /\ Fr(u.th, u.cs, n) = h.ci /\ End(u.th, u.cs, g, n) = Len(h.ci)
  BY <1>2 DEF Same, Fr, End
<1>7. h.ccalls = g[n].p /\ h.nny = g[n].q /\ g[n].p < ErrCCalls
  BY <1>5, <1>6 DEF Local, Counted
<1>8. n \in Of(u.cs, a.t)
  BY <1>2 DEF Of
<1>9. g[n].b <= Len(h.ci)
  BY <1>5, <1>8 DEF Global, Nested
<1>10. h.status = "ok" /\ ~h.fn
  BY <1>5, <1>8 DEF Global, StatusOK
<1>11. QED
  BY <1>1, <1>2, <1>3, <1>4, <1>5, <1>6, <1>7, <1>8, <1>9, <1>10

-----------------------------------------------------------------------------
(* A new frame, above everything in its thread.                            *)
NewFrame(h, f) ==
  /\ f \in Frame /\ f.base > 0 /\ ~f.ypcall /\ ~f.hit
  /\ \A i \in 1 .. Len(h.ci) : h.ci[i].base < f.base
  /\ \A j \in 1 .. Len(h.tbc) : h.tbc[j].slot <= f.base

(* A new frame has its type, fresh or not.                                 *)
LEMMA FrameOfType ==
  ASSUME NEW kind \in {"ilya"} \cup CKinds, NEW b \in Nat
  PROVE  FrameOf(kind, b) \in Frame /\ [FrameOf(kind, b) EXCEPT !.fresh = TRUE] \in Frame
<1>1. FrameOf(kind, b) \in Frame
  BY DEF FrameOf, Frame, Status
<1>2. QED
  BY <1>1 DEF Frame

(* The frame of a call is above everything in its thread.                  *)
LEMMA FrameOfIsNew ==
  ASSUME NEW u \in State, NEW t \in Thr, FramesOK(u.th[t].ci), Owned(u.th, u.cs, t),
         NEW kind \in {"ilya"} \cup CKinds
  PROVE  /\ NewFrame(u.th[t], FrameOf(kind, TopSlot(u, t) + 1))
         /\ NewFrame(u.th[t], [FrameOf(kind, TopSlot(u, t) + 1) EXCEPT !.fresh = TRUE])
<1> DEFINE f == FrameOf(kind, TopSlot(u, t) + 1)
           b == TopSlot(u, t)
<1>1. /\ b \in Nat
      /\ \A i \in 1 .. Len(u.th[t].ci) : u.th[t].ci[i].base <= b
      /\ \A j \in 1 .. Len(u.th[t].tbc) : u.th[t].tbc[j].slot <= b
  BY TopSlotAbove
<1>2. /\ \A i \in 1 .. Len(u.th[t].ci) : u.th[t].ci[i].base \in Nat
      /\ \A j \in 1 .. Len(u.th[t].tbc) : u.th[t].tbc[j].slot \in Nat
  BY StateType, ThreadType
<1> HIDE DEF b
<1>3. /\ \A i \in 1 .. Len(u.th[t].ci) : u.th[t].ci[i].base < b + 1
      /\ \A j \in 1 .. Len(u.th[t].tbc) : u.th[t].tbc[j].slot <= b + 1
  BY <1>1, <1>2
<1>4. f = FrameOf(kind, b + 1)
  BY DEF b
<1>5. f \in Frame /\ [f EXCEPT !.fresh = TRUE] \in Frame
  <2>1. b + 1 \in Nat
    BY <1>1
  <2>2. QED
    BY <2>1, <1>4, FrameOfType
<1>6. /\ f.base = b + 1 /\ ~f.ypcall /\ ~f.hit
      /\ [f EXCEPT !.fresh = TRUE].base = b + 1
      /\ ~[f EXCEPT !.fresh = TRUE].ypcall /\ ~[f EXCEPT !.fresh = TRUE].hit
  BY <1>4 DEF FrameOf
<1>7. b + 1 > 0
  BY <1>1
<1> HIDE DEF f
<1>8. NewFrame(u.th[t], f) /\ NewFrame(u.th[t], [f EXCEPT !.fresh = TRUE])
  BY <1>3, <1>5, <1>6, <1>7 DEF NewFrame
<1>9. QED
  BY <1>8 DEF f, b

(* One more frame keeps the frames in order.                               *)
LEMMA FramesPush ==
  ASSUME NEW h \in Thread, FramesOK(h.ci), NEW F2 \in Seq(Frame), Len(F2) = Len(h.ci) + 1,
         \A i \in 1 .. Len(h.ci) : F2[i] = h.ci[i], NewFrame(h, F2[Len(F2)]),
         F2[Len(F2)].fresh => F2[Len(F2)].kind = "ilya",
         F2[Len(F2)].kind = "ilya" /\ ~F2[Len(F2)].fresh
           => Len(h.ci) > 0 /\ h.ci[Len(h.ci)].kind = "ilya"
  PROVE  FramesOK(F2)
<1> DEFINE F == h.ci
           n == Len(F)
<1>1. n \in Nat /\ Len(F2) = n + 1
  BY ThreadType
<1>2. \A i \in 1 .. n : F2[i] = F[i]
  OBVIOUS
<1> DEFINE f == F2[n + 1]
<1>3. /\ NewFrame(h, f) /\ f.fresh => f.kind = "ilya"
      /\ f.kind = "ilya" /\ ~f.fresh => n > 0 /\ F[n].kind = "ilya"
  BY <1>1
<1>4. FramesOK(F)
  OBVIOUS
<1> HIDE DEF F, f, n
<1>5. ASSUME NEW i \in 1 .. n + 1
      PROVE  /\ F2[i].base > 0
             /\ F2[i].ypcall \/ F2[i].hit => Protects(F2[i])
             /\ F2[i].ypcall => (ErrorStatus(F2[i].recst) <=> F2[i].hit)
             /\ F2[i].fresh => F2[i].kind = "ilya"
             /\ F2[i].kind = "ilya" /\ ~F2[i].fresh => i > 1 /\ F2[i - 1].kind = "ilya"
  <2>1. CASE i = n + 1
    BY <2>1, <1>1, <1>2, <1>3 DEF NewFrame, f
  <2>2. CASE i # n + 1
    <3>1. i \in 1 .. n /\ (i > 1 => i - 1 \in 1 .. n)
      BY <2>2, <1>1
    <3>2. F2[i] = F[i] /\ (i > 1 => F2[i - 1] = F[i - 1])
      BY <3>1, <1>2
    <3>3. QED
      BY <3>1, <3>2, <1>4 DEF FramesOK, n
  <2>3. QED
    BY <2>1, <2>2
<1>6. ASSUME NEW i \in 1 .. n + 1, NEW j \in 1 .. n + 1, i < j
      PROVE  F2[i].base < F2[j].base /\ (F2[j].ypcall => F2[i].kind = "ilya" \/ F2[i].ypcall)
  <2>1. CASE j = n + 1
    <3>1. i \in 1 .. n
      BY <2>1, <1>1, <1>6
    <3>2. QED
      BY <2>1, <3>1, <1>2, <1>3 DEF NewFrame, f, F, n
  <2>2. CASE j # n + 1
    <3>1. i \in 1 .. n /\ j \in 1 .. n
      BY <2>2, <1>1, <1>6
    <3>2. QED
      BY <3>1, <1>2, <1>4, <1>6 DEF FramesOK, n
  <2>3. QED
    BY <2>1, <2>2
<1>7. QED
  BY <1>1, <1>5, <1>6 DEF FramesOK

(* ... and every variable in its frame.                                    *)
LEMMA OwnedPush ==
  ASSUME NEW th, NEW th2, NEW cs, NEW cs2, NEW t \in Thr, th[t] \in Thread, Owned(th, cs, t),
         th2[t].tbc = th[t].tbc, Closing(cs, t) => Closing(cs2, t),
         Len(th2[t].ci) = Len(th[t].ci) + 1, NewFrame(th[t], th2[t].ci[Len(th[t].ci) + 1]),
         \A i \in 1 .. Len(th[t].ci) : th2[t].ci[i] = th[t].ci[i]
  PROVE  Owned(th2, cs2, t)
<1> DEFINE F == th[t].ci
           F2 == th2[t].ci
           T == th[t].tbc
           n == Len(F)
<1>1. n \in Nat /\ Len(F2) = n + 1 /\ \A i \in 1 .. n : F2[i] = F[i]
  BY ThreadType
<1>2. \A j \in 1 .. Len(T) : T[j].slot <= F2[n + 1].base
  BY DEF NewFrame
<1>3. ASSUME NEW j \in 1 .. Len(T)
      PROVE  \E i \in 0 .. n + 1 : OwnedBy(F2, T[j], i) /\ (i = 0 => Closing(cs2, t))
  <2>1. PICK i \in 0 .. n : OwnedBy(F, T[j], i) /\ (i = 0 => Closing(cs, t))
    BY DEF Owned
  <2>2. OwnedBy(F2, T[j], i)
    <3>1. i > 0 => F2[i] = F[i]
      BY <1>1, <2>1
    <3>2. i < n => F2[i + 1] = F[i + 1]
      BY <1>1, <2>1
    <3>3. i = n => F2[i + 1].base >= T[j].slot
      BY <1>2, <1>1, ThreadType, <2>1 DEF NewFrame, Frame
    <3>4. i < n \/ i = n
      BY <1>1
    <3>5. i < Len(F2) => F2[i + 1].base >= T[j].slot
      BY <2>1, <3>2, <3>3, <3>4 DEF OwnedBy
    <3>6. i > 0 => F2[i].base < T[j].slot /\ (F2[i].hit \/ (F2[i].kind = "ilya" /\ T[j].of = i))
      BY <2>1, <3>1 DEF OwnedBy
    <3>7. QED
      BY <3>5, <3>6 DEF OwnedBy
  <2>3. i \in 0 .. n + 1
    BY <1>1
  <2>4. QED
    BY <2>1, <2>2, <2>3
<1>4. QED
  BY <1>1, <1>3 DEF Owned

-----------------------------------------------------------------------------
(* A call: the thread that runs gets an activation, and perhaps a frame.   *)
Grows(u, u2, g, t, a, r) ==
  LET n == Len(u.cs)
      F == u.th[t].ci
      F2 == u2.th[t].ci
      f == F2[Len(F2)]
  IN /\ u2 \in State /\ ~u2.wrong /\ a \in Activation /\ a.t = t /\ r \in Ghost
     /\ u2.cs = Append(u.cs, a)
     /\ \A x \in Thr : x # t => u2.th[x] = u.th[x]
     /\ r.p = a.inc + g[n].p /\ r.q = a.ny + g[n].q /\ r.p < ErrCCalls
     /\ a.at = "try" => a.ccalls = r.p /\ a.nny = r.q
     /\ u2.th[t].ccalls = r.p /\ u2.th[t].nny = r.q
     /\ u2.th[t].status = u.th[t].status /\ u2.th[t].fn = u.th[t].fn
     /\ u2.th[t].tbc = u.th[t].tbc
     /\ g[n].b <= r.b /\ r.b <= Len(F2)
     /\ \A i \in 1 .. Len(F) : F2[i] = F[i]
     /\ \/ Len(F2) = Len(F)
        \/ /\ Len(F2) = Len(F) + 1 /\ NewFrame(u.th[t], f)
           /\ f.kind = "ilya" <=> f.fresh
           /\ f.kind \in CKinds \ {"yield"} => a.at = "cfun" /\ r.b = Len(F)
           /\ f.kind = "yield" => a.at \in Msgs /\ r.b = Len(F2)
     /\ a.at = "try" /\ a.why # "resume" => \A i \in 1 .. Len(F) : F[i].ypcall => i < a.level
     /\ \/ r.b = Len(F)
        \/ u.cs[n].at = "unroll"
        \/ /\ u.cs[n].at = "exec" /\ a.at \in Msgs /\ r.b = Len(F) + 1
           /\ Len(F2) = Len(F) + 1 /\ f.kind = "yield"
     /\ u.cs[n].at # "errormsg"
     /\ u.cs[n].at = "cfun" /\ Protects(F[Len(F)]) => F[Len(F)].ypcall \/ a.at = "try"

Grown(u, u2, g, g2, t, a, r) ==
  LET n == Len(u.cs)
  IN /\ g2 \in Seq(Ghost) /\ Len(u2.cs) = n + 1 /\ Len(g2) = n + 1
     /\ \A k \in 1 .. n : u2.cs[k] = u.cs[k] /\ g2[k] = g[k]
     /\ u2.cs[n + 1] = a /\ g2[n + 1] = r
     /\ Kept(u.th, u.cs, g, u2.th, u2.cs, g2, t, n)
     /\ Of(u.cs, t) \subseteq Of(u2.cs, t) /\ Of(u2.cs, t) \subseteq Of(u.cs, t) \cup {n + 1}
     /\ Same(u2.cs, n) /\ ~Same(u2.cs, n + 1)
     /\ End(u2.th, u2.cs, g2, n) = r.b /\ End(u2.th, u2.cs, g2, n + 1) = Len(u2.th[t].ci)
     /\ Fr(u2.th, u2.cs, n) = u2.th[t].ci /\ Fr(u2.th, u2.cs, n + 1) = u2.th[t].ci

(* Nothing that is below the new activation changes.                       *)
LEMMA GrowKept ==
  ASSUME NEW u, NEW g, Inv(u, g), u.cs # <<>>, NEW t, t = Running(u),
         NEW u2, NEW a, NEW r, Grows(u, u2, g, t, a, r)
  PROVE  Grown(u, u2, g, Append(g, r), t, a, r)
<1> DEFINE n == Len(u.cs)
           g2 == Append(g, r)
           cs2 == u2.cs
<1>1. /\ n \in Nat /\ n > 0 /\ t \in Thr /\ u.cs[n].t = t /\ g \in Seq(Ghost) /\ Len(g) = n
      /\ \A k \in 1 .. n : g[k] \in Ghost
      /\ g[n].b \in Nat /\ g[n].b <= Len(u.th[t].ci) /\ u.th[t] \in Thread
  BY RunFacts
<1>2. /\ u.cs \in Seq(Activation) /\ \A k \in 1 .. n : u.cs[k].t \in Thr
  BY StateType DEF Inv
<1>3. a \in Activation /\ a.t = t /\ r \in Ghost /\ cs2 = Append(u.cs, a)
  BY DEF Grows
<1>4. /\ Len(cs2) = n + 1 /\ \A k \in 1 .. n : cs2[k] = u.cs[k]
      /\ cs2[n + 1] = a
  BY <1>2, <1>3, SeqAppend
<1>5. /\ g2 \in Seq(Ghost) /\ Len(g2) = n + 1 /\ \A k \in 1 .. n : g2[k] = g[k]
      /\ g2[n + 1] = r
  BY <1>1, <1>3, SeqAppend
<1>6. \A i \in 1 .. Len(u.th[t].ci) : u2.th[t].ci[i] = u.th[t].ci[i]
  BY DEF Grows
<1>7. \A x \in Thr : x # t => u2.th[x] = u.th[x]
  BY DEF Grows
<1> HIDE DEF g2, cs2
<1>8. Kept(u.th, u.cs, g, u2.th, cs2, g2, t, n)
  <2>1. \A k \in 1 .. n : g[k].b \in Nat
    BY <1>1 DEF Ghost
  <2>2. \A k \in n + 1 .. Len(cs2) : cs2[k].t = t
    BY <1>1, <1>3, <1>4
  <2>3. \A i \in 1 .. g[n].b : u2.th[t].ci[i] = u.th[t].ci[i]
    <3>1. Len(u.th[t].ci) \in Nat
      BY <1>1, ThreadType
    <3>2. QED
      BY <1>1, <1>6, <3>1
  <2>4. Len(u.cs) \in Nat /\ Len(cs2) \in Nat /\ n <= Len(u.cs) /\ n <= Len(cs2)
    BY <1>1, <1>4
  <2>5. \A k \in n + 1 .. Len(u.cs) : u.cs[k].t = t
    BY <1>1
  <2>6. /\ \A k \in 1 .. n - 1 : cs2[k] = u.cs[k]
        /\ cs2[n] = u.cs[n]
    BY <1>1, <1>4
  <2>7. QED
    BY <1>1, <1>2, <1>5, <1>7, <2>1, <2>2, <2>3, <2>4, <2>5, <2>6 DEF Kept
<1>9. Of(u.cs, t) \subseteq Of(cs2, t) /\ Of(cs2, t) \subseteq Of(u.cs, t) \cup {n + 1}
  BY <1>1, <1>4 DEF Of
<1>10. Same(cs2, n) /\ ~Same(cs2, n + 1)
  BY <1>1, <1>3, <1>4 DEF Same
<1>11. Fr(u2.th, cs2, n) = u2.th[t].ci /\ Fr(u2.th, cs2, n + 1) = u2.th[t].ci
  BY <1>1, <1>3, <1>4 DEF Fr
<1>12. End(u2.th, cs2, g2, n) = r.b /\ End(u2.th, cs2, g2, n + 1) = Len(u2.th[t].ci)
  BY <1>5, <1>10, <1>11 DEF End
<1>13. QED
  BY <1>1, <1>4, <1>5, <1>8, <1>9, <1>10, <1>11, <1>12 DEF g2, cs2, Grown

(* The activation that made the call still serves its frames.              *)
LEMMA GrowServes ==
  ASSUME NEW u, NEW g, Inv(u, g), u.cs # <<>>, NEW t, t = Running(u),
         NEW u2, NEW a, NEW r, Grows(u, u2, g, t, a, r)
  PROVE  Serves(u2.th, u2.cs, Append(g, r), Len(u.cs))
<1> DEFINE n == Len(u.cs)
           g2 == Append(g, r)
           F == u.th[t].ci
           F2 == u2.th[t].ci
           c == u.cs[n]
           b == g[n].b
<1>1. /\ n \in Nat /\ n > 0 /\ t \in Thr /\ c.t = t /\ b \in Nat /\ b <= Len(F)
      /\ u.th[t] \in Thread /\ ~Same(u.cs, n) /\ Fr(u.th, u.cs, n) = F
      /\ End(u.th, u.cs, g, n) = Len(F) /\ Serves(u.th, u.cs, g, n)
  BY RunFacts DEF Local
<1>2. /\ \A k \in 1 .. n : u2.cs[k] = u.cs[k] /\ g2[k] = g[k]
      /\ u2.cs[n + 1] = a /\ Same(u2.cs, n)
      /\ End(u2.th, u2.cs, g2, n) = r.b /\ Fr(u2.th, u2.cs, n) = F2
  BY GrowKept DEF Grown
<1>3. Len(F) \in Nat /\ r.b \in Nat
  <2>1. r \in Ghost
    BY DEF Grows
  <2>2. QED
    BY <1>1, <2>1, ThreadType DEF Ghost
<1>4. /\ \A i \in 1 .. Len(F) : F2[i] = F[i]
      /\ c.at # "errormsg"
      /\ c.at = "cfun" /\ Protects(F[Len(F)]) => F[Len(F)].ypcall \/ a.at = "try"
      /\ \/ r.b = Len(F)
         \/ c.at = "unroll"
         \/ /\ c.at = "exec" /\ a.at \in Msgs /\ r.b = Len(F) + 1
            /\ Len(F2) = Len(F) + 1 /\ F2[Len(F2)].kind = "yield" /\ ~F2[Len(F2)].fresh
  <2>1. F2[Len(F2)].kind = "yield" => F2[Len(F2)].kind # "ilya"
    OBVIOUS
  <2>2. F2[Len(F2)] \in Frame /\ Len(F2) = Len(F) + 1 => F2[Len(F2)].fresh \in BOOLEAN
    BY DEF Frame
  <2>3. QED
    BY <2>1, <2>2 DEF Grows, NewFrame
<1> HIDE DEF n, g2
<1>5. u2.cs[n] = c /\ g2[n] = g[n] /\ (n > 1 => u2.cs[n - 1] = u.cs[n - 1] /\ g2[n - 1] = g[n - 1])
  BY <1>1, <1>2
<1>6. u2.th[t].tbc = u.th[t].tbc
  BY DEF Grows
<1> HIDE DEF n, g2, F, F2, c, b
<1>7. b > 0 => F2[b] = F[b]
  BY <1>1, <1>3, <1>4
<1>8. ExecOK(u2.th, u2.cs, g2, n)
  <2>1. SUFFICES ASSUME c.at = "exec" PROVE ExecOK(u2.th, u2.cs, g2, n)
    BY <1>5 DEF ExecOK
  <2>2. /\ n > 1 /\ b < Len(F)
        /\ IF u.cs[n - 1].at = "unroll" THEN b = 0 /\ c.inc = 0 /\ c.ny = 0
           ELSE /\ Called(F, b, u.cs[n - 1], c)
                /\ F[b + 1].fresh /\ \A i \in b + 2 .. Len(F) : ~F[i].fresh
        /\ F[Len(F)].kind = "ilya"
    BY <1>1, <2>1 DEF Serves, ExecOK, c, b
  <2>3. r.b = Len(F) \/ (r.b = Len(F) + 1 /\ a.at \in Msgs /\ F2[r.b].kind = "yield" /\ ~F2[r.b].fresh)
    BY <1>4, <2>1
  <2>4. F2[b + 1] = F[b + 1] /\ F2[Len(F)] = F[Len(F)]
    BY <2>2, <1>1, <1>3, <1>4
  <2>5. (\A i \in b + 2 .. Len(F) : ~F[i].fresh) => \A i \in b + 2 .. r.b : ~F2[i].fresh
    <3>1. SUFFICES ASSUME \A i \in b + 2 .. Len(F) : ~F[i].fresh, NEW i \in b + 2 .. r.b
                   PROVE  ~F2[i].fresh
      OBVIOUS
    <3>2. CASE i <= Len(F)
      <4>1. i \in 1 .. Len(F) /\ i \in b + 2 .. Len(F)
        BY <3>2, <1>1, <1>3
      <4>2. QED
        BY <4>1, <3>1, <1>4
    <3>3. CASE i > Len(F)
      <4>1. i = r.b /\ r.b = Len(F) + 1
        BY <3>3, <2>3, <1>1, <1>3
      <4>2. QED
        BY <4>1, <2>3, <1>3
    <3>4. QED
      BY <3>2, <3>3, <1>1, <1>3
  <2>6. F2[r.b].kind = "ilya" \/ (F2[r.b].kind = "yield" /\ a.at \in Msgs)
    BY <2>2, <2>3, <2>4
  <2>7. b < r.b
    BY <2>2, <2>3, <1>1, <1>3
  <2>8. Called(F, b, u.cs[n - 1], c) => Called(F2, b, u.cs[n - 1], c)
    BY <1>7 DEF Called
  <2>9. QED
    BY <1>2, <1>5, <2>2, <2>4, <2>5, <2>6, <2>7, <2>8 DEF ExecOK, b
<1>9. c.at # "exec" /\ c.at # "unroll" => r.b = Len(F)
  BY <1>4
<1>10. CFunOK(u2.th, u2.cs, g2, n)
  <2>1. SUFFICES ASSUME c.at = "cfun" PROVE CFunOK(u2.th, u2.cs, g2, n)
    BY <1>5 DEF CFunOK
  <2>2. /\ Len(F) = b + 1 /\ F[Len(F)].kind \in CKinds \ {"yield"}
        /\ n > 1 => u.cs[n - 1].at = "exec"
        /\ F[Len(F)].ypcall => ~F[Len(F)].hit /\ c.ok
    BY <1>1, <2>1 DEF Serves, CFunOK, c, b
  <2>3. r.b = Len(F) /\ F2[r.b] = F[Len(F)]
    BY <2>1, <2>2, <1>1, <1>3, <1>4, <1>9
  <2>4. QED
    BY <1>2, <1>4, <1>5, <2>1, <2>2, <2>3 DEF CFunOK, b
<1>11. TryOK(u2.th, u2.cs, g2, n)
  <2>1. SUFFICES ASSUME c.at = "try" PROVE TryOK(u2.th, u2.cs, g2, n)
    BY <1>5 DEF TryOK
  <2>2. /\ n > 1 /\ b = c.level /\ Len(F) = c.level
        /\ u.cs[n - 1].at = "cfun"
        /\ c.inc = IF c.why = "resume" THEN 1 ELSE 0
        /\ c.why = "resume" => u.cs[n - 1].t # c.t
        /\ u.cs[n - 1].t = c.t <=> c.level > 0
        /\ c.level > 0 => Protects(F[c.level]) /\ ~F[c.level].ypcall
        /\ c.why # "resume" => c.slot = IF c.level = 0 THEN 1 ELSE F[c.level].base + 1
        /\ c.why = "pcall" => c.level > 0 /\ ~F[c.level].hit /\ u.cs[n - 1].ok
        /\ c.why = "closep" =>
             /\ c.level > 0 => F[c.level].hit /\ ErrorStatus(c.status)
    BY <1>1, <2>1 DEF Serves, TryOK, c, b
  <2>3. c.level > 0 => F2[c.level] = F[c.level]
    BY <2>2, <1>7
  <2>4. r.b = Len(F)
    BY <2>1, <1>9
  <2>5. QED
    BY <1>2, <1>5, <2>2, <2>3, <2>4 DEF TryOK, b
<1>12. CloseOK(u2.th, u2.cs, g2, n)
  <2>1. SUFFICES ASSUME c.at = "close" PROVE CloseOK(u2.th, u2.cs, g2, n)
    BY <1>5 DEF CloseOK
  <2>2. CloseOK(u.th, u.cs, g, n) /\ r.b = Len(F)
    BY <1>1, <1>9, <2>1 DEF Serves
  <2>3. QED
    BY <1>1, <1>2, <1>5, <1>7, <2>1, <2>2 DEF CloseOK, c, b
<1>13. MsgOK(u2.th, u2.cs, g2, n)
  <2>1. SUFFICES ASSUME c.at = "handling" PROVE MsgOK(u2.th, u2.cs, g2, n)
    BY <1>4, <1>5 DEF MsgOK, Msgs
  <2>2. MsgOK(u.th, u.cs, g, n) /\ r.b = Len(F)
    BY <1>1, <1>9, <2>1 DEF Serves
  <2>3. QED
    BY <1>1, <1>2, <1>5, <1>7, <2>1, <2>2 DEF MsgOK, Msgs, Called, c, b
<1>14. UnrollOK(u2.th, u2.cs, g2, n)
  BY <1>1, <1>5 DEF Serves, UnrollOK, c
<1>15. QED
  BY <1>8, <1>10, <1>11, <1>12, <1>13, <1>14 DEF Serves, n, g2

(* So the invariant holds if the new activation serves its frames.         *)
LEMMA GrowOK ==
  ASSUME NEW u, NEW g, Inv(u, g), u.cs # <<>>, NEW t, t = Running(u),
         NEW u2, NEW a, NEW r, Grows(u, u2, g, t, a, r),
         Serves(u2.th, u2.cs, Append(g, r), Len(u.cs) + 1)
  PROVE  Inv(u2, Append(g, r))
<1> DEFINE n == Len(u.cs)
           g2 == Append(g, r)
           F == u.th[t].ci
           F2 == u2.th[t].ci
           c == u.cs[n]
<1>1. /\ n \in Nat /\ n > 0 /\ t \in Thr /\ c.t = t /\ n \in Of(u.cs, t)
      /\ u.th[t] \in Thread /\ ~Same(u.cs, n) /\ Fr(u.th, u.cs, n) = F
      /\ Local(u.th, u.cs, g, n) /\ Global(u.th, u.cs, g, t)
      /\ g[n].p \in Nat /\ g[n].q \in Nat /\ g[n].b \in Nat /\ g[n].b <= Len(F)
      /\ End(u.th, u.cs, g, n) = Len(F)
  BY RunFacts
<1>2. Grown(u, u2, g, g2, t, a, r)
  BY GrowKept
<1>3. Grows(u, u2, g, t, a, r)
  OBVIOUS
<1>4. F \in Seq(Frame) /\ F2 \in Seq(Frame) /\ Len(F) \in Nat /\ Len(F2) \in Nat
  <2>1. u2.th[t] \in Thread
    BY <1>1, <1>3, StateType DEF Grows
  <2>2. QED
    BY <1>1, <2>1, ThreadType
<1>5. r.b \in Nat /\ r.q \in Nat /\ a.ny \in {0, 1}
  BY <1>3, ActivationType DEF Ghost, Grows
<1>6. Serves(u2.th, u2.cs, g2, n)
  BY GrowServes
<1>7. Serves(u2.th, u2.cs, g2, n + 1)
  OBVIOUS
<1> HIDE DEF g2
<1>20. \A k \in 1 .. n : u2.cs[k] = u.cs[k] /\ g2[k] = g[k]
  BY <1>2 DEF Grown
<1>21. u2.cs[n + 1] = a /\ g2[n + 1] = r /\ g2 \in Seq(Ghost) /\ Len(u2.cs) = n + 1 /\ Len(g2) = n + 1
  BY <1>2 DEF Grown
<1>22. Kept(u.th, u.cs, g, u2.th, u2.cs, g2, t, n)
  BY <1>2 DEF Grown
<1>23. Of(u.cs, t) \subseteq Of(u2.cs, t) /\ Of(u2.cs, t) \subseteq Of(u.cs, t) \cup {n + 1}
  BY <1>2 DEF Grown
<1>24. Same(u2.cs, n) /\ ~Same(u2.cs, n + 1) /\ Fr(u2.th, u2.cs, n) = F2
  BY <1>2 DEF Grown
<1>25. u2 \in State /\ ~u2.wrong /\ a.t = t
  BY DEF Grows
<1>26. /\ r.p = a.inc + g[n].p /\ r.q = a.ny + g[n].q /\ r.p < ErrCCalls
       /\ a.at = "try" => a.ccalls = r.p /\ a.nny = r.q
       /\ u2.th[t].ccalls = r.p /\ u2.th[t].nny = r.q
  BY DEF Grows
<1>27. u2.th[t].status = u.th[t].status /\ u2.th[t].fn = u.th[t].fn
  BY DEF Grows
<1>28. u2.th[t].tbc = u.th[t].tbc
  BY DEF Grows
<1>29. g[n].b <= r.b /\ r.b <= Len(F2)
  BY DEF Grows
<1>30. \A i \in 1 .. Len(F) : F2[i] = F[i]
  BY DEF Grows
<1>31. \/ Len(F2) = Len(F)
       \/ /\ Len(F2) = Len(F) + 1 /\ NewFrame(u.th[t], F2[Len(F2)])
          /\ F2[Len(F2)].kind = "ilya" <=> F2[Len(F2)].fresh
          /\ F2[Len(F2)].kind \in CKinds \ {"yield"} => a.at = "cfun" /\ r.b = Len(F)
          /\ F2[Len(F2)].kind = "yield" => a.at \in Msgs /\ r.b = Len(F2)
  BY DEF Grows
<1>32. a.at = "try" /\ a.why # "resume" => \A i \in 1 .. Len(F) : F[i].ypcall => i < a.level
  BY DEF Grows
<1> HIDE DEF n, F, F2, c
<1>8. /\ u2.cs[n] = c /\ g2[n] = g[n] /\ c = u.cs[n]
      /\ n > 1 => u2.cs[n - 1] = u.cs[n - 1] /\ g2[n - 1] = g[n - 1]
  BY <1>1, <1>20 DEF c
<1>9. Local(u2.th, u2.cs, g2, n)
  <2>1. Counted(u2.th, u2.cs, g2, n)
    <3>1. Counted(u.th, u.cs, g, n)
      BY <1>1 DEF Local
    <3>2. n = 1 \/ n > 1
      BY <1>1
    <3>3. QED
      BY <1>8, <1>24, <3>1, <3>2 DEF Counted
  <2>2. FirstOK(u2.th, u2.cs, g2, n)
    <3>1. n = 1 => F2[1] = F[1]
      <4>1. n = 1 => Len(F) = 1
        <5>1. FirstOK(u.th, u.cs, g, n) /\ CFunOK(u.th, u.cs, g, n)
          BY <1>1 DEF Local, Serves
        <5>2. n = 1 => u.cs[n].at = "cfun" /\ g[n].b = 0
          BY <5>1 DEF FirstOK
        <5>3. u.cs[n].at = "cfun" => End(u.th, u.cs, g, n) = g[n].b + 1
          BY <5>1 DEF CFunOK
        <5>4. QED
          BY <5>2, <5>3, <1>1
      <4>2. QED
        BY <4>1, <1>30
    <3>2. n = 1 => Fr(u2.th, u2.cs, 1) = F2 /\ Fr(u.th, u.cs, 1) = F
      BY <1>1, <1>24
    <3>3. QED
      BY <1>1, <1>8, <3>1, <3>2 DEF Local, FirstOK
  <2>3. QED
    BY <1>6, <2>1, <2>2 DEF Local
<1>10. Local(u2.th, u2.cs, g2, n + 1)
  <2>1. n + 1 # 1 /\ n + 1 > 1 /\ (n + 1) - 1 = n
    BY <1>1
  <2>2. Counted(u2.th, u2.cs, g2, n + 1)
    BY <1>1, <1>21, <1>25, <1>26, <1>8, <2>1 DEF Counted
  <2>3. FirstOK(u2.th, u2.cs, g2, n + 1)
    BY <1>1, <1>21, <1>25, <1>8, <2>1 DEF FirstOK
  <2>4. QED
    BY <1>7, <2>2, <2>3 DEF Local
<1>11. FramesOK(F2)
  <2>1. FramesOK(F)
    BY <1>1 DEF Global, F
  <2>2. CASE Len(F2) = Len(F)
    <3>1. F2 = F
      BY <1>4, <1>30, <2>2, SeqSame
    <3>2. QED
      BY <2>1, <3>1
  <2>3. CASE Len(F2) = Len(F) + 1 /\ Len(F2) # Len(F)
    BY <1>1, <1>4, <1>30, <1>31, <2>1, <2>3, FramesPush DEF F
  <2>4. QED
    BY <1>31, <1>4, <2>2, <2>3
<1>12. Backed(u2.th, u2.cs, g2, t)
  <2>1. \A k \in Of(u.cs, t) : k \in Of(u2.cs, t) /\ u2.cs[k] = u.cs[k] /\ g2[k] = g[k]
    BY <1>20, <1>23 DEF Of, n
  <2>2. n + 1 \in Of(u2.cs, t)
    BY <1>1, <1>21, <1>25 DEF Of
  <2>3. SUFFICES ASSUME ~ErrorStatus(u2.th[t].status), NEW i \in 1 .. Len(F2)
                 PROVE  /\ F2[i].kind \in CKinds \ {"yield"} =>
                             F2[i].ypcall \/ \E k \in Of(u2.cs, t) : u2.cs[k].at = "cfun" /\ g2[k].b + 1 = i
                        /\ F2[i].kind = "yield" =>
                             \/ u2.th[t].status = "yield" /\ i = Len(F2)
                             \/ \E k \in Of(u2.cs, t) : u2.cs[k].at \in Msgs /\ g2[k].b = i
    BY DEF Backed, F2
  <2>4. CASE i <= Len(F)
    <3>1. i \in 1 .. Len(F) /\ F2[i] = F[i] /\ ~ErrorStatus(u.th[t].status)
      BY <1>27, <1>30, <1>4, <2>3, <2>4
    <3>2. /\ F[i].kind \in CKinds \ {"yield"} =>
             F[i].ypcall \/ \E k \in Of(u.cs, t) : u.cs[k].at = "cfun" /\ g[k].b + 1 = i
          /\ F[i].kind = "yield" =>
             \/ u.th[t].status = "yield" /\ i = Len(F)
             \/ \E k \in Of(u.cs, t) : u.cs[k].at \in Msgs /\ g[k].b = i
      BY <1>1, <3>1 DEF Global, Backed, F
    <3>3. u.th[t].status # "yield"
      BY <1>1, RunFacts
    <3>4. QED
      BY <2>1, <3>1, <3>2, <3>3
  <2>5. CASE i > Len(F)
    <3>1. i = Len(F2) /\ Len(F2) # Len(F) /\ i = Len(F) + 1
      BY <1>31, <1>4, <2>5
    <3>2. /\ F2[i].kind \in CKinds \ {"yield"} => a.at = "cfun" /\ r.b = Len(F)
          /\ F2[i].kind = "yield" => a.at \in Msgs /\ r.b = Len(F2)
      BY <1>31, <3>1
    <3>3. QED
      BY <2>2, <1>21, <3>1, <3>2
  <2>6. QED
    BY <1>4, <2>4, <2>5
<1>13. Ordered(u2.th, u2.cs, t)
  <2>1. \A i \in 1 .. Len(F2) : F2[i].ypcall => i \in 1 .. Len(F) /\ F[i].ypcall
    <3>1. SUFFICES ASSUME NEW i \in 1 .. Len(F2), F2[i].ypcall
                   PROVE  i \in 1 .. Len(F) /\ F[i].ypcall
      OBVIOUS
    <3>2. i \in 1 .. Len(F)
      BY <1>31, <1>4, <3>1 DEF NewFrame
    <3>3. QED
      BY <1>30, <3>1, <3>2
  <2>2. \A k \in Of(u.cs, t) : u2.cs[k] = u.cs[k]
    BY <1>20 DEF Of, n
  <2>3. \A k \in Of(u.cs, t) : u.cs[k].at = "try" /\ u.cs[k].why # "resume" =>
           \A i \in 1 .. Len(F) : F[i].ypcall => i < u.cs[k].level
    BY <1>1 DEF Global, Ordered, F
  <2>4. QED
    BY <1>21, <1>23, <1>32, <2>1, <2>2, <2>3 DEF Ordered, F2
<1>14. Owned(u2.th, u2.cs, t)
  <2>1. Owned(u.th, u.cs, t)
    BY <1>1 DEF Global
  <2>2. Closing(u.cs, t) => Closing(u2.cs, t)
    BY <1>20, <1>23 DEF Closing, Of, n
  <2>3. CASE Len(F2) = Len(F)
    <3>1. F2 = F
      BY <1>4, <1>30, <2>3, SeqSame
    <3>2. QED
      BY <2>1, <2>2, <3>1, <1>28 DEF Owned, F, F2
  <2>4. CASE Len(F2) = Len(F) + 1 /\ Len(F2) # Len(F)
    BY <1>1, <1>28, <1>30, <1>31, <1>4, <2>1, <2>2, <2>4, OwnedPush DEF F, F2
  <2>5. QED
    BY <1>31, <1>4, <2>3, <2>4
<1>15. StatusOK(u2.th, u2.cs, t)
  <2>1. u.th[t].status = "ok" /\ ~u.th[t].fn
    BY <1>1, RunFacts
  <2>2. Of(u2.cs, t) # {}
    BY <1>1, <1>23
  <2>3. QED
    BY <1>27, <2>1, <2>2 DEF StatusOK
<1>16. \A k \in n .. Len(u2.cs) : k = n \/ k = n + 1
  BY <1>1, <1>21
<1>17. \A k \in n .. Len(u2.cs) : k > 0 => Local(u2.th, u2.cs, g2, k)
  BY <1>9, <1>10, <1>16
<1>18. \A k \in n .. Len(u2.cs) : k > 0 /\ u2.cs[k].t = t => g2[k].b <= Len(F2)
  <2>1. g2[n].b <= Len(F2) /\ g2[n + 1].b <= Len(F2)
    BY <1>1, <1>21, <1>29, <1>4, <1>5, <1>8
  <2>2. QED
    BY <2>1, <1>16
<1>19. \A j, k \in n .. Len(u2.cs) :
         j > 0 /\ j < k /\ u2.cs[j].t = t => g2[j].b <= g2[k].b /\ g2[j].q <= g2[k].q
  <2>1. g2[n].b <= g2[n + 1].b /\ g2[n].q <= g2[n + 1].q
    BY <1>1, <1>21, <1>26, <1>29, <1>5, <1>8
  <2>2. \A j, k \in n .. Len(u2.cs) : j < k => j = n /\ k = n + 1
    BY <1>1, <1>16
  <2>3. QED
    BY <2>1, <2>2
<1>33. Rebuilt(u, u2, g, g2, t, n)
  BY <1>1, <1>21, <1>22, <1>25, <1>11, <1>12, <1>13, <1>14, <1>15, <1>17, <1>18, <1>19 DEF F2, Rebuilt
<1>34. QED
  BY <1>33, Rebuild DEF g2

-----------------------------------------------------------------------------
(* What the invariant says of activations and threads, one by one.         *)
LEMMA InvFacts ==
  ASSUME NEW u, NEW g, Inv(u, g)
  PROVE  /\ u \in State /\ ~u.wrong /\ Len(u.cs) \in Nat /\ u.cs \in Seq(Activation)
         /\ g \in Seq(Ghost) /\ Len(g) = Len(u.cs)
         /\ \A k \in 1 .. Len(u.cs) :
              /\ Local(u.th, u.cs, g, k) /\ g[k] \in Ghost
              /\ g[k].p \in Nat /\ g[k].q \in Nat /\ g[k].b \in Nat
              /\ u.cs[k] \in Activation /\ u.cs[k].t \in Thr
         /\ \A x \in Thr : Global(u.th, u.cs, g, x) /\ u.th[x] \in Thread
<1>1. /\ u \in State /\ ~u.wrong /\ g \in Seq(Ghost) /\ Len(g) = Len(u.cs)
      /\ Shape(u.th, u.cs, g)
  BY DEF Inv
<1>2. /\ u.cs \in Seq(Activation) /\ Len(u.cs) \in Nat /\ u.th \in [Thr -> Thread]
      /\ \A k \in 1 .. Len(u.cs) : u.cs[k] \in Activation /\ u.cs[k].t \in Thr
  BY <1>1, StateType
<1>3. \A k \in 1 .. Len(u.cs) : g[k] \in Ghost
  BY <1>1, SeqElem
<1>4. \A k \in 1 .. Len(u.cs) : g[k].p \in Nat /\ g[k].q \in Nat /\ g[k].b \in Nat
  BY <1>3 DEF Ghost
<1>5. \A k \in 1 .. Len(u.cs) : Local(u.th, u.cs, g, k)
  BY <1>1 DEF Shape
<1>6. \A x \in Thr : Global(u.th, u.cs, g, x)
  BY <1>1 DEF Shape
<1>7. QED
  BY <1>1, <1>2, <1>3, <1>4, <1>5, <1>6

(* The C stack cut to its first m activations; of a C function on top the  *)
(* result 'ok' may be another.                                             *)
Cut(cs, cs2, m) ==
  /\ Len(cs2) = m /\ \A k \in 1 .. m - 1 : cs2[k] = cs[k]
  /\ m > 0 => /\ cs2[m].t = cs[m].t /\ cs2[m].at = cs[m].at
              /\ cs[m].at # "cfun" => cs2[m] = cs[m]

(* The activations of t above m are left: either all that t had, or m is   *)
(* its own too and goes on with its frames.                                *)
Cuts(u, u2, g, g2, t, m) ==
  /\ u2 \in State /\ ~u2.wrong /\ t \in Thr /\ m \in 0 .. Len(u.cs)
  /\ Cut(u.cs, u2.cs, m)
  /\ g2 \in Seq(Ghost) /\ Len(g2) = m /\ \A k \in 1 .. m : g2[k] = g[k]
  /\ \A k \in m + 1 .. Len(u.cs) : u.cs[k].t = t
  /\ \A x \in Thr : x # t => u2.th[x] = u.th[x]
  /\ \/ m < Len(u.cs) /\ \A k \in 1 .. m : u.cs[k].t # t
     \/ /\ m > 0 /\ u.cs[m].t = t
        /\ u2.th[t].ccalls = g[m].p /\ u2.th[t].nny = g[m].q
        /\ g[m].b <= Len(u2.th[t].ci)
        /\ \A i \in 1 .. g[m].b : u2.th[t].ci[i] = u.th[t].ci[i]
        /\ m = 1 => u2.th[t].ci[1].kind = "pcall" /\ ~u2.th[t].ci[1].ypcall

(* A step that only leaves activations keeps the invariant when the        *)
(* activation on top and the thread t are as they should be.               *)
LEMMA CutOK ==
  ASSUME NEW u, NEW g, Inv(u, g), NEW u2, NEW g2, NEW t, NEW m, Cuts(u, u2, g, g2, t, m),
         m > 0 => Serves(u2.th, u2.cs, g2, m),
         FramesOK(u2.th[t].ci), Backed(u2.th, u2.cs, g2, t), Ordered(u2.th, u2.cs, t),
         Owned(u2.th, u2.cs, t), StatusOK(u2.th, u2.cs, t)
  PROVE  Inv(u2, g2)
<1> DEFINE n == Len(u.cs)
<1>1. /\ u \in State /\ n \in Nat /\ g \in Seq(Ghost) /\ Len(g) = n
      /\ \A k \in 1 .. n : Local(u.th, u.cs, g, k)
  BY InvFacts
<1>2. \A k \in 1 .. n : g[k].b \in Nat /\ u.cs[k].t \in Thr /\ u.cs[k] \in Activation
  BY InvFacts
<1>3. /\ u2 \in State /\ ~u2.wrong /\ t \in Thr /\ m \in 0 .. n
      /\ g2 \in Seq(Ghost) /\ Len(g2) = m /\ \A k \in 1 .. m : g2[k] = g[k]
  BY DEF Cuts
<1>4. Len(u2.cs) = m /\ \A k \in 1 .. m - 1 : u2.cs[k] = u.cs[k]
  BY DEF Cuts, Cut
<1>5. m > 0 => /\ u2.cs[m].t = u.cs[m].t /\ u2.cs[m].at = u.cs[m].at
               /\ u.cs[m].at # "cfun" => u2.cs[m] = u.cs[m]
  BY DEF Cuts, Cut
<1>6. /\ \A k \in m + 1 .. n : u.cs[k].t = t
      /\ \A x \in Thr : x # t => u2.th[x] = u.th[x]
  BY DEF Cuts
<1>7. \/ m < n /\ \A k \in 1 .. m : u.cs[k].t # t
      \/ /\ m > 0 /\ u.cs[m].t = t
         /\ u2.th[t].ccalls = g[m].p /\ u2.th[t].nny = g[m].q
         /\ g[m].b <= Len(u2.th[t].ci)
         /\ \A i \in 1 .. g[m].b : u2.th[t].ci[i] = u.th[t].ci[i]
         /\ m = 1 => u2.th[t].ci[1].kind = "pcall" /\ ~u2.th[t].ci[1].ypcall
  BY DEF Cuts
<1> HIDE DEF n
<1>8. Kept(u.th, u.cs, g, u2.th, u2.cs, g2, t, m)
  <2>1. /\ m \in Nat /\ m <= n /\ \A k \in 1 .. m : k \in 1 .. n
        /\ \A k \in m + 1 .. m : u2.cs[k].t = t
    BY <1>1, <1>3
  <2>2. \A k \in 1 .. m : g[k].b \in Nat /\ u.cs[k].t \in Thr
    BY <2>1, <1>2
  <2>3. QED
    BY <1>1, <1>3, <1>4, <1>5, <1>6, <1>7, <2>1, <2>2 DEF Kept, n
<1>9. m > 0 => Local(u2.th, u2.cs, g2, m)
  <2>1. SUFFICES ASSUME m > 0 PROVE Counted(u2.th, u2.cs, g2, m) /\ FirstOK(u2.th, u2.cs, g2, m)
    BY DEF Local
  <2>2. m \in 1 .. n /\ m \in Nat /\ m \in 1 .. m /\ (m > 1 => m - 1 \in 1 .. m - 1 /\ m - 1 \in 1 .. m)
    BY <2>1, <1>1, <1>3
  <2>3. Local(u.th, u.cs, g, m)
    BY <2>2, <1>1
  <2>4. /\ g2[m] = g[m] /\ (m > 1 => u2.cs[m - 1] = u.cs[m - 1] /\ g2[m - 1] = g[m - 1])
        /\ ~Same(u2.cs, m)
    BY <2>1, <2>2, <1>3, <1>4 DEF Same
  <2>5. u2.cs[m].inc = u.cs[m].inc /\ u2.cs[m].ny = u.cs[m].ny
    <3>1. u2.cs[m] \in Activation /\ u.cs[m] \in Activation
      BY <2>2, <1>2, <1>3, <1>4, StateType
    <3>2. QED
      BY <2>1, <3>1, <1>5, ActivationType
  <2>6. /\ u2.cs[m].t = u.cs[m].t /\ u2.cs[m].at = u.cs[m].at
        /\ u.cs[m].at = "try" => u2.cs[m] = u.cs[m]
    BY <1>5, <2>1
  <2>7. u2.th[u.cs[m].t].ccalls = g[m].p /\ u2.th[u.cs[m].t].nny = g[m].q
    <3>1. CASE u.cs[m].t = t
      BY <1>7, <3>1, <2>2
    <3>2. CASE u.cs[m].t # t
      <4>1. m < n /\ u.cs[m + 1].t = t
        BY <3>2, <1>7, <1>6, <1>1, <2>2
      <4>2. ~Same(u.cs, m)
        BY <4>1, <3>2 DEF Same
      <4>3. u2.th[u.cs[m].t] = u.th[u.cs[m].t]
        BY <3>2, <1>2, <1>6, <2>2
      <4>4. QED
        BY <4>2, <4>3, <2>3 DEF Local, Counted
    <3>3. QED
      BY <3>1, <3>2
  <2>8. Counted(u2.th, u2.cs, g2, m)
    <3>1. Counted(u.th, u.cs, g, m)
      BY <2>3 DEF Local
    <3>2. m = 1 \/ m > 1
      BY <2>2
    <3>3. CASE m = 1
      BY <3>3, <3>1, <2>4, <2>5, <2>6, <2>7 DEF Counted
    <3>4. CASE m > 1
      BY <3>4, <3>1, <2>4, <2>5, <2>6, <2>7 DEF Counted
    <3>5. QED
      BY <3>2, <3>3, <3>4
  <2>9. FirstOK(u2.th, u2.cs, g2, m)
    <3>1. FirstOK(u.th, u.cs, g, m)
      BY <2>3 DEF Local
    <3>2. CASE m = 1
      <4>1. /\ u.cs[1].t = Main /\ u.cs[1].at = "cfun" /\ g[1].b = 0
            /\ Fr(u.th, u.cs, 1)[1].kind = "pcall" /\ ~Fr(u.th, u.cs, 1)[1].ypcall
        BY <3>1, <3>2 DEF FirstOK
      <4>2. /\ u2.th[Main].ci[1].kind = "pcall" /\ ~u2.th[Main].ci[1].ypcall
        <5>1. CASE t = Main
          BY <4>1, <5>1, <3>2, <1>7, <2>2
        <5>2. CASE t # Main
          BY <4>1, <5>2, <1>6, <1>2, <2>2, <3>2 DEF Fr
        <5>3. QED
          BY <5>1, <5>2
      <4>3. Fr(u2.th, u2.cs, 1) = u2.th[Main].ci
        BY <4>1, <2>6, <3>2 DEF Fr
      <4>4. QED
        BY <4>1, <4>2, <4>3, <2>4, <2>6, <3>2 DEF FirstOK
    <3>3. CASE m > 1
      BY <3>1, <3>3, <2>4, <2>6 DEF FirstOK
    <3>4. m = 1 \/ m > 1
      BY <2>2
    <3>5. QED
      BY <3>2, <3>3, <3>4
  <2>10. QED
    BY <2>8, <2>9
<1>10. \A k \in m .. Len(u2.cs) : k = m
  BY <1>1, <1>3, <1>4
<1>11. Rebuilt(u, u2, g, g2, t, m)
  <2>1. \A k \in m .. Len(u2.cs) : k > 0 => Local(u2.th, u2.cs, g2, k)
    BY <1>9, <1>10
  <2>2. \A k \in m .. Len(u2.cs) : k > 0 /\ u2.cs[k].t = t => g2[k].b <= Len(u2.th[t].ci)
    <3>1. m > 0 /\ u2.cs[m].t = t => g2[m].b <= Len(u2.th[t].ci)
      BY <1>3, <1>5, <1>7
    <3>2. QED
      BY <3>1, <1>10
  <2>3. \A j, k \in m .. Len(u2.cs) :
           j > 0 /\ j < k /\ u2.cs[j].t = t => g2[j].b <= g2[k].b /\ g2[j].q <= g2[k].q
    <3>1. \A j, k \in m .. Len(u2.cs) : ~(j < k)
      BY <1>10, <1>3
    <3>2. QED
      BY <3>1
  <2>4. QED
    BY <1>3, <1>4, <1>8, <2>1, <2>2, <2>3 DEF Rebuilt
<1>12. QED
  BY <1>11, Rebuild

-----------------------------------------------------------------------------
(* Above the first m activations the thread t has other ones.              *)
Adds(u, u2, g, g2, t, m) ==
  /\ u2 \in State /\ ~u2.wrong /\ t \in Thr /\ m \in 0 .. Len(u.cs)
  /\ g2 \in Seq(Ghost) /\ Len(g2) = Len(u2.cs) /\ m < Len(u2.cs)
  /\ \A k \in 1 .. m : u2.cs[k] = u.cs[k] /\ g2[k] = g[k]
  /\ \A k \in m + 1 .. Len(u.cs) : u.cs[k].t = t
  /\ \A k \in m + 1 .. Len(u2.cs) : u2.cs[k].t = t /\ g2[k].b <= Len(u2.th[t].ci)
  /\ \A j, k \in m + 1 .. Len(u2.cs) : j < k => g2[j].b <= g2[k].b /\ g2[j].q <= g2[k].q
  /\ \A x \in Thr : x # t => u2.th[x] = u.th[x]
  /\ \/ \A k \in 1 .. m : u.cs[k].t # t
     \/ /\ m > 0 /\ u.cs[m].t = t
        /\ g[m].b <= Len(u2.th[t].ci)
        /\ \A k \in m + 1 .. Len(u2.cs) : g[m].b <= g2[k].b /\ g[m].q <= g2[k].q
        /\ \A i \in 1 .. g[m].b : u2.th[t].ci[i] = u.th[t].ci[i]
        /\ m = 1 => u2.th[t].ci[1].kind = "pcall" /\ ~u2.th[t].ci[1].ypcall

(* So does one that replaces activations of t above m by others.           *)
LEMMA AddOK ==
  ASSUME NEW u, NEW g, Inv(u, g), NEW u2, NEW g2, NEW t, NEW m, Adds(u, u2, g, g2, t, m),
         m > 0 => Serves(u2.th, u2.cs, g2, m),
         \A k \in m + 1 .. Len(u2.cs) : Local(u2.th, u2.cs, g2, k),
         FramesOK(u2.th[t].ci), Backed(u2.th, u2.cs, g2, t), Ordered(u2.th, u2.cs, t),
         Owned(u2.th, u2.cs, t), StatusOK(u2.th, u2.cs, t)
  PROVE  Inv(u2, g2)
<1> DEFINE n == Len(u.cs)
           n2 == Len(u2.cs)
<1>1. /\ u \in State /\ n \in Nat /\ g \in Seq(Ghost) /\ Len(g) = n
      /\ \A k \in 1 .. n : Local(u.th, u.cs, g, k)
  BY InvFacts
<1>2. \A k \in 1 .. n : g[k].b \in Nat /\ u.cs[k].t \in Thr /\ u.cs[k] \in Activation
  BY InvFacts
<1>3. /\ u2 \in State /\ ~u2.wrong /\ t \in Thr /\ m \in 0 .. n
      /\ g2 \in Seq(Ghost) /\ Len(g2) = n2 /\ m < n2
      /\ \A k \in 1 .. m : u2.cs[k] = u.cs[k] /\ g2[k] = g[k]
  BY DEF Adds
<1>4. n2 \in Nat
  BY <1>3, StateType
<1>5. /\ \A k \in m + 1 .. n2 : u2.cs[k].t = t /\ g2[k].b <= Len(u2.th[t].ci)
      /\ \A j, k \in m + 1 .. n2 : j < k => g2[j].b <= g2[k].b /\ g2[j].q <= g2[k].q
  BY DEF Adds
<1>6. /\ \A k \in m + 1 .. n : u.cs[k].t = t
      /\ \A x \in Thr : x # t => u2.th[x] = u.th[x]
  BY DEF Adds
<1>7. \/ \A k \in 1 .. m : u.cs[k].t # t
      \/ /\ m > 0 /\ u.cs[m].t = t
         /\ g[m].b <= Len(u2.th[t].ci)
         /\ \A k \in m + 1 .. n2 : g[m].b <= g2[k].b /\ g[m].q <= g2[k].q
         /\ \A i \in 1 .. g[m].b : u2.th[t].ci[i] = u.th[t].ci[i]
         /\ m = 1 => u2.th[t].ci[1].kind = "pcall" /\ ~u2.th[t].ci[1].ypcall
  BY DEF Adds
<1>8. Kept(u.th, u.cs, g, u2.th, u2.cs, g2, t, m)
  <2>1. m \in Nat /\ m <= n /\ m <= n2 /\ \A k \in 1 .. m : k \in 1 .. n
    BY <1>1, <1>3, <1>4
  <2>2. \A k \in 1 .. m : g[k].b \in Nat /\ u.cs[k].t \in Thr
    BY <2>1, <1>2
  <2>3. \A k \in 1 .. m - 1 : u2.cs[k] = u.cs[k]
    BY <1>3
  <2>4. m > 0 => u2.cs[m] = u.cs[m]
    BY <1>3, <2>1
  <2>5. QED
    BY <1>1, <1>3, <1>4, <1>5, <1>6, <1>7, <2>1, <2>2, <2>3, <2>4 DEF Kept
<1> HIDE DEF n, n2
<1>9. m > 0 => Local(u2.th, u2.cs, g2, m)
  <2>1. SUFFICES ASSUME m > 0 PROVE Counted(u2.th, u2.cs, g2, m) /\ FirstOK(u2.th, u2.cs, g2, m)
    BY DEF Local
  <2>2. m \in 1 .. n /\ m \in Nat /\ m \in 1 .. m /\ (m > 1 => m - 1 \in 1 .. m)
    BY <2>1, <1>1, <1>3
  <2>3. Local(u.th, u.cs, g, m)
    BY <2>2, <1>1
  <2>4. /\ u2.cs[m] = u.cs[m] /\ g2[m] = g[m]
        /\ m > 1 => u2.cs[m - 1] = u.cs[m - 1] /\ g2[m - 1] = g[m - 1]
        /\ u2.cs[m + 1].t = t
    BY <2>2, <1>3, <1>4, <1>5
  <2>5. ~Same(u2.cs, m) => u2.th[u.cs[m].t].ccalls = g[m].p /\ u2.th[u.cs[m].t].nny = g[m].q
    <3>1. SUFFICES ASSUME ~Same(u2.cs, m)
                   PROVE  u2.th[u.cs[m].t].ccalls = g[m].p /\ u2.th[u.cs[m].t].nny = g[m].q
      OBVIOUS
    <3>2. u.cs[m].t # t
      BY <3>1, <2>4, <1>3 DEF Same, n2
    <3>3. m < n => u.cs[m + 1].t = t
      BY <1>6, <1>1, <2>2
    <3>4. ~Same(u.cs, m)
      BY <3>2, <3>3 DEF Same, n
    <3>5. u2.th[u.cs[m].t] = u.th[u.cs[m].t]
      BY <3>2, <1>2, <1>6, <2>2
    <3>6. QED
      BY <3>4, <3>5, <2>3 DEF Local, Counted
  <2>6. m = 1 \/ m > 1
    BY <2>2
  <2>7. Counted(u2.th, u2.cs, g2, m)
    <3>1. Counted(u.th, u.cs, g, m)
      BY <2>3 DEF Local
    <3>2. CASE m = 1
      BY <3>1, <3>2, <2>4, <2>5 DEF Counted
    <3>3. CASE m > 1
      BY <3>1, <3>3, <2>4, <2>5 DEF Counted
    <3>4. QED
      BY <2>6, <3>2, <3>3
  <2>8. FirstOK(u2.th, u2.cs, g2, m)
    <3>1. FirstOK(u.th, u.cs, g, m)
      BY <2>3 DEF Local
    <3>2. CASE m = 1
      <4>1. /\ u.cs[1].t = Main /\ u.cs[1].at = "cfun" /\ g[1].b = 0
            /\ Fr(u.th, u.cs, 1)[1].kind = "pcall" /\ ~Fr(u.th, u.cs, 1)[1].ypcall
        BY <3>1, <3>2 DEF FirstOK
      <4>2. u2.th[Main].ci[1].kind = "pcall" /\ ~u2.th[Main].ci[1].ypcall
        <5>1. CASE t = Main
          BY <4>1, <5>1, <3>2, <1>7, <2>2
        <5>2. CASE t # Main
          BY <4>1, <5>2, <1>6, <1>2, <2>2, <3>2 DEF Fr
        <5>3. QED
          BY <5>1, <5>2
      <4>3. Fr(u2.th, u2.cs, 1) = u2.th[Main].ci
        BY <4>1, <2>4, <3>2 DEF Fr
      <4>4. QED
        BY <4>1, <4>2, <4>3, <2>4, <3>2 DEF FirstOK
    <3>3. CASE m > 1
      BY <3>1, <3>3, <2>4 DEF FirstOK
    <3>4. QED
      BY <2>6, <3>2, <3>3
  <2>9. QED
    BY <2>7, <2>8
<1>10. \A k \in m .. n2 : k = m \/ k \in m + 1 .. n2
  BY <1>1, <1>3, <1>4
<1>11. Rebuilt(u, u2, g, g2, t, m)
  <2>1. \A k \in m .. n2 : k > 0 => Local(u2.th, u2.cs, g2, k)
    BY <1>9, <1>10 DEF n2
  <2>2. m > 0 => m \in 1 .. m
    BY <1>3, <1>1
  <2>3. \A k \in m .. n2 : k > 0 /\ u2.cs[k].t = t => g2[k].b <= Len(u2.th[t].ci)
    <3>1. m > 0 /\ u2.cs[m].t = t => g2[m].b <= Len(u2.th[t].ci)
      BY <1>3, <1>7, <2>2
    <3>2. QED
      BY <3>1, <1>5, <1>10
  <2>4. \A j, k \in m .. n2 :
           j > 0 /\ j < k /\ u2.cs[j].t = t => g2[j].b <= g2[k].b /\ g2[j].q <= g2[k].q
    <3>1. SUFFICES ASSUME NEW j \in m .. n2, NEW k \in m .. n2, j > 0, j < k, u2.cs[j].t = t
                   PROVE  g2[j].b <= g2[k].b /\ g2[j].q <= g2[k].q
      OBVIOUS
    <3>2. k \in m + 1 .. n2
      BY <3>1, <1>3, <1>4
    <3>3. CASE j = m
      BY <3>1, <3>2, <3>3, <1>3, <1>7, <2>2
    <3>4. CASE j # m
      BY <3>1, <3>2, <3>4, <1>5, <1>10
    <3>5. QED
      BY <3>3, <3>4
  <2>5. QED
    BY <1>3, <1>8, <2>1, <2>3, <2>4 DEF Rebuilt, n2
<1>12. QED
  BY <1>11, Rebuild

-----------------------------------------------------------------------------
(* The first l frames, the last of them perhaps with other marks.          *)
Lower(F, F2, l) ==
  /\ l \in 0 .. Len(F) /\ Len(F2) = l
  /\ \A i \in 1 .. l - 1 : F2[i] = F[i]
  /\ l > 0 =>
       /\ F2[l].kind = F[l].kind /\ F2[l].base = F[l].base /\ F2[l].fresh = F[l].fresh
       /\ F2[l].ypcall \/ F2[l].hit => Protects(F[l])
       /\ F2[l].ypcall => /\ ErrorStatus(F2[l].recst) <=> F2[l].hit
                          /\ \A i \in 1 .. l - 1 : F[i].kind = "ilya" \/ F[i].ypcall

(* Lower frames are in order as they were.                                 *)
LEMMA LowerFrames ==
  ASSUME NEW F \in Seq(Frame), FramesOK(F), NEW F2, NEW l, Lower(F, F2, l)
  PROVE  FramesOK(F2)
<1>1. Len(F) \in Nat /\ l \in Nat /\ l <= Len(F) /\ Len(F2) = l
  BY DEF Lower
<1>2. \A i \in 1 .. l - 1 : F2[i] = F[i]
  BY DEF Lower
<1>3. l > 0 =>
       /\ F2[l].kind = F[l].kind /\ F2[l].base = F[l].base /\ F2[l].fresh = F[l].fresh
       /\ F2[l].ypcall \/ F2[l].hit => Protects(F[l])
       /\ F2[l].ypcall => /\ ErrorStatus(F2[l].recst) <=> F2[l].hit
                          /\ \A i \in 1 .. l - 1 : F[i].kind = "ilya" \/ F[i].ypcall
  BY DEF Lower
<1>4. ASSUME NEW i \in 1 .. l
      PROVE  /\ F2[i].base > 0
             /\ F2[i].ypcall \/ F2[i].hit => Protects(F2[i])
             /\ F2[i].ypcall => (ErrorStatus(F2[i].recst) <=> F2[i].hit)
             /\ F2[i].fresh => F2[i].kind = "ilya"
             /\ F2[i].kind = "ilya" /\ ~F2[i].fresh => i > 1 /\ F2[i - 1].kind = "ilya"
  <2>1. i \in 1 .. Len(F) /\ i - 1 \in 0 .. l - 1 /\ (i > 1 => i - 1 \in 1 .. l - 1)
    BY <1>1
  <2>2. /\ F[i].base > 0
        /\ F[i].ypcall \/ F[i].hit => Protects(F[i])
        /\ F[i].ypcall => (ErrorStatus(F[i].recst) <=> F[i].hit)
        /\ F[i].fresh => F[i].kind = "ilya"
        /\ F[i].kind = "ilya" /\ ~F[i].fresh => i > 1 /\ F[i - 1].kind = "ilya"
    BY <2>1 DEF FramesOK
  <2>3. i > 1 => F2[i - 1] = F[i - 1]
    BY <2>1, <1>2
  <2>4. CASE i = l
    <3>1. l > 0
      BY <2>4, <1>1
    <3>2. QED
      BY <3>1, <2>2, <2>3, <2>4, <1>3 DEF Protects
  <2>5. CASE i # l
    <3>1. i \in 1 .. l - 1
      BY <2>5, <1>1
    <3>2. QED
      BY <3>1, <2>2, <2>3, <1>2
  <2>6. QED
    BY <2>4, <2>5
<1>5. ASSUME NEW i \in 1 .. l, NEW j \in 1 .. l, i < j
      PROVE  F2[i].base < F2[j].base /\ (F2[j].ypcall => F2[i].kind = "ilya" \/ F2[i].ypcall)
  <2>1. i \in 1 .. l - 1 /\ i \in 1 .. Len(F) /\ j \in 1 .. Len(F) /\ l > 0
    BY <1>1, <1>5
  <2>2. /\ F[i].base < F[j].base /\ (F[j].ypcall => F[i].kind = "ilya" \/ F[i].ypcall)
        /\ F2[i] = F[i]
    BY <2>1, <1>2, <1>5 DEF FramesOK
  <2>3. CASE j = l
    BY <2>1, <2>2, <2>3, <1>3
  <2>4. CASE j # l
    <3>1. j \in 1 .. l - 1
      BY <2>4, <1>1
    <3>2. QED
      BY <3>1, <2>2, <1>2
  <2>5. QED
    BY <2>3, <2>4
<1>6. QED
  BY <1>1, <1>4, <1>5 DEF FramesOK

(* The variables of the frames that are left: there are none, or the last  *)
(* of the other frames has them, or they are being closed.                 *)
Heir(F, F2, T, l, closing) ==
  /\ l > 0 /\ F[l].hit => F2[l].hit
  /\ \/ l = Len(F)
     \/ \A j \in 1 .. Len(T) : T[j].slot <= F[l + 1].base
     \/ l > 0 /\ F2[l].hit
     \/ l = 0 /\ closing

(* Every variable still has an owner.                                      *)
LEMMA LowerOwned ==
  ASSUME NEW th, NEW th2, NEW cs, NEW cs2, NEW t, th[t] \in Thread, FramesOK(th[t].ci),
         Owned(th, cs, t), th2[t].tbc = th[t].tbc, NEW l, Lower(th[t].ci, th2[t].ci, l),
         Closing(cs, t) => Closing(cs2, t),
         Heir(th[t].ci, th2[t].ci, th[t].tbc, l, Closing(cs2, t))
  PROVE  Owned(th2, cs2, t)
<1> DEFINE F == th[t].ci
           F2 == th2[t].ci
           T == th[t].tbc
<1>1. /\ Len(F) \in Nat /\ l \in Nat /\ l <= Len(F) /\ Len(F2) = l /\ Len(T) \in Nat
      /\ \A i \in 1 .. Len(F) : F[i].base \in Nat
      /\ \A j \in 1 .. Len(T) : T[j].slot \in Nat
  BY ThreadType DEF Lower
<1>2. \A i \in 1 .. l : F2[i].base = F[i].base /\ F2[i].kind = F[i].kind /\ (F[i].hit => F2[i].hit)
  <2>1. ASSUME NEW i \in 1 .. l
        PROVE  F2[i].base = F[i].base /\ F2[i].kind = F[i].kind /\ (F[i].hit => F2[i].hit)
    <3>1. CASE i = l
      BY <1>1, <3>1 DEF Lower, Heir
    <3>2. CASE i # l
      <4>1. i \in 1 .. l - 1
        BY <3>2, <1>1
      <4>2. QED
        BY <4>1 DEF Lower
    <3>3. QED
      BY <3>1, <3>2
  <2>2. QED
    BY <2>1
<1>3. \A i, j \in 1 .. Len(F) : i < j => F[i].base < F[j].base
  BY DEF FramesOK
<1>4. \/ l = Len(F)
      \/ \A j \in 1 .. Len(T) : T[j].slot <= F[l + 1].base
      \/ l > 0 /\ F2[l].hit
      \/ l = 0 /\ Closing(cs2, t)
  BY DEF Heir
<1>5. /\ \A j \in 1 .. Len(T) : T[j].slot > 0
      /\ \A i, j \in 1 .. Len(T) : i < j => T[i].slot < T[j].slot
      /\ \A j \in 1 .. Len(T) : \E i \in 0 .. Len(F) :
           OwnedBy(F, T[j], i) /\ (i = 0 => Closing(cs, t))
  BY DEF Owned
<1> HIDE DEF F, F2, T
<1>6. ASSUME NEW j \in 1 .. Len(T)
      PROVE  \E i \in 0 .. l : OwnedBy(F2, T[j], i) /\ (i = 0 => Closing(cs2, t))
  <2>1. PICK i \in 0 .. Len(F) : OwnedBy(F, T[j], i) /\ (i = 0 => Closing(cs, t))
    BY <1>5
  <2>2. /\ i > 0 => F[i].base < T[j].slot /\ (F[i].hit \/ (F[i].kind = "ilya" /\ T[j].of = i))
        /\ i < Len(F) => F[i + 1].base >= T[j].slot
    BY <2>1 DEF OwnedBy
  <2>3. T[j].slot \in Nat
    BY <1>1
  <2>4. CASE i <= l
    <3>1. i \in 0 .. l
      BY <2>4, <1>1
    <3>2. i > 0 => F2[i].base = F[i].base /\ F2[i].kind = F[i].kind /\ (F[i].hit => F2[i].hit)
      BY <3>1, <1>2
    <3>3. i < l => F2[i + 1].base = F[i + 1].base /\ i < Len(F)
      BY <3>1, <1>1, <1>2
    <3>4. OwnedBy(F2, T[j], i)
      BY <1>1, <2>2, <3>2, <3>3 DEF OwnedBy
    <3>5. QED
      BY <3>1, <3>4, <2>1 DEF F, F2, T
  <2>5. CASE i > l
    <3>1. /\ l # Len(F) /\ l + 1 \in 1 .. Len(F) /\ i \in 1 .. Len(F)
          /\ F[l + 1].base \in Nat /\ F[i].base \in Nat
          /\ F[l + 1].base <= F[i].base
      <4>1. l + 1 \in 1 .. Len(F) /\ i \in 1 .. Len(F) /\ (l + 1 = i \/ l + 1 < i) /\ l # Len(F)
        BY <2>5, <1>1
      <4>2. F[l + 1].base \in Nat /\ F[i].base \in Nat
        BY <4>1, <1>1
      <4>3. QED
        BY <4>1, <4>2, <1>3
    <3>6. F[i].base < T[j].slot
      BY <2>2, <2>5, <1>1
    <3>2. ~(T[j].slot <= F[l + 1].base)
      BY <3>1, <3>6, <2>3
    <3>3. CASE l > 0 /\ F2[l].hit
      <4>1. l \in 1 .. l /\ l \in 1 .. Len(F) /\ l \in 0 .. l /\ F[l].base \in Nat /\ l < i
        BY <3>3, <1>1, <2>5
      <4>2. F[l].base < F[i].base
        BY <4>1, <3>1, <1>3
      <4>3. F2[l].base < T[j].slot
        BY <4>1, <4>2, <3>1, <1>2, <2>2, <2>3
      <4>4. OwnedBy(F2, T[j], l)
        BY <4>3, <3>3, <1>1 DEF OwnedBy
      <4>5. QED
        BY <4>1, <4>4, <3>3, <1>1
    <3>4. CASE l = 0 /\ Closing(cs2, t)
      <4>1. OwnedBy(F2, T[j], 0)
        BY <3>4, <1>1 DEF OwnedBy
      <4>2. QED
        BY <4>1, <3>4, <1>1
    <3>5. QED
      BY <1>4, <3>1, <3>2, <3>3, <3>4
  <2>6. QED
    BY <2>4, <2>5, <1>1
<1>7. QED
  BY <1>1, <1>5, <1>6 DEF Owned, F2, T

=============================================================================
