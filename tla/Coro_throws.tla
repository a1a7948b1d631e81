---------------------------- MODULE Coro_throws -----------------------------
(***************************************************************************)
(* Errors keep the inductive invariant of Coro: where ilyaD_throw jumps    *)
(* to, and what ilyaD_closeprotected and precover do there.                *)
(***************************************************************************)
EXTENDS Coro_steps

(* The member that no other exceeds is the maximum.                        *)
LEMMA MaxIs ==
  ASSUME NEW n \in Nat, NEW T \in SUBSET (0 .. n), NEW m \in T, \A x \in T : x <= m
  PROVE  Max(T) = m
<1>1. Max(T) \in T /\ \A x \in T : Max(T) >= x
  BY MaxIn
<1>2. Max(T) \in 0 .. n /\ m \in 0 .. n
  BY <1>1
<1>3. Max(T) >= m /\ Max(T) <= m
  BY <1>1
<1>4. QED
  BY <1>2, <1>3

-----------------------------------------------------------------------------
(* What an operation leaves alone.                                         *)
OnlyFrames(u, v, t) ==
  /\ v \in State /\ v.cs = u.cs /\ v.wrong = u.wrong
  /\ \A x \in Thr : x # t => v.th[x] = u.th[x]
  /\ v.th[t].tbc = u.th[t].tbc /\ v.th[t].status = u.th[t].status
  /\ v.th[t].fn = u.th[t].fn /\ v.th[t].errfunc = u.th[t].errfunc
  /\ v.th[t].ccalls = u.th[t].ccalls /\ v.th[t].nny = u.th[t].nny

(* A thread with other frames is otherwise the same.                       *)
LEMMA PutFrames ==
  ASSUME NEW u \in State, NEW t \in Thr, NEW F \in Seq(Frame)
  PROVE  /\ OnlyFrames(u, [u EXCEPT !.th[t].ci = F], t)
         /\ [u EXCEPT !.th[t].ci = F].th[t].ci = F
<1> DEFINE v == [u EXCEPT !.th[t].ci = F]
<1>1. Put(u, v, t, [u.th[t] EXCEPT !.ci = F])
  BY PutCI
<1>2. u.th[t] \in Thread
  BY StateType
<1> DEFINE h == u.th[t]
<1>3. h \in Thread
  BY <1>2
<1> HIDE DEF h, v
<1>4. LET k == [h EXCEPT !.ci = F]
      IN /\ k.ci = F /\ k.tbc = h.tbc /\ k.status = h.status /\ k.fn = h.fn
         /\ k.errfunc = h.errfunc /\ k.ccalls = h.ccalls /\ k.nny = h.nny
  BY <1>3 DEF Thread
<1>5. v.th[t] = [h EXCEPT !.ci = F] /\ v \in State /\ v.cs = u.cs /\ v.wrong = u.wrong
  BY <1>1 DEF Put, h
<1>6. \A x \in Thr : x # t => v.th[x] = u.th[x]
  BY <1>1 DEF Put
<1>7. OnlyFrames(u, v, t) /\ v.th[t].ci = F
  BY <1>4, <1>5, <1>6 DEF OnlyFrames, h
<1>8. QED
  BY <1>7 DEF v

(* PushFrame adds a new frame.                                             *)
LEMMA PushFrameIs ==
  ASSUME NEW u \in State, NEW t \in Thr, FramesOK(u.th[t].ci), Owned(u.th, u.cs, t),
         NEW kind \in {"ilya"} \cup CKinds
  PROVE  LET f == FrameOf(kind, TopSlot(u, t) + 1)
             v == PushFrame(u, t, kind)
         IN /\ OnlyFrames(u, v, t) /\ v.th[t].ci = Append(u.th[t].ci, f)
            /\ f \in Frame /\ NewFrame(u.th[t], f)
<1> DEFINE f == FrameOf(kind, TopSlot(u, t) + 1)
<1>1. NewFrame(u.th[t], f)
  BY FrameOfIsNew
<1>2. f \in Frame
  BY <1>1 DEF NewFrame
<1>3. Append(u.th[t].ci, f) \in Seq(Frame)
  BY <1>2, StateType, ThreadType, SeqAppend
<1>4. PushFrame(u, t, kind) = [u EXCEPT !.th[t].ci = Append(u.th[t].ci, f)]
  BY StateType DEF PushFrame
<1> DEFINE F2 == Append(u.th[t].ci, f)
<1>5. F2 \in Seq(Frame) /\ PushFrame(u, t, kind) = [u EXCEPT !.th[t].ci = F2]
  BY <1>3, <1>4
<1> HIDE DEF f, F2
<1>6. OnlyFrames(u, PushFrame(u, t, kind), t) /\ PushFrame(u, t, kind).th[t].ci = F2
  BY <1>5, PutFrames
<1>7. QED
  BY <1>1, <1>2, <1>6 DEF f, F2

(* SetTop replaces the last frame.                                         *)
LEMMA SetTopIs ==
  ASSUME NEW u \in State, NEW t \in Thr, u.th[t].ci # <<>>, NEW f \in Frame
  PROVE  LET v == SetTop(u, t, f)
             F == u.th[t].ci
         IN /\ OnlyFrames(u, v, t) /\ Len(v.th[t].ci) = Len(F) /\ Len(F) > 0
            /\ \A i \in 1 .. Len(F) : v.th[t].ci[i] = IF i = Len(F) THEN f ELSE F[i]
<1> DEFINE F == u.th[t].ci
           F2 == [F EXCEPT ![Len(F)] = f]
<1>1. F \in Seq(Frame) /\ Len(F) \in Nat /\ Len(F) > 0 /\ Len(F) \in 1 .. Len(F)
  BY StateType, ThreadType, SeqFront
<1>2. /\ F2 \in Seq(Frame) /\ Len(F2) = Len(F)
      /\ \A i \in 1 .. Len(F) : F2[i] = IF i = Len(F) THEN f ELSE F[i]
  BY <1>1, SeqPut
<1>3. SetTop(u, t, f) = [u EXCEPT !.th[t].ci = F2]
  BY StateType DEF SetTop, CI
<1> HIDE DEF F2
<1>4. OnlyFrames(u, SetTop(u, t, f), t) /\ SetTop(u, t, f).th[t].ci = F2
  BY <1>2, <1>3, PutFrames
<1>5. QED
  BY <1>1, <1>2, <1>4

(* PopFrame drops the last frame.                                          *)
LEMMA PopFrameIs ==
  ASSUME NEW u \in State, NEW t \in Thr, u.th[t].ci # <<>>
  PROVE  LET v == PopFrame(u, t)
             F == u.th[t].ci
         IN /\ OnlyFrames(u, v, t) /\ Len(v.th[t].ci) = Len(F) - 1
            /\ \A i \in 1 .. Len(F) - 1 : v.th[t].ci[i] = F[i]
            /\ TopFrame(u, t) = F[Len(F)] /\ Len(F) > 0
<1> DEFINE F == u.th[t].ci
<1>1. /\ Len(F) > 0 /\ Last(F) = F[Len(F)] /\ Front(F) \in Seq(Frame)
      /\ Len(Front(F)) = Len(F) - 1 /\ \A i \in 1 .. Len(F) - 1 : Front(F)[i] = F[i]
  <2>1. F \in Seq(Frame)
    BY StateType, ThreadType
  <2>2. QED
    BY <2>1, SeqFront
<1>2. PopFrame(u, t) = [u EXCEPT !.th[t].ci = Front(F)]
  BY StateType DEF PopFrame
<1>3. OnlyFrames(u, PopFrame(u, t), t) /\ PopFrame(u, t).th[t].ci = Front(F)
  BY <1>1, <1>2, PutFrames
<1>4. TopFrame(u, t) = Last(F)
  BY DEF TopFrame, CI
<1>5. QED
  BY <1>1, <1>3, <1>4

(* CutFrames keeps the first l frames.                                     *)
LEMMA CutFramesIs ==
  ASSUME NEW u \in State, NEW t \in Thr, NEW l \in 0 .. Len(u.th[t].ci)
  PROVE  LET v == CutFrames(u, t, l)
             F == u.th[t].ci
         IN /\ OnlyFrames(u, v, t) /\ Len(v.th[t].ci) = l
            /\ \A i \in 1 .. l : v.th[t].ci[i] = F[i]
<1> DEFINE F == u.th[t].ci
<1>1. /\ SubSeq(F, 1, l) \in Seq(Frame) /\ Len(SubSeq(F, 1, l)) = l
      /\ \A i \in 1 .. l : SubSeq(F, 1, l)[i] = F[i]
  BY StateType, ThreadType, SeqCut
<1>2. CutFrames(u, t, l) = [u EXCEPT !.th[t].ci = SubSeq(F, 1, l)]
  BY StateType DEF CutFrames
<1> DEFINE F2 == SubSeq(F, 1, l)
<1>3. F2 \in Seq(Frame) /\ CutFrames(u, t, l) = [u EXCEPT !.th[t].ci = F2]
  BY <1>1, <1>2
<1> HIDE DEF F2
<1>4. OnlyFrames(u, CutFrames(u, t, l), t) /\ CutFrames(u, t, l).th[t].ci = F2
  BY <1>3, PutFrames
<1>5. QED
  BY <1>1, <1>4 DEF F2

-----------------------------------------------------------------------------
(* The protection that an error or a yield jumps to.                       *)
LastTry(u, t) == Max({k \in DOMAIN u.cs : u.cs[k].at = "try" /\ u.cs[k].t = t})

(* The activations of a thread are contiguous, and nested.                 *)
LEMMA Contiguous ==
  ASSUME NEW u, NEW g, Inv(u, g), NEW j \in 1 .. Len(u.cs), NEW k \in 1 .. Len(u.cs),
         u.cs[j].t = u.cs[k].t, j < k
  PROVE  /\ \A m \in j .. k : u.cs[m].t = u.cs[k].t
         /\ g[j].b <= g[k].b /\ g[j].q <= g[k].q
<1>1. u.cs[k].t \in Thr
  BY InvFacts
<1>2. Nested(u.th, u.cs, g, u.cs[k].t)
  BY <1>1, InvFacts DEF Global
<1>3. j \in Of(u.cs, u.cs[k].t) /\ k \in Of(u.cs, u.cs[k].t)
  BY DEF Of
<1>4. QED
  BY <1>2, <1>3 DEF Nested

(* But for the host's call, the thread that runs has a protection.         *)
LEMMA HasTry ==
  ASSUME NEW u, NEW g, Inv(u, g), Len(u.cs) > 1, NEW t, t = Running(u)
  PROVE  \E k \in 1 .. Len(u.cs) : u.cs[k].at = "try" /\ u.cs[k].t = t
<1> DEFINE n == Len(u.cs)
           S == Of(u.cs, t)
<1>1. /\ n \in Nat /\ n \in S /\ u.cs[n].t = t /\ t \in Thr
      /\ \A k \in 1 .. n : Local(u.th, u.cs, g, k)
  <2>1. u.cs # <<>>
    OBVIOUS
  <2>2. QED
    BY <2>1, RunFacts, InvFacts
<1>2. S \in SUBSET Nat /\ S # {}
  BY <1>1 DEF Of
<1>3. PICK f \in S : \A k \in S : f <= k
  BY <1>2, LeastNat
<1>4. f \in 1 .. n /\ u.cs[f].t = t
  BY <1>3 DEF Of
<1>5. CASE f > 1
  <2>1. f - 1 \in 1 .. n /\ ~(f <= f - 1)
    BY <1>4, <1>5, <1>1
  <2>2. u.cs[f - 1].t # t
    BY <2>1, <1>3 DEF Of
  <2>3. u.cs[f].at = "try"
    BY <1>1, <1>4, <1>5, <2>2 DEF Local, FirstOK
  <2>4. QED
    BY <1>4, <2>3
<1>6. CASE f = 1
  <2>1. 1 \in 1 .. n /\ n \in 1 .. n /\ 2 \in 1 .. n /\ 2 \in 1 .. n /\ 1 < n
    BY <1>1
  <2>2. u.cs[2].t = t
    BY <2>1, <1>1, <1>4, <1>6, Contiguous
  <2>3. Same(u.cs, 1)
    BY <2>1, <2>2, <1>4, <1>6 DEF Same
  <2>4. /\ u.cs[1].at = "cfun" /\ g[1].b = 0
        /\ Fr(u.th, u.cs, 1)[1].kind = "pcall" /\ ~Fr(u.th, u.cs, 1)[1].ypcall
    BY <2>1, <1>1 DEF Local, FirstOK
  <2>5. CFunOK(u.th, u.cs, g, 1)
    BY <2>1, <1>1 DEF Local, Serves
  <2>6. u.cs[2].at = "try"
    BY <2>3, <2>4, <2>5 DEF CFunOK, Protects
  <2>7. QED
    BY <2>1, <2>2, <2>6
<1>7. QED
  BY <1>4, <1>5, <1>6

(* The last protection is in the part of the C stack of its thread.        *)
LEMMA LastTryIs ==
  ASSUME NEW u, NEW g, Inv(u, g), Len(u.cs) > 1, NEW t, t = Running(u)
  PROVE  LET i == LastTry(u, t)
             n == Len(u.cs)
         IN /\ i \in 1 .. n /\ i > 1 /\ i - 1 \in 1 .. n
            /\ u.cs[i].at = "try" /\ u.cs[i].t = t
            /\ \A k \in i .. n : u.cs[k].t = t
            /\ \A k \in i + 1 .. n : u.cs[k].at # "try"
            /\ u.cs[i].ccalls = g[i].p /\ u.cs[i].nny = g[i].q
<1> DEFINE n == Len(u.cs)
           S == {k \in DOMAIN u.cs : u.cs[k].at = "try" /\ u.cs[k].t = t}
           i == Max(S)
<1>1. /\ n \in Nat /\ n \in 1 .. n /\ u.cs[n].t = t
      /\ \A k \in 1 .. n : Local(u.th, u.cs, g, k)
      /\ DOMAIN u.cs = 1 .. n
  <2>1. u.cs # <<>>
    OBVIOUS
  <2>2. n \in Nat /\ u.cs \in Seq(Activation) /\ \A k \in 1 .. n : Local(u.th, u.cs, g, k)
    BY InvFacts
  <2>3. QED
    BY <2>1, <2>2, RunFacts
<1>2. S \in SUBSET (0 .. n) /\ S # {}
  BY <1>1, HasTry
<1>3. i \in S /\ \A k \in S : i >= k
  BY <1>1, <1>2, MaxIn
<1> HIDE DEF i
<1>4. i \in 1 .. n /\ u.cs[i].at = "try" /\ u.cs[i].t = t
  BY <1>1, <1>3
<1>5. i > 1
  BY <1>1, <1>4 DEF Local, Serves, TryOK
<1>6. \A k \in i .. n : u.cs[k].t = t
  <2>1. CASE i = n
    BY <2>1, <1>1, <1>4
  <2>2. CASE i < n
    BY <2>2, <1>1, <1>4, Contiguous
  <2>3. QED
    BY <2>1, <2>2, <1>1, <1>4
<1>7. \A k \in i + 1 .. n : u.cs[k].at # "try"
  <2>1. SUFFICES ASSUME NEW k \in i + 1 .. n, u.cs[k].at = "try" PROVE FALSE
    OBVIOUS
  <2>2. k \in i .. n /\ k \in 1 .. n /\ ~(i >= k)
    BY <1>4
  <2>3. k \in S
    BY <2>1, <2>2, <1>1, <1>6
  <2>4. QED
    BY <2>2, <2>3, <1>3
<1>8. u.cs[i].ccalls = g[i].p /\ u.cs[i].nny = g[i].q
  BY <1>1, <1>4 DEF Local, Counted
<1>9. i = LastTry(u, t)
  BY DEF LastTry, i
<1>10. i - 1 \in 1 .. n
  BY <1>4, <1>5, <1>1
<1>11. QED
  BY <1>4, <1>5, <1>6, <1>7, <1>8, <1>9, <1>10

-----------------------------------------------------------------------------
(* An error may come: no activation is between a protected call and its    *)
(* protection.                                                             *)
MayThrow(u, t) ==
  /\ u.cs # <<>> /\ t = Running(u) /\ Len(u.cs) > 1
  /\ LET c == u.cs[Len(u.cs)]
         F == u.th[t].ci
     IN c.at = "cfun" /\ Protects(F[Len(F)]) => F[Len(F)].ypcall

(* A protected call of a C function is not above the last protection.      *)
LEMMA ProtectsAbove ==
  ASSUME NEW u, NEW g, Inv(u, g), NEW t, MayThrow(u, t),
         NEW j \in 1 .. Len(u.th[t].ci), Protects(u.th[t].ci[j]), ~u.th[t].ci[j].ypcall
  PROVE  j <= g[LastTry(u, t)].b
<1> DEFINE n == Len(u.cs)
           F == u.th[t].ci
           i == LastTry(u, t)
<1>1. /\ u.cs # <<>> /\ t = Running(u) /\ Len(u.cs) > 1
      /\ u.cs[n].at = "cfun" /\ Protects(F[Len(F)]) => F[Len(F)].ypcall
  BY DEF MayThrow
<1>2. /\ n \in Nat /\ n \in 1 .. n /\ t \in Thr /\ u.cs[n].t = t /\ u.th[t].status = "ok"
      /\ Global(u.th, u.cs, g, t)
      /\ \A k \in 1 .. n : Local(u.th, u.cs, g, k)
      /\ End(u.th, u.cs, g, n) = Len(F) /\ Fr(u.th, u.cs, n) = F
  BY <1>1, RunFacts, InvFacts
<1>3. /\ i \in 1 .. n /\ i > 1 /\ u.cs[i].at = "try" /\ u.cs[i].t = t
      /\ \A k \in i .. n : u.cs[k].t = t
      /\ \A k \in i + 1 .. n : u.cs[k].at # "try"
  BY <1>1, LastTryIs
<1>4. g[i].b \in Nat /\ Len(F) \in Nat
  <2>1. u.th[t] \in Thread
    BY <1>2, InvFacts
  <2>2. QED
    BY <1>3, <2>1, ThreadType, InvFacts
<1> HIDE DEF i, n
<1>5. PICK k \in Of(u.cs, t) : u.cs[k].at = "cfun" /\ g[k].b + 1 = j
  <2>1. ~ErrorStatus(u.th[t].status)
    BY <1>2 DEF ErrorStatus
  <2>2. F[j].kind \in CKinds \ {"yield"}
    BY DEF Protects, CKinds
  <2>3. QED
    BY <1>2, <2>1, <2>2 DEF Global, Backed
<1>6. k \in 1 .. n /\ u.cs[k].t = t /\ CFunOK(u.th, u.cs, g, k) /\ g[k].b \in Nat /\ Fr(u.th, u.cs, k) = F
  <2>1. k \in 1 .. n /\ u.cs[k].t = t
    BY <1>5 DEF Of, n
  <2>2. QED
    BY <2>1, <1>2, InvFacts DEF Local, Serves, Fr, n
<1>7. /\ End(u.th, u.cs, g, k) = j
      /\ IF Same(u.cs, k) THEN u.cs[k + 1].at = "try" ELSE k = Len(u.cs)
  <2>1. /\ End(u.th, u.cs, g, k) = g[k].b + 1
        /\ Protects(F[g[k].b + 1]) =>
             IF Same(u.cs, k) THEN F[g[k].b + 1].ypcall \/ u.cs[k + 1].at = "try"
             ELSE k = Len(u.cs)
    BY <1>5, <1>6 DEF CFunOK
  <2>2. Protects(F[g[k].b + 1]) /\ ~F[g[k].b + 1].ypcall
    BY <1>5
  <2>3. QED
    BY <1>5, <2>1, <2>2
<1>8. CASE k < i
  <2>1. k + 1 \in 1 .. n /\ k + 1 \in k .. i /\ (k + 1 = i \/ k + 1 < i)
    BY <1>3, <1>6, <1>8, <1>2
  <2>2. u.cs[k + 1].t = t
    BY <2>1, <1>3, <1>6, <1>8, Contiguous DEF n
  <2>3. Same(u.cs, k)
    BY <2>1, <2>2, <1>3, <1>6, <1>8 DEF Same, n
  <2>4. g[k + 1].b = j
    BY <2>3, <1>7 DEF End
  <2>5. k + 1 = i \/ g[k + 1].b <= g[i].b
    BY <2>1, <2>2, <1>3, Contiguous DEF n
  <2>6. QED
    BY <2>4, <2>5, <1>4 DEF i
<1>9. CASE k > i
  <2>1. CASE Same(u.cs, k)
    <3>1. k + 1 \in i + 1 .. n
      BY <2>1, <1>3, <1>6, <1>9, <1>2 DEF Same, n
    <3>2. QED
      BY <3>1, <2>1, <1>3, <1>7
  <2>2. CASE ~Same(u.cs, k)
    <3>1. k = n /\ j = Len(F)
      BY <2>2, <1>7, <1>2 DEF n
    <3>2. QED
      BY <3>1, <1>1, <1>5 DEF n
  <2>3. QED
    BY <2>1, <2>2
<1>10. k # i
  BY <1>3, <1>5
<1>11. QED
  BY <1>8, <1>9, <1>10, <1>3, <1>6

(* An error that a protected call catches is for the innermost one.        *)
LEMMA Aimed1 ==
  ASSUME NEW u, NEW g, Inv(u, g), NEW t, MayThrow(u, t), u.cs[LastTry(u, t)].why # "resume"
  PROVE  Innermost(u, t) = u.cs[LastTry(u, t)].level
<1> DEFINE i == LastTry(u, t)
           e == u.cs[i]
           F == u.th[t].ci
           P == {j \in DOMAIN F : Protects(F[j])}
<1>1. /\ i \in 1 .. Len(u.cs) /\ e.at = "try" /\ e.t = t /\ t \in Thr
      /\ Local(u.th, u.cs, g, i) /\ Global(u.th, u.cs, g, t) /\ u.th[t] \in Thread
      /\ e \in Activation
  <2>1. i \in 1 .. Len(u.cs) /\ e.at = "try" /\ e.t = t
    BY LastTryIs DEF MayThrow
  <2>2. t \in Thr
    BY <2>1, InvFacts
  <2>3. QED
    BY <2>1, <2>2, InvFacts
<1>2. F \in Seq(Frame) /\ Len(F) \in Nat /\ DOMAIN F = 1 .. Len(F)
  <2>1. F \in Seq(Frame) /\ Len(F) \in Nat
    BY <1>1, ThreadType
  <2>2. QED
    BY <2>1
<1> HIDE DEF F
<1>3. /\ g[i].b = e.level /\ e.level \in Nat /\ (e.level > 0 => Protects(F[e.level]))
      /\ e.level <= Len(F)
  <2>1. TryOK(u.th, u.cs, g, i)
    BY <1>1 DEF Local, Serves
  <2>2. i \in Of(u.cs, t)
    BY <1>1 DEF Of
  <2>3. Fr(u.th, u.cs, i) = F
    BY <1>1 DEF Fr, F
  <2>4. g[i].b = e.level /\ (e.level > 0 => Protects(F[e.level]))
    BY <1>1, <2>1, <2>3 DEF TryOK
  <2>5. g[i].b <= Len(F)
    BY <1>1, <2>2 DEF Global, Nested, F
  <2>6. e.level \in Nat
    BY <1>1, ActivationType
  <2>7. QED
    BY <2>4, <2>5, <2>6
<1>4. ASSUME NEW j \in P
      PROVE  j <= e.level
  <2>1. j \in 1 .. Len(F) /\ Protects(F[j])
    BY <1>2
  <2>2. CASE F[j].ypcall
    <3>1. i \in Of(u.cs, t)
      BY <1>1 DEF Of
    <3>2. Ordered(u.th, u.cs, t)
      BY <1>1 DEF Global
    <3>3. j < e.level
      BY <3>1, <3>2, <2>1, <2>2, <1>1 DEF Ordered, F
    <3>4. QED
      BY <3>3, <2>1, <1>3
  <2>3. CASE ~F[j].ypcall
    BY <2>1, <2>3, <1>3, ProtectsAbove DEF F
  <2>4. QED
    BY <2>2, <2>3
<1>5. Innermost(u, t) = Max({0} \cup P)
  BY DEF Innermost, CI, F
<1>6. {0} \cup P \in SUBSET (0 .. Len(F)) /\ e.level \in {0} \cup P
  BY <1>2, <1>3
<1>7. \A x \in {0} \cup P : x <= e.level
  BY <1>3, <1>4
<1> HIDE DEF P, e
<1> DEFINE T == {0} \cup P
<1>8. T \in SUBSET (0 .. Len(F)) /\ e.level \in T /\ \A x \in T : x <= e.level
  BY <1>6, <1>7
<1> HIDE DEF T
<1>9. Max(T) = e.level
  BY <1>2, <1>8, MaxIs
<1>10. QED
  BY <1>5, <1>9 DEF T, e

(* An error that a resume catches is for the call that precover finds.     *)
LEMMA Aimed2 ==
  ASSUME NEW u, NEW g, Inv(u, g), NEW t, MayThrow(u, t), u.cs[LastTry(u, t)].why = "resume"
  PROVE  Innermost(u, t) = FindPCall(u, t)
<1> DEFINE i == LastTry(u, t)
           F == u.th[t].ci
<1>1. /\ i \in 1 .. Len(u.cs) /\ u.cs[i].at = "try" /\ u.cs[i].t = t /\ t \in Thr
      /\ Local(u.th, u.cs, g, i) /\ Global(u.th, u.cs, g, t) /\ u.th[t] \in Thread
      /\ u.cs[i] \in Activation
  <2>1. i \in 1 .. Len(u.cs) /\ u.cs[i].at = "try" /\ u.cs[i].t = t
    BY LastTryIs DEF MayThrow
  <2>2. t \in Thr
    BY <2>1, InvFacts
  <2>3. QED
    BY <2>1, <2>2, InvFacts
<1>2. DOMAIN F = 1 .. Len(F)
  <2>1. F \in Seq(Frame)
    BY <1>1, ThreadType
  <2>2. QED
    BY <2>1
<1>3. g[i].b = 0
  <2>1. TryOK(u.th, u.cs, g, i)
    BY <1>1 DEF Local, Serves
  <2>2. ~(u.cs[i].level > 0) /\ g[i].b = u.cs[i].level
    BY <1>1, <2>1 DEF TryOK
  <2>3. u.cs[i].level \in Nat
    BY <1>1, ActivationType
  <2>4. QED
    BY <2>2, <2>3
<1>4. \A j \in DOMAIN F : Protects(F[j]) <=> F[j].ypcall
  <2>1. \A j \in 1 .. Len(F) : F[j].ypcall => Protects(F[j])
    BY <1>1 DEF Global, FramesOK
  <2>2. \A j \in 1 .. Len(F) : Protects(F[j]) /\ ~F[j].ypcall => j <= 0
    BY <1>3, ProtectsAbove
  <2>3. QED
    BY <2>1, <2>2, <1>2
<1>5. {j \in DOMAIN F : Protects(F[j])} = {j \in DOMAIN F : F[j].ypcall}
  BY <1>4
<1>6. QED
  BY <1>5 DEF Innermost, FindPCall, CI

-----------------------------------------------------------------------------
(* The fields of a protection.                                             *)
LEMMA TryIs ==
  ASSUME NEW u \in State, NEW t \in Thr, NEW why \in {"resume", "pcall", "closep"},
         NEW level \in Nat, NEW slot \in Nat, NEW status \in Status
  PROVE  LET e == Try(u, t, why, level, slot, status)
         IN /\ e \in Activation /\ e.at = "try" /\ e.t = t /\ e.why = why
            /\ e.level = level /\ e.slot = slot /\ e.status = status
            /\ e.inc = (IF why = "resume" THEN 1 ELSE 0) /\ e.ny = 0
            /\ e.ccalls = u.th[t].ccalls /\ e.nny = u.th[t].nny
<1>1. u.th[t].ccalls \in Nat /\ u.th[t].nny \in Nat
  BY StateType, ThreadType
<1>2. QED
  BY <1>1 DEF Try, Activation

(* The fields of an activation of unroll.                                  *)
LEMMA UnrollIs ==
  ASSUME NEW t \in Thr
  PROVE  LET e == Unroll(t)
         IN e \in Activation /\ e.at = "unroll" /\ e.t = t /\ e.inc = 0 /\ e.ny = 0
BY DEF Unroll, Activation

(* Two activations are pushed.                                             *)
LEMMA PushTwo ==
  ASSUME NEW u \in State, NEW a \in Activation, NEW b \in Activation
  PROVE  LET v == Push(Push(u, a), b)
             n == Len(u.cs)
         IN /\ v \in State /\ v.th = u.th /\ v.wrong = u.wrong
            /\ Len(v.cs) = n + 2 /\ \A k \in 1 .. n : v.cs[k] = u.cs[k]
            /\ v.cs[n + 1] = a /\ v.cs[n + 2] = b
<1> DEFINE v == Push(u, a)
           w == Push(v, b)
           n == Len(u.cs)
<1>1. v \in State /\ v.th = u.th /\ v.wrong = u.wrong /\ v.cs = Append(u.cs, a)
  BY PushFields
<1> HIDE DEF v
<1>2. w \in State /\ w.th = v.th /\ w.wrong = v.wrong /\ w.cs = Append(v.cs, b)
  BY <1>1, PushFields
<1> HIDE DEF w
<1>3. n \in Nat /\ u.cs \in Seq(Activation)
  BY StateType
<1>4. /\ v.cs \in Seq(Activation) /\ Len(v.cs) = n + 1 /\ \A k \in 1 .. n : v.cs[k] = u.cs[k]
      /\ v.cs[n + 1] = a
  BY <1>1, <1>3, SeqAppend
<1>5. /\ Len(w.cs) = n + 2 /\ \A k \in 1 .. n + 1 : w.cs[k] = v.cs[k]
      /\ w.cs[n + 2] = b
  <2>1. /\ Len(w.cs) = (n + 1) + 1 /\ \A k \in 1 .. n + 1 : w.cs[k] = v.cs[k]
        /\ w.cs[(n + 1) + 1] = b
    BY <1>2, <1>4, SeqAppend
  <2>2. (n + 1) + 1 = n + 2
    BY <1>3
  <2>3. QED
    BY <2>1, <2>2
<1>6. n + 1 \in 1 .. n + 1 /\ \A k \in 1 .. n : k \in 1 .. n + 1
  BY <1>3
<1>7. QED
  BY <1>1, <1>2, <1>4, <1>5, <1>6 DEF v, w

(* The first m of g, then a and b.                                         *)
GoesOn(g2, g, m, a, b) ==
  /\ Len(g2) = m + 2 /\ \A k \in 1 .. m : g2[k] = g[k]
  /\ g2[m + 1] = a /\ g2[m + 2] = b

(* The ghost of the first m activations and two more.                      *)
LEMMA GhostTwo ==
  ASSUME NEW g \in Seq(Ghost), NEW m \in 0 .. Len(g), NEW a \in Ghost, NEW b \in Ghost
  PROVE  \E g2 \in Seq(Ghost) : GoesOn(g2, g, m, a, b)
<1> DEFINE q == SubSeq(g, 1, m)
           q1 == Append(q, a)
           q2 == Append(q1, b)
<1>1. q \in Seq(Ghost) /\ Len(q) = m /\ \A k \in 1 .. m : q[k] = g[k]
  BY SeqCut
<1> HIDE DEF q
<1>2. /\ q1 \in Seq(Ghost) /\ Len(q1) = m + 1 /\ \A k \in 1 .. m : q1[k] = q[k]
      /\ q1[m + 1] = a
  BY <1>1, SeqAppend
<1> HIDE DEF q1
<1>3. /\ q2 \in Seq(Ghost) /\ Len(q2) = (m + 1) + 1 /\ \A k \in 1 .. m + 1 : q2[k] = q1[k]
      /\ q2[(m + 1) + 1] = b
  BY <1>2, SeqAppend
<1> HIDE DEF q2
<1>4. (m + 1) + 1 = m + 2 /\ m + 1 \in 1 .. m + 1 /\ \A k \in 1 .. m : k \in 1 .. m + 1
  <2>1. m \in Nat
    OBVIOUS
  <2>2. QED
    BY <2>1
<1>5. /\ q2 \in Seq(Ghost) /\ Len(q2) = m + 2 /\ \A k \in 1 .. m : q2[k] = g[k]
      /\ q2[m + 1] = a /\ q2[m + 2] = b
  BY <1>1, <1>2, <1>3, <1>4
<1>6. QED
  BY <1>5 DEF GoesOn

-----------------------------------------------------------------------------
(* Frame by frame, what the first m activations serve of t.                *)
BackedBelow(cs, F, g, t, m) ==
  \A i \in 1 .. Len(F) :
    /\ F[i].kind \in CKinds \ {"yield"} =>
         F[i].ypcall \/ \E k \in 1 .. m : cs[k].t = t /\ cs[k].at = "cfun" /\ g[k].b + 1 = i
    /\ F[i].kind = "yield" => \E k \in 1 .. m : cs[k].t = t /\ cs[k].at \in Msgs /\ g[k].b = i

(* A C function m got a new protection e, for a frame of its own or for    *)
(* another thread, and above it the activation a.                          *)
Lands(u, u2, g, t, m, e, a) ==
  LET F == u.th[t].ci
      F2 == u2.th[t].ci
      l == e.level
  IN /\ u2 \in State /\ ~u2.wrong /\ t \in Thr /\ m \in 1 .. Len(u.cs) /\ u.cs[m].at = "cfun"
     /\ Len(u2.cs) = m + 2 /\ \A k \in 1 .. m : u2.cs[k] = u.cs[k]
     /\ u2.cs[m + 1] = e /\ u2.cs[m + 2] = a
     /\ \A k \in m + 1 .. Len(u.cs) : u.cs[k].t = t
     /\ \A x \in Thr : x # t => u2.th[x] = u.th[x]
     /\ e \in Activation /\ a \in Activation /\ e.at = "try" /\ e.t = t /\ a.t = t
     /\ a.inc = 0 /\ a.ny = 0 /\ e.ny = 0 /\ e.inc = (IF e.why = "resume" THEN 1 ELSE 0)
     /\ e.ccalls = e.inc + g[m].p /\ e.ccalls < ErrCCalls
     /\ e.nny = (IF l = 0 THEN 0 ELSE g[m].q)
     /\ u2.th[t].ccalls = e.ccalls /\ u2.th[t].nny = e.nny
     /\ u2.th[t].status = "ok" /\ ~u2.th[t].fn
     /\ l <= Len(F2)
     /\ \/ /\ l = 0 /\ \A k \in 1 .. m : u.cs[k].t # t
           /\ ~Protects(Fr(u.th, u.cs, m)[Len(Fr(u.th, u.cs, m))])
        \/ /\ l > 0 /\ e.why = "closep" /\ u.cs[m].t = t /\ g[m].b + 1 = l
           /\ \A i \in 1 .. l - 1 : F2[i] = F[i]
           /\ F2[l].kind = F[l].kind /\ Protects(F2[l]) /\ ~F2[l].ypcall /\ F2[l].hit
           /\ l <= Len(F)
     /\ \/ /\ e.why = "closep" /\ a.at = "close" /\ a.why = "closep"
           /\ a.slot = e.slot /\ ~a.yy /\ Len(F2) = l
           /\ e.slot = IF l = 0 THEN 1 ELSE F2[l].base + 1
           /\ l > 0 => ErrorStatus(e.status)
        \/ e.why = "resume" /\ a.at = "unroll" /\ l = 0
     /\ BackedBelow(u.cs, F2, g, t, m)

(* Then the invariant holds: a jump landed in m and went on from there.    *)
LEMMA LandOK ==
  ASSUME NEW u, NEW g, Inv(u, g), NEW u2, NEW t, NEW m, NEW e, NEW a, Lands(u, u2, g, t, m, e, a),
         FramesOK(u2.th[t].ci), Ordered(u2.th, u2.cs, t), Owned(u2.th, u2.cs, t)
  PROVE  \E g2 : Inv(u2, g2)
<1> DEFINE F == u.th[t].ci
           F2 == u2.th[t].ci
           l == e.level
           r1 == [p |-> e.ccalls, q |-> e.nny, b |-> l]
           r2 == [p |-> e.ccalls, q |-> e.nny, b |-> l]
<1>1. /\ u2 \in State /\ ~u2.wrong /\ t \in Thr /\ m \in 1 .. Len(u.cs) /\ u.cs[m].at = "cfun"
      /\ Len(u2.cs) = m + 2 /\ \A k \in 1 .. m : u2.cs[k] = u.cs[k]
      /\ u2.cs[m + 1] = e /\ u2.cs[m + 2] = a
      /\ \A k \in m + 1 .. Len(u.cs) : u.cs[k].t = t
      /\ \A x \in Thr : x # t => u2.th[x] = u.th[x]
  BY DEF Lands
<1>2. /\ e \in Activation /\ a \in Activation /\ e.at = "try" /\ e.t = t /\ a.t = t
      /\ a.inc = 0 /\ a.ny = 0 /\ e.ny = 0 /\ e.inc = (IF e.why = "resume" THEN 1 ELSE 0)
      /\ e.ccalls = e.inc + g[m].p /\ e.ccalls < ErrCCalls
      /\ e.nny = (IF l = 0 THEN 0 ELSE g[m].q)
      /\ u2.th[t].ccalls = e.ccalls /\ u2.th[t].nny = e.nny
      /\ u2.th[t].status = "ok" /\ ~u2.th[t].fn /\ l <= Len(F2)
  BY DEF Lands
<1>3. \/ /\ l = 0 /\ \A k \in 1 .. m : u.cs[k].t # t
         /\ ~Protects(Fr(u.th, u.cs, m)[Len(Fr(u.th, u.cs, m))])
      \/ /\ l > 0 /\ e.why = "closep" /\ u.cs[m].t = t /\ g[m].b + 1 = l
         /\ \A i \in 1 .. l - 1 : F2[i] = F[i]
         /\ F2[l].kind = F[l].kind /\ Protects(F2[l]) /\ ~F2[l].ypcall /\ F2[l].hit
         /\ l <= Len(F)
  BY DEF Lands
<1>4. \/ /\ e.why = "closep" /\ a.at = "close" /\ a.why = "closep"
         /\ a.slot = e.slot /\ ~a.yy /\ Len(F2) = l
         /\ e.slot = IF l = 0 THEN 1 ELSE F2[l].base + 1
         /\ l > 0 => ErrorStatus(e.status)
      \/ e.why = "resume" /\ a.at = "unroll" /\ l = 0
  BY DEF Lands
<1>5. BackedBelow(u.cs, F2, g, t, m)
  BY DEF Lands
<1>6. /\ l \in Nat /\ e.ccalls \in Nat /\ e.nny \in Nat /\ m \in Nat /\ m > 0
      /\ u.cs[m].t \in Thr /\ Len(F2) \in Nat
      /\ g[m].p \in Nat /\ g[m].q \in Nat /\ g[m].b \in Nat
      /\ Len(g) = Len(u.cs) /\ g \in Seq(Ghost) /\ Local(u.th, u.cs, g, m) /\ Len(u.cs) \in Nat
  <2>1. l \in Nat /\ e.ccalls \in Nat /\ e.nny \in Nat
    BY <1>2, ActivationType
  <2>2. Len(F2) \in Nat
    BY <1>1, StateType, ThreadType
  <2>3. /\ u.cs[m].t \in Thr /\ g[m].p \in Nat /\ g[m].q \in Nat /\ g[m].b \in Nat
        /\ Len(g) = Len(u.cs) /\ g \in Seq(Ghost) /\ Local(u.th, u.cs, g, m) /\ Len(u.cs) \in Nat
    BY <1>1, InvFacts
  <2>4. QED
    BY <1>1, <2>1, <2>2, <2>3
<1>29. PICK g2 \in Seq(Ghost) : GoesOn(g2, g, m, r1, r2)
  <2>1. r1 \in Ghost /\ r2 \in Ghost
    BY <1>6 DEF Ghost
  <2>2. m \in 0 .. Len(g)
    BY <1>1, <1>6
  <2>3. g \in Seq(Ghost)
    BY <1>6
  <2> HIDE DEF r1, r2
  <2>4. QED
    BY <2>1, <2>2, <2>3, GhostTwo
<1>7. /\ g2 \in Seq(Ghost) /\ Len(g2) = m + 2 /\ \A k \in 1 .. m : g2[k] = g[k]
      /\ g2[m + 1] = r1 /\ g2[m + 2] = r2
  <2> HIDE DEF r1, r2
  <2>1. QED
    BY <1>29 DEF GoesOn
<1>8. /\ g2[m + 1].p = e.ccalls /\ g2[m + 1].q = e.nny /\ g2[m + 1].b = l
      /\ g2[m + 2].p = e.ccalls /\ g2[m + 2].q = e.nny /\ g2[m + 2].b = l
      /\ g2[m] = g[m] /\ u2.cs[m] = u.cs[m]
      /\ m > 1 => u2.cs[m - 1] = u.cs[m - 1] /\ g2[m - 1] = g[m - 1]
  <2>1. \A r \in {r1, r2} : r.p = e.ccalls /\ r.q = e.nny /\ r.b = l
    OBVIOUS
  <2>2. m \in 1 .. m /\ (m > 1 => m - 1 \in 1 .. m)
    BY <1>6
  <2> HIDE DEF r1, r2, l
  <2>3. QED
    BY <2>1, <2>2, <1>1, <1>7
<1> DEFINE c == u.cs[m]
<1>9. /\ Same(u2.cs, m) <=> c.t = t
      /\ Same(u2.cs, m + 1) /\ ~Same(u2.cs, m + 2)
      /\ Fr(u2.th, u2.cs, m + 1) = F2 /\ Fr(u2.th, u2.cs, m + 2) = F2
      /\ Fr(u2.th, u2.cs, m) = u2.th[c.t].ci
  BY <1>1, <1>2, <1>6, <1>8 DEF Same, Fr
<1>10. /\ End(u2.th, u2.cs, g2, m + 1) = l /\ End(u2.th, u2.cs, g2, m + 2) = Len(F2)
       /\ End(u2.th, u2.cs, g2, m) = IF c.t = t THEN l ELSE Len(u2.th[c.t].ci)
  <2>1. (m + 1) + 1 = m + 2
    BY <1>6
  <2>2. QED
    BY <2>1, <1>8, <1>9 DEF End
<1> HIDE DEF F, F2, l, r1, r2, c
<1>11. CFunOK(u2.th, u2.cs, g2, m)
  <2>1. CFunOK(u.th, u.cs, g, m) /\ c.at = "cfun" /\ u.cs[m] = c
    BY <1>1, <1>6 DEF Local, Serves, c
  <2>2. /\ End(u.th, u.cs, g, m) = g[m].b + 1
        /\ Fr(u.th, u.cs, m)[g[m].b + 1].kind \in CKinds \ {"yield"}
        /\ m > 1 => u.cs[m - 1].at = "exec"
    BY <2>1 DEF CFunOK
  <2>3. CASE l = 0
    <3>1. c.t # t /\ ~Protects(Fr(u.th, u.cs, m)[Len(Fr(u.th, u.cs, m))])
      BY <1>3, <1>6, <2>3 DEF c
    <3>2. u2.th[c.t] = u.th[c.t] /\ Fr(u.th, u.cs, m) = u.th[c.t].ci
      BY <3>1, <1>1, <1>6 DEF c, Fr
    <3>3. ~Same(u.cs, m)
      <4>1. m < Len(u.cs) => u.cs[m + 1].t = t
        BY <1>1, <1>6
      <4>2. QED
        BY <4>1, <3>1 DEF Same, c
    <3>4. End(u.th, u.cs, g, m) = Len(u.th[c.t].ci)
      BY <3>2, <3>3 DEF End
    <3>5. LET f == u.th[c.t].ci[g[m].b + 1]
          IN ~Protects(f) /\ ~f.ypcall /\ ~f.hit
      <4>1. ~Protects(u.th[c.t].ci[g[m].b + 1])
        BY <3>1, <3>2, <3>4, <2>2
      <4>2. FramesOK(u.th[c.t].ci)
        BY <1>6, InvFacts DEF Global, c
      <4>3. g[m].b + 1 \in 1 .. Len(u.th[c.t].ci)
        BY <2>2, <3>4, <1>6
      <4>4. QED
        BY <4>1, <4>2, <4>3 DEF FramesOK
    <3>6. QED
      BY <1>8, <1>9, <1>10, <2>1, <2>2, <3>1, <3>2, <3>4, <3>5 DEF CFunOK
  <2>4. CASE l # 0
    <3>1. /\ l > 0 /\ c.t = t /\ g[m].b + 1 = l /\ F2[l].kind = F[l].kind
          /\ Protects(F2[l]) /\ ~F2[l].ypcall
      BY <1>3, <2>4 DEF c
    <3>2. F[l].kind \in CKinds \ {"yield"}
      BY <2>2, <3>1 DEF Fr, F, c
    <3>3. Same(u2.cs, m) /\ u2.cs[m + 1].at = "try" /\ Fr(u2.th, u2.cs, m) = F2
      BY <1>1, <1>2, <1>9, <3>1 DEF F2
    <3>4. QED
      BY <1>8, <1>10, <2>1, <2>2, <3>1, <3>2, <3>3 DEF CFunOK
  <2>5. QED
    BY <2>3, <2>4
<1>12. Serves(u2.th, u2.cs, g2, m)
  BY <1>1, <1>8, <1>11 DEF Serves, ExecOK, TryOK, CloseOK, MsgOK, Msgs, UnrollOK
<1>13. (m + 1) - 1 = m /\ m + 1 > 1 /\ m + 1 # 1 /\ (m + 2) - 1 = m + 1 /\ m + 2 > 1 /\ m + 2 # 1
  BY <1>6, SMTT(20)
<1>14. c.t = t <=> l > 0
  BY <1>3, <1>6 DEF c
<1>15. Local(u2.th, u2.cs, g2, m + 1)
  <2>1. Counted(u2.th, u2.cs, g2, m + 1)
    <3>1. g2[m + 1].q = e.ny + IF c.t # t THEN 0 ELSE g[m].q
      BY <1>2, <1>3, <1>6, <1>8, <1>14 DEF l
    <3>2. g2[m + 1].p = e.inc + g[m].p
      BY <1>2, <1>8
    <3>3. QED
      BY <1>1, <1>2, <1>8, <1>9, <1>13, <3>1, <3>2 DEF Counted, c
  <2>2. FirstOK(u2.th, u2.cs, g2, m + 1)
    BY <1>1, <1>2, <1>3, <1>4, <1>6, <1>8, <1>13, <1>14 DEF FirstOK, c, l
  <2>3. TryOK(u2.th, u2.cs, g2, m + 1)
    <3>1. l > 0 => Protects(F2[l]) /\ ~F2[l].ypcall /\ F2[l].hit
      BY <1>3, <1>6
    <3>2. e.why = "resume" => c.t # t
      BY <1>3, <1>4, <1>14
    <3>3. e.why # "pcall"
      BY <1>4
    <3>4. e.why = "closep" =>
             /\ e.slot = IF l = 0 THEN 1 ELSE F2[l].base + 1
             /\ l > 0 => ErrorStatus(e.status)
      BY <1>4
    <3>5. e.why # "resume" => e.why = "closep"
      BY <1>4
    <3>6. QED
      BY <1>1, <1>2, <1>8, <1>9, <1>10, <1>13, <1>14, <3>1, <3>2, <3>3, <3>4, <3>5 DEF TryOK, c, l
  <2>4. Serves(u2.th, u2.cs, g2, m + 1)
    BY <1>1, <1>2, <2>3 DEF Serves, ExecOK, CFunOK, CloseOK, MsgOK, Msgs, UnrollOK
  <2>5. QED
    BY <2>1, <2>2, <2>4 DEF Local
<1>16. Local(u2.th, u2.cs, g2, m + 2)
  <2>1. Counted(u2.th, u2.cs, g2, m + 2)
    <3>1. a.at # "try"
      BY <1>4
    <3>2. e.ccalls = a.inc + e.ccalls /\ e.nny = a.ny + e.nny
      BY <1>2, <1>6
    <3>3. u2.cs[(m + 2) - 1].t = u2.cs[m + 2].t /\ u2.cs[m + 2].t = t
      BY <1>1, <1>2, <1>13
    <3>4. g2[(m + 2) - 1] = g2[m + 1]
      BY <1>13
    <3>5. u2.th[t].ccalls = e.ccalls /\ u2.th[t].nny = e.nny /\ e.ccalls < ErrCCalls
      BY <1>2
    <3>6. QED
      BY <1>1, <1>8, <1>13, <3>1, <3>2, <3>3, <3>4, <3>5 DEF Counted
  <2>2. FirstOK(u2.th, u2.cs, g2, m + 2)
    BY <1>1, <1>2, <1>13 DEF FirstOK
  <2>3. CASE a.at = "close"
    <3>1. /\ e.why = "closep" /\ a.why = "closep" /\ a.slot = e.slot /\ ~a.yy /\ Len(F2) = l
      BY <2>3, <1>4
    <3>2. CloseOK(u2.th, u2.cs, g2, m + 2)
      BY <3>1, <1>1, <1>2, <1>8, <1>10, <1>13 DEF CloseOK
    <3>3. Serves(u2.th, u2.cs, g2, m + 2)
      BY <1>1, <2>3, <3>2 DEF Serves, ExecOK, CFunOK, TryOK, MsgOK, Msgs, UnrollOK
    <3>4. QED
      BY <2>1, <2>2, <3>3 DEF Local
  <2>4. CASE a.at = "unroll"
    <3>1. e.why = "resume" /\ l = 0
      BY <2>4, <1>4
    <3>2. UnrollOK(u2.th, u2.cs, g2, m + 2)
      BY <3>1, <1>1, <1>2, <1>8, <1>13 DEF UnrollOK
    <3>3. Serves(u2.th, u2.cs, g2, m + 2)
      BY <1>1, <2>4, <3>2 DEF Serves, ExecOK, CFunOK, TryOK, CloseOK, MsgOK, Msgs
    <3>4. QED
      BY <2>1, <2>2, <3>3 DEF Local
  <2>5. QED
    BY <2>3, <2>4, <1>4
<1>17. \A k \in m + 1 .. m + 2 : k = m + 1 \/ k = m + 2
  <2>1. m \in Nat
    BY <1>6
  <2>2. QED
    BY <2>1
<1>18. Backed(u2.th, u2.cs, g2, t)
  <2>1. \A k \in 1 .. m : u.cs[k].t = t => k \in Of(u2.cs, t) /\ u2.cs[k] = u.cs[k] /\ g2[k] = g[k]
    BY <1>1, <1>6, <1>7 DEF Of
  <2>2. QED
    BY <2>1, <1>5 DEF BackedBelow, Backed, F2
<1>19. StatusOK(u2.th, u2.cs, t)
  <2>1. m + 1 \in Of(u2.cs, t)
    BY <1>1, <1>2, <1>6 DEF Of
  <2>2. QED
    BY <2>1, <1>2 DEF StatusOK
<1>20. Adds(u, u2, g, g2, t, m)
  <2>1. m \in 0 .. Len(u.cs) /\ m < Len(u2.cs)
    BY <1>1, <1>6
  <2>2. \A k \in m + 1 .. Len(u2.cs) : u2.cs[k].t = t /\ g2[k].b <= Len(F2)
    BY <1>1, <1>2, <1>8, <1>17
  <2>3. \A j, k \in m + 1 .. Len(u2.cs) : j < k => g2[j].b <= g2[k].b /\ g2[j].q <= g2[k].q
    BY <1>1, <1>6, <1>8, <1>17, SMTT(20)
  <2>4. \/ \A k \in 1 .. m : u.cs[k].t # t
        \/ /\ m > 0 /\ u.cs[m].t = t
           /\ g[m].b <= Len(F2)
           /\ \A k \in m + 1 .. Len(u2.cs) : g[m].b <= g2[k].b /\ g[m].q <= g2[k].q
           /\ \A i \in 1 .. g[m].b : F2[i] = F[i]
           /\ m = 1 => F2[1].kind = "pcall" /\ ~F2[1].ypcall
    <3>1. CASE l = 0
      BY <3>1, <1>3
    <3>2. CASE l # 0
      <4>1. /\ l > 0 /\ u.cs[m].t = t /\ g[m].b + 1 = l
            /\ \A i \in 1 .. l - 1 : F2[i] = F[i]
            /\ F2[l].kind = F[l].kind /\ ~F2[l].ypcall
        BY <3>2, <1>3
      <4>2. e.nny = g[m].q
        BY <1>2, <3>2 DEF l
      <4>3. g[m].b <= Len(F2) /\ g[m].b <= l
        BY <4>1, <1>2, <1>6, SMTT(20) DEF l, F2
      <4>4. \A k \in m + 1 .. Len(u2.cs) : g[m].b <= g2[k].b /\ g[m].q <= g2[k].q
        <5>1. g[m].b <= g2[m + 1].b /\ g[m].q <= g2[m + 1].q
          BY <4>2, <4>3, <1>6, <1>8
        <5>2. g[m].b <= g2[m + 2].b /\ g[m].q <= g2[m + 2].q
          BY <4>2, <4>3, <1>6, <1>8
        <5>3. QED
          BY <5>1, <5>2, <1>1, <1>17
      <4>5. \A i \in 1 .. g[m].b : F2[i] = F[i]
        BY <4>1, <1>6
      <4>6. m = 1 => F2[1].kind = "pcall" /\ ~F2[1].ypcall
        <5>1. SUFFICES ASSUME m = 1 PROVE F2[1].kind = "pcall" /\ ~F2[1].ypcall
          OBVIOUS
        <5>2. g[m].b = 0 /\ F[1].kind = "pcall"
          BY <5>1, <1>6, <4>1 DEF Local, FirstOK, Fr, F
        <5>3. l = 1
          BY <5>2, <4>1
        <5>4. QED
          BY <5>2, <5>3, <4>1
      <4>7. QED
        BY <4>1, <4>3, <4>4, <4>5, <4>6, <1>6
    <3>3. QED
      BY <3>1, <3>2
  <2>5. QED
    BY <1>1, <1>7, <2>1, <2>2, <2>3, <2>4 DEF Adds, F, F2
<1>21. \A k \in m + 1 .. Len(u2.cs) : Local(u2.th, u2.cs, g2, k)
  BY <1>1, <1>15, <1>16, <1>17
<1>22. Inv(u2, g2)
  BY <1>12, <1>18, <1>19, <1>20, <1>21, AddOK DEF F2
<1>23. QED
  BY <1>22

-----------------------------------------------------------------------------
(* The C stack was cut to m, a C function; nothing else is known of t.     *)
Jumped(u, w, t, m) ==
  /\ w \in State /\ ~w.wrong /\ t \in Thr /\ m \in 1 .. Len(u.cs) /\ u.cs[m].at = "cfun"
  /\ Len(w.cs) = m /\ \A k \in 1 .. m : w.cs[k] = u.cs[k]
  /\ \A k \in m + 1 .. Len(u.cs) : u.cs[k].t = t
  /\ \A x \in Thr : x # t => w.th[x] = u.th[x]
  /\ w.th[t].tbc = u.th[t].tbc

(* The error is for the protected call at level l of t, or for t itself.   *)
Catches(u, w, g, t, m, l) ==
  LET F == u.th[t].ci
      F1 == w.th[t].ci
  IN /\ l \in 0 .. Len(F) /\ Len(F1) = Len(F)
     /\ w.th[t].status = "ok" /\ ~w.th[t].fn /\ w.th[t].ccalls = g[m].p
     /\ w.th[t].nny = (IF l = 0 THEN 0 ELSE g[m].q)
     /\ \/ /\ l = 0 /\ \A k \in 1 .. m : u.cs[k].t # t
           /\ ~Protects(Fr(u.th, u.cs, m)[Len(Fr(u.th, u.cs, m))])
        \/ /\ l > 0 /\ u.cs[m].t = t /\ g[m].b + 1 = l /\ Protects(F[l]) /\ ~F[l].ypcall
           /\ u.th[t].status = "ok"
           /\ \A i \in 1 .. l - 1 : F1[i] = F[i]
           /\ F1[l] = [F[l] EXCEPT !.hit = TRUE]
           /\ \A k \in m + 1 .. Len(u.cs) :
                g[k].b >= l /\ (u.cs[k].at = "close" /\ u.cs[k].why = "closep" => u.cs[k].slot # 1)

(* ilyaD_closeprotected begins to close the variables above l.             *)
LEMMA CloseProtectedOK ==
  ASSUME NEW u, NEW g, Inv(u, g), NEW w, NEW t, NEW m, Jumped(u, w, t, m),
         NEW l, Catches(u, w, g, t, m, l),
         NEW slot, slot = IF l = 0 THEN 1 ELSE u.th[t].ci[l].base + 1,
         NEW st \in Status, l > 0 => ErrorStatus(st)
  PROVE  \E g2 : Inv(CloseProtected(w, t, l, slot, st), g2)
<1> DEFINE F == u.th[t].ci
           F1 == w.th[t].ci
           v == CutFrames(w, t, l)
           e == Try(w, t, "closep", l, slot, st)
           a == Close(t, slot, FALSE, "closep")
           u2 == Push(Push(v, e), a)
           F2 == u2.th[t].ci
<1>1. /\ w \in State /\ ~w.wrong /\ t \in Thr /\ m \in 1 .. Len(u.cs) /\ u.cs[m].at = "cfun"
      /\ Len(w.cs) = m /\ \A k \in 1 .. m : w.cs[k] = u.cs[k]
      /\ \A k \in m + 1 .. Len(u.cs) : u.cs[k].t = t
      /\ \A x \in Thr : x # t => w.th[x] = u.th[x]
      /\ w.th[t].tbc = u.th[t].tbc
  BY DEF Jumped
<1>2. /\ l \in 0 .. Len(F) /\ Len(F1) = Len(F)
      /\ w.th[t].status = "ok" /\ ~w.th[t].fn /\ w.th[t].ccalls = g[m].p
      /\ w.th[t].nny = (IF l = 0 THEN 0 ELSE g[m].q)
  BY DEF Catches
<1>3. \/ /\ l = 0 /\ \A k \in 1 .. m : u.cs[k].t # t
         /\ ~Protects(Fr(u.th, u.cs, m)[Len(Fr(u.th, u.cs, m))])
      \/ /\ l > 0 /\ u.cs[m].t = t /\ g[m].b + 1 = l /\ Protects(F[l]) /\ ~F[l].ypcall
         /\ u.th[t].status = "ok"
         /\ \A i \in 1 .. l - 1 : F1[i] = F[i]
         /\ F1[l] = [F[l] EXCEPT !.hit = TRUE]
         /\ \A k \in m + 1 .. Len(u.cs) :
              g[k].b >= l /\ (u.cs[k].at = "close" /\ u.cs[k].why = "closep" => u.cs[k].slot # 1)
  BY DEF Catches
<1>4. /\ Global(u.th, u.cs, g, t) /\ Local(u.th, u.cs, g, m) /\ u.th[t] \in Thread
      /\ g[m].p \in Nat /\ g[m].q \in Nat /\ g[m].b \in Nat /\ Len(u.cs) \in Nat
  BY <1>1, InvFacts
<1>5. /\ F \in Seq(Frame) /\ Len(F) \in Nat /\ \A i \in 1 .. Len(F) : F[i] \in Frame /\ F[i].base \in Nat
      /\ l \in Nat /\ m \in Nat /\ m > 0 /\ slot \in Nat
  <2>1. /\ F \in Seq(Frame) /\ Len(F) \in Nat
        /\ \A i \in 1 .. Len(F) : F[i] \in Frame /\ F[i].base \in Nat
    BY <1>4, ThreadType
  <2>2. l \in Nat /\ m \in Nat /\ m > 0 /\ (l # 0 => l \in 1 .. Len(F))
    BY <2>1, <1>1, <1>2, <1>4
  <2>3. QED
    BY <2>1, <2>2
<1>6. OnlyFrames(w, v, t) /\ Len(v.th[t].ci) = l /\ \A i \in 1 .. l : v.th[t].ci[i] = F1[i]
  <2>1. l \in 0 .. Len(w.th[t].ci)
    BY <1>2
  <2>2. QED
    BY <1>1, <2>1, CutFramesIs
<1>7. /\ e \in Activation /\ e.at = "try" /\ e.t = t /\ e.why = "closep"
      /\ e.level = l /\ e.slot = slot /\ e.status = st /\ e.inc = 0 /\ e.ny = 0
      /\ e.ccalls = w.th[t].ccalls /\ e.nny = w.th[t].nny
  <2>1. w \in State /\ t \in Thr /\ l \in Nat /\ slot \in Nat /\ "closep" # "resume"
    BY <1>1, <1>5
  <2> HIDE DEF u2, a, v, F, F1
  <2>2. QED
    BY <2>1, TryIs
<1>8. /\ a \in Activation /\ a.at = "close" /\ a.t = t /\ a.why = "closep"
      /\ a.slot = slot /\ ~a.yy /\ a.inc = 0 /\ a.ny = 0
  <2>1. t \in Thr /\ slot \in Nat
    BY <1>1, <1>5
  <2> HIDE DEF u2, e, v, F, F1
  <2>2. QED
    BY <2>1 DEF a, Close, Activation
<1> HIDE DEF v, e, a
<1>9. /\ u2 \in State /\ u2.th = v.th /\ u2.wrong = v.wrong /\ Len(u2.cs) = m + 2
      /\ \A k \in 1 .. m : u2.cs[k] = u.cs[k] /\ u2.cs[m + 1] = e /\ u2.cs[m + 2] = a
  <2>1. v \in State /\ v.cs = w.cs
    BY <1>6 DEF OnlyFrames
  <2>2. e \in Activation /\ a \in Activation
    BY <1>7, <1>8
  <2>3. /\ u2 \in State /\ u2.th = v.th /\ u2.wrong = v.wrong
        /\ Len(u2.cs) = Len(v.cs) + 2 /\ \A k \in 1 .. Len(v.cs) : u2.cs[k] = v.cs[k]
        /\ u2.cs[Len(v.cs) + 1] = e /\ u2.cs[Len(v.cs) + 2] = a
    BY <2>1, <2>2, PushTwo
  <2> HIDE DEF u2
  <2>4. QED
    BY <2>1, <2>3, <1>1
<1>10. u2.cs[m + 1] = e /\ u2.cs[m + 2] = a
  <2>1. 1 \in 1 .. m
    BY <1>5
  <2>2. QED
    BY <2>1, <1>9
<1> HIDE DEF u2, F, F1
<1>11. /\ Len(F2) = l
       /\ \A i \in 1 .. l : F2[i] = F1[i]
  BY <1>6, <1>9
<1>12. /\ \A x \in Thr : x # t => u2.th[x] = u.th[x]
       /\ u2.th[t].tbc = u.th[t].tbc /\ u2.th[t].status = "ok" /\ ~u2.th[t].fn
       /\ u2.th[t].ccalls = e.ccalls /\ u2.th[t].nny = e.nny /\ ~u2.wrong
  BY <1>1, <1>2, <1>6, <1>7, <1>9 DEF OnlyFrames
<1>13. l > 0 =>
       /\ \A i \in 1 .. l - 1 : F2[i] = F[i]
       /\ F2[l] = [F[l] EXCEPT !.hit = TRUE] /\ l \in 1 .. Len(F) /\ F[l] \in Frame
       /\ Protects(F[l]) /\ ~F[l].ypcall
  BY <1>2, <1>3, <1>5, <1>11
<1>14. l > 0 =>
       /\ \A i \in 1 .. l - 1 : F2[i] = F[i]
       /\ F2[l].kind = F[l].kind /\ F2[l].base = F[l].base /\ F2[l].fresh = F[l].fresh
       /\ F2[l].hit /\ ~F2[l].ypcall /\ Protects(F2[l]) /\ Protects(F[l])
  <2>1. SUFFICES ASSUME l > 0, NEW f, f = F[l], NEW f2, f2 = F2[l]
                 PROVE  /\ f2.kind = f.kind /\ f2.base = f.base /\ f2.fresh = f.fresh
                        /\ f2.hit /\ ~f2.ypcall /\ Protects(f2) /\ Protects(f)
    BY <1>13
  <2>2. f2 = [f EXCEPT !.hit = TRUE] /\ f \in Frame /\ Protects(f) /\ ~f.ypcall
    BY <2>1, <1>13
  <2>3. QED
    BY <2>2 DEF Frame, Protects
<1> HIDE DEF F2
<1>15. Lower(F, F2, l)
  BY <1>2, <1>5, <1>11, <1>14 DEF Lower
<1>16. FramesOK(F) /\ Owned(u.th, u.cs, t) /\ Ordered(u.th, u.cs, t)
  BY <1>4 DEF Global, F
<1>17. FramesOK(F2)
  BY <1>5, <1>15, <1>16, LowerFrames
<1>18. Closing(u.cs, t) => Closing(u2.cs, t)
  <2>1. CASE l = 0
    <3>1. m + 2 \in Of(u2.cs, t)
      BY <1>5, <1>8, <1>9, <1>10 DEF Of
    <3>2. QED
      BY <3>1, <2>1, <1>8, <1>10 DEF Closing
  <2>2. CASE l # 0
    <3>1. SUFFICES ASSUME NEW k \in Of(u.cs, t), u.cs[k].at = "close", u.cs[k].why = "closep",
                          u.cs[k].slot = 1
                   PROVE  Closing(u2.cs, t)
      BY DEF Closing
    <3>2. k \in 1 .. m
      BY <2>2, <3>1, <1>1, <1>3, <1>4 DEF Of
    <3>3. k \in Of(u2.cs, t) /\ u2.cs[k] = u.cs[k]
      BY <3>1, <3>2, <1>5, <1>9 DEF Of
    <3>4. QED
      BY <3>1, <3>3 DEF Closing
  <2>3. QED
    BY <2>1, <2>2
<1>19. Owned(u2.th, u2.cs, t)
  <2>1. l = 0 => Closing(u2.cs, t)
    <3>1. m + 2 \in Of(u2.cs, t)
      BY <1>5, <1>8, <1>9, <1>10 DEF Of
    <3>2. QED
      BY <3>1, <1>8, <1>10 DEF Closing
  <2>2. Heir(F, F2, u.th[t].tbc, l, Closing(u2.cs, t))
    BY <2>1, <1>5, <1>14 DEF Heir
  <2>3. QED
    BY <1>4, <1>12, <1>15, <1>16, <1>18, <2>2, LowerOwned DEF F, F2
<1>20. Ordered(u2.th, u2.cs, t)
  <2>1. SUFFICES ASSUME NEW k \in Of(u2.cs, t), u2.cs[k].at = "try", u2.cs[k].why # "resume",
                        NEW i \in 1 .. l, F2[i].ypcall
                 PROVE  i < u2.cs[k].level
    BY <1>11 DEF Ordered, F2
  <2>2. i \in 1 .. l - 1 /\ F[i].ypcall /\ i \in 1 .. Len(F)
    BY <2>1, <1>2, <1>5, <1>14
  <2>3. k \in 1 .. m \/ k = m + 1 \/ k = m + 2
    BY <1>9, <1>5 DEF Of
  <2>4. CASE k \in 1 .. m
    <3>1. k \in Of(u.cs, t) /\ u2.cs[k] = u.cs[k]
      BY <2>1, <2>4, <1>1, <1>4, <1>9 DEF Of
    <3>2. QED
      BY <3>1, <2>1, <2>2, <1>16 DEF Ordered, F
  <2>5. CASE k = m + 1
    BY <2>2, <2>5, <1>7, <1>10, <1>5
  <2>6. CASE k = m + 2
    BY <2>1, <2>6, <1>8, <1>10
  <2>7. QED
    BY <2>3, <2>4, <2>5, <2>6
<1>21. BackedBelow(u.cs, F2, g, t, m)
  <2>1. SUFFICES ASSUME NEW i \in 1 .. l
                 PROVE  /\ F2[i].kind \in CKinds \ {"yield"} => F2[i].ypcall \/
                             \E k \in 1 .. m : u.cs[k].t = t /\ u.cs[k].at = "cfun" /\ g[k].b + 1 = i
                        /\ F2[i].kind = "yield" =>
                             \E k \in 1 .. m : u.cs[k].t = t /\ u.cs[k].at \in Msgs /\ g[k].b = i
    BY <1>11 DEF BackedBelow
  <2>2. l > 0 /\ u.cs[m].t = t /\ g[m].b + 1 = l
    BY <1>3, <1>5
  <2>3. CASE i = l
    <3>1. m \in 1 .. m
      BY <1>5
    <3>2. F2[i].kind # "yield"
      BY <2>3, <2>2, <1>14 DEF Protects
    <3>3. QED
      BY <2>2, <2>3, <3>1, <3>2, <1>1
  <2>4. CASE i # l
    <3>1. i \in 1 .. l - 1 /\ i \in 1 .. Len(F) /\ F2[i] = F[i]
      BY <2>2, <2>4, <1>2, <1>5, <1>14
    <3>2. /\ F[i].kind \in CKinds \ {"yield"} =>
               F[i].ypcall \/ \E k \in Of(u.cs, t) : u.cs[k].at = "cfun" /\ g[k].b + 1 = i
          /\ F[i].kind = "yield" =>
               \/ u.th[t].status = "yield" /\ i = Len(F)
               \/ \E k \in Of(u.cs, t) : u.cs[k].at \in Msgs /\ g[k].b = i
      <4>1. u.th[t].status = "ok"
        BY <1>3, <2>2
      <4>2. Backed(u.th, u.cs, g, t) /\ ~ErrorStatus(u.th[t].status)
        BY <4>1, <1>4 DEF Global, ErrorStatus
      <4>3. QED
        BY <4>2, <3>1 DEF Backed, F
    <3>3. \A k \in Of(u.cs, t) : g[k].b \in Nat /\ (g[k].b + 1 = i \/ g[k].b = i => k \in 1 .. m /\ u.cs[k].t = t)
      <4>1. SUFFICES ASSUME NEW k \in Of(u.cs, t)
                     PROVE  g[k].b \in Nat /\ (g[k].b + 1 = i \/ g[k].b = i => k \in 1 .. m /\ u.cs[k].t = t)
        OBVIOUS
      <4>2. k \in 1 .. Len(u.cs) /\ u.cs[k].t = t /\ g[k].b \in Nat
        BY InvFacts DEF Of
      <4>3. CASE k \in 1 .. m
        BY <4>2, <4>3
      <4>4. CASE ~(k \in 1 .. m)
        <5>1. k \in m + 1 .. Len(u.cs)
          BY <4>2, <4>4, <1>1, <1>4
        <5>2. g[k].b >= l
          BY <5>1, <2>2, <1>3
        <5>3. QED
          BY <4>2, <5>2, <3>1, <1>5
      <4>5. QED
        BY <4>3, <4>4
    <3>4. u.th[t].status # "yield"
      BY <1>3, <2>2
    <3>5. QED
      BY <3>1, <3>2, <3>3, <3>4
  <2>5. QED
    BY <2>3, <2>4
<1>22. Lands(u, u2, g, t, m, e, a)
  <2>1. e.ccalls = e.inc + g[m].p /\ e.ccalls < ErrCCalls
    BY <1>2, <1>4, <1>7 DEF Local, Counted
  <2>2. e.nny = (IF e.level = 0 THEN 0 ELSE g[m].q)
    BY <1>2, <1>7
  <2>3. \/ /\ l = 0 /\ \A k \in 1 .. m : u.cs[k].t # t
           /\ ~Protects(Fr(u.th, u.cs, m)[Len(Fr(u.th, u.cs, m))])
        \/ /\ l > 0 /\ e.why = "closep" /\ u.cs[m].t = t /\ g[m].b + 1 = l
           /\ \A i \in 1 .. l - 1 : F2[i] = F[i]
           /\ F2[l].kind = F[l].kind /\ Protects(F2[l]) /\ ~F2[l].ypcall /\ F2[l].hit
           /\ l <= Len(F)
    BY <1>3, <1>7, <1>13, <1>14, <1>5
  <2>4. e.why = "closep" /\ a.at = "close" /\ a.why = "closep"
           /\ a.slot = e.slot /\ ~a.yy /\ Len(F2) = l
           /\ e.slot = (IF l = 0 THEN 1 ELSE F2[l].base + 1)
           /\ (l > 0 => ErrorStatus(e.status))
    <3>1. l # 0 => F2[l].base = F[l].base
      BY <1>14, <1>5
    <3>2. e.slot = (IF l = 0 THEN 1 ELSE F2[l].base + 1)
      BY <3>1, <1>7 DEF F
    <3>3. QED
      BY <3>2, <1>7, <1>8, <1>11
  <2>5. e.level = l /\ l <= Len(F2)
    BY <1>5, <1>7, <1>11
  <2>6. QED
    BY <1>1, <1>7, <1>8, <1>9, <1>10, <1>12, <1>21, <2>1, <2>2, <2>3, <2>4, <2>5 DEF Lands, F, F2
<1>23. \E g2 : Inv(u2, g2)
  BY <1>17, <1>19, <1>20, <1>22, LandOK DEF F2
<1>24. QED
  BY <1>23 DEF CloseProtected, u2, v, e, a

-----------------------------------------------------------------------------
(* unroll goes on with the frames of t.                                    *)
Unrolls(u, w, g, t, m, l) ==
  LET F == u.th[t].ci
      F1 == w.th[t].ci
  IN /\ w.th[t].status = "ok" /\ ~w.th[t].fn
     /\ w.th[t].ccalls = 1 + g[m].p /\ 1 + g[m].p < ErrCCalls /\ w.th[t].nny = 0
     /\ \A k \in 1 .. m : u.cs[k].t # t
     /\ ~Protects(Fr(u.th, u.cs, m)[Len(Fr(u.th, u.cs, m))])
     /\ Lower(F, F1, l) /\ Heir(F, F1, u.th[t].tbc, l, FALSE) /\ ~Closing(u.cs, t)
     /\ \A i \in 1 .. l : F1[i].kind # "yield" /\ (F1[i].kind \in CKinds => F1[i].ypcall)

(* ilya_resume, or precover, calls unroll.                                 *)
LEMMA PushUnrollOK ==
  ASSUME NEW u, NEW g, Inv(u, g), NEW w, NEW t, NEW m, Jumped(u, w, t, m),
         NEW l, Unrolls(u, w, g, t, m, l)
  PROVE  \E g2 : Inv(Push(Push(w, Try(w, t, "resume", 0, 0, "ok")), Unroll(t)), g2)
<1> DEFINE F == u.th[t].ci
           F1 == w.th[t].ci
           e == Try(w, t, "resume", 0, 0, "ok")
           a == Unroll(t)
           u2 == Push(Push(w, e), a)
           F2 == u2.th[t].ci
<1>1. /\ w \in State /\ ~w.wrong /\ t \in Thr /\ m \in 1 .. Len(u.cs) /\ u.cs[m].at = "cfun"
      /\ Len(w.cs) = m /\ \A k \in 1 .. m : w.cs[k] = u.cs[k]
  BY DEF Jumped
<1>2. /\ \A k \in m + 1 .. Len(u.cs) : u.cs[k].t = t
      /\ \A x \in Thr : x # t => w.th[x] = u.th[x]
      /\ w.th[t].tbc = u.th[t].tbc
  BY DEF Jumped
<1>3. /\ w.th[t].status = "ok" /\ ~w.th[t].fn
      /\ w.th[t].ccalls = 1 + g[m].p /\ 1 + g[m].p < ErrCCalls /\ w.th[t].nny = 0
      /\ \A k \in 1 .. m : u.cs[k].t # t
      /\ ~Protects(Fr(u.th, u.cs, m)[Len(Fr(u.th, u.cs, m))])
  BY DEF Unrolls
<1>4. Lower(F, F1, l) /\ Heir(F, F1, u.th[t].tbc, l, FALSE) /\ ~Closing(u.cs, t)
  BY DEF Unrolls
<1>5. \A i \in 1 .. l : F1[i].kind # "yield" /\ (F1[i].kind \in CKinds => F1[i].ypcall)
  BY DEF Unrolls
<1>6. /\ Global(u.th, u.cs, g, t) /\ u.th[t] \in Thread /\ g[m].p \in Nat
      /\ Len(u.cs) \in Nat /\ m \in Nat /\ m > 0
  BY <1>1, InvFacts
<1>7. F \in Seq(Frame) /\ Len(F) \in Nat /\ l \in Nat /\ Len(F1) = l
  <2>1. F \in Seq(Frame) /\ Len(F) \in Nat
    BY <1>6, ThreadType
  <2>2. QED
    BY <2>1, <1>4 DEF Lower
<1>8. /\ e \in Activation /\ e.at = "try" /\ e.t = t /\ e.why = "resume"
      /\ e.level = 0 /\ e.inc = 1 /\ e.ny = 0
      /\ e.ccalls = w.th[t].ccalls /\ e.nny = w.th[t].nny
  <2>1. "ok" \in Status /\ 0 \in Nat /\ w \in State /\ t \in Thr
    BY <1>1 DEF Status
  <2> HIDE DEF u2, a, F, F1
  <2>2. QED
    BY <2>1, TryIs
<1>9. a \in Activation /\ a.at = "unroll" /\ a.t = t /\ a.inc = 0 /\ a.ny = 0
  <2> HIDE DEF u2, e, F, F1
  <2>1. QED
    BY <1>1, UnrollIs
<1> HIDE DEF e, a
<1>10. /\ u2 \in State /\ u2.th = w.th /\ ~u2.wrong /\ Len(u2.cs) = m + 2
       /\ \A k \in 1 .. m : u2.cs[k] = u.cs[k]
  BY <1>1, <1>8, <1>9, PushTwo
<1>11. u2.cs[m + 1] = e /\ u2.cs[m + 2] = a
  BY <1>1, <1>8, <1>9, PushTwo
<1> HIDE DEF u2
<1>12. F2 = F1
  BY <1>10
<1> HIDE DEF F, F1, F2
<1>13. FramesOK(F) /\ Owned(u.th, u.cs, t)
  BY <1>6 DEF Global, F
<1>14. FramesOK(F2)
  BY <1>4, <1>7, <1>12, <1>13, LowerFrames
<1>15. Owned(u2.th, u2.cs, t)
  <2>1. Heir(F, F2, u.th[t].tbc, l, Closing(u2.cs, t))
    BY <1>4, <1>12 DEF Heir
  <2>2. Closing(u.cs, t) => Closing(u2.cs, t)
    BY <1>4
  <2>3. u2.th[t].tbc = u.th[t].tbc
    BY <1>2, <1>10
  <2>4. QED
    BY <1>4, <1>6, <1>12, <1>13, <2>1, <2>2, <2>3, LowerOwned DEF F, F1, F2
<1>16. Ordered(u2.th, u2.cs, t)
  <2>1. \A k \in Of(u2.cs, t) : k = m + 1 \/ k = m + 2
    <3>1. SUFFICES ASSUME NEW k \in Of(u2.cs, t) PROVE k = m + 1 \/ k = m + 2
      OBVIOUS
    <3>2. k \in 1 .. m + 2 /\ u2.cs[k].t = t
      BY <1>10 DEF Of
    <3>3. ~(k \in 1 .. m)
      BY <3>2, <1>3, <1>10
    <3>4. QED
      BY <3>2, <3>3, <1>6
  <2>2. QED
    BY <2>1, <1>8, <1>9, <1>11 DEF Ordered
<1>17. BackedBelow(u.cs, F2, g, t, m)
  BY <1>5, <1>7, <1>12 DEF BackedBelow
<1>18. Lands(u, u2, g, t, m, e, a)
  BY <1>1, <1>2, <1>3, <1>7, <1>8, <1>9, <1>10, <1>11, <1>12, <1>17 DEF Lands, F, F1, F2
<1>19. \E g2 : Inv(u2, g2)
  BY <1>14, <1>15, <1>16, <1>18, LandOK DEF F2
<1>20. QED
  BY <1>19 DEF u2, e, a

-----------------------------------------------------------------------------
(* States with equal parts are equal.                                      *)
LEMMA StateEqual ==
  ASSUME NEW u \in State, NEW v \in State, u.cs = v.cs, u.wrong = v.wrong,
         \A x \in Thr : u.th[x] = v.th[x]
  PROVE  u = v
<1>1. u.th = v.th
  BY DEF State
<1>2. QED
  BY <1>1 DEF State

(* u with other counts of calls for t.                                     *)
Recounted(u, v, t, p, q) ==
  /\ v \in State /\ v.cs = u.cs /\ v.wrong = u.wrong
  /\ \A x \in Thr : x # t => v.th[x] = u.th[x]
  /\ v.th[t].ccalls = p /\ v.th[t].nny = q
  /\ v.th[t].ci = u.th[t].ci /\ v.th[t].tbc = u.th[t].tbc /\ v.th[t].status = u.th[t].status
  /\ v.th[t].fn = u.th[t].fn /\ v.th[t].errfunc = u.th[t].errfunc

(* The counts of calls of a thread are set.                                *)
LEMMA RecountIs ==
  ASSUME NEW u \in State, NEW t \in Thr, NEW p \in Nat, NEW q \in Nat
  PROVE  Recounted(u, [u EXCEPT !.th[t].ccalls = p, !.th[t].nny = q], t, p, q)
<1> DEFINE v == [u EXCEPT !.th[t].ccalls = p, !.th[t].nny = q]
           h == u.th[t]
<1>1. Put(u, v, t, [h EXCEPT !.ccalls = p, !.nny = q])
  BY PutCounts
<1>2. h \in Thread
  BY StateType
<1> HIDE DEF v, h
<1>3. LET k == [h EXCEPT !.ccalls = p, !.nny = q]
      IN /\ k.ccalls = p /\ k.nny = q /\ k.ci = h.ci /\ k.tbc = h.tbc /\ k.status = h.status
         /\ k.fn = h.fn /\ k.errfunc = h.errfunc
  BY <1>2 DEF Thread
<1>4. QED
  BY <1>1, <1>3 DEF Put, Recounted, v, h

(* Threads with equal fields are equal.                                    *)
LEMMA ThreadEqual ==
  ASSUME NEW h \in Thread, NEW k \in Thread,
         h.status = k.status, h.fn = k.fn, h.ci = k.ci, h.tbc = k.tbc,
         h.ccalls = k.ccalls, h.nny = k.nny, h.errfunc = k.errfunc
  PROVE  h = k
BY DEF Thread

(* The state after the jump of Throw.                                      *)
Jump(u, t) ==
  LET i == LastTry(u, t)
      e == u.cs[i]
  IN [u EXCEPT !.cs = SubSeq(@, 1, i - 1), !.th[t].ccalls = e.ccalls, !.th[t].nny = e.nny]

(* Throw jumps, and then does what the protection is for.                  *)
LEMMA ThrowIs ==
  ASSUME NEW u, NEW t, NEW st
  PROVE  Throw(u, t, st) =
           LET e == u.cs[LastTry(u, t)]
               v == Jump(u, t)
           IN IF st = "yield" THEN ResumeDone(v, TRUE)
              ELSE IF e.why = "resume" THEN Precover(Aimed(v, t, FindPCall(v, t)), t, st)
              ELSE CloseProtected(Aimed(v, t, e.level), t, e.level, e.slot, st)
BY DEF Throw, Jump, LastTry

(* The jump cuts the C stack and restores the counts.                      *)
LEMMA JumpIs ==
  ASSUME NEW u \in State, NEW t \in Thr, LastTry(u, t) \in 1 .. Len(u.cs),
         u.cs[LastTry(u, t)].at = "try"
  PROVE  LET v == Jump(u, t)
             i == LastTry(u, t)
             e == u.cs[i]
         IN /\ v \in State /\ v.wrong = u.wrong /\ v.cs \in Seq(Activation)
            /\ Len(v.cs) = i - 1 /\ \A k \in 1 .. i - 1 : v.cs[k] = u.cs[k]
            /\ \A x \in Thr : x # t => v.th[x] = u.th[x]
            /\ v.th[t].ccalls = e.ccalls /\ v.th[t].nny = e.nny
            /\ v.th[t].ci = u.th[t].ci /\ v.th[t].tbc = u.th[t].tbc
            /\ v.th[t].status = u.th[t].status /\ v.th[t].fn = u.th[t].fn
            /\ v.th[t].errfunc = u.th[t].errfunc
<1> DEFINE i == LastTry(u, t)
           e == u.cs[i]
           w == [u EXCEPT !.th[t].ccalls = e.ccalls, !.th[t].nny = e.nny]
           q == SubSeq(u.cs, 1, i - 1)
           v == [w EXCEPT !.cs = q]
<1>1. e.ccalls \in Nat /\ e.nny \in Nat /\ u.cs \in Seq(Activation) /\ Len(u.cs) \in Nat
  BY StateType, ActivationType
<1>2. Recounted(u, w, t, e.ccalls, e.nny)
  BY <1>1, RecountIs
<1>3. q \in Seq(Activation) /\ Len(q) = i - 1 /\ \A k \in 1 .. i - 1 : q[k] = u.cs[k]
  <2>1. i - 1 \in 0 .. Len(u.cs)
    BY <1>1
  <2>2. QED
    BY <1>1, <2>1, SeqCut
<1>4. Jump(u, t) = v
  BY DEF Jump, State
<1> HIDE DEF w, q
<1>5. w \in State
  BY <1>2 DEF Recounted
<1>6. v \in State /\ v.th = w.th /\ v.wrong = w.wrong /\ v.cs = q
  BY <1>3, <1>5 DEF State
<1>7. QED
  BY <1>2, <1>3, <1>4, <1>6 DEF Recounted

(* It makes no difference what the counts were before.                     *)
LEMMA ThrowRecounted ==
  ASSUME NEW u \in State, NEW t \in Thr, NEW x \in Nat, NEW y \in Nat,
         NEW v, Recounted(u, v, t, x, y), LastTry(u, t) \in 1 .. Len(u.cs),
         u.cs[LastTry(u, t)].at = "try", NEW st
  PROVE  Throw(v, t, st) = Throw(u, t, st)
<1>1. v.cs = u.cs /\ v \in State /\ LastTry(v, t) = LastTry(u, t)
  BY DEF Recounted, LastTry
<1>2. Jump(v, t) = Jump(u, t)
  <2> DEFINE a == Jump(v, t)
             b == Jump(u, t)
  <2>1. /\ a \in State /\ b \in State /\ a.wrong = v.wrong /\ b.wrong = u.wrong
        /\ Len(a.cs) = LastTry(u, t) - 1 /\ Len(b.cs) = LastTry(u, t) - 1
        /\ a.cs \in Seq(Activation) /\ b.cs \in Seq(Activation)
        /\ \A k \in 1 .. LastTry(u, t) - 1 : a.cs[k] = v.cs[k] /\ b.cs[k] = u.cs[k]
        /\ \A z \in Thr : z # t => a.th[z] = v.th[z] /\ b.th[z] = u.th[z]
    BY <1>1, JumpIs
  <2>2. LET e == u.cs[LastTry(u, t)] IN
        /\ a.th[t].ccalls = e.ccalls /\ a.th[t].nny = e.nny
        /\ a.th[t].ci = v.th[t].ci /\ a.th[t].tbc = v.th[t].tbc
        /\ a.th[t].status = v.th[t].status /\ a.th[t].fn = v.th[t].fn
        /\ a.th[t].errfunc = v.th[t].errfunc
        /\ b.th[t].ccalls = e.ccalls /\ b.th[t].nny = e.nny
        /\ b.th[t].ci = u.th[t].ci /\ b.th[t].tbc = u.th[t].tbc
        /\ b.th[t].status = u.th[t].status /\ b.th[t].fn = u.th[t].fn
        /\ b.th[t].errfunc = u.th[t].errfunc
    BY <1>1, JumpIs
  <2> HIDE DEF a, b
  <2>3. a.cs = b.cs
    <3>1. Len(a.cs) = Len(b.cs) /\ \A k \in 1 .. Len(a.cs) : a.cs[k] = b.cs[k]
      BY <2>1, <1>1
    <3>2. QED
      BY <2>1, <3>1, SeqSame
  <2>4. a.th[t] = b.th[t]
    <3>1. a.th[t] \in Thread /\ b.th[t] \in Thread
      BY <2>1, StateType
    <3>2. QED
      BY <3>1, <2>2, ThreadEqual DEF Recounted
  <2>5. \A z \in Thr : a.th[z] = b.th[z]
    BY <2>1, <2>4 DEF Recounted
  <2>6. a = b
    BY <2>1, <2>3, <2>5, StateEqual DEF Recounted
  <2>7. QED
    BY <2>6 DEF a, b
<1>3. QED
  BY <1>1, <1>2, ThrowIs

-----------------------------------------------------------------------------
(* Where a jump of t lands: in the C function m below its last protection. *)
LEMMA JumpFacts ==
  ASSUME NEW u, NEW g, Inv(u, g), Len(u.cs) > 1, NEW t, t = Running(u)
  PROVE  LET i == LastTry(u, t)
             m == i - 1
             e == u.cs[i]
             F == u.th[t].ci
             v == Jump(u, t)
         IN /\ i \in 1 .. Len(u.cs) /\ m \in 1 .. Len(u.cs) /\ m < Len(u.cs) /\ m + 1 = i
            /\ e \in Activation /\ e.at = "try" /\ e.t = t /\ t \in Thr
            /\ u.th[t].status = "ok" /\ ~u.th[t].fn
            /\ TryOK(u.th, u.cs, g, i) /\ e.level = g[i].b /\ e.level \in 0 .. Len(F)
            /\ Jumped(u, v, t, m) /\ v.th[t].ci = F
            /\ v.th[t].status = "ok" /\ ~v.th[t].fn /\ v.th[t].ccalls = e.inc + g[m].p
            /\ v.th[t].nny = (IF u.cs[m].t = t THEN g[m].q ELSE 0)
            /\ g[m].p \in Nat /\ g[m].q \in Nat /\ g[m].b \in Nat /\ e.inc + g[m].p < ErrCCalls
            /\ u.cs[m].t = t <=> e.level > 0
            /\ u.cs[m].t = t => g[m].b + 1 = e.level
            /\ u.cs[m].t # t =>
                 /\ \A k \in 1 .. m : u.cs[k].t # t
                 /\ ~Protects(Fr(u.th, u.cs, m)[Len(Fr(u.th, u.cs, m))])
            /\ \A k \in i .. Len(u.cs) : u.cs[k].t = t /\ g[k].b >= g[i].b
            /\ \A k \in i .. Len(u.cs) : u.cs[k].at = "close" /\ u.cs[k].why = "closep" =>
                 k = i + 1 /\ e.why = "closep" /\ u.cs[k].slot = e.slot
<1> DEFINE n == Len(u.cs)
           i == LastTry(u, t)
           m == i - 1
           e == u.cs[i]
           c == u.cs[m]
           F == u.th[t].ci
           v == Jump(u, t)
<1>0. u.cs # <<>>
  OBVIOUS
<1>1. /\ i \in 1 .. n /\ i > 1 /\ m \in 1 .. n
      /\ e.at = "try" /\ e.t = t
      /\ \A k \in i .. n : u.cs[k].t = t
      /\ \A k \in i + 1 .. n : u.cs[k].at # "try"
      /\ e.ccalls = g[i].p /\ e.nny = g[i].q
  BY LastTryIs
<1>2. t \in Thr /\ u.th[t].status = "ok" /\ ~u.th[t].fn /\ n \in Nat
  BY <1>0, RunFacts
<1> HIDE DEF i, n
<1>3. m < n /\ m + 1 = i /\ i \in Nat /\ m \in Nat /\ m > 0 /\ i # 1
  BY <1>1, <1>2
<1>4. /\ u \in State /\ Local(u.th, u.cs, g, i) /\ Local(u.th, u.cs, g, m) /\ Global(u.th, u.cs, g, t)
      /\ e \in Activation /\ u.th[t] \in Thread /\ ~u.wrong
      /\ g[i].b \in Nat /\ g[m].p \in Nat /\ g[m].q \in Nat /\ g[m].b \in Nat
  BY <1>1, <1>2, InvFacts DEF n
<1>5. TryOK(u.th, u.cs, g, i)
  BY <1>4 DEF Local, Serves
<1>6. /\ e.level = g[i].b /\ c.at = "cfun" /\ (c.t = t <=> e.level > 0)
  BY <1>1, <1>5 DEF TryOK
<1>7. e.level \in 0 .. Len(F)
  <2>1. i \in Of(u.cs, t)
    BY <1>1 DEF Of, n
  <2>2. g[i].b <= Len(F)
    BY <2>1, <1>4 DEF Global, Nested
  <2>3. Len(F) \in Nat
    BY <1>4, ThreadType
  <2>4. QED
    BY <2>2, <2>3, <1>4, <1>6
<1>8. /\ v \in State /\ v.wrong = u.wrong /\ v.cs \in Seq(Activation)
      /\ Len(v.cs) = m /\ \A k \in 1 .. m : v.cs[k] = u.cs[k]
      /\ \A x \in Thr : x # t => v.th[x] = u.th[x]
      /\ v.th[t].ccalls = e.ccalls /\ v.th[t].nny = e.nny
      /\ v.th[t].ci = u.th[t].ci /\ v.th[t].tbc = u.th[t].tbc
      /\ v.th[t].status = u.th[t].status /\ v.th[t].fn = u.th[t].fn
      /\ v.th[t].errfunc = u.th[t].errfunc
  BY <1>1, <1>2, <1>4, JumpIs DEF i, n
<1> HIDE DEF v
<1>9. Jumped(u, v, t, m)
  <2>1. \A k \in m + 1 .. n : u.cs[k].t = t
    BY <1>1, <1>3
  <2>2. QED
    BY <1>1, <1>2, <1>4, <1>6, <1>8, <2>1 DEF Jumped, n
<1>10. /\ v.th[t].ccalls = e.inc + g[m].p /\ e.inc + g[m].p < ErrCCalls
       /\ v.th[t].nny = (IF c.t = t THEN g[m].q ELSE 0)
  <2>1. Counted(u.th, u.cs, g, i)
    BY <1>4 DEF Local
  <2>2. g[i].p = e.inc + g[m].p /\ g[i].p < ErrCCalls
    BY <2>1, <1>3 DEF Counted
  <2>3. g[i].q = e.ny + IF c.t # t THEN 0 ELSE g[m].q
    BY <2>1, <1>1, <1>3 DEF Counted
  <2>4. e.ny = 0
    BY <1>1, <1>4, ActivationType
  <2>5. QED
    BY <1>1, <1>4, <1>8, <2>2, <2>3, <2>4
<1>11. CFunOK(u.th, u.cs, g, m)
  BY <1>4 DEF Local, Serves
<1>12. c.t = t => g[m].b + 1 = e.level
  <2>1. SUFFICES ASSUME c.t = t PROVE g[m].b + 1 = e.level
    OBVIOUS
  <2>2. Same(u.cs, m)
    BY <2>1, <1>1, <1>3 DEF Same, n
  <2>3. End(u.th, u.cs, g, m) = g[i].b
    BY <2>2, <1>3 DEF End
  <2>4. QED
    BY <2>3, <1>6, <1>11 DEF CFunOK
<1>13. ASSUME c.t # t
       PROVE  /\ \A k \in 1 .. m : u.cs[k].t # t
              /\ ~Protects(Fr(u.th, u.cs, m)[Len(Fr(u.th, u.cs, m))])
  <2>1. ~Same(u.cs, m)
    BY <1>1, <1>3, <1>13 DEF Same
  <2>2. End(u.th, u.cs, g, m) = Len(Fr(u.th, u.cs, m))
    BY <2>1 DEF End
  <2>3. ~Protects(Fr(u.th, u.cs, m)[Len(Fr(u.th, u.cs, m))])
    BY <2>1, <2>2, <1>3, <1>6, <1>11 DEF CFunOK, n
  <2>4. ASSUME NEW k \in 1 .. m, u.cs[k].t = t
        PROVE  FALSE
    <3>1. k \in 1 .. n /\ k < i /\ m \in k .. i
      BY <1>1, <1>2, <1>3
    <3>2. u.cs[m].t = t
      BY <3>1, <2>4, <1>1, Contiguous DEF n
    <3>3. QED
      BY <3>2, <1>13
  <2>5. QED
    BY <2>3, <2>4
<1>14. ASSUME NEW k \in i .. n
       PROVE  u.cs[k].t = t /\ g[k].b >= g[i].b
  <2>1. k \in 1 .. n /\ u.cs[k].t = t /\ (k = i \/ i < k)
    BY <1>1, <1>3, <1>2
  <2>2. g[k].b \in Nat
    BY <2>1, InvFacts DEF n
  <2>3. i < k => g[i].b <= g[k].b
    BY <2>1, <1>1, Contiguous DEF n
  <2>4. QED
    BY <2>1, <2>2, <2>3, <1>4
<1>15. ASSUME NEW k \in i .. n, u.cs[k].at = "close", u.cs[k].why = "closep"
       PROVE  k = i + 1 /\ e.why = "closep" /\ u.cs[k].slot = e.slot
  <2>1. k \in 1 .. n /\ k # i
    BY <1>1, <1>15, <1>2
  <2>2. CloseOK(u.th, u.cs, g, k)
    BY <2>1, InvFacts DEF Local, Serves, n
  <2>3. /\ u.cs[k - 1].at = "try" /\ u.cs[k - 1].why = "closep"
        /\ u.cs[k].slot = u.cs[k - 1].slot
    BY <2>2, <1>15 DEF CloseOK
  <2>4. k - 1 = i \/ k - 1 \in i + 1 .. n
    BY <2>1, <1>1, <1>2
  <2>5. k - 1 = i
    BY <2>3, <2>4, <1>1
  <2>6. k = i + 1
    BY <2>5, <2>1, <1>3
  <2>7. QED
    BY <2>3, <2>5, <2>6
<1>16. /\ v.th[t].ci = F /\ v.th[t].status = "ok" /\ ~v.th[t].fn
  BY <1>2, <1>8
<1>17. QED
  BY <1>1, <1>2, <1>3, <1>4, <1>5, <1>6, <1>7, <1>9, <1>10, <1>12, <1>13, <1>14, <1>15, <1>16 DEF i, n, v

-----------------------------------------------------------------------------
(* The error is noted in the frame it is for.                              *)
LEMMA AimedIs ==
  ASSUME NEW v \in State, NEW t \in Thr, ~v.wrong, NEW l \in 0 .. Len(v.th[t].ci),
         Innermost(v, t) = l
  PROVE  LET w == Aimed(v, t, l)
             F == v.th[t].ci
             F1 == w.th[t].ci
         IN /\ OnlyFrames(v, w, t) /\ Len(F1) = Len(F)
            /\ \A i \in 1 .. Len(F) : F1[i] = IF i = l THEN [F[l] EXCEPT !.hit = TRUE] ELSE F[i]
<1> DEFINE F == v.th[t].ci
           f == [F[l] EXCEPT !.hit = TRUE]
           F1 == [F EXCEPT ![l] = f]
<1>1. F \in Seq(Frame) /\ Len(F) \in Nat /\ \A i \in 1 .. Len(F) : F[i] \in Frame
  BY StateType, ThreadType
<1>2. [v EXCEPT !.wrong = @ \/ l # l] = v
  BY DEF State
<1>3. CASE l = 0
  <2>1. Aimed(v, t, l) = v
    BY <1>2, <1>3 DEF Aimed
  <2>2. OnlyFrames(v, v, t)
    BY DEF OnlyFrames
  <2>3. QED
    BY <2>1, <2>2, <1>3
<1>4. CASE l # 0
  <2>1. l \in 1 .. Len(F) /\ f \in Frame
    <3>1. l \in 1 .. Len(F)
      BY <1>1, <1>4
    <3>2. F[l] \in Frame
      BY <1>1, <3>1
    <3>3. QED
      BY <3>1, <3>2 DEF Frame
  <2>2. Aimed(v, t, l) = [v EXCEPT !.th[t].ci[l].hit = TRUE]
    BY <1>2, <1>4 DEF Aimed
  <2>3. [v EXCEPT !.th[t].ci[l].hit = TRUE] = [v EXCEPT !.th[t].ci = F1]
    BY StateType
  <2> HIDE DEF f
  <2>4. /\ F1 \in Seq(Frame) /\ Len(F1) = Len(F)
        /\ \A i \in 1 .. Len(F) : F1[i] = IF i = l THEN f ELSE F[i]
    BY <1>1, <2>1, SeqPut
  <2> HIDE DEF F1
  <2>5. OnlyFrames(v, [v EXCEPT !.th[t].ci = F1], t) /\ [v EXCEPT !.th[t].ci = F1].th[t].ci = F1
    BY <2>4, PutFrames
  <2>7. OnlyFrames(v, Aimed(v, t, l), t) /\ Aimed(v, t, l).th[t].ci = F1
    BY <2>2, <2>3, <2>5
  <2>6. QED
    BY <2>4, <2>7 DEF f
<1>5. QED
  BY <1>3, <1>4

(* Only frames changed after the jump.                                     *)
LEMMA OnlyJumped ==
  ASSUME NEW u, NEW v, NEW w, NEW t, NEW m, Jumped(u, v, t, m), OnlyFrames(v, w, t)
  PROVE  Jumped(u, w, t, m)
BY DEF Jumped, OnlyFrames

(* An error that a protected call or the closing of a thread catches.      *)
LEMMA ThrowCaught ==
  ASSUME NEW u, NEW g, Inv(u, g), NEW t, MayThrow(u, t), NEW st \in Status, ErrorStatus(st),
         u.cs[LastTry(u, t)].why # "resume"
  PROVE  \E g2 : Inv(Throw(u, t, st), g2)
<1> DEFINE i == LastTry(u, t)
           m == i - 1
           e == u.cs[i]
           F == u.th[t].ci
           v == Jump(u, t)
           l == e.level
           w == Aimed(v, t, l)
<1>0. Len(u.cs) > 1 /\ t = Running(u)
  BY DEF MayThrow
<1>1. /\ i \in 1 .. Len(u.cs) /\ m \in 1 .. Len(u.cs) /\ m + 1 = i
      /\ e \in Activation /\ e.at = "try" /\ t \in Thr
      /\ u.th[t].status = "ok" /\ TryOK(u.th, u.cs, g, i) /\ l = g[i].b /\ l \in 0 .. Len(F)
  BY <1>0, JumpFacts
<1>2. /\ Jumped(u, v, t, m) /\ v.th[t].ci = F
      /\ v.th[t].status = "ok" /\ ~v.th[t].fn /\ v.th[t].ccalls = e.inc + g[m].p
      /\ v.th[t].nny = (IF u.cs[m].t = t THEN g[m].q ELSE 0)
      /\ g[m].p \in Nat /\ g[m].q \in Nat /\ g[m].b \in Nat
  BY <1>0, JumpFacts, SMTT(20)
<1>3. /\ u.cs[m].t = t <=> l > 0
      /\ u.cs[m].t = t => g[m].b + 1 = l
      /\ u.cs[m].t # t =>
           /\ \A k \in 1 .. m : u.cs[k].t # t
           /\ ~Protects(Fr(u.th, u.cs, m)[Len(Fr(u.th, u.cs, m))])
  BY <1>0, JumpFacts
<1>4. \A k \in m + 1 .. Len(u.cs) :
        g[k].b >= l /\ (u.cs[k].at = "close" /\ u.cs[k].why = "closep" => u.cs[k].slot = e.slot)
  <2>1. \A k \in i .. Len(u.cs) : u.cs[k].t = t /\ g[k].b >= g[i].b
    BY <1>0, JumpFacts
  <2>2. \A k \in i .. Len(u.cs) : u.cs[k].at = "close" /\ u.cs[k].why = "closep" =>
                 k = i + 1 /\ e.why = "closep" /\ u.cs[k].slot = e.slot
    BY <1>0, JumpFacts
  <2>3. QED
    BY <2>1, <2>2, <1>1
<1>5. v \in State /\ ~v.wrong
  BY <1>2 DEF Jumped
<1>6. Innermost(v, t) = l
  <2>1. Innermost(u, t) = l
    BY Aimed1
  <2>2. QED
    BY <2>1, <1>2 DEF Innermost, CI
<1>7. /\ OnlyFrames(v, w, t) /\ Len(w.th[t].ci) = Len(F)
      /\ \A k \in 1 .. Len(F) : w.th[t].ci[k] = IF k = l THEN [F[l] EXCEPT !.hit = TRUE] ELSE F[k]
  <2>1. l \in 0 .. Len(v.th[t].ci)
    BY <1>1, <1>2
  <2>4. t \in Thr
    BY <1>1
  <2> HIDE DEF i, e, F, m, v, l
  <2>2. /\ OnlyFrames(v, Aimed(v, t, l), t) /\ Len(Aimed(v, t, l).th[t].ci) = Len(v.th[t].ci)
        /\ \A k \in 1 .. Len(v.th[t].ci) : Aimed(v, t, l).th[t].ci[k] =
             IF k = l THEN [v.th[t].ci[l] EXCEPT !.hit = TRUE] ELSE v.th[t].ci[k]
    BY <1>5, <1>6, <2>1, <2>4, AimedIs
  <2>3. QED
    BY <2>2, <1>2
<1>8. Jumped(u, w, t, m)
  BY <1>2, <1>7, OnlyJumped
<1> HIDE DEF i, m, v, w
<1>9. /\ e.slot = IF l = 0 THEN 1 ELSE F[l].base + 1
      /\ l > 0 => Protects(F[l]) /\ ~F[l].ypcall
      /\ e.inc = 0
  <2>1. Fr(u.th, u.cs, i) = F
    BY <1>0, JumpFacts DEF Fr, i
  <2>2. QED
    BY <2>1, <1>1 DEF TryOK, i
<1>10. /\ Len(F) \in Nat /\ l \in Nat /\ FramesOK(F) /\ \A k \in 1 .. Len(F) : F[k].base \in Nat
  <2>1. FramesOK(F) /\ u.th[t] \in Thread
    BY <1>1, InvFacts DEF Global
  <2>2. Len(F) \in Nat /\ \A k \in 1 .. Len(F) : F[k].base \in Nat
    BY <2>1, ThreadType
  <2>3. QED
    BY <2>1, <2>2, <1>1
<1>11. l > 0 => e.slot # 1
  <2>1. l > 0 => l \in 1 .. Len(F)
    BY <1>1, <1>10
  <2>2. l > 0 => F[l].base > 0 /\ F[l].base \in Nat
    BY <2>1, <1>10 DEF FramesOK
  <2>3. QED
    BY <2>2, <1>9
<1>12. Catches(u, w, g, t, m, l)
  <2>1. /\ w.th[t].status = "ok" /\ ~w.th[t].fn /\ w.th[t].ccalls = g[m].p
        /\ w.th[t].nny = (IF l = 0 THEN 0 ELSE g[m].q)
    <3>1. w.th[t].status = v.th[t].status /\ w.th[t].fn = v.th[t].fn
          /\ w.th[t].ccalls = v.th[t].ccalls /\ w.th[t].nny = v.th[t].nny
      BY <1>7 DEF OnlyFrames
    <3>2. QED
      BY <3>1, <1>2, <1>3, <1>9, <1>10
  <2>2. CASE l = 0
    BY <2>1, <2>2, <1>1, <1>3, <1>7 DEF Catches
  <2>3. CASE l # 0
    <3>1. l > 0 /\ u.cs[m].t = t /\ g[m].b + 1 = l /\ Protects(F[l]) /\ ~F[l].ypcall
      BY <2>3, <1>3, <1>9, <1>10
    <3>2. /\ \A k \in 1 .. l - 1 : w.th[t].ci[k] = F[k]
          /\ w.th[t].ci[l] = [F[l] EXCEPT !.hit = TRUE]
      <4>1. l \in 1 .. Len(F) /\ \A k \in 1 .. l - 1 : k \in 1 .. Len(F) /\ k # l
        BY <3>1, <1>1, <1>10
      <4>2. QED
        BY <4>1, <1>7
    <3>3. \A k \in m + 1 .. Len(u.cs) :
             g[k].b >= l /\ (u.cs[k].at = "close" /\ u.cs[k].why = "closep" => u.cs[k].slot # 1)
      BY <3>1, <1>4, <1>11
    <3>4. QED
      BY <2>1, <3>1, <3>2, <3>3, <1>1, <1>7 DEF Catches
  <2>4. QED
    BY <2>2, <2>3
<1>13. \E g2 : Inv(CloseProtected(w, t, l, e.slot, st), g2)
  <2> DEFINE slot == e.slot
  <2>1. slot = IF l = 0 THEN 1 ELSE u.th[t].ci[l].base + 1
    BY <1>9
  <2> HIDE DEF l, slot
  <2>2. QED
    BY <1>8, <1>12, <2>1, CloseProtectedOK DEF slot
<1>14. Throw(u, t, st) = CloseProtected(w, t, l, e.slot, st)
  <2>1. st # "yield"
    BY DEF ErrorStatus
  <2>2. QED
    BY <2>1, ThrowIs DEF i, v, w
<1>15. QED
  BY <1>13, <1>14

-----------------------------------------------------------------------------
(* precover finds the last frame that is marked.                           *)
LEMMA FindPCallIs ==
  ASSUME NEW u \in State, NEW t \in Thr
  PROVE  LET l == FindPCall(u, t)
             F == u.th[t].ci
         IN /\ l \in 0 .. Len(F)
            /\ l > 0 => F[l].ypcall
            /\ \A i \in 1 .. Len(F) : F[i].ypcall => i <= l
<1> DEFINE F == u.th[t].ci
           T == {0} \cup {i \in DOMAIN F : F[i].ypcall}
<1>1. F \in Seq(Frame) /\ Len(F) \in Nat /\ DOMAIN F = 1 .. Len(F)
  <2>1. F \in Seq(Frame) /\ Len(F) \in Nat
    BY StateType, ThreadType
  <2>2. QED
    BY <2>1
<1>2. T \in SUBSET (0 .. Len(F)) /\ T # {}
  BY <1>1
<1>3. Max(T) \in T /\ \A x \in T : Max(T) >= x
  <2> HIDE DEF T, F
  <2>1. QED
    BY <1>1, <1>2, MaxIn
<1>4. FindPCall(u, t) = Max(T)
  BY DEF FindPCall, CI
<1>5. /\ Max(T) \in 0 .. Len(F)
      /\ Max(T) # 0 => F[Max(T)].ypcall
      /\ \A i \in 1 .. Len(F) : F[i].ypcall => i <= Max(T)
  <2> HIDE DEF F
  <2>1. \A i \in 1 .. Len(F) : F[i].ypcall => i \in T /\ i <= Max(T)
    BY <1>1, <1>2, <1>3
  <2>2. QED
    BY <1>1, <1>2, <1>3, <2>1
<1> HIDE DEF T
<1>6. QED
  BY <1>1, <1>4, <1>5

(* It looks at nothing but the marks.                                      *)
LEMMA FindPCallSame ==
  ASSUME NEW u \in State, NEW v \in State, NEW t \in Thr,
         Len(v.th[t].ci) = Len(u.th[t].ci),
         \A i \in 1 .. Len(u.th[t].ci) : v.th[t].ci[i].ypcall = u.th[t].ci[i].ypcall
  PROVE  FindPCall(v, t) = FindPCall(u, t)
<1>1. /\ u.th[t].ci \in Seq(Frame) /\ v.th[t].ci \in Seq(Frame)
  BY StateType, ThreadType
<1>2. DOMAIN u.th[t].ci = 1 .. Len(u.th[t].ci) /\ DOMAIN v.th[t].ci = 1 .. Len(u.th[t].ci)
  BY <1>1
<1>3. {i \in DOMAIN v.th[t].ci : v.th[t].ci[i].ypcall} = {i \in DOMAIN u.th[t].ci : u.th[t].ci[i].ypcall}
  BY <1>2
<1>4. QED
  BY <1>3 DEF FindPCall, CI

(* Another thread t is left: what it called returns, stops or dies.        *)
Leaves(u, u2, t, m) ==
  /\ u2 \in State /\ ~u2.wrong /\ t \in Thr /\ m \in 1 .. Len(u.cs) /\ m < Len(u.cs)
  /\ u.cs[m].at = "cfun" /\ Cut(u.cs, u2.cs, m)
  /\ \A k \in m + 1 .. Len(u.cs) : u.cs[k].t = t
  /\ \A k \in 1 .. m : u.cs[k].t # t
  /\ \A x \in Thr : x # t => u2.th[x] = u.th[x]

(* Then the invariant holds if t was left in order.                        *)
LEMMA LeaveOK ==
  ASSUME NEW u, NEW g, Inv(u, g), NEW u2, NEW t, NEW m, Leaves(u, u2, t, m),
         FramesOK(u2.th[t].ci), \A g2 : Backed(u2.th, u2.cs, g2, t),
         Owned(u2.th, u2.cs, t), ~u2.th[t].fn,
         u2.th[t].status = "ok" => u2.th[t].ci = <<>> /\ u2.th[t].tbc = <<>>,
         u2.th[t].status = "yield" =>
           u2.th[t].ci # <<>> /\ u2.th[t].ci[Len(u2.th[t].ci)].kind = "yield"
  PROVE  \E g2 : Inv(u2, g2)
<1> DEFINE g2 == SubSeq(g, 1, m)
           F == Fr(u.th, u.cs, m)
<1>1. /\ u2 \in State /\ ~u2.wrong /\ t \in Thr /\ m \in 1 .. Len(u.cs) /\ m < Len(u.cs)
      /\ u.cs[m].at = "cfun" /\ Cut(u.cs, u2.cs, m)
  BY DEF Leaves
<1>2. /\ \A k \in m + 1 .. Len(u.cs) : u.cs[k].t = t
      /\ \A k \in 1 .. m : u.cs[k].t # t
      /\ \A x \in Thr : x # t => u2.th[x] = u.th[x]
  BY DEF Leaves
<1>3. /\ Len(u.cs) \in Nat /\ g \in Seq(Ghost) /\ Len(g) = Len(u.cs) /\ m \in Nat /\ m > 0
      /\ \A k \in 1 .. Len(u.cs) : Local(u.th, u.cs, g, k) /\ u.cs[k].t \in Thr
  BY <1>1, InvFacts
<1>4. g2 \in Seq(Ghost) /\ Len(g2) = m /\ \A k \in 1 .. m : g2[k] = g[k]
  BY <1>1, <1>3, SeqCut
<1> HIDE DEF g2
<1>5. Len(u2.cs) = m /\ u2.cs[m].t = u.cs[m].t /\ u2.cs[m].at = "cfun"
      /\ \A k \in 1 .. m - 1 : u2.cs[k] = u.cs[k]
  BY <1>1, <1>3 DEF Cut
<1>6. m \in 1 .. m /\ (m > 1 => m - 1 \in 1 .. m - 1) /\ u.cs[m].t # t /\ u.cs[m].t \in Thr
  BY <1>1, <1>2, <1>3
<1>7. ~Same(u.cs, m) /\ ~Same(u2.cs, m)
  <2>1. u.cs[m + 1].t = t
    BY <1>1, <1>2, <1>3
  <2>2. QED
    BY <2>1, <1>5, <1>6, <1>3 DEF Same
<1>8. Fr(u2.th, u2.cs, m) = F
  BY <1>2, <1>5, <1>6 DEF Fr
<1>9. /\ Len(F) = g[m].b + 1 /\ F[Len(F)].kind \in CKinds \ {"yield"}
      /\ m > 1 => u.cs[m - 1].at = "exec"
      /\ ~Protects(F[Len(F)])
  <2>1. CFunOK(u.th, u.cs, g, m)
    BY <1>1, <1>3 DEF Local, Serves
  <2>2. End(u.th, u.cs, g, m) = Len(F)
    BY <1>7 DEF End
  <2> HIDE DEF F
  <2>3. QED
    BY <2>1, <2>2, <1>1, <1>7 DEF CFunOK, F
<1>10. ~F[Len(F)].ypcall /\ ~F[Len(F)].hit
  <2>1. FramesOK(F) /\ u.th[u.cs[m].t] \in Thread
    BY <1>6, InvFacts DEF Global, Fr
  <2>2. Len(F) \in Nat
    BY <2>1, ThreadType DEF Fr
  <2>3. Len(F) \in 1 .. Len(F)
    <3>1. g[m].b \in Nat
      BY <1>1, InvFacts
    <3>2. QED
      BY <2>2, <3>1, <1>9
  <2>4. QED
    BY <2>1, <2>3, <1>9 DEF FramesOK
<1> HIDE DEF F
<1>11. Serves(u2.th, u2.cs, g2, m)
  <2>1. CFunOK(u2.th, u2.cs, g2, m)
    <3>1. g2[m] = g[m] /\ End(u2.th, u2.cs, g2, m) = Len(F)
      BY <1>4, <1>6, <1>7, <1>8 DEF End
    <3>2. m > 1 => u2.cs[m - 1] = u.cs[m - 1]
      BY <1>5, <1>6
    <3>3. QED
      BY <3>1, <3>2, <1>7, <1>8, <1>9, <1>10 DEF CFunOK
  <2>2. QED
    BY <2>1, <1>5 DEF Serves, ExecOK, TryOK, CloseOK, MsgOK, UnrollOK, Msgs
<1>12. Of(u2.cs, t) = {}
  <2>1. \A k \in 1 .. m : u2.cs[k].t # t
    <3>1. \A k \in 1 .. m : k = m \/ k \in 1 .. m - 1
      BY <1>3
    <3>2. QED
      BY <3>1, <1>2, <1>5
  <2>2. QED
    BY <2>1, <1>5 DEF Of
<1>13. t # Main
  <2>1. 1 \in 1 .. m /\ 1 \in 1 .. Len(u.cs)
    BY <1>1, <1>3
  <2>2. u.cs[1].t = Main
    BY <2>1, <1>3 DEF Local, FirstOK
  <2>3. QED
    BY <2>1, <2>2, <1>2
<1>14. Ordered(u2.th, u2.cs, t)
  BY <1>12 DEF Ordered
<1>15. StatusOK(u2.th, u2.cs, t)
  BY <1>12, <1>13 DEF StatusOK
<1>16. Cuts(u, u2, g, g2, t, m)
  <2>1. m \in 0 .. Len(u.cs)
    BY <1>1, <1>3
  <2>2. QED
    BY <2>1, <1>1, <1>2, <1>4 DEF Cuts
<1>17. Backed(u2.th, u2.cs, g2, t)
  OBVIOUS
<1>18. Inv(u2, g2)
  BY <1>11, <1>14, <1>15, <1>16, <1>17, CutOK
<1>19. QED
  BY <1>18

(* An error kills a coroutine that has no protected call.                  *)
LEMMA PrecoverDead ==
  ASSUME NEW u, NEW g, Inv(u, g), NEW w, NEW t, NEW m, Jumped(u, w, t, m),
         m < Len(u.cs), \A k \in 1 .. m : u.cs[k].t # t,
         ~w.th[t].fn, Len(w.th[t].ci) = Len(u.th[t].ci),
         \A k \in 1 .. Len(u.th[t].ci) : w.th[t].ci[k] = u.th[t].ci[k],
         ~Closing(u.cs, t), NEW st \in Status, ErrorStatus(st), FindPCall(w, t) = 0
  PROVE  \E g2 : Inv(Precover(w, t, st), g2)
<1> DEFINE u2 == ResumeDone([w EXCEPT !.th[t].status = st], FALSE)
<1>1. /\ w \in State /\ ~w.wrong /\ t \in Thr /\ m \in 1 .. Len(u.cs) /\ u.cs[m].at = "cfun"
      /\ Len(w.cs) = m /\ \A k \in 1 .. m : w.cs[k] = u.cs[k]
      /\ \A k \in m + 1 .. Len(u.cs) : u.cs[k].t = t
      /\ \A x \in Thr : x # t => w.th[x] = u.th[x]
      /\ w.th[t].tbc = u.th[t].tbc
  BY DEF Jumped
<1>2. Precover(w, t, st) = u2
  BY DEF Precover
<1>3. /\ w.th \in [Thr -> Thread] /\ w.cs \in Seq(Activation) /\ w.wrong \in BOOLEAN /\ m \in 1 .. m
      /\ w.cs[m] \in Activation /\ w.th[t] \in Thread
  <2>1. m \in 1 .. m /\ m \in 1 .. Len(w.cs)
    <3>1. Len(u.cs) \in Nat
      BY InvFacts
    <3>2. QED
      BY <3>1, <1>1
  <2>2. QED
    BY <2>1, <1>1, StateType
<1>4. [w.cs[m] EXCEPT !.ok = FALSE] \in Activation /\ [w.cs[m] EXCEPT !.ok = FALSE].t = w.cs[m].t
      /\ [w.cs[m] EXCEPT !.ok = FALSE].at = "cfun"
  <2>1. w.cs[m].at = "cfun"
    BY <1>1, <1>3
  <2>2. QED
    BY <2>1, <1>3 DEF Activation
<1>5. /\ u2 \in State /\ u2.wrong = w.wrong
      /\ u2.cs = [w.cs EXCEPT ![m] = [w.cs[m] EXCEPT !.ok = FALSE]]
      /\ u2.th = [w.th EXCEPT ![t] = [w.th[t] EXCEPT !.status = st]]
  <2> DEFINE a == [w.cs[m] EXCEPT !.ok = FALSE]
             h == [w.th[t] EXCEPT !.status = st]
  <2>1. h \in Thread
    BY <1>3 DEF Thread
  <2>2. u2 = [w EXCEPT !.th = [w.th EXCEPT ![t] = h], !.cs = [w.cs EXCEPT ![m] = a]]
    BY <1>1, <1>3 DEF ResumeDone, State
  <2>3. a \in Activation
    BY <1>4
  <2> HIDE DEF a, h, u2
  <2>4. [w.th EXCEPT ![t] = h] \in [Thr -> Thread]
    BY <2>1, <1>3
  <2>5. [w.cs EXCEPT ![m] = a] \in Seq(Activation)
    <3>1. m \in 1 .. Len(w.cs)
      BY <1>1, <1>3
    <3>2. QED
      BY <2>3, <3>1, <1>3, SeqPut
  <2>6. u2 \in State /\ u2.wrong = w.wrong /\ u2.cs = [w.cs EXCEPT ![m] = a]
        /\ u2.th = [w.th EXCEPT ![t] = h]
    BY <2>2, <2>4, <2>5, <1>1 DEF State
  <2>7. QED
    BY <2>6 DEF a, h
<1> HIDE DEF u2
<1>6. /\ Len(u2.cs) = m /\ u2.cs[m].t = u.cs[m].t /\ u2.cs[m].at = "cfun"
      /\ \A k \in 1 .. m - 1 : u2.cs[k] = u.cs[k]
  BY <1>1, <1>3, <1>4, <1>5
<1>7. /\ u2.th[t].status = st /\ ~u2.th[t].fn /\ u2.th[t].ci = w.th[t].ci
      /\ u2.th[t].tbc = u.th[t].tbc
      /\ \A x \in Thr : x # t => u2.th[x] = u.th[x]
  BY <1>1, <1>3, <1>5 DEF Thread
<1>8. w.th[t].ci = u.th[t].ci /\ u.th[t] \in Thread /\ u.th[t].ci \in Seq(Frame)
      /\ FramesOK(u.th[t].ci) /\ Owned(u.th, u.cs, t)
  <2>1. u.th[t] \in Thread /\ FramesOK(u.th[t].ci) /\ Owned(u.th, u.cs, t)
    BY <1>1, InvFacts DEF Global
  <2>2. u.th[t].ci \in Seq(Frame) /\ w.th[t].ci \in Seq(Frame)
    BY <2>1, <1>3, ThreadType
  <2>3. w.th[t].ci = u.th[t].ci
    BY <2>2, SeqSame
  <2>4. QED
    BY <2>1, <2>2, <2>3
<1>9. Leaves(u, u2, t, m)
  <2>1. ~u2.wrong /\ m > 0
    BY <1>1, <1>5
  <2>2. QED
    BY <2>1, <1>1, <1>5, <1>6, <1>7 DEF Leaves, Cut
<1>10. FramesOK(u2.th[t].ci) /\ \A g2 : Backed(u2.th, u2.cs, g2, t)
  BY <1>7, <1>8 DEF Backed
<1>11. Owned(u2.th, u2.cs, t)
  BY <1>7, <1>8 DEF Owned
<1>12. st # "ok" /\ st # "yield"
  BY DEF ErrorStatus
<1>13. \E g2 : Inv(u2, g2)
  BY <1>7, <1>9, <1>10, <1>11, <1>12, LeaveOK
<1>14. QED
  BY <1>2, <1>13

(* A protected call at level l, which resume protects, is to be finished.  *)
Recovers(u, w, g, t, m, l) ==
  LET F == u.th[t].ci
      F1 == w.th[t].ci
  IN /\ \A k \in 1 .. m : u.cs[k].t # t
     /\ ~Protects(Fr(u.th, u.cs, m)[Len(Fr(u.th, u.cs, m))])
     /\ w.th[t].status = "ok" /\ ~w.th[t].fn /\ w.th[t].ccalls = 1 + g[m].p
     /\ 1 + g[m].p < ErrCCalls /\ w.th[t].nny = 0
     /\ l \in 1 .. Len(F) /\ Len(F1) = Len(F) /\ F[l].ypcall
     /\ \A i \in 1 .. Len(F) : F1[i] = IF i = l THEN [F[l] EXCEPT !.hit = TRUE] ELSE F[i]
     /\ ~Closing(u.cs, t)

(* An error reaches a protected call that unroll will finish.              *)
LEMMA PrecoverLive ==
  ASSUME NEW u, NEW g, Inv(u, g), NEW w, NEW t, NEW m, Jumped(u, w, t, m),
         NEW l, Recovers(u, w, g, t, m, l), NEW st \in Status, ErrorStatus(st),
         FindPCall(w, t) = l
  PROVE  \E g2 : Inv(Precover(w, t, st), g2)
<1> DEFINE F == u.th[t].ci
           v == CutFrames(w, t, l)
           x == [v EXCEPT !.th[t].ci[l].recst = st]
           f == [v.th[t].ci[l] EXCEPT !.recst = st]
<1>1. /\ w \in State /\ ~w.wrong /\ t \in Thr /\ m \in 1 .. Len(u.cs) /\ u.cs[m].at = "cfun"
      /\ Len(w.cs) = m /\ \A k \in 1 .. m : w.cs[k] = u.cs[k]
      /\ \A k \in m + 1 .. Len(u.cs) : u.cs[k].t = t
      /\ \A y \in Thr : y # t => w.th[y] = u.th[y]
      /\ w.th[t].tbc = u.th[t].tbc
  BY DEF Jumped
<1>2. /\ l \in 1 .. Len(F) /\ Len(w.th[t].ci) = Len(F) /\ F[l].ypcall
      /\ \A i \in 1 .. Len(F) : w.th[t].ci[i] = IF i = l THEN [F[l] EXCEPT !.hit = TRUE] ELSE F[i]
  BY DEF Recovers
<1>3. /\ u.th[t] \in Thread /\ FramesOK(F) /\ F \in Seq(Frame) /\ Len(F) \in Nat
      /\ \A i \in 1 .. Len(F) : F[i] \in Frame
  BY <1>1, InvFacts, ThreadType DEF Global
<1>4. l \in Nat /\ l > 0 /\ l <= Len(F) /\ l \in 0 .. Len(w.th[t].ci) /\ l \in 1 .. l
  BY <1>2, <1>3
<1>5. OnlyFrames(w, v, t) /\ Len(v.th[t].ci) = l /\ \A i \in 1 .. l : v.th[t].ci[i] = w.th[t].ci[i]
  <2> HIDE DEF v
  <2>1. OnlyFrames(w, CutFrames(w, t, l), t) /\ Len(CutFrames(w, t, l).th[t].ci) = l
        /\ \A i \in 1 .. l : CutFrames(w, t, l).th[t].ci[i] = w.th[t].ci[i]
    BY <1>1, <1>4, CutFramesIs
  <2>2. QED
    BY <2>1 DEF v
<1>6. Precover(w, t, st) = Push(Push(x, Try(v, t, "resume", 0, 0, "ok")), Unroll(t))
  <2> DEFINE P(level) ==
        LET y == CutFrames(w, t, level)
        IN IF level = 0 THEN ResumeDone([w EXCEPT !.th[t].status = st], FALSE)
           ELSE Push(Push([y EXCEPT !.th[t].ci[level].recst = st],
                          Try(y, t, "resume", 0, 0, "ok")), Unroll(t))
  <2>1. Precover(w, t, st) = P(FindPCall(w, t))
    BY DEF Precover
  <2>2. P(FindPCall(w, t)) = P(l)
    BY Zenon
  <2>3. P(l) = Push(Push(x, Try(v, t, "resume", 0, 0, "ok")), Unroll(t))
    <3>1. l # 0
      BY <1>4
    <3>2. QED
      BY <3>1, Zenon
  <2> HIDE DEF P
  <2>4. QED
    BY <2>1, <2>2, <2>3
<1> HIDE DEF v
<1>7. v \in State /\ v.th[t].ci \in Seq(Frame) /\ v.th[t].ci[l] \in Frame /\ f \in Frame
  <2>1. v \in State
    BY <1>5 DEF OnlyFrames
  <2>2. v.th[t].ci \in Seq(Frame)
    BY <2>1, <1>1, StateType, ThreadType
  <2>3. v.th[t].ci[l] \in Frame
    BY <2>2, <1>4, <1>5
  <2>4. QED
    BY <2>1, <2>2, <2>3 DEF Frame
<1>8. /\ OnlyFrames(v, x, t) /\ Len(x.th[t].ci) = l
      /\ \A i \in 1 .. l : x.th[t].ci[i] = IF i = l THEN f ELSE v.th[t].ci[i]
  <2> DEFINE F1 == [v.th[t].ci EXCEPT ![l] = f]
  <2>1. x = [v EXCEPT !.th[t].ci = F1]
    BY <1>7, StateType
  <2> HIDE DEF f, x
  <2>2. F1 \in Seq(Frame) /\ Len(F1) = l
        /\ \A i \in 1 .. l : F1[i] = IF i = l THEN f ELSE v.th[t].ci[i]
    BY <1>4, <1>5, <1>7, SeqPut
  <2> HIDE DEF F1
  <2>3. OnlyFrames(v, [v EXCEPT !.th[t].ci = F1], t) /\ [v EXCEPT !.th[t].ci = F1].th[t].ci = F1
    BY <1>1, <1>7, <2>2, PutFrames
  <2>4. QED
    BY <2>1, <2>2, <2>3
<1>9. x.th[t].ci[l] = [F[l] EXCEPT !.hit = TRUE, !.recst = st]
      /\ \A i \in 1 .. l - 1 : x.th[t].ci[i] = F[i]
  <2>1. v.th[t].ci[l] = [F[l] EXCEPT !.hit = TRUE]
    BY <1>2, <1>4, <1>5
  <2>2. x.th[t].ci[l] = [[F[l] EXCEPT !.hit = TRUE] EXCEPT !.recst = st]
    BY <1>4, <1>8, <2>1
  <2>3. \A i \in 1 .. l - 1 : i \in 1 .. l /\ i # l /\ i \in 1 .. Len(F)
    BY <1>4, <1>3
  <2>4. \A i \in 1 .. l - 1 : x.th[t].ci[i] = F[i]
    BY <2>3, <1>2, <1>5, <1>8
  <2>5. QED
    BY <2>2, <2>4
<1> HIDE DEF x, f
<1>10. Try(v, t, "resume", 0, 0, "ok") = Try(x, t, "resume", 0, 0, "ok")
  BY <1>8 DEF Try, OnlyFrames
<1>11. OnlyFrames(w, x, t)
  BY <1>1, <1>5, <1>8 DEF OnlyFrames
<1>12. Jumped(u, x, t, m)
  BY <1>11, OnlyJumped
<1>13. /\ F[l] \in Frame /\ Protects(F[l])
       /\ \A i \in 1 .. l - 1 : F[i].kind = "ilya" \/ F[i].ypcall
       /\ \A i \in 1 .. l : F[i].ypcall => F[i].kind # "yield" /\ F[i].kind # "ilya"
  <2>1. \A i \in 1 .. l : i \in 1 .. Len(F)
    BY <1>3, <1>4
  <2>2. \A i \in 1 .. l - 1 : i < l /\ i \in 1 .. Len(F)
    BY <1>3, <1>4
  <2>3. \A i \in 1 .. l : F[i].ypcall => Protects(F[i])
    BY <2>1, <1>3 DEF FramesOK
  <2>4. QED
    BY <2>1, <2>2, <2>3, <1>2, <1>3 DEF FramesOK, Protects
<1>14. x.th[t].ci[l].kind = F[l].kind /\ x.th[t].ci[l].base = F[l].base
       /\ x.th[t].ci[l].fresh = F[l].fresh /\ x.th[t].ci[l].hit = TRUE /\ x.th[t].ci[l].ypcall
       /\ x.th[t].ci[l].recst = st
  BY <1>9, <1>13, <1>2 DEF Frame
<1>15. Lower(F, x.th[t].ci, l)
  <2>1. l \in 0 .. Len(F) /\ Len(x.th[t].ci) = l
    BY <1>3, <1>4, <1>8
  <2>2. QED
    BY <2>1, <1>9, <1>13, <1>14 DEF Lower
<1>16. Heir(F, x.th[t].ci, u.th[t].tbc, l, FALSE)
  BY <1>4, <1>14 DEF Heir
<1>17. \A i \in 1 .. l : x.th[t].ci[i].kind # "yield" /\ (x.th[t].ci[i].kind \in CKinds => x.th[t].ci[i].ypcall)
  <2>1. "ilya" \notin CKinds /\ "ilya" # "yield"
    BY DEF CKinds
  <2>2. ASSUME NEW i \in 1 .. l
        PROVE  x.th[t].ci[i].kind # "yield" /\ (x.th[t].ci[i].kind \in CKinds => x.th[t].ci[i].ypcall)
    <3>1. CASE i = l
      BY <3>1, <1>2, <1>13, <1>14
    <3>2. CASE i # l
      <4>1. i \in 1 .. l - 1
        BY <3>2, <1>4
      <4>2. QED
        BY <4>1, <2>1, <1>9, <1>13
    <3>3. QED
      BY <3>1, <3>2
  <2>3. QED
    BY <2>2
<1>18. Unrolls(u, x, g, t, m, l)
  <2>1. /\ x.th[t].status = "ok" /\ ~x.th[t].fn
        /\ x.th[t].ccalls = 1 + g[m].p /\ 1 + g[m].p < ErrCCalls /\ x.th[t].nny = 0
    BY <1>11 DEF OnlyFrames, Recovers
  <2>2. /\ \A k \in 1 .. m : u.cs[k].t # t
        /\ ~Protects(Fr(u.th, u.cs, m)[Len(Fr(u.th, u.cs, m))]) /\ ~Closing(u.cs, t)
    BY DEF Recovers
  <2>3. QED
    BY <2>1, <2>2, <1>15, <1>16, <1>17 DEF Unrolls
<1>19. QED
  BY <1>6, <1>10, <1>12, <1>18, PushUnrollOK

(* An error that a resume catches.                                         *)
LEMMA ThrowResumed ==
  ASSUME NEW u, NEW g, Inv(u, g), NEW t, MayThrow(u, t), NEW st \in Status, ErrorStatus(st),
         u.cs[LastTry(u, t)].why = "resume"
  PROVE  \E g2 : Inv(Throw(u, t, st), g2)
<1> DEFINE i == LastTry(u, t)
           m == i - 1
           e == u.cs[i]
           F == u.th[t].ci
           v == Jump(u, t)
           l == FindPCall(v, t)
           w == Aimed(v, t, l)
<1>0. Len(u.cs) > 1 /\ t = Running(u)
  BY DEF MayThrow
<1>1. /\ i \in 1 .. Len(u.cs) /\ m \in 1 .. Len(u.cs) /\ m < Len(u.cs) /\ m + 1 = i
      /\ e \in Activation /\ e.at = "try" /\ t \in Thr
      /\ u.th[t].status = "ok" /\ TryOK(u.th, u.cs, g, i)
  BY <1>0, JumpFacts
<1>2. /\ Jumped(u, v, t, m) /\ v.th[t].ci = F
      /\ v.th[t].status = "ok" /\ ~v.th[t].fn /\ v.th[t].ccalls = e.inc + g[m].p
      /\ v.th[t].nny = (IF u.cs[m].t = t THEN g[m].q ELSE 0)
      /\ g[m].p \in Nat /\ g[m].q \in Nat /\ g[m].b \in Nat /\ e.inc + g[m].p < ErrCCalls
  BY <1>0, JumpFacts
<1>3. u.cs[m].t # t =>
           /\ \A k \in 1 .. m : u.cs[k].t # t
           /\ ~Protects(Fr(u.th, u.cs, m)[Len(Fr(u.th, u.cs, m))])
  BY <1>0, JumpFacts
<1>4. \A k \in i .. Len(u.cs) : u.cs[k].at = "close" /\ u.cs[k].why = "closep" => e.why = "closep"
  BY <1>0, JumpFacts
<1>5. v \in State /\ ~v.wrong
  BY <1>2 DEF Jumped
<1>6. u.cs[m].t # t /\ e.inc = 1 /\ e.why = "resume" /\ e.t = t
  <2>1. e.t = t
    BY <1>0, JumpFacts
  <2>2. QED
    BY <2>1, <1>1 DEF TryOK, m
<1>7. Innermost(v, t) = l /\ l \in 0 .. Len(F) /\ (l > 0 => F[l].ypcall)
  <2>1. Innermost(u, t) = FindPCall(u, t)
    BY Aimed2
  <2>2. Innermost(v, t) = l
    BY <2>1, <1>2 DEF Innermost, CI, FindPCall
  <2>3. FindPCall(v, t) \in 0 .. Len(v.th[t].ci)
        /\ (FindPCall(v, t) > 0 => v.th[t].ci[FindPCall(v, t)].ypcall)
    <3> HIDE DEF v
    <3>1. QED
      BY <1>1, <1>5, FindPCallIs
  <2>4. QED
    BY <2>2, <2>3, <1>2
<1>8. /\ OnlyFrames(v, w, t) /\ Len(w.th[t].ci) = Len(F)
      /\ \A k \in 1 .. Len(F) : w.th[t].ci[k] = IF k = l THEN [F[l] EXCEPT !.hit = TRUE] ELSE F[k]
  <2>1. l \in 0 .. Len(v.th[t].ci)
    BY <1>2, <1>7
  <2>2. t \in Thr
    BY <1>1
  <2> HIDE DEF i, e, F, m, v, l
  <2>3. /\ OnlyFrames(v, Aimed(v, t, l), t) /\ Len(Aimed(v, t, l).th[t].ci) = Len(v.th[t].ci)
        /\ \A k \in 1 .. Len(v.th[t].ci) : Aimed(v, t, l).th[t].ci[k] =
             IF k = l THEN [v.th[t].ci[l] EXCEPT !.hit = TRUE] ELSE v.th[t].ci[k]
    BY <1>5, <1>7, <2>1, <2>2, AimedIs
  <2>4. QED
    BY <2>3, <1>2
<1>9. Jumped(u, w, t, m)
  BY <1>2, <1>8, OnlyJumped
<1>10. Throw(u, t, st) = Precover(w, t, st)
  <2>1. st # "yield"
    BY DEF ErrorStatus
  <2>2. QED
    BY <2>1, ThrowIs DEF i, v, w
<1> HIDE DEF i, m, v, w, l
<1>11. ~Closing(u.cs, t)
  <2>1. \A k \in 1 .. Len(u.cs) : k \in 1 .. m \/ k \in i .. Len(u.cs)
    <3>1. Len(u.cs) \in Nat
      BY InvFacts
    <3>2. QED
      BY <3>1, <1>1
  <2>2. QED
    BY <2>1, <1>3, <1>4, <1>6 DEF Closing, Of
<1>12. /\ w.th[t].status = "ok" /\ ~w.th[t].fn /\ w.th[t].ccalls = 1 + g[m].p /\ w.th[t].nny = 0
  BY <1>2, <1>6, <1>8 DEF OnlyFrames
<1>13. Len(F) \in Nat /\ \A k \in 1 .. Len(F) : F[k] \in Frame
  <2>1. u.th[t] \in Thread
    BY <1>1, InvFacts
  <2>2. QED
    BY <2>1, ThreadType
<1>14. FindPCall(w, t) = l
  <2>1. \A k \in 1 .. Len(F) : w.th[t].ci[k].ypcall = F[k].ypcall
    <3>1. \A k \in 1 .. Len(F) : [F[k] EXCEPT !.hit = TRUE].ypcall = F[k].ypcall
      BY <1>13 DEF Frame
    <3>2. QED
      BY <3>1, <1>8
  <2>2. w \in State
    BY <1>9 DEF Jumped
  <2>4. v.th[t].ci = F /\ Len(w.th[t].ci) = Len(F) /\ t \in Thr
    BY <1>1, <1>2, <1>8
  <2> HIDE DEF F, e
  <2>3. FindPCall(w, t) = FindPCall(v, t)
    BY <2>1, <2>2, <2>4, <1>5, FindPCallSame
  <2>5. QED
    BY <2>3 DEF l
<1>15. CASE l = 0
  <2>1. \A k \in 1 .. Len(F) : w.th[t].ci[k] = F[k]
    <3>1. \A k \in 1 .. Len(F) : k # 0
      OBVIOUS
    <3>2. QED
      BY <3>1, <1>8, <1>15
  <2>2. m < Len(u.cs) /\ \A k \in 1 .. m : u.cs[k].t # t
    BY <1>1, <1>3, <1>6
  <2>3. QED
    BY <2>1, <2>2, <1>8, <1>9, <1>10, <1>11, <1>12, <1>14, <1>15, PrecoverDead
<1>16. CASE l # 0
  <2>1. l \in 1 .. Len(F) /\ F[l].ypcall
    BY <1>7, <1>13, <1>16
  <2>2. Recovers(u, w, g, t, m, l)
    BY <2>1, <1>2, <1>3, <1>6, <1>8, <1>11, <1>12 DEF Recovers
  <2>3. QED
    BY <2>2, <1>9, <1>10, <1>14, PrecoverLive
<1>17. QED
  BY <1>15, <1>16

(* ilyaD_throw with an error.                                              *)
LEMMA ThrowOK ==
  ASSUME NEW u, NEW g, Inv(u, g), NEW t, MayThrow(u, t), NEW st \in Status, ErrorStatus(st)
  PROVE  \E g2 : Inv(Throw(u, t, st), g2)
BY ThrowCaught, ThrowResumed

=============================================================================
