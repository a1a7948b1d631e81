----------------------------- MODULE Coro_calls -----------------------------
(***************************************************************************)
(* Calls keep the inductive invariant of Coro: ccall and its check of the  *)
(* C stack, C functions, yields, and protected calls.                      *)
(***************************************************************************)
EXTENDS Coro_throws

(* The fields of what ccall pushes.                                        *)
LEMMA ExecIs ==
  ASSUME NEW t \in Thr, NEW inc \in {0, 1}, NEW ny \in {0, 1}
  PROVE  /\ Exec(t, inc, ny) \in Activation /\ ErrorMsg(t, inc, ny) \in Activation
         /\ Exec(t, inc, ny).at = "exec" /\ Exec(t, inc, ny).t = t
         /\ Exec(t, inc, ny).inc = inc /\ Exec(t, inc, ny).ny = ny
         /\ ErrorMsg(t, inc, ny).at = "errormsg" /\ ErrorMsg(t, inc, ny).t = t
         /\ ErrorMsg(t, inc, ny).inc = inc /\ ErrorMsg(t, inc, ny).ny = ny
BY DEF Exec, ErrorMsg, Activation

(* ilyaG_errormsg is called: for an error of what runs, or because a call  *)
(* finds the C stack full.                                                 *)
LEMMA PushErrorMsgOK ==
  ASSUME NEW u, NEW g, Inv(u, g), u.cs # <<>>, NEW t, t = Running(u),
         NEW inc \in {0, 1}, NEW ny \in {0, 1}, NEW v,
         Recounted(u, v, t, g[Len(u.cs)].p + inc, g[Len(u.cs)].q + ny),
         g[Len(u.cs)].p + inc < ErrCCalls,
         LET c == u.cs[Len(u.cs)]
             F == u.th[t].ci
         IN \/ Called(F, Len(F), c, ErrorMsg(t, inc, ny))
            \/ /\ c.at = "exec" \/ (c.at = "cfun" /\ Len(F) > 0 /\ F[Len(F)].kind \in {"wrap", "close"})
               /\ inc = 0 /\ ny = 0
  PROVE  \E g2 : Inv(Push(v, ErrorMsg(t, inc, ny)), g2)
<1> DEFINE n == Len(u.cs)
           c == u.cs[n]
           F == u.th[t].ci
           a == ErrorMsg(t, inc, ny)
           u2 == Push(v, a)
           r == [p |-> g[n].p + inc, q |-> g[n].q + ny, b |-> Len(F)]
           g2 == Append(g, r)
<1>1. /\ n \in Nat /\ n > 0 /\ t \in Thr /\ c.t = t /\ c \in Activation
      /\ g[n].p \in Nat /\ g[n].q \in Nat /\ g[n].b \in Nat /\ g[n].b <= Len(F)
      /\ u.th[t] \in Thread /\ FramesOK(F)
  BY RunFacts DEF Global
<1>2. Len(F) \in Nat
  BY <1>1, ThreadType
<1>3. a \in Activation /\ a.at = "errormsg" /\ a.t = t /\ a.inc = inc /\ a.ny = ny
  BY <1>1, ExecIs
<1>4. r \in Ghost /\ r.p = a.inc + g[n].p /\ r.q = a.ny + g[n].q /\ r.b = Len(F)
  BY <1>1, <1>2, <1>3 DEF Ghost
<1>5. /\ v \in State /\ v.cs = u.cs /\ v.wrong = u.wrong
      /\ \A x \in Thr : x # t => v.th[x] = u.th[x]
      /\ v.th[t].ccalls = r.p /\ v.th[t].nny = r.q
      /\ v.th[t].ci = F /\ v.th[t].tbc = u.th[t].tbc /\ v.th[t].status = u.th[t].status
      /\ v.th[t].fn = u.th[t].fn
  BY DEF Recounted
<1>6. u2 \in State /\ u2.th = v.th /\ u2.wrong = v.wrong /\ u2.cs = Append(u.cs, a)
  BY <1>3, <1>5, PushFields
<1>7. ~u.wrong /\ u.cs \in Seq(Activation)
  BY StateType DEF Inv
<1>8. \/ Called(F, Len(F), c, a)
      \/ /\ c.at = "exec" \/ (c.at = "cfun" /\ Len(F) > 0 /\ F[Len(F)].kind \in {"wrap", "close"})
         /\ inc = 0 /\ ny = 0
  OBVIOUS
<1> HIDE DEF a, u2, r
<1>9. c.at # "errormsg" /\ (c.at = "cfun" /\ Protects(F[Len(F)]) => F[Len(F)].ypcall)
  BY <1>8 DEF Called, Protects
<1>10. r.p < ErrCCalls
  BY DEF r
<1>11. Grows(u, u2, g, t, a, r)
  BY <1>1, <1>2, <1>3, <1>4, <1>5, <1>6, <1>7, <1>9, <1>10 DEF Grows
<1>12. /\ Len(u2.cs) = n + 1 /\ u2.cs[n] = c /\ u2.cs[n + 1] = a /\ g2[n + 1] = r
       /\ End(u2.th, u2.cs, g2, n + 1) = Len(F) /\ Fr(u2.th, u2.cs, n + 1) = F
  <2>1. Grown(u, u2, g, g2, t, a, r)
    BY <1>11, GrowKept
  <2>2. n \in 1 .. n
    BY <1>1
  <2>3. QED
    BY <2>1, <2>2, <1>5, <1>6 DEF Grown
<1> HIDE DEF n, c, F, g2
<1>13. MsgOK(u2.th, u2.cs, g2, n + 1)
  <2>1. n + 1 > 1 /\ (n + 1) - 1 = n
    BY <1>1
  <2>2. Called(F, Len(F), c, a) \/ (/\ c.at = "exec" \/ (c.at = "cfun" /\ Len(F) > 0 /\ F[Len(F)].kind \in {"wrap", "close"})
                                   /\ a.inc = 0 /\ a.ny = 0)
    BY <1>3, <1>8
  <2>3. QED
    BY <2>1, <2>2, <1>4, <1>12 DEF MsgOK
<1>14. Serves(u2.th, u2.cs, g2, n + 1)
  BY <1>3, <1>12, <1>13 DEF Serves, ExecOK, CFunOK, TryOK, CloseOK, UnrollOK
<1>15. Inv(u2, g2)
  BY <1>11, <1>14, GrowOK DEF n, g2
<1>16. QED
  BY <1>15 DEF u2, a

(* ccall is entered: what runs may call a function written in Ilya.        *)
MayCall(u, t, inc, ny) ==
  /\ u.cs # <<>> /\ t = Running(u) /\ inc \in {0, 1} /\ ny \in {0, 1}
  /\ Called(u.th[t].ci, Len(u.th[t].ci), u.cs[Len(u.cs)], Exec(t, inc, ny))

(* What may call an Ilya function, and may so raise an error.              *)
LEMMA CalledBy ==
  ASSUME NEW F, NEW b, NEW c, NEW t \in Thr, NEW inc \in {0, 1}, NEW ny \in {0, 1},
         Called(F, b, c, Exec(t, inc, ny))
  PROVE  /\ Called(F, b, c, ErrorMsg(t, inc, ny))
         /\ c.at \notin {"errormsg", "exec", "unroll"}
         /\ c.at = "cfun" => b > 0 /\ (F[b].kind = "cfun" \/ (Protects(F[b]) /\ F[b].ypcall))
BY ExecIs DEF Called

(* Where ccall is entered, an error may be raised.                         *)
LEMMA CallMayThrow ==
  ASSUME NEW u, NEW g, Inv(u, g), NEW t, NEW inc, NEW ny, MayCall(u, t, inc, ny)
  PROVE  MayThrow(u, t)
<1> DEFINE n == Len(u.cs)
           c == u.cs[n]
           F == u.th[t].ci
<1>1. /\ n \in Nat /\ n > 0 /\ t \in Thr /\ c.t = t /\ Local(u.th, u.cs, g, n)
      /\ Fr(u.th, u.cs, n) = F /\ End(u.th, u.cs, g, n) = Len(F)
  BY RunFacts DEF MayCall
<1>2. inc \in {0, 1} /\ ny \in {0, 1} /\ Called(F, Len(F), c, Exec(t, inc, ny))
  BY DEF MayCall
<1>3. c.at = "cfun" => Len(F) > 0 /\ (F[Len(F)].kind = "cfun" \/ (Protects(F[Len(F)]) /\ F[Len(F)].ypcall))
  BY <1>1, <1>2, CalledBy
<1>4. n > 1
  <2>6. n \in Nat /\ n > 0
    BY <1>1
  <2> HIDE DEF n
  <2>1. SUFFICES ASSUME n = 1 PROVE FALSE
    BY <2>6
  <2>2. c.at = "cfun" /\ F[1].kind = "pcall" /\ ~F[1].ypcall /\ g[1].b = 0
    BY <2>1, <1>1 DEF Local, FirstOK
  <2>3. CFunOK(u.th, u.cs, g, n)
    BY <1>1 DEF Local, Serves
  <2>4. Len(F) = 1
    <3>1. End(u.th, u.cs, g, n) = Len(F) /\ u.cs[n].at = "cfun" /\ g[n].b = 0
      BY <2>1, <2>2, <1>1
    <3> HIDE DEF F, c
    <3>2. QED
      BY <2>3, <3>1 DEF CFunOK
  <2>5. QED
    BY <2>2, <2>4, <1>3
<1>5. c.at = "cfun" /\ Protects(F[Len(F)]) => F[Len(F)].ypcall
  BY <1>3 DEF Protects
<1>6. u.cs # <<>> /\ t = Running(u)
  BY DEF MayCall
<1>7. QED
  BY <1>4, <1>5, <1>6 DEF MayThrow

(* ... and the C stack has room for it.                                    *)
LEMMA PushExecOK ==
  ASSUME NEW u, NEW g, Inv(u, g), NEW t, NEW inc, NEW ny, MayCall(u, t, inc, ny), NEW v,
         Recounted(u, v, t, g[Len(u.cs)].p + inc, g[Len(u.cs)].q + ny),
         g[Len(u.cs)].p + inc < ErrCCalls
  PROVE  LET w == PushFrame(v, t, "ilya")
         IN \E g2 : Inv(Push(SetTop(w, t, [TopFrame(w, t) EXCEPT !.fresh = TRUE]), Exec(t, inc, ny)), g2)
<1> DEFINE n == Len(u.cs)
           c == u.cs[n]
           F == u.th[t].ci
           a == Exec(t, inc, ny)
           w == PushFrame(v, t, "ilya")
           f == FrameOf("ilya", TopSlot(v, t) + 1)
           f2 == [f EXCEPT !.fresh = TRUE]
           x == SetTop(w, t, [TopFrame(w, t) EXCEPT !.fresh = TRUE])
           u2 == Push(x, a)
           r == [p |-> g[n].p + inc, q |-> g[n].q + ny, b |-> Len(F)]
           g2 == Append(g, r)
<1>0. /\ u.cs # <<>> /\ t = Running(u) /\ inc \in {0, 1} /\ ny \in {0, 1}
      /\ Called(F, Len(F), c, a)
  BY DEF MayCall
<1>1. /\ n \in Nat /\ n > 0 /\ t \in Thr /\ c.t = t /\ c \in Activation
      /\ g[n].p \in Nat /\ g[n].q \in Nat /\ g[n].b \in Nat /\ g[n].b <= Len(F)
      /\ u.th[t] \in Thread /\ FramesOK(F) /\ Owned(u.th, u.cs, t)
  BY <1>0, RunFacts DEF Global
<1>2. Len(F) \in Nat /\ F \in Seq(Frame)
  BY <1>1, ThreadType
<1>3. a \in Activation /\ a.at = "exec" /\ a.t = t /\ a.inc = inc /\ a.ny = ny
  BY <1>0, <1>1, ExecIs
<1>4. r \in Ghost /\ r.p = a.inc + g[n].p /\ r.q = a.ny + g[n].q /\ r.b = Len(F)
  BY <1>0, <1>1, <1>2, <1>3 DEF Ghost
<1>5. /\ v \in State /\ v.cs = u.cs /\ v.wrong = u.wrong
      /\ \A y \in Thr : y # t => v.th[y] = u.th[y]
      /\ v.th[t].ccalls = r.p /\ v.th[t].nny = r.q
      /\ v.th[t].ci = F /\ v.th[t].tbc = u.th[t].tbc /\ v.th[t].status = u.th[t].status
      /\ v.th[t].fn = u.th[t].fn
  BY DEF Recounted
<1> HIDE DEF a, r
<1>6. FramesOK(v.th[t].ci) /\ Owned(v.th, v.cs, t)
  BY <1>1, <1>5 DEF Owned
<1>7. /\ OnlyFrames(v, w, t) /\ w.th[t].ci = Append(F, f)
      /\ f \in Frame /\ NewFrame(v.th[t], f2) /\ f2 \in Frame
  <2>1. OnlyFrames(v, w, t) /\ w.th[t].ci = Append(v.th[t].ci, f) /\ f \in Frame
    BY <1>1, <1>5, <1>6, PushFrameIs
  <2>2. NewFrame(v.th[t], f2)
    BY <1>1, <1>5, <1>6, FrameOfIsNew
  <2>3. QED
    BY <2>1, <2>2, <1>5 DEF NewFrame
<1>8. f2.kind = "ilya" /\ f2.fresh
  BY DEF FrameOf
<1>9. TopFrame(w, t) = f
  BY <1>2, <1>7, SMTT(20) DEF TopFrame, CI, Last
<1>10. x = SetTop(w, t, f2)
  BY <1>9
<1> HIDE DEF f, f2, x, w
<1>11. /\ w \in State /\ w.th[t].ci # <<>> /\ Len(w.th[t].ci) = Len(F) + 1
       /\ \A i \in 1 .. Len(F) : w.th[t].ci[i] = F[i]
  BY <1>2, <1>7, SeqAppend DEF OnlyFrames
<1>12. /\ OnlyFrames(w, x, t) /\ Len(x.th[t].ci) = Len(F) + 1
       /\ \A i \in 1 .. Len(F) + 1 : x.th[t].ci[i] = IF i = Len(F) + 1 THEN f2 ELSE w.th[t].ci[i]
  <2>1. f2 \in Frame /\ t \in Thr
    BY <1>1, <1>7
  <2> HIDE DEF F
  <2>2. /\ OnlyFrames(w, SetTop(w, t, f2), t) /\ Len(SetTop(w, t, f2).th[t].ci) = Len(w.th[t].ci)
        /\ \A i \in 1 .. Len(w.th[t].ci) : SetTop(w, t, f2).th[t].ci[i] =
             IF i = Len(w.th[t].ci) THEN f2 ELSE w.th[t].ci[i]
    BY <2>1, <1>11, SetTopIs
  <2>3. QED
    BY <2>2, <1>10, <1>11
<1>13. /\ OnlyFrames(v, x, t) /\ x.th[t].ci[Len(F) + 1] = f2
       /\ \A i \in 1 .. Len(F) : x.th[t].ci[i] = F[i]
  <2>1. OnlyFrames(v, x, t)
    BY <1>1, <1>7, <1>12 DEF OnlyFrames
  <2>2. Len(F) + 1 \in 1 .. Len(F) + 1 /\ \A i \in 1 .. Len(F) : i \in 1 .. Len(F) + 1 /\ i # Len(F) + 1
    BY <1>2
  <2>3. QED
    BY <2>1, <2>2, <1>11, <1>12
<1>14. u2 \in State /\ u2.th = x.th /\ u2.wrong = u.wrong /\ u2.cs = Append(u.cs, a)
  <2>1. x \in State /\ x.cs = u.cs /\ x.wrong = u.wrong
    BY <1>5, <1>13 DEF OnlyFrames
  <2>2. QED
    BY <2>1, <1>3, PushFields
<1> HIDE DEF u2
<1>15. /\ u2.th[t].ccalls = r.p /\ u2.th[t].nny = r.q
       /\ u2.th[t].status = u.th[t].status /\ u2.th[t].fn = u.th[t].fn /\ u2.th[t].tbc = u.th[t].tbc
       /\ \A y \in Thr : y # t => u2.th[y] = u.th[y]
       /\ Len(u2.th[t].ci) = Len(F) + 1 /\ u2.th[t].ci[Len(F) + 1] = f2
       /\ \A i \in 1 .. Len(F) : u2.th[t].ci[i] = F[i]
  BY <1>1, <1>5, <1>12, <1>13, <1>14 DEF OnlyFrames
<1>16. NewFrame(u.th[t], f2)
  BY <1>5, <1>7 DEF NewFrame
<1>17. ~u.wrong /\ ~u2.wrong
  BY <1>14 DEF Inv
<1>18. /\ c.at \notin {"errormsg", "exec", "unroll"}
       /\ c.at = "cfun" /\ Protects(F[Len(F)]) => F[Len(F)].ypcall
  BY <1>0, <1>1, CalledBy DEF Protects, a
<1>19. Grows(u, u2, g, t, a, r)
  <2>1. r.p < ErrCCalls
    BY DEF r
  <2>2. "ilya" \notin CKinds
    BY DEF CKinds
  <2>3. g[n].b <= r.b /\ r.b <= Len(u2.th[t].ci) /\ r.b = Len(F) /\ a.at \notin Msgs
        /\ Len(u2.th[t].ci) = Len(F) + 1 /\ u2.th[t].ci[Len(u2.th[t].ci)] = f2
    BY <1>1, <1>2, <1>3, <1>4, <1>15 DEF Msgs
  <2>4. \/ Len(u2.th[t].ci) = Len(F)
        \/ LET f3 == u2.th[t].ci[Len(u2.th[t].ci)]
           IN /\ Len(u2.th[t].ci) = Len(F) + 1 /\ NewFrame(u.th[t], f3)
              /\ f3.kind = "ilya" <=> f3.fresh
              /\ f3.kind \in CKinds \ {"yield"} => a.at = "cfun" /\ r.b = Len(F)
              /\ f3.kind = "yield" => a.at \in Msgs /\ r.b = Len(u2.th[t].ci)
    BY <2>2, <2>3, <1>8, <1>16
  <2>5. QED
    BY <2>1, <2>3, <2>4, <1>3, <1>4, <1>14, <1>15, <1>17, <1>18 DEF Grows
<1>20. /\ Len(u2.cs) = n + 1 /\ u2.cs[n] = c /\ u2.cs[n + 1] = a /\ g2[n + 1] = r
       /\ End(u2.th, u2.cs, g2, n + 1) = Len(F) + 1 /\ Fr(u2.th, u2.cs, n + 1) = u2.th[t].ci
  <2>1. Grown(u, u2, g, g2, t, a, r)
    BY <1>0, <1>19, GrowKept
  <2>2. n \in 1 .. n
    BY <1>1
  <2>3. QED
    BY <2>1, <2>2, <1>15 DEF Grown
<1>21. Called(u2.th[t].ci, Len(F), c, a)
  <2>1. Len(F) > 0 => u2.th[t].ci[Len(F)] = F[Len(F)]
    <3>1. Len(F) > 0 => Len(F) \in 1 .. Len(F)
      BY <1>2
    <3> HIDE DEF F
    <3>2. QED
      BY <3>1, <1>15
  <2> HIDE DEF c, F
  <2>2. QED
    BY <2>1, <1>0 DEF Called
<1> HIDE DEF n, c, F, g2
<1>22. ExecOK(u2.th, u2.cs, g2, n + 1)
  <2>1. n + 1 > 1 /\ (n + 1) - 1 = n /\ Len(F) < Len(F) + 1 /\ \A i \in Len(F) + 2 .. Len(F) + 1 : FALSE
    BY <1>1, <1>2
  <2>2. QED
    BY <2>1, <1>4, <1>8, <1>15, <1>18, <1>20, <1>21 DEF ExecOK
<1>23. Serves(u2.th, u2.cs, g2, n + 1)
  BY <1>3, <1>20, <1>22 DEF Serves, CFunOK, TryOK, CloseOK, MsgOK, UnrollOK, Msgs
<1>24. Inv(u2, g2)
  BY <1>0, <1>19, <1>23, GrowOK DEF n, g2
<1>25. QED
  BY <1>24 DEF u2, x, w, a

(* ccall of a function written in Ilya.                                    *)
LEMMA CCallOK ==
  ASSUME NEW u, NEW g, Inv(u, g), NEW t, NEW inc, NEW ny, MayCall(u, t, inc, ny)
  PROVE  \E g2 : Inv(CCall(u, t, inc, ny), g2)
<1> DEFINE n == Len(u.cs)
           p == g[n].p + inc
           q == g[n].q + ny
           v == [u EXCEPT !.th[t].ccalls = @ + inc, !.th[t].nny = @ + ny]
           w == PushFrame(v, t, "ilya")
<1>1. /\ n \in Nat /\ n > 0 /\ t \in Thr /\ u.cs[n].t = t /\ u \in State
      /\ g[n].p \in Nat /\ g[n].q \in Nat /\ g[n].p < ErrCCalls
      /\ u.th[t].ccalls = g[n].p /\ u.th[t].nny = g[n].q
  BY RunFacts DEF MayCall, Inv
<1>2. inc \in {0, 1} /\ ny \in {0, 1} /\ u.cs # <<>> /\ t = Running(u)
  BY DEF MayCall
<1>3. p \in Nat /\ q \in Nat
  BY <1>1, <1>2
<1>4. Recounted(u, v, t, p, q)
  <2>1. v = [u EXCEPT !.th[t].ccalls = p, !.th[t].nny = q]
    <3>1. u.th \in [Thr -> Thread] /\ u.th[t] \in Thread
      BY <1>1, StateType
    <3>2. [u EXCEPT !.th[t].ccalls = p].th[t].nny = u.th[t].nny
      BY <1>1, <3>1 DEF State, Thread
    <3>3. [u EXCEPT !.th[t].ccalls = u.th[t].ccalls + inc] = [u EXCEPT !.th[t].ccalls = p]
      BY <1>1
    <3>4. v = [[u EXCEPT !.th[t].ccalls = u.th[t].ccalls + inc] EXCEPT !.th[t].nny =
                 [u EXCEPT !.th[t].ccalls = u.th[t].ccalls + inc].th[t].nny + ny]
      OBVIOUS
    <3> HIDE DEF p
    <3>5. v = [[u EXCEPT !.th[t].ccalls = p] EXCEPT !.th[t].nny = [u EXCEPT !.th[t].ccalls = p].th[t].nny + ny]
      BY <3>3, <3>4
    <3>6. QED
      BY <3>2, <3>5, <1>1
  <2> HIDE DEF v, p, q
  <2>2. QED
    BY <2>1, <1>1, <1>3, RecountIs
<1>5. v.th[t].ccalls = p
  BY <1>4 DEF Recounted
<1>6. CCall(u, t, inc, ny) =
        IF CStackFull(v, t) THEN CheckCStack(v, t, inc, ny)
        ELSE Push(SetTop(w, t, [TopFrame(w, t) EXCEPT !.fresh = TRUE]), Exec(t, inc, ny))
  BY DEF CCall
<1> HIDE DEF v, p, q
<1>7. CASE CStackFull(v, t) /\ p = MaxCCalls
  <2>1. CCall(u, t, inc, ny) = Push(v, ErrorMsg(t, inc, ny))
    BY <1>5, <1>6, <1>7 DEF CheckCStack
  <2>2. p < ErrCCalls
    BY <1>7, CoroAssumption
  <2>3. Called(u.th[t].ci, Len(u.th[t].ci), u.cs[n], ErrorMsg(t, inc, ny))
    <3>1. Called(u.th[t].ci, Len(u.th[t].ci), u.cs[n], Exec(t, inc, ny))
      BY DEF MayCall
    <3>2. QED
      BY <3>1, <1>1, <1>2, CalledBy
  <2>4. \E g2 : Inv(Push(v, ErrorMsg(t, inc, ny)), g2)
    BY <2>2, <2>3, <1>2, <1>4, PushErrorMsgOK DEF p, q
  <2>5. QED
    BY <2>1, <2>4
<1>8. CASE CStackFull(v, t) /\ p # MaxCCalls
  <2>1. CCall(u, t, inc, ny) = Throw(v, t, "errerr")
    BY <1>5, <1>6, <1>8 DEF CheckCStack
  <2>2. MayThrow(u, t)
    BY CallMayThrow
  <2>3. LastTry(u, t) \in 1 .. Len(u.cs) /\ u.cs[LastTry(u, t)].at = "try"
    BY <2>2, LastTryIs DEF MayThrow
  <2>4. Throw(v, t, "errerr") = Throw(u, t, "errerr")
    BY <2>3, <1>1, <1>3, <1>4, ThrowRecounted
  <2>5. "errerr" \in Status /\ ErrorStatus("errerr")
    BY DEF Status, ErrorStatus
  <2>6. \E g2 : Inv(Throw(u, t, "errerr"), g2)
    BY <2>2, <2>5, ThrowOK
  <2>7. QED
    BY <2>1, <2>4, <2>6
<1>9. CASE ~CStackFull(v, t)
  <2>1. CCall(u, t, inc, ny) = Push(SetTop(w, t, [TopFrame(w, t) EXCEPT !.fresh = TRUE]), Exec(t, inc, ny))
    BY <1>6, <1>9
  <2>2. p < ErrCCalls
    <3>1. ErrCCalls \in Nat
      BY CoroAssumption
    <3>2. QED
      BY <3>1, <1>3, <1>5, <1>9 DEF CStackFull
  <2>3. QED
    BY <2>1, <2>2, <1>4, PushExecOK DEF p, q
<1>10. QED
  BY <1>7, <1>8, <1>9

(* ilyaG_runerror and ilya_error.                                          *)
LEMMA RunErrorOK ==
  ASSUME NEW u, NEW g, Inv(u, g), u.cs # <<>>, NEW t, t = Running(u),
         LET c == u.cs[Len(u.cs)]
             F == u.th[t].ci
         IN c.at = "exec" \/ (c.at = "cfun" /\ Len(F) > 0 /\ F[Len(F)].kind \in {"wrap", "close"})
  PROVE  \E g2 : Inv(RunError(u, t), g2)
<1>1. /\ t \in Thr /\ u \in State
      /\ g[Len(u.cs)].p \in Nat /\ g[Len(u.cs)].q \in Nat /\ g[Len(u.cs)].p < ErrCCalls
      /\ u.th[t].ccalls = g[Len(u.cs)].p /\ u.th[t].nny = g[Len(u.cs)].q
  BY RunFacts DEF Inv
<1>2. Recounted(u, u, t, g[Len(u.cs)].p + 0, g[Len(u.cs)].q + 0)
  BY <1>1 DEF Recounted
<1>3. g[Len(u.cs)].p + 0 < ErrCCalls
  BY <1>1
<1>4. \E g2 : Inv(Push(u, ErrorMsg(t, 0, 0)), g2)
  BY <1>2, <1>3, PushErrorMsgOK
<1>5. QED
  BY <1>4 DEF RunError

-----------------------------------------------------------------------------
(* The fields of the activation of a C function.                           *)
LEMMA CFunIs ==
  ASSUME NEW t \in Thr, NEW co \in Thr
  PROVE  /\ CFun(t, co) \in Activation /\ CFun(t, co).at = "cfun" /\ CFun(t, co).t = t
         /\ CFun(t, co).inc = 0 /\ CFun(t, co).ny = 0 /\ CFun(t, co).ok /\ CFun(t, co).co = co
BY DEF CFun, Activation

(* A C function is called, and has its frame and its activation.           *)
Entered(u, v, t, kind, co) ==
  LET n == Len(u.cs)
      F == u.th[t].ci
      F2 == v.th[t].ci
  IN /\ v \in State /\ v.cs # <<>> /\ Running(v) = t /\ Len(v.cs) = n + 1
     /\ v.cs[n + 1].at = "cfun" /\ v.cs[n + 1].t = t /\ v.cs[n + 1].ok /\ v.cs[n + 1].co = co
     /\ \A k \in 1 .. n : v.cs[k] = u.cs[k]
     /\ \A x \in Thr : x # t => v.th[x] = u.th[x]
     /\ v.th[t].status = u.th[t].status /\ v.th[t].fn = u.th[t].fn
     /\ v.th[t].errfunc = u.th[t].errfunc
     /\ v.th[t].ccalls = u.th[t].ccalls /\ v.th[t].nny = u.th[t].nny
     /\ Len(F2) = Len(F) + 1 /\ \A i \in 1 .. Len(F) : F2[i] = F[i]
     /\ F2[Len(F) + 1] = FrameOf(kind, TopSlot(u, t) + 1)

(* Enter adds a frame and an activation.                                   *)
LEMMA EnterIs ==
  ASSUME NEW u \in State, NEW t \in Thr, FramesOK(u.th[t].ci), Owned(u.th, u.cs, t),
         NEW kind \in CKinds, NEW co \in Thr
  PROVE  /\ Entered(u, Enter(u, t, kind, co), t, kind, co)
         /\ Enter(u, t, kind, co).cs = Append(u.cs, CFun(t, co))
         /\ Enter(u, t, kind, co).wrong = u.wrong
         /\ Enter(u, t, kind, co).th[t].tbc = u.th[t].tbc
         /\ NewFrame(u.th[t], FrameOf(kind, TopSlot(u, t) + 1))
<1> DEFINE w == PushFrame(u, t, kind)
           f == FrameOf(kind, TopSlot(u, t) + 1)
           a == CFun(t, co)
           v == Push(w, a)
           F == u.th[t].ci
<1>1. OnlyFrames(u, w, t) /\ w.th[t].ci = Append(F, f) /\ f \in Frame /\ NewFrame(u.th[t], f)
  BY PushFrameIs
<1>2. /\ a \in Activation /\ a.at = "cfun" /\ a.t = t /\ a.ok /\ a.co = co
  BY CFunIs
<1> HIDE DEF w, f, a
<1>3. v \in State /\ v.th = w.th /\ v.wrong = u.wrong /\ v.cs = Append(u.cs, a)
  <2>1. w \in State /\ w.cs = u.cs /\ w.wrong = u.wrong
    BY <1>1 DEF OnlyFrames
  <2>2. QED
    BY <2>1, <1>2, PushFields
<1> HIDE DEF v
<1>4. /\ Len(v.cs) = Len(u.cs) + 1 /\ v.cs[Len(u.cs) + 1] = a
      /\ \A k \in 1 .. Len(u.cs) : v.cs[k] = u.cs[k]
  BY <1>2, <1>3, StateType, SeqAppend
<1>5. v.cs # <<>> /\ Running(v) = t
  <2>1. v.cs # <<>>
    BY <1>3, <1>4, StateType
  <2>2. Running(v) = v.cs[Len(v.cs)].t
    BY <2>1, <1>3, StateType
  <2>3. QED
    BY <2>1, <2>2, <1>2, <1>4
<1>6. /\ Len(v.th[t].ci) = Len(F) + 1 /\ v.th[t].ci[Len(F) + 1] = f
      /\ \A i \in 1 .. Len(F) : v.th[t].ci[i] = F[i]
  <2>1. F \in Seq(Frame)
    BY StateType, ThreadType
  <2>2. v.th[t].ci = Append(F, f) /\ f \in Frame
    BY <1>1, <1>3
  <2> HIDE DEF F
  <2>3. QED
    BY <2>1, <2>2, SeqAppend
<1>7. Entered(u, v, t, kind, co)
  BY <1>1, <1>2, <1>3, <1>4, <1>5, <1>6 DEF Entered, OnlyFrames, f
<1>8. QED
  BY <1>1, <1>3, <1>7 DEF Enter, OnlyFrames, v, w, a, f

(* An Ilya function calls it.                                              *)
LEMMA EnterOK ==
  ASSUME NEW u, NEW g, Inv(u, g), u.cs # <<>>, NEW t, t = Running(u),
         u.cs[Len(u.cs)].at = "exec", NEW kind \in CKinds \ {"yield"}, NEW co \in Thr
  PROVE  \E g2 : /\ Inv(Enter(u, t, kind, co), g2) /\ \A k \in 1 .. Len(u.cs) : g2[k] = g[k]
                 /\ g2[Len(u.cs) + 1].q = g[Len(u.cs)].q
<1> DEFINE n == Len(u.cs)
           c == u.cs[n]
           F == u.th[t].ci
           f == FrameOf(kind, TopSlot(u, t) + 1)
           a == CFun(t, co)
           u2 == Enter(u, t, kind, co)
           r == [p |-> g[n].p, q |-> g[n].q, b |-> Len(F)]
           g2 == Append(g, r)
<1>1. /\ n \in Nat /\ n > 0 /\ t \in Thr /\ c.t = t /\ u \in State /\ ~u.wrong
      /\ g[n].p \in Nat /\ g[n].q \in Nat /\ g[n].b \in Nat /\ g[n].b <= Len(F)
      /\ g \in Seq(Ghost) /\ Len(g) = n /\ g[n].p < ErrCCalls
      /\ u.th[t].ccalls = g[n].p /\ u.th[t].nny = g[n].q
      /\ u.th[t] \in Thread /\ FramesOK(F) /\ Owned(u.th, u.cs, t)
  BY RunFacts DEF Global, Inv
<1>2. Len(F) \in Nat
  BY <1>1, ThreadType
<1>3. a \in Activation /\ a.at = "cfun" /\ a.t = t /\ a.inc = 0 /\ a.ny = 0 /\ a.ok
  BY <1>1, CFunIs
<1>4. r \in Ghost /\ r.p = a.inc + g[n].p /\ r.q = a.ny + g[n].q /\ r.b = Len(F) /\ r.q = g[n].q
      /\ r.p = g[n].p
  BY <1>1, <1>2, <1>3 DEF Ghost
<1>5. Entered(u, u2, t, kind, co) /\ u2.cs = Append(u.cs, a) /\ u2.wrong = u.wrong
      /\ u2.th[t].tbc = u.th[t].tbc /\ NewFrame(u.th[t], f)
  BY <1>1, EnterIs
<1>6. f.kind = kind /\ ~f.fresh /\ ~f.ypcall /\ ~f.hit
  BY DEF FrameOf
<1> HIDE DEF f, a, u2, r
<1>7. /\ u2 \in State /\ u2.cs = Append(u.cs, a)
      /\ \A y \in Thr : y # t => u2.th[y] = u.th[y]
      /\ u2.th[t].ccalls = r.p /\ u2.th[t].nny = r.q
      /\ u2.th[t].status = u.th[t].status /\ u2.th[t].fn = u.th[t].fn
      /\ Len(u2.th[t].ci) = Len(F) + 1 /\ u2.th[t].ci[Len(F) + 1] = f
      /\ \A i \in 1 .. Len(F) : u2.th[t].ci[i] = F[i]
  BY <1>1, <1>4, <1>5 DEF Entered, f
<1>8. "ilya" \notin CKinds
  BY DEF CKinds
<1>9. Grows(u, u2, g, t, a, r)
  <2>1. r.p < ErrCCalls /\ r.b = Len(F) /\ ~u2.wrong
    BY <1>1, <1>4, <1>5
  <2>2. \/ Len(u2.th[t].ci) = Len(F)
        \/ LET f3 == u2.th[t].ci[Len(u2.th[t].ci)]
           IN /\ Len(u2.th[t].ci) = Len(F) + 1 /\ NewFrame(u.th[t], f3)
              /\ f3.kind = "ilya" <=> f3.fresh
              /\ f3.kind \in CKinds \ {"yield"} => a.at = "cfun" /\ r.b = Len(F)
              /\ f3.kind = "yield" => a.at \in Msgs /\ r.b = Len(u2.th[t].ci)
    BY <2>1, <1>3, <1>5, <1>6, <1>7, <1>8
  <2>3. g[n].b <= r.b /\ r.b <= Len(u2.th[t].ci)
    <3>1. g[n].b <= Len(F) /\ g[n].b \in Nat /\ r.b = Len(F) /\ Len(u2.th[t].ci) = Len(F) + 1
      BY <1>1, <1>4, <1>7
    <3> HIDE DEF F, n
    <3>2. QED
      BY <3>1, <1>2
  <2>4. QED
    BY <2>1, <2>2, <2>3, <1>3, <1>4, <1>5, <1>7 DEF Grows
<1>10. /\ Len(u2.cs) = n + 1 /\ u2.cs[n] = c /\ u2.cs[n + 1] = a /\ g2[n + 1] = r
       /\ End(u2.th, u2.cs, g2, n + 1) = Len(F) + 1 /\ Fr(u2.th, u2.cs, n + 1) = u2.th[t].ci
       /\ ~Same(u2.cs, n + 1)
  <2>1. Grown(u, u2, g, g2, t, a, r)
    BY <1>9, GrowKept
  <2>2. n \in 1 .. n
    BY <1>1
  <2>3. QED
    BY <2>1, <2>2, <1>7 DEF Grown
<1>11. g2[n + 1] = r /\ \A k \in 1 .. n : g2[k] = g[k]
  BY <1>1, <1>4, SeqAppend
<1> HIDE DEF n, c, F, g2
<1>12. CFunOK(u2.th, u2.cs, g2, n + 1)
  <2>1. n + 1 > 1 /\ (n + 1) - 1 = n
    BY <1>1
  <2>2. c.at = "exec"
    BY DEF c, n
  <2>3. QED
    BY <2>1, <2>2, <1>3, <1>4, <1>6, <1>7, <1>10 DEF CFunOK
<1>13. Serves(u2.th, u2.cs, g2, n + 1)
  BY <1>3, <1>10, <1>12 DEF Serves, ExecOK, TryOK, CloseOK, MsgOK, UnrollOK, Msgs
<1>14. Inv(u2, g2)
  BY <1>9, <1>13, GrowOK DEF n, g2
<1>15. QED
  BY <1>4, <1>11, <1>14 DEF u2, n

-----------------------------------------------------------------------------
(* The thread t that runs goes on with its activation m on top.            *)
Backs(u, u2, g, t, m) ==
  /\ u2 \in State /\ ~u2.wrong /\ m \in 1 .. Len(u.cs) /\ u.cs[m].t = t
  /\ Cut(u.cs, u2.cs, m)
  /\ \A x \in Thr : x # t => u2.th[x] = u.th[x]
  /\ u2.th[t].ccalls = g[m].p /\ u2.th[t].nny = g[m].q
  /\ u2.th[t].status = u.th[t].status /\ u2.th[t].fn = u.th[t].fn
  /\ g[m].b <= Len(u2.th[t].ci)
  /\ \A i \in 1 .. g[m].b : u2.th[t].ci[i] = u.th[t].ci[i]
  /\ m = 1 => u2.th[t].ci[1].kind = "pcall" /\ ~u2.th[t].ci[1].ypcall

(* Then the invariant holds if m serves its frames and t is in order.      *)
LEMMA BackOK ==
  ASSUME NEW u, NEW g, Inv(u, g), u.cs # <<>>, NEW t, t = Running(u),
         NEW u2, NEW m, Backs(u, u2, g, t, m), Serves(u2.th, u2.cs, g, m),
         FramesOK(u2.th[t].ci), Backed(u2.th, u2.cs, g, t), Ordered(u2.th, u2.cs, t),
         Owned(u2.th, u2.cs, t)
  PROVE  Inv(u2, SubSeq(g, 1, m))
<1> DEFINE n == Len(u.cs)
           g2 == SubSeq(g, 1, m)
<1>1. /\ n \in Nat /\ n > 0 /\ t \in Thr /\ u.cs[n].t = t
      /\ u.th[t].status = "ok" /\ ~u.th[t].fn /\ g \in Seq(Ghost) /\ Len(g) = n
  BY RunFacts
<1>2. m \in 1 .. n /\ m \in Nat /\ m \in 0 .. n /\ m > 0 /\ m \in 1 .. m
  BY <1>1 DEF Backs
<1>3. g2 \in Seq(Ghost) /\ Len(g2) = m /\ \A k \in 1 .. m : g2[k] = g[k]
  BY <1>1, <1>2, SeqCut
<1> HIDE DEF g2
<1>4. \A k \in m + 1 .. n : u.cs[k].t = t
  <2>1. SUFFICES ASSUME NEW k \in m + 1 .. n PROVE u.cs[k].t = t
    OBVIOUS
  <2>2. m < n /\ n \in 1 .. n /\ k \in m .. n /\ u.cs[m].t = u.cs[n].t
    BY <1>1, <1>2 DEF Backs
  <2>3. QED
    BY <2>2, <1>1, <1>2, Contiguous
<1>5. Cuts(u, u2, g, g2, t, m)
  BY <1>1, <1>2, <1>3, <1>4 DEF Cuts, Backs
<1>6. Len(u2.cs) = m /\ u2.cs[m].t = t
  BY <1>2 DEF Backs, Cut
<1>7. ~Same(u2.cs, m) /\ g2[m] = g[m]
  BY <1>2, <1>3, <1>6 DEF Same
<1>8. End(u2.th, u2.cs, g2, m) = End(u2.th, u2.cs, g, m)
  BY <1>7 DEF End
<1>9. Serves(u2.th, u2.cs, g2, m)
  BY <1>7, <1>8 DEF Serves, ExecOK, CFunOK, TryOK, CloseOK, MsgOK, UnrollOK
<1>10. Backed(u2.th, u2.cs, g2, t)
  <2>1. \A k \in Of(u2.cs, t) : g2[k] = g[k]
    BY <1>3, <1>6 DEF Of
  <2>2. QED
    BY <2>1 DEF Backed
<1>11. StatusOK(u2.th, u2.cs, t)
  <2>1. Of(u2.cs, t) # {}
    BY <1>2, <1>6 DEF Of
  <2>2. u2.th[t].status = "ok" /\ ~u2.th[t].fn
    BY <1>1 DEF Backs
  <2>3. QED
    BY <2>1, <2>2 DEF StatusOK
<1>12. QED
  BY <1>2, <1>5, <1>9, <1>10, <1>11, CutOK DEF g2

(* The thread t runs.                                                      *)
Runs(u, g, t) ==
  LET n == Len(u.cs)
      F == u.th[t].ci
  IN /\ n \in Nat /\ n > 0 /\ t \in Thr /\ u.cs[n].t = t /\ u.cs[n] \in Activation
     /\ u \in State /\ ~u.wrong /\ u.cs \in Seq(Activation)
     /\ u.th[t].ccalls = g[n].p /\ u.th[t].nny = g[n].q /\ g[n].p < ErrCCalls
     /\ u.th[t].status = "ok" /\ ~u.th[t].fn
     /\ g \in Seq(Ghost) /\ Len(g) = n /\ g[n].p \in Nat /\ g[n].q \in Nat /\ g[n].b \in Nat
     /\ g[n].b <= Len(F)
     /\ u.th[t] \in Thread /\ F \in Seq(Frame) /\ Len(F) \in Nat
     /\ ~Same(u.cs, n) /\ Fr(u.th, u.cs, n) = F /\ End(u.th, u.cs, g, n) = Len(F)
     /\ Local(u.th, u.cs, g, n) /\ Global(u.th, u.cs, g, t)

(* What the invariant says of the thread that runs.                        *)
LEMMA RunsIs ==
  ASSUME NEW u, NEW g, Inv(u, g), u.cs # <<>>, NEW t, t = Running(u)
  PROVE  Runs(u, g, t)
<1> DEFINE n == Len(u.cs)
           F == u.th[t].ci
<1>1. u \in State /\ ~u.wrong /\ u.cs \in Seq(Activation)
  BY StateType DEF Inv
<1>2. /\ n \in Nat /\ n > 0 /\ t \in Thr /\ u.cs[n].t = t /\ u.cs[n] \in Activation
      /\ u.th[t].ccalls = g[n].p /\ u.th[t].nny = g[n].q /\ g[n].p < ErrCCalls
      /\ u.th[t].status = "ok" /\ ~u.th[t].fn
      /\ g \in Seq(Ghost) /\ Len(g) = n /\ g[n].p \in Nat /\ g[n].q \in Nat /\ g[n].b \in Nat
      /\ g[n].b <= Len(F) /\ u.th[t] \in Thread
  BY RunFacts
<1>3. /\ ~Same(u.cs, n) /\ Fr(u.th, u.cs, n) = F /\ End(u.th, u.cs, g, n) = Len(F)
      /\ Local(u.th, u.cs, g, n) /\ Global(u.th, u.cs, g, t)
  BY RunFacts
<1>4. F \in Seq(Frame) /\ Len(F) \in Nat
  BY <1>2, ThreadType
<1>5. QED
  BY <1>1, <1>2, <1>3, <1>4 DEF Runs

(* A frame that changes only what no activation depends on.                *)
Alike(f, f2) ==
  /\ f2.kind = f.kind /\ f2.base = f.base /\ f2.fresh = f.fresh
  /\ f2.ypcall = f.ypcall /\ f2.recst = f.recst /\ f2.hit = f.hit

(* Only such marks of the last frame of t change.                          *)
Remarks(u, v, t) ==
  LET F == u.th[t].ci
      F2 == v.th[t].ci
      l == Len(F)
  IN /\ v \in State /\ v.cs = u.cs /\ v.wrong = u.wrong
     /\ \A x \in Thr : x # t => v.th[x] = u.th[x]
     /\ v.th[t].tbc = u.th[t].tbc /\ v.th[t].status = u.th[t].status
     /\ v.th[t].fn = u.th[t].fn
     /\ v.th[t].ccalls = u.th[t].ccalls /\ v.th[t].nny = u.th[t].nny
     /\ Len(F2) = l /\ l > 0 /\ \A i \in 1 .. l - 1 : F2[i] = F[i]
     /\ Alike(F[l], F2[l])

(* The change of such marks keeps the invariant.                           *)
LEMMA AlikeOK ==
  ASSUME NEW u, NEW g, Inv(u, g), u.cs # <<>>, NEW t, t = Running(u),
         u.cs[Len(u.cs)].at \in {"exec", "cfun"}, u.th[t].ci # <<>>, NEW u2, Remarks(u, u2, t)
  PROVE  Inv(u2, g)
<1> DEFINE n == Len(u.cs)
           F == u.th[t].ci
           F2 == u2.th[t].ci
           l == Len(F)
<1>0. /\ u2 \in State /\ u2.cs = u.cs /\ u2.wrong = u.wrong
      /\ \A x \in Thr : x # t => u2.th[x] = u.th[x]
      /\ u2.th[t].ccalls = u.th[t].ccalls /\ u2.th[t].nny = u.th[t].nny
      /\ u2.th[t].status = u.th[t].status /\ u2.th[t].fn = u.th[t].fn
      /\ u2.th[t].tbc = u.th[t].tbc
      /\ Len(F2) = l /\ \A i \in 1 .. l - 1 : F2[i] = F[i]
      /\ Alike(F[l], F2[l])
  BY DEF Remarks
<1>1. /\ n \in Nat /\ n > 0 /\ t \in Thr /\ u.cs[n].t = t /\ u.cs \in Seq(Activation)
      /\ u.th[t].ccalls = g[n].p /\ u.th[t].nny = g[n].q
      /\ g \in Seq(Ghost) /\ Len(g) = n /\ g[n].b \in Nat /\ u.th[t] \in Thread
      /\ ~Same(u.cs, n) /\ Fr(u.th, u.cs, n) = F /\ End(u.th, u.cs, g, n) = l
      /\ Local(u.th, u.cs, g, n) /\ Global(u.th, u.cs, g, t) /\ ~u.wrong
  <2>1. Runs(u, g, t)
    BY RunsIs
  <2>2. QED
    BY <2>1 DEF Runs
<1>2. F \in Seq(Frame) /\ l \in Nat /\ l > 0 /\ F2 \in Seq(Frame) /\ Len(F2) = l
  <2>1. F \in Seq(Frame) /\ u2.th[t] \in Thread
    BY <1>0, <1>1, StateType, ThreadType
  <2>2. F2 \in Seq(Frame)
    BY <2>1, ThreadType
  <2>3. QED
    BY <1>0, <2>1, <2>2
<1>3. \A i \in 1 .. l : i = l \/ i \in 1 .. l - 1
  BY <1>2
<1>4. \A i \in 1 .. l : Alike(F[i], F2[i])
  BY <1>0, <1>3 DEF Alike
<1>5. g[n].b < l
  <2>1. ExecOK(u.th, u.cs, g, n) /\ CFunOK(u.th, u.cs, g, n) /\ u.cs[n].at \in {"exec", "cfun"}
        /\ End(u.th, u.cs, g, n) = l /\ g[n].b \in Nat
    BY <1>1 DEF Local, Serves
  <2> HIDE DEF n, l, F, F2
  <2>2. CASE u.cs[n].at = "exec"
    BY <2>1, <2>2 DEF ExecOK
  <2>3. CASE u.cs[n].at = "cfun"
    <3>1. End(u.th, u.cs, g, n) = g[n].b + 1
      BY <2>1, <2>3 DEF CFunOK
    <3>2. QED
      BY <3>1, <2>1
  <2>4. QED
    BY <2>1, <2>2, <2>3
<1> HIDE DEF l
<1>6. Fr(u2.th, u2.cs, n) = F2 /\ End(u2.th, u2.cs, g, n) = l
  BY <1>0, <1>1, <1>2 DEF Fr, End
<1> HIDE DEF F, F2
<1>7. /\ l \in 1 .. l /\ (g[n].b > 0 => g[n].b \in 1 .. l - 1) /\ g[n].b + 1 \in 1 .. l
      /\ \A i \in 1 .. g[n].b : i \in 1 .. l - 1
      /\ \A i \in g[n].b + 2 .. l : i \in 1 .. l
  BY <1>1, <1>2, <1>5
<1>8. /\ \A i \in 1 .. l - 1 : F2[i] = F[i]
      /\ u2.cs = u.cs /\ u2.th[t].tbc = u.th[t].tbc
  BY <1>0 DEF F, F2, l
<1> HIDE DEF n
<1>9. Serves(u2.th, u2.cs, g, n)
  <2>1. ExecOK(u2.th, u2.cs, g, n)
    <3>1. SUFFICES ASSUME u.cs[n].at = "exec" PROVE ExecOK(u2.th, u2.cs, g, n)
      BY <1>8 DEF ExecOK
    <3>2. ExecOK(u.th, u.cs, g, n)
      BY <1>1 DEF Local, Serves
    <3>3. Called(F, g[n].b, u.cs[n - 1], u.cs[n]) => Called(F2, g[n].b, u.cs[n - 1], u.cs[n])
      BY <1>7, <1>8 DEF Called
    <3>4. /\ F2[g[n].b + 1].fresh = F[g[n].b + 1].fresh /\ F2[l].kind = F[l].kind
          /\ \A i \in g[n].b + 2 .. l : F2[i].fresh = F[i].fresh
      <4>1. \A i \in 1 .. l : F2[i].fresh = F[i].fresh /\ F2[i].kind = F[i].kind
        BY <1>4 DEF Alike
      <4>2. /\ g[n].b + 1 \in 1 .. l /\ l \in 1 .. l
            /\ \A i \in g[n].b + 2 .. l : i \in 1 .. l
        BY <1>7
      <4>3. F2[g[n].b + 1].fresh = F[g[n].b + 1].fresh /\ F2[l].kind = F[l].kind
        BY <4>1, <4>2
      <4>4. \A i \in g[n].b + 2 .. l : F2[i].fresh = F[i].fresh
        BY <4>1, <4>2
      <4>5. QED
        BY <4>3, <4>4
    <3>5. /\ n > 1 /\ g[n].b < l
          /\ IF u.cs[n - 1].at = "unroll" THEN g[n].b = 0 /\ u.cs[n].inc = 0 /\ u.cs[n].ny = 0
             ELSE /\ Called(F, g[n].b, u.cs[n - 1], u.cs[n])
                  /\ F[g[n].b + 1].fresh /\ \A i \in g[n].b + 2 .. l : ~F[i].fresh
          /\ F[l].kind = "ilya"
      BY <3>1, <3>2, <1>1 DEF ExecOK
    <3>6. QED
      BY <3>3, <3>4, <3>5, <1>6, <1>8 DEF ExecOK
  <2>2. CFunOK(u2.th, u2.cs, g, n)
    <3>1. SUFFICES ASSUME u.cs[n].at = "cfun" PROVE CFunOK(u2.th, u2.cs, g, n)
      BY <1>8 DEF CFunOK
    <3>2. CFunOK(u.th, u.cs, g, n)
      BY <1>1 DEF Local, Serves
    <3>3. F2[l].kind = F[l].kind /\ F2[l].ypcall = F[l].ypcall /\ F2[l].hit = F[l].hit
          /\ F2[l].base = F[l].base
      BY <1>4, <1>7 DEF Alike
    <3>4. /\ l = g[n].b + 1 /\ F[l].kind \in CKinds \ {"yield"}
          /\ n > 1 => u.cs[n - 1].at = "exec"
          /\ F[l].ypcall => ~F[l].hit /\ u.cs[n].ok
          /\ Protects(F[l]) => (u.cs[n].ok <=> ~F[l].hit)
          /\ F[l].hit => \A j \in 1 .. Len(u.th[t].tbc) : u.th[t].tbc[j].slot <= F[l].base
      BY <3>1, <3>2, <1>1 DEF CFunOK
    <3>5. ~Same(u2.cs, n) /\ n = Len(u2.cs) /\ u2.cs[n].t = t
      <4>1. ~Same(u.cs, n) /\ u.cs[n].t = t
        BY <1>1
      <4>2. n = Len(u.cs)
        BY DEF n
      <4>3. u2.cs = u.cs
        BY <1>8
      <4>4. QED
        BY <4>1, <4>2, <4>3
    <3>6. Protects(F2[l]) <=> Protects(F[l])
      BY <3>3 DEF Protects
    <3>7. QED
      BY <3>3, <3>4, <3>5, <3>6, <1>6, <1>8 DEF CFunOK
  <2>3. QED
    BY <2>1, <2>2, <1>8 DEF Serves, TryOK, CloseOK, MsgOK, UnrollOK, Msgs, n
<1>10. FramesOK(F) /\ Backed(u.th, u.cs, g, t) /\ Ordered(u.th, u.cs, t) /\ Owned(u.th, u.cs, t)
  BY <1>1 DEF Global, F
<1>11. Lower(F, F2, l)
  <2>1. /\ F2[l].kind = F[l].kind /\ F2[l].base = F[l].base /\ F2[l].fresh = F[l].fresh
        /\ F2[l].ypcall = F[l].ypcall /\ F2[l].hit = F[l].hit /\ F2[l].recst = F[l].recst
    BY <1>4, <1>7 DEF Alike
  <2>2. l \in 1 .. Len(F) /\ l \in 0 .. Len(F) /\ \A i \in 1 .. l - 1 : i \in 1 .. Len(F) /\ i < l
    BY <1>2 DEF l
  <2>3. /\ F[l].ypcall \/ F[l].hit => Protects(F[l])
        /\ F[l].ypcall => (ErrorStatus(F[l].recst) <=> F[l].hit)
        /\ F[l].ypcall => \A i \in 1 .. l - 1 : F[i].kind = "ilya" \/ F[i].ypcall
    BY <2>2, <1>10 DEF FramesOK
  <2>4. QED
    BY <2>1, <2>2, <2>3, <1>2, <1>8 DEF Lower
<1>12. FramesOK(F2)
  BY <1>2, <1>10, <1>11, LowerFrames
<1>13. Owned(u2.th, u2.cs, t)
  <2>1. F2[l].hit = F[l].hit
    BY <1>4, <1>7 DEF Alike
  <2>2. Heir(F, F2, u.th[t].tbc, l, Closing(u2.cs, t))
    BY <2>1 DEF Heir, l
  <2>3. Closing(u.cs, t) => Closing(u2.cs, t)
    BY <1>8
  <2>4. QED
    BY <2>2, <2>3, <1>1, <1>8, <1>10, <1>11, LowerOwned DEF F, F2
<1>14. /\ \A i \in 1 .. l : F2[i].kind = F[i].kind /\ F2[i].ypcall = F[i].ypcall
       /\ Len(F) = l /\ Len(F2) = l
  BY <1>2, <1>4 DEF Alike, l
<1>15. Backed(u2.th, u2.cs, g, t)
  <2>1. u2.th[t].status = u.th[t].status
    BY <1>0
  <2>2. Backed(u.th, u.cs, g, t) /\ u2.cs = u.cs
    BY <1>8, <1>10
  <2>3. SUFFICES ASSUME ~ErrorStatus(u.th[t].status), NEW i \in 1 .. l
        PROVE  /\ F2[i].kind \in CKinds \ {"yield"} =>
                    F2[i].ypcall \/ \E k \in Of(u.cs, t) : u.cs[k].at = "cfun" /\ g[k].b + 1 = i
               /\ F2[i].kind = "yield" =>
                    \/ u.th[t].status = "yield" /\ i = l
                    \/ \E k \in Of(u.cs, t) : u.cs[k].at \in Msgs /\ g[k].b = i
    BY <2>1, <2>2, <1>14 DEF Backed, F2
  <2>4. /\ F[i].kind \in CKinds \ {"yield"} =>
             F[i].ypcall \/ \E k \in Of(u.cs, t) : u.cs[k].at = "cfun" /\ g[k].b + 1 = i
        /\ F[i].kind = "yield" =>
             \/ u.th[t].status = "yield" /\ i = l
             \/ \E k \in Of(u.cs, t) : u.cs[k].at \in Msgs /\ g[k].b = i
    BY <2>2, <2>3 DEF Backed, F, l
  <2>5. QED
    BY <2>4, <1>14
<1>16. Ordered(u2.th, u2.cs, t)
  BY <1>8, <1>10, <1>14 DEF Ordered, F, F2
<1>17. Backs(u, u2, g, t, n)
  <2>1. ~u2.wrong /\ n \in 1 .. Len(u.cs) /\ Len(u2.cs) = n
    BY <1>0, <1>1, <1>8 DEF n
  <2>2. Cut(u.cs, u2.cs, n)
    BY <2>1, <1>8 DEF Cut
  <2>3. n = 1 => F2[1].kind = "pcall" /\ ~F2[1].ypcall
    <3>1. n = 1 => Fr(u.th, u.cs, 1)[1].kind = "pcall" /\ ~Fr(u.th, u.cs, 1)[1].ypcall
      BY <1>1 DEF Local, FirstOK
    <3>2. n = 1 => F[1].kind = "pcall" /\ ~F[1].ypcall
      BY <3>1, <1>1
    <3>3. 1 \in 1 .. l
      BY <1>7
    <3>4. QED
      BY <3>2, <3>3, <1>14
  <2>4. g[n].b <= Len(F2) /\ \A i \in 1 .. g[n].b : F2[i] = F[i]
    <3>1. g[n].b <= Len(F2)
      BY <1>1, <1>2, <1>5
    <3>2. \A i \in 1 .. g[n].b : F2[i] = F[i]
      BY <1>7, <1>8
    <3>3. QED
      BY <3>1, <3>2
  <2>5. QED
    BY <2>1, <2>2, <2>3, <2>4, <1>0, <1>1 DEF Backs, F, F2
<1>18. SubSeq(g, 1, n) = g
  BY <1>1
<1>19. FramesOK(u2.th[t].ci)
  BY <1>12 DEF F2
<1>20. Inv(u2, SubSeq(g, 1, n))
  BY <1>9, <1>13, <1>15, <1>16, <1>17, <1>19, BackOK
<1>21. QED
  BY <1>18, <1>20

-----------------------------------------------------------------------------
(* Where a thread may yield, so could every activation below.              *)
LEMMA Quiet ==
  ASSUME NEW u, NEW g, Inv(u, g), NEW m \in 1 .. Len(u.cs), g[m].q = 0,
         NEW k \in 1 .. m - 1, u.cs[k].t = u.cs[m].t
  PROVE  /\ k \in 1 .. Len(u.cs) /\ k + 1 \in 1 .. Len(u.cs) /\ k + 1 \in 1 .. m /\ k + 1 > 1
         /\ (k + 1) - 1 = k
         /\ u.cs[k + 1].t = u.cs[m].t /\ u.cs[k + 1].ny = 0 /\ Same(u.cs, k)
         /\ u.cs[k] \in Activation /\ u.cs[k + 1] \in Activation
         /\ Serves(u.th, u.cs, g, k) /\ Serves(u.th, u.cs, g, k + 1)
         /\ k + 1 # m => k + 1 \in 1 .. m - 1
<1> DEFINE n == Len(u.cs)
<1>1. /\ n \in Nat /\ \A j \in 1 .. n : /\ Local(u.th, u.cs, g, j) /\ u.cs[j] \in Activation
                                        /\ g[j].q \in Nat
  BY InvFacts
<1>2. /\ m \in Nat /\ k \in Nat /\ k \in 1 .. n /\ k + 1 \in 1 .. n /\ k + 1 \in 1 .. m /\ k + 1 > 1
      /\ (k + 1) - 1 = k /\ k < m /\ k < n
      /\ k + 1 # m => k + 1 \in 1 .. m - 1
      /\ k + 1 \in k .. m
  BY <1>1
<1>3. \A j \in k .. m : u.cs[j].t = u.cs[m].t
  BY <1>2, Contiguous
<1>4. u.cs[k + 1].t = u.cs[m].t
  BY <1>2, <1>3
<1>5. g[k + 1].q = 0
  <2>1. CASE k + 1 = m
    BY <2>1
  <2>2. CASE k + 1 # m
    <3>1. g[k + 1].q <= g[m].q
      BY <2>2, <1>2, <1>4, Contiguous
    <3>2. g[k + 1].q \in Nat
      BY <1>1, <1>2
    <3>3. QED
      BY <3>1, <3>2
  <2>3. QED
    BY <2>1, <2>2
<1>6. u.cs[k + 1].ny = 0
  <2>1. Counted(u.th, u.cs, g, k + 1)
    BY <1>1, <1>2 DEF Local
  <2>2. u.cs[k].t = u.cs[k + 1].t /\ k + 1 # 1
    BY <1>2, <1>4
  <2>3. g[k + 1].q = u.cs[k + 1].ny + g[k].q
    BY <2>1, <2>2, <1>2 DEF Counted
  <2>4. u.cs[k + 1].ny \in {0, 1} /\ g[k].q \in Nat
    BY <1>1, <1>2, ActivationType
  <2>5. QED
    BY <2>3, <2>4, <1>5
<1>7. Same(u.cs, k)
  BY <1>2, <1>4 DEF Same
<1>8. Serves(u.th, u.cs, g, k) /\ Serves(u.th, u.cs, g, k + 1) /\ u.cs[k] \in Activation /\ u.cs[k + 1] \in Activation
  BY <1>1, <1>2 DEF Local
<1>9. QED
  BY <1>2, <1>4, <1>6, <1>7, <1>8

(* What may be called by what.                                             *)
LEMMA Callers ==
  ASSUME NEW th, NEW cs, NEW g, NEW k, Serves(th, cs, g, k), cs[k] \in Activation,
         cs[k].ny = 0
  PROVE  /\ cs[k].at = "exec" => cs[k - 1].at = "unroll" \/ Called(Fr(th, cs, k), g[k].b, cs[k - 1], cs[k])
         /\ cs[k].at = "cfun" => k = 1 \/ ~(k > 1) \/ cs[k - 1].at = "exec"
         /\ cs[k].at = "try" => cs[k - 1].at = "cfun" /\ (cs[k - 1].t = cs[k].t => cs[k].why # "resume")
         /\ cs[k].at = "close" => cs[k - 1].at \in {"try", "exec", "unroll"}
         /\ cs[k].at = "close" /\ cs[k - 1].at = "try" => ~cs[k].yy
         /\ cs[k].at \in Msgs => \/ Called(Fr(th, cs, k), g[k].b, cs[k - 1], cs[k])
                                 \/ cs[k - 1].at = "exec"
                                 \/ cs[k - 1].at = "cfun"
         /\ cs[k].at = "unroll" => cs[k - 1].at = "try" /\ cs[k - 1].why = "resume"
         /\ cs[k].at \in {"exec", "errormsg", "handling", "cfun", "try", "close", "unroll"}
<1>1. /\ ExecOK(th, cs, g, k) /\ CFunOK(th, cs, g, k) /\ TryOK(th, cs, g, k)
      /\ CloseOK(th, cs, g, k) /\ MsgOK(th, cs, g, k) /\ UnrollOK(th, cs, g, k)
  BY DEF Serves
<1>2. cs[k].at \in {"exec", "errormsg", "handling", "cfun", "try", "close", "unroll"}
      /\ (cs[k].at = "close" => cs[k].why \in {"closep", "return", "pcallk"})
  BY ActivationType
<1>3. cs[k].at = "exec" => cs[k - 1].at = "unroll" \/ Called(Fr(th, cs, k), g[k].b, cs[k - 1], cs[k])
  BY <1>1 DEF ExecOK
<1>4. cs[k].at = "cfun" => k = 1 \/ ~(k > 1) \/ cs[k - 1].at = "exec"
  BY <1>1 DEF CFunOK
<1>5. cs[k].at = "try" => cs[k - 1].at = "cfun" /\ (cs[k - 1].t = cs[k].t => cs[k].why # "resume")
  BY <1>1 DEF TryOK
<1>6. /\ cs[k].at = "close" => cs[k - 1].at \in {"try", "exec", "unroll"}
      /\ cs[k].at = "close" /\ cs[k - 1].at = "try" => ~cs[k].yy
  BY <1>1, <1>2 DEF CloseOK
<1>7. cs[k].at \in Msgs => \/ Called(Fr(th, cs, k), g[k].b, cs[k - 1], cs[k])
                           \/ cs[k - 1].at = "exec"
                           \/ cs[k - 1].at = "cfun"
  BY <1>1 DEF MsgOK
<1>8. cs[k].at = "unroll" => cs[k - 1].at = "try" /\ cs[k - 1].why = "resume"
  BY <1>1 DEF UnrollOK
<1>9. QED
  BY <1>2, <1>3, <1>4, <1>5, <1>6, <1>7, <1>8

(* ... so none of them is handling an error,                               *)
LEMMA QuietMsg ==
  ASSUME NEW u, NEW g, Inv(u, g), NEW m \in 1 .. Len(u.cs), g[m].q = 0,
         NEW k \in 1 .. m - 1, u.cs[k].t = u.cs[m].t
  PROVE  u.cs[k].at \notin Msgs
<1>1. SUFFICES ASSUME u.cs[k].at \in Msgs PROVE FALSE
  OBVIOUS
<1> DEFINE j == k + 1
<1>2. /\ j > 1 /\ j - 1 = k /\ u.cs[j].ny = 0 /\ u.cs[j] \in Activation /\ Serves(u.th, u.cs, g, j)
  BY Quiet
<1> HIDE DEF j
<1>3. ~Called(Fr(u.th, u.cs, j), g[j].b, u.cs[k], u.cs[j])
  BY <1>1, <1>2 DEF Called, Msgs
<1>4. QED
  BY <1>1, <1>2, <1>3, Callers DEF Msgs

(* ... and none is a protection but that of a resume.                      *)
LEMMA QuietTry ==
  ASSUME NEW u, NEW g, Inv(u, g), NEW m \in 1 .. Len(u.cs), g[m].q = 0, u.cs[m].at = "exec",
         NEW k \in 1 .. m - 1, u.cs[k].t = u.cs[m].t, u.cs[k].at = "try"
  PROVE  u.cs[k].why = "resume"
<1>1. SUFFICES ASSUME u.cs[k].why # "resume" PROVE FALSE
  OBVIOUS
<1> DEFINE j == k + 1
           i == j + 1
<1>2. /\ j > 1 /\ j - 1 = k /\ u.cs[j].ny = 0 /\ u.cs[j] \in Activation /\ Serves(u.th, u.cs, g, j)
      /\ u.cs[j].t = u.cs[m].t
      /\ j # m => j \in 1 .. m - 1
  BY Quiet
<1>3. j # m => /\ i > 1 /\ i - 1 = j /\ u.cs[i].ny = 0 /\ u.cs[i] \in Activation
               /\ Serves(u.th, u.cs, g, i)
  <2> HIDE DEF j
  <2>1. QED
    BY <1>2, Quiet
<1> HIDE DEF j, i
<1>4. Called(Fr(u.th, u.cs, j), g[j].b, u.cs[k], u.cs[j]) => FALSE
  BY <1>1, <1>2 DEF Called
<1>5. u.cs[j].at = "close" /\ ~u.cs[j].yy
  BY <1>1, <1>2, <1>4, Callers DEF Msgs
<1>6. j # m
  BY <1>5
<1>7. Called(Fr(u.th, u.cs, i), g[i].b, u.cs[j], u.cs[i]) => FALSE
  BY <1>3, <1>5, <1>6 DEF Called
<1>8. QED
  BY <1>3, <1>5, <1>6, <1>7, Callers DEF Msgs

(* The C functions below are protected calls that unroll can finish.       *)
LEMMA QuietCFun ==
  ASSUME NEW u, NEW g, Inv(u, g), NEW m \in 1 .. Len(u.cs), g[m].q = 0, u.cs[m].at = "exec",
         NEW k \in 1 .. m - 1, u.cs[k].t = u.cs[m].t, u.cs[k].at = "cfun"
  PROVE  u.th[u.cs[m].t].ci[g[k].b + 1].ypcall
<1> DEFINE j == k + 1
<1>2. /\ j > 1 /\ j - 1 = k /\ u.cs[j].ny = 0 /\ u.cs[j] \in Activation /\ Serves(u.th, u.cs, g, j)
      /\ u.cs[j].t = u.cs[m].t /\ Same(u.cs, k) /\ Serves(u.th, u.cs, g, k)
      /\ j # m => j \in 1 .. m - 1
  BY Quiet
<1>3. g[j].b = g[k].b + 1
  BY <1>2 DEF Serves, CFunOK, End
<1>4. Fr(u.th, u.cs, j) = u.th[u.cs[m].t].ci
  BY <1>2 DEF Fr
<1> HIDE DEF j
<1>5. j # m => u.cs[j].at \notin Msgs /\ (u.cs[j].at = "try" => u.cs[j].why = "resume")
  BY <1>2, QuietMsg, QuietTry
<1>6. u.cs[m].at \notin Msgs /\ u.cs[m].at # "try"
  BY DEF Msgs
<1>7. Called(Fr(u.th, u.cs, j), g[j].b, u.cs[k], u.cs[j])
  BY <1>2, <1>5, <1>6, Callers DEF Msgs
<1>8. u.cs[j].ny = 0 /\ u.cs[k].at = "cfun"
  BY <1>2
<1>9. Fr(u.th, u.cs, j)[g[j].b].ypcall
  BY <1>7, <1>8 DEF Called
<1>10. QED
  BY <1>3, <1>4, <1>9

-----------------------------------------------------------------------------
(* The C function that resumed a thread gets the result.                   *)
Done(v, w) ==
  LET n == Len(v.cs) IN
  /\ w \in State /\ w.th = v.th /\ w.wrong = v.wrong /\ Len(w.cs) = n
  /\ n \in Nat /\ n > 0
  /\ \A k \in 1 .. n - 1 : w.cs[k] = v.cs[k]
  /\ w.cs[n].t = v.cs[n].t /\ w.cs[n].at = "cfun" /\ w.cs[n].co = v.cs[n].co

(* ResumeDone changes only the result.                                     *)
LEMMA ResumeDoneIs ==
  ASSUME NEW v \in State, v.cs # <<>>, v.cs[Len(v.cs)].at = "cfun", NEW ok \in BOOLEAN
  PROVE  Done(v, ResumeDone(v, ok)) /\ ResumeDone(v, ok).cs[Len(v.cs)].ok = ok
<1> DEFINE n == Len(v.cs)
           a == v.cs[n]
           b == [a EXCEPT !.ok = ok]
           C == [v.cs EXCEPT ![n] = b]
           w == [v EXCEPT !.cs[n].ok = ok]
<1>1. v.cs \in Seq(Activation) /\ n \in Nat /\ n > 0 /\ n \in 1 .. n /\ a \in Activation
  BY StateType
<1>2. b \in Activation /\ b.at = "cfun" /\ b.t = a.t /\ b.co = a.co /\ b.ok = ok
  <2>1. a \in [at : {"cfun"}, t : Thr, inc : {0}, ny : {0}, ok : BOOLEAN, co : Thr]
    BY <1>1 DEF Activation
  <2>2. b \in [at : {"cfun"}, t : Thr, inc : {0}, ny : {0}, ok : BOOLEAN, co : Thr]
    BY <2>1
  <2>3. QED
    BY <2>1, <2>2 DEF Activation
<1>3. w = [v EXCEPT !.cs = C]
  OBVIOUS
<1> HIDE DEF b, w
<1>4. C \in Seq(Activation) /\ Len(C) = n /\ \A k \in 1 .. n : C[k] = IF k = n THEN b ELSE v.cs[k]
  BY <1>1, <1>2, SeqPut
<1> HIDE DEF C
<1>5. w \in State /\ w.cs = C /\ w.th = v.th /\ w.wrong = v.wrong
  BY <1>3, <1>4 DEF State
<1>6. \A k \in 1 .. n - 1 : w.cs[k] = v.cs[k]
  <2>1. \A k \in 1 .. n - 1 : k \in 1 .. n /\ k # n
    BY <1>1
  <2>2. QED
    BY <2>1, <1>4, <1>5
<1>7. Done(v, w) /\ w.cs[n].ok = ok
  BY <1>1, <1>2, <1>4, <1>5, <1>6 DEF Done
<1>8. QED
  BY <1>7 DEF ResumeDone, w

(* All frames are of Ilya functions or can be finished by unroll.          *)
LEMMA QuietFrames ==
  ASSUME NEW u, NEW g, Inv(u, g), u.cs # <<>>, NEW t, t = Running(u),
         u.cs[Len(u.cs)].at = "exec", g[Len(u.cs)].q = 0
  PROVE  \A i \in 1 .. Len(u.th[t].ci) :
           /\ u.th[t].ci[i].kind # "yield"
           /\ u.th[t].ci[i].kind \in CKinds => u.th[t].ci[i].ypcall
<1> DEFINE n == Len(u.cs)
           F == u.th[t].ci
<1>1. Runs(u, g, t)
  BY RunsIs
<1>2. n \in Nat /\ n > 0 /\ u.cs[n].t = t /\ u.th[t].status = "ok" /\ Backed(u.th, u.cs, g, t)
      /\ n \in 1 .. n
  BY <1>1 DEF Runs, Global
<1>3. \A k \in Of(u.cs, t) : k # n => k \in 1 .. n - 1 /\ u.cs[k].t = u.cs[n].t
  BY <1>2 DEF Of
<1>4. \A k \in Of(u.cs, t) : u.cs[k].at \notin Msgs
  BY <1>2, <1>3, QuietMsg DEF Msgs
<1>5. \A k \in Of(u.cs, t) : u.cs[k].at = "cfun" => F[g[k].b + 1].ypcall
  BY <1>2, <1>3, QuietCFun
<1>6. ASSUME NEW i \in 1 .. Len(F)
      PROVE  F[i].kind # "yield" /\ (F[i].kind \in CKinds => F[i].ypcall)
  <2>1. /\ F[i].kind \in CKinds \ {"yield"} =>
             F[i].ypcall \/ \E k \in Of(u.cs, t) : u.cs[k].at = "cfun" /\ g[k].b + 1 = i
        /\ F[i].kind = "yield" => \E k \in Of(u.cs, t) : u.cs[k].at \in Msgs /\ g[k].b = i
    BY <1>2 DEF Backed, ErrorStatus
  <2>2. F[i].kind # "yield"
    BY <2>1, <1>4
  <2>3. F[i].kind \in CKinds => F[i].ypcall
    BY <2>1, <2>2, <1>5
  <2>4. QED
    BY <2>2, <2>3
<1>7. QED
  BY <1>6

(* The thread is not being closed.                                         *)
LEMMA QuietClosing ==
  ASSUME NEW u, NEW g, Inv(u, g), u.cs # <<>>, NEW t, t = Running(u),
         u.cs[Len(u.cs)].at = "exec", g[Len(u.cs)].q = 0
  PROVE  ~Closing(u.cs, t)
<1> DEFINE n == Len(u.cs)
<1>1. n \in Nat /\ n > 0 /\ u.cs[n].t = t /\ n \in 1 .. n
      /\ \A k \in 1 .. n : Local(u.th, u.cs, g, k)
  <2>1. Runs(u, g, t)
    BY RunsIs
  <2>2. QED
    BY <2>1, InvFacts DEF Runs
<1>2. SUFFICES ASSUME NEW k \in Of(u.cs, t), u.cs[k].at = "close", u.cs[k].why = "closep"
               PROVE  FALSE
  BY DEF Closing
<1>3. k \in 1 .. n /\ u.cs[k].t = t /\ k # n
  BY <1>2 DEF Of
<1>4. k > 1 /\ u.cs[k - 1].at = "try" /\ u.cs[k - 1].why = "closep"
  BY <1>1, <1>2, <1>3 DEF Local, Serves, CloseOK
<1>5. u.cs[k - 1].t = t
  BY <1>1, <1>2, <1>3, <1>4 DEF Local, FirstOK
<1>6. k - 1 \in 1 .. n - 1
  BY <1>1, <1>3, <1>4
<1>7. u.cs[k - 1].why = "resume"
  BY <1>1, <1>4, <1>5, <1>6, QuietTry
<1>8. QED
  BY <1>4, <1>7

(* coroutine.yield: the resume of the thread returns.                      *)
LEMMA YieldsOK ==
  ASSUME NEW u, NEW g, Inv(u, g), u.cs # <<>>, NEW t, t = Running(u),
         u.cs[Len(u.cs)].at = "exec", g[Len(u.cs)].q = 0
  PROVE  \E g2 : Inv(Throw([PushFrame(u, t, "yield") EXCEPT !.th[t].status = "yield"], t, "yield"), g2)
<1> DEFINE n == Len(u.cs)
           F == u.th[t].ci
           f == FrameOf("yield", TopSlot(u, t) + 1)
           w == PushFrame(u, t, "yield")
           x == [w EXCEPT !.th[t].status = "yield"]
           i == LastTry(u, t)
           m == i - 1
           v == Jump(x, t)
           u2 == ResumeDone(v, TRUE)
<1>1. Runs(u, g, t)
  BY RunsIs
<1>2. /\ n \in Nat /\ n > 0 /\ t \in Thr /\ u.cs[n].t = t /\ u \in State /\ ~u.wrong
      /\ u.th[t].status = "ok" /\ ~u.th[t].fn /\ u.th[t] \in Thread
      /\ F \in Seq(Frame) /\ Len(F) \in Nat /\ FramesOK(F) /\ Owned(u.th, u.cs, t)
  BY <1>1 DEF Runs, Global
<1>3. n > 1
  <2>1. ExecOK(u.th, u.cs, g, n)
    BY <1>1 DEF Runs, Local, Serves
  <2>2. QED
    BY <2>1 DEF ExecOK
<1>4. /\ i \in 1 .. n /\ m \in 1 .. n /\ m < n /\ m + 1 = i
      /\ u.cs[i].at = "try" /\ u.cs[i].t = t /\ TryOK(u.th, u.cs, g, i)
      /\ Jumped(u, Jump(u, t), t, m)
  BY <1>3, JumpFacts
<1>5. u.cs[m].t # t => \A k \in 1 .. m : u.cs[k].t # t
  BY <1>3, JumpFacts
<1>6. u.cs[m].t # t
  <2>1. i # n
    BY <1>4
  <2>2. i \in 1 .. n - 1
    BY <2>1, <1>2, <1>4
  <2> HIDE DEF i, m, n
  <2>3. u.cs[i].why = "resume"
    <3>1. n \in 1 .. Len(u.cs) /\ u.cs[n].at = "exec" /\ g[n].q = 0 /\ u.cs[i].t = u.cs[n].t
      BY <1>2, <1>4 DEF n
    <3>2. QED
      BY <3>1, <2>2, <1>4, QuietTry
  <2>4. i - 1 = m
    BY DEF m
  <2>5. QED
    BY <2>3, <2>4, <1>4 DEF TryOK
<1>7. OnlyFrames(u, w, t) /\ w.th[t].ci = Append(F, f) /\ f \in Frame /\ NewFrame(u.th[t], f)
  <2>1. "yield" \in CKinds
    BY DEF CKinds
  <2>2. QED
    BY <2>1, <1>2, PushFrameIs
<1>8. f.kind = "yield" /\ ~f.fresh /\ ~f.ypcall
  BY DEF FrameOf
<1> HIDE DEF w, f
<1>9. /\ x \in State /\ x.cs = u.cs /\ x.wrong = u.wrong
      /\ \A y \in Thr : y # t => x.th[y] = u.th[y]
      /\ x.th[t].status = "yield" /\ ~x.th[t].fn /\ x.th[t].ci = Append(F, f)
      /\ x.th[t].tbc = u.th[t].tbc
  <2>1. w \in State /\ w.th \in [Thr -> Thread] /\ w.th[t] \in Thread
    BY <1>2, <1>7, StateType DEF OnlyFrames
  <2>2. [w.th[t] EXCEPT !.status = "yield"] \in Thread
    BY <2>1 DEF Thread, Status
  <2>3. /\ x \in State /\ x.cs = w.cs /\ x.wrong = w.wrong
        /\ x.th = [w.th EXCEPT ![t] = [w.th[t] EXCEPT !.status = "yield"]]
    BY <2>1, <2>2, <1>2 DEF State
  <2>4. /\ x.th[t].status = "yield" /\ x.th[t].fn = w.th[t].fn /\ x.th[t].ci = w.th[t].ci
        /\ x.th[t].tbc = w.th[t].tbc
        /\ \A y \in Thr : y # t => x.th[y] = w.th[y]
    BY <2>1, <2>3, <1>2 DEF Thread
  <2>5. QED
    BY <2>3, <2>4, <1>2, <1>7 DEF OnlyFrames
<1> HIDE DEF x
<1>10. LastTry(x, t) = i
  BY <1>9 DEF LastTry
<1>11. /\ v \in State /\ v.wrong = x.wrong /\ Len(v.cs) = m
       /\ \A k \in 1 .. m : v.cs[k] = x.cs[k]
       /\ \A y \in Thr : y # t => v.th[y] = x.th[y]
       /\ v.th[t].ci = x.th[t].ci /\ v.th[t].tbc = x.th[t].tbc
       /\ v.th[t].status = x.th[t].status /\ v.th[t].fn = x.th[t].fn
  <2>1. LastTry(x, t) \in 1 .. Len(x.cs) /\ x.cs[LastTry(x, t)].at = "try"
    BY <1>4, <1>9, <1>10
  <2>2. LastTry(x, t) - 1 = m
    BY <1>10
  <2> HIDE DEF i, m
  <2>3. QED
    BY <2>1, <2>2, <1>2, <1>9, JumpIs
<1>12. Throw(x, t, "yield") = u2
  BY ThrowIs
<1> HIDE DEF v, i, m
<1>13. m \in Nat /\ m > 0 /\ m \in 1 .. m /\ u.cs[m].at = "cfun"
  BY <1>2, <1>4 DEF Jumped
<1>14. /\ u2 \in State /\ u2.th = v.th /\ u2.wrong = v.wrong /\ Len(u2.cs) = m
       /\ \A k \in 1 .. m - 1 : u2.cs[k] = v.cs[k]
       /\ u2.cs[m].t = v.cs[m].t /\ u2.cs[m].at = "cfun"
  <2>1. v.cs # <<>> /\ Len(v.cs) = m /\ v.cs[m].at = "cfun"
    BY <1>9, <1>11, <1>13, SMTT(20)
  <2> HIDE DEF u2
  <2>2. u2 = ResumeDone(v, TRUE)
    BY DEF u2
  <2>3. Done(v, u2)
    BY <2>1, <2>2, <1>11, ResumeDoneIs
  <2>4. QED
    BY <2>1, <2>3 DEF Done
<1> HIDE DEF u2
<1>15. /\ \A k \in 1 .. m - 1 : u2.cs[k] = u.cs[k]
       /\ u2.cs[m].t = u.cs[m].t
       /\ \A y \in Thr : y # t => u2.th[y] = u.th[y]
       /\ ~u2.wrong
       /\ u2.th[t].ci = Append(F, f) /\ u2.th[t].tbc = u.th[t].tbc
       /\ u2.th[t].status = "yield" /\ ~u2.th[t].fn
  <2>1. \A k \in 1 .. m - 1 : k \in 1 .. m
    BY <1>13
  <2>2. QED
    BY <2>1, <1>2, <1>9, <1>11, <1>13, <1>14
<1>16. Leaves(u, u2, t, m)
  BY <1>4, <1>5, <1>6, <1>13, <1>14, <1>15 DEF Leaves, Cut, Jumped, n
<1>17. /\ Append(F, f) \in Seq(Frame) /\ Len(Append(F, f)) = Len(F) + 1
       /\ Append(F, f)[Len(F) + 1] = f
       /\ \A k \in 1 .. Len(F) : Append(F, f)[k] = F[k]
  <2> HIDE DEF F
  <2>1. QED
    BY <1>2, <1>7, SeqAppend
<1>18. FramesOK(Append(F, f))
  <2>1. f.kind # "ilya"
    BY <1>8
  <2>2. QED
    BY <2>1, <1>2, <1>7, <1>8, <1>17, FramesPush
<1>19. Owned(u2.th, u2.cs, t)
  <2>1. ~Closing(u.cs, t)
    BY QuietClosing
  <2>2. QED
    <3>1. /\ u2.th[t].tbc = u.th[t].tbc /\ Len(u2.th[t].ci) = Len(u.th[t].ci) + 1
          /\ NewFrame(u.th[t], u2.th[t].ci[Len(u.th[t].ci) + 1])
          /\ \A k \in 1 .. Len(u.th[t].ci) : u2.th[t].ci[k] = u.th[t].ci[k]
      BY <1>7, <1>15, <1>17
    <3>2. QED
      BY <2>1, <3>1, <1>2, OwnedPush
<1>20. \A g2 : Backed(u2.th, u2.cs, g2, t)
  <2>1. \A k \in 1 .. Len(F) : F[k].kind # "yield" /\ (F[k].kind \in CKinds => F[k].ypcall)
    BY QuietFrames
  <2>2. \A k \in 1 .. Len(F) + 1 : k = Len(F) + 1 \/ k \in 1 .. Len(F)
    BY <1>2
  <2> HIDE DEF F
  <2>3. QED
    BY <2>1, <2>2, <1>8, <1>15, <1>17 DEF Backed
<1>21. u2.th[t].ci # <<>> /\ u2.th[t].ci[Len(u2.th[t].ci)].kind = "yield"
  <2> HIDE DEF F
  <2>1. QED
    BY <1>2, <1>8, <1>15, <1>17, SMTT(20)
<1>22. \E g2 : Inv(u2, g2)
  <2>1. FramesOK(u2.th[t].ci)
    BY <1>15, <1>18
  <2> HIDE DEF F
  <2>2. QED
    BY <2>1, <1>15, <1>16, <1>19, <1>20, <1>21, LeaveOK
<1>23. QED
  BY <1>12, <1>22 DEF u2, x, w

-----------------------------------------------------------------------------
(* coroutine.yield where the thread cannot yield.                          *)
LEMMA YieldFailsOK ==
  ASSUME NEW u, NEW g, Inv(u, g), u.cs # <<>>, NEW t, t = Running(u),
         u.cs[Len(u.cs)].at = "exec"
  PROVE  \E g2 : Inv(RunError(PushFrame(u, t, "yield"), t), g2)
<1> DEFINE n == Len(u.cs)
           c == u.cs[n]
           F == u.th[t].ci
           f == FrameOf("yield", TopSlot(u, t) + 1)
           w == PushFrame(u, t, "yield")
           a == ErrorMsg(t, 0, 0)
           u2 == Push(w, a)
           r == [p |-> g[n].p, q |-> g[n].q, b |-> Len(F) + 1]
           g2 == Append(g, r)
<1>1. Runs(u, g, t)
  BY RunsIs
<1>2. /\ n \in Nat /\ n > 0 /\ t \in Thr /\ c.t = t /\ u \in State /\ ~u.wrong
      /\ g[n].p \in Nat /\ g[n].q \in Nat /\ g[n].b \in Nat /\ g[n].b <= Len(F)
      /\ g \in Seq(Ghost) /\ Len(g) = n /\ g[n].p < ErrCCalls
      /\ u.th[t].ccalls = g[n].p /\ u.th[t].nny = g[n].q
      /\ u.th[t] \in Thread /\ FramesOK(F) /\ Owned(u.th, u.cs, t) /\ Len(F) \in Nat
      /\ F \in Seq(Frame)
  BY <1>1 DEF Runs, Global
<1>3. a \in Activation /\ a.at = "errormsg" /\ a.t = t /\ a.inc = 0 /\ a.ny = 0
  BY <1>2, ExecIs
<1>4. r \in Ghost /\ r.p = a.inc + g[n].p /\ r.q = a.ny + g[n].q /\ r.b = Len(F) + 1
      /\ r.q = g[n].q /\ r.p = g[n].p
  <2>1. Len(F) + 1 \in Nat /\ 0 + g[n].p = g[n].p /\ 0 + g[n].q = g[n].q
    BY <1>2
  <2> HIDE DEF a, F, n
  <2>2. r \in Ghost
    BY <2>1, <1>2 DEF Ghost
  <2>3. QED
    BY <2>1, <2>2, <1>3
<1>5. OnlyFrames(u, w, t) /\ w.th[t].ci = Append(F, f) /\ f \in Frame /\ NewFrame(u.th[t], f)
  <2>1. "yield" \in CKinds
    BY DEF CKinds
  <2>2. QED
    BY <2>1, <1>2, PushFrameIs
<1>6. f.kind = "yield" /\ ~f.fresh
  BY DEF FrameOf
<1> HIDE DEF f, a, w, r
<1>7. u2 \in State /\ u2.th = w.th /\ u2.wrong = u.wrong /\ u2.cs = Append(u.cs, a)
  <2>1. w \in State /\ w.cs = u.cs /\ w.wrong = u.wrong
    BY <1>5 DEF OnlyFrames
  <2>2. QED
    BY <2>1, <1>3, PushFields
<1> HIDE DEF u2
<1>8. /\ u2.th[t].ccalls = r.p /\ u2.th[t].nny = r.q
      /\ u2.th[t].status = u.th[t].status /\ u2.th[t].fn = u.th[t].fn /\ u2.th[t].tbc = u.th[t].tbc
      /\ \A y \in Thr : y # t => u2.th[y] = u.th[y]
      /\ u2.th[t].ci = Append(F, f)
  BY <1>2, <1>4, <1>5, <1>7 DEF OnlyFrames
<1>9. /\ Len(u2.th[t].ci) = Len(F) + 1 /\ u2.th[t].ci[Len(F) + 1] = f
      /\ \A i \in 1 .. Len(F) : u2.th[t].ci[i] = F[i]
  <2> HIDE DEF F
  <2>1. QED
    BY <1>2, <1>5, <1>8, SeqAppend
<1>10. Grows(u, u2, g, t, a, r)
  <2>1. r.p < ErrCCalls /\ r.b = Len(F) + 1 /\ ~u2.wrong /\ a.at \in Msgs /\ a.at # "try" /\ c.at = "exec"
    BY <1>2, <1>3, <1>4, <1>7 DEF Msgs
  <2>2. \/ Len(u2.th[t].ci) = Len(F)
        \/ LET f3 == u2.th[t].ci[Len(u2.th[t].ci)]
           IN /\ Len(u2.th[t].ci) = Len(F) + 1 /\ NewFrame(u.th[t], f3)
              /\ f3.kind = "ilya" <=> f3.fresh
              /\ f3.kind \in CKinds \ {"yield"} => a.at = "cfun" /\ r.b = Len(F)
              /\ f3.kind = "yield" => a.at \in Msgs /\ r.b = Len(u2.th[t].ci)
    BY <2>1, <1>5, <1>6, <1>9
  <2>3. g[n].b <= r.b /\ r.b <= Len(u2.th[t].ci)
    <3>1. g[n].b <= Len(F) /\ g[n].b \in Nat /\ r.b = Len(F) + 1 /\ Len(u2.th[t].ci) = Len(F) + 1
      BY <1>2, <1>4, <1>9
    <3> HIDE DEF F, n
    <3>2. QED
      BY <3>1, <1>2
  <2>4. \/ r.b = Len(F)
        \/ u.cs[n].at = "unroll"
        \/ /\ u.cs[n].at = "exec" /\ a.at \in Msgs /\ r.b = Len(F) + 1
           /\ Len(u2.th[t].ci) = Len(F) + 1 /\ u2.th[t].ci[Len(u2.th[t].ci)].kind = "yield"
    BY <2>1, <1>6, <1>9
  <2>5. QED
    BY <2>1, <2>2, <2>3, <2>4, <1>2, <1>3, <1>4, <1>7, <1>8, <1>9 DEF Grows
<1>11. /\ Len(u2.cs) = n + 1 /\ u2.cs[n] = c /\ u2.cs[n + 1] = a /\ g2[n + 1] = r
       /\ End(u2.th, u2.cs, g2, n + 1) = Len(F) + 1
  <2>1. Grown(u, u2, g, g2, t, a, r)
    BY <1>10, GrowKept
  <2>2. n \in 1 .. n
    BY <1>2
  <2>3. QED
    BY <2>1, <2>2, <1>9 DEF Grown
<1>12. c.at = "exec"
  OBVIOUS
<1> HIDE DEF n, c, F, g2
<1>13. MsgOK(u2.th, u2.cs, g2, n + 1)
  <2>1. n + 1 > 1 /\ (n + 1) - 1 = n
    BY <1>2
  <2>2. QED
    BY <2>1, <1>3, <1>4, <1>11, <1>12 DEF MsgOK
<1>14. Serves(u2.th, u2.cs, g2, n + 1)
  BY <1>3, <1>11, <1>13 DEF Serves, ExecOK, CFunOK, TryOK, CloseOK, UnrollOK
<1>15. Inv(u2, g2)
  BY <1>10, <1>14, GrowOK DEF n, g2
<1>16. QED
  BY <1>15 DEF u2, w, a, RunError

(* coroutine.yield, called by an Ilya function.                            *)
LEMMA CallYieldOK ==
  ASSUME NEW u, NEW g, Inv(u, g), u.cs # <<>>, NEW t, t = Running(u),
         u.cs[Len(u.cs)].at = "exec"
  PROVE  \E g2 : Inv(YieldK(PushFrame(u, t, "yield"), t), g2)
<1> DEFINE w == PushFrame(u, t, "yield")
<1>1. Runs(u, g, t)
  BY RunsIs
<1>2. OnlyFrames(u, w, t)
  <2>1. "yield" \in CKinds
    BY DEF CKinds
  <2>2. QED
    BY <2>1, <1>1, PushFrameIs DEF Runs, Global
<1>3. Yieldable(w, t) <=> g[Len(u.cs)].q = 0
  BY <1>1, <1>2 DEF Yieldable, Runs, OnlyFrames
<1> HIDE DEF w
<1>4. CASE Yieldable(w, t)
  <2>1. YieldK(w, t) = Throw([w EXCEPT !.th[t].status = "yield"], t, "yield")
    BY <1>4 DEF YieldK
  <2>2. \E g2 : Inv(Throw([w EXCEPT !.th[t].status = "yield"], t, "yield"), g2)
    BY <1>3, <1>4, YieldsOK DEF w
  <2>3. QED
    BY <2>1, <2>2 DEF w
<1>5. CASE ~Yieldable(w, t)
  <2>1. YieldK(w, t) = RunError(w, t)
    BY <1>5 DEF YieldK
  <2>2. \E g2 : Inv(RunError(w, t), g2)
    BY YieldFailsOK DEF w
  <2>3. QED
    BY <2>1, <2>2 DEF w
<1>6. QED
  BY <1>4, <1>5 DEF w

-----------------------------------------------------------------------------
(* A protected call has its frame and its activation, and calls next.      *)
MayProtect(u, t) ==
  LET F == u.th[t].ci
      f == F[Len(F)]
  IN /\ u.cs # <<>> /\ t = Running(u) /\ u.cs[Len(u.cs)].at = "cfun" /\ u.cs[Len(u.cs)].ok
     /\ F # <<>> /\ Protects(f) /\ ~f.ypcall /\ ~f.hit /\ ~ErrorStatus(f.recst)

(* ilya_pcallk changes the handler and saves the former one.               *)
LEMMA HandlesIs ==
  ASSUME NEW u \in State, NEW t \in Thr, u.th[t].ci # <<>>
  PROVE  LET f == TopFrame(u, t)
             v == [SetTop(u, t, [f EXCEPT !.olderr = u.th[t].errfunc])
                     EXCEPT !.th[t].errfunc = (f.kind = "xpcall")]
         IN Remarks(u, v, t) /\ f = u.th[t].ci[Len(u.th[t].ci)]
<1> DEFINE F == u.th[t].ci
           l == Len(F)
           f == TopFrame(u, t)
           f2 == [f EXCEPT !.olderr = u.th[t].errfunc]
           w == SetTop(u, t, f2)
           e == (f.kind = "xpcall")
           v == [w EXCEPT !.th[t].errfunc = e]
<1>1. u.th[t] \in Thread /\ F \in Seq(Frame) /\ u.th[t].errfunc \in BOOLEAN
  BY StateType, ThreadType
<1>2. f = F[l] /\ f \in Frame /\ l > 0 /\ l \in Nat /\ l \in 1 .. l
  <2>1. Len(F) > 0 /\ Last(F) = F[Len(F)] /\ Last(F) \in Frame
    BY <1>1, SeqFront
  <2>2. QED
    BY <2>1, <1>1 DEF TopFrame, CI
<1>3. f2 \in Frame /\ Alike(f, f2)
  BY <1>1, <1>2 DEF Frame, Alike
<1> HIDE DEF f2
<1>4. /\ OnlyFrames(u, w, t) /\ Len(w.th[t].ci) = l
      /\ \A i \in 1 .. l : w.th[t].ci[i] = IF i = l THEN f2 ELSE F[i]
  BY <1>3, SetTopIs
<1> HIDE DEF w, e
<1>5. e \in BOOLEAN
  BY DEF e
<1>6. /\ v \in State /\ v.cs = w.cs /\ v.wrong = w.wrong
      /\ \A x \in Thr : x # t => v.th[x] = w.th[x]
      /\ v.th[t] = [w.th[t] EXCEPT !.errfunc = e]
  <2>1. w \in State /\ w.th \in [Thr -> Thread] /\ w.th[t] \in Thread
    BY <1>4, StateType DEF OnlyFrames
  <2>2. [w.th[t] EXCEPT !.errfunc = e] \in Thread
    BY <2>1, <1>5 DEF Thread
  <2>3. /\ v \in State /\ v.cs = w.cs /\ v.wrong = w.wrong
        /\ v.th = [w.th EXCEPT ![t] = [w.th[t] EXCEPT !.errfunc = e]]
    BY <2>1, <2>2 DEF State
  <2>4. QED
    BY <2>1, <2>3
<1>7. /\ v.th[t].ci = w.th[t].ci /\ v.th[t].tbc = w.th[t].tbc /\ v.th[t].status = w.th[t].status
      /\ v.th[t].fn = w.th[t].fn /\ v.th[t].ccalls = w.th[t].ccalls /\ v.th[t].nny = w.th[t].nny
  <2>1. w.th[t] \in Thread
    BY <1>4, StateType DEF OnlyFrames
  <2>2. QED
    BY <2>1, <1>6 DEF Thread
<1> HIDE DEF v
<1>8. /\ Len(v.th[t].ci) = l /\ v.th[t].ci[l] = f2
      /\ \A i \in 1 .. l - 1 : v.th[t].ci[i] = F[i]
  <2>1. l \in 1 .. l /\ \A i \in 1 .. l - 1 : i \in 1 .. l /\ i # l
    BY <1>2
  <2> HIDE DEF l, F
  <2>2. QED
    BY <2>1, <1>4, <1>7
<1>9. Remarks(u, v, t)
  BY <1>2, <1>3, <1>4, <1>6, <1>7, <1>8 DEF Remarks, OnlyFrames
<1>10. QED
  BY <1>2, <1>9 DEF v, w, e, f2

(* That keeps the invariant.                                               *)
LEMMA HandlesOK ==
  ASSUME NEW u, NEW g, Inv(u, g), NEW t, MayProtect(u, t), NEW v, Remarks(u, v, t)
  PROVE  Inv(v, g) /\ MayProtect(v, t)
<1>1. u.cs # <<>> /\ t = Running(u) /\ u.cs[Len(u.cs)].at = "cfun" /\ u.th[t].ci # <<>>
  BY DEF MayProtect
<1>2. Runs(u, g, t)
  BY <1>1, RunsIs
<1>3. Inv(v, g)
  <2>1. u.cs[Len(u.cs)].at \in {"exec", "cfun"}
    BY <1>1
  <2>2. QED
    BY <1>1, <2>1, AlikeOK
<1>4. v.cs = u.cs /\ Running(v) = t /\ v.cs # <<>>
  BY <1>1 DEF Remarks, Running, Top
<1>5. v.th[t].ci # <<>> /\ Len(v.th[t].ci) = Len(u.th[t].ci)
  BY DEF Remarks
<1>6. Alike(u.th[t].ci[Len(u.th[t].ci)], v.th[t].ci[Len(v.th[t].ci)])
  BY <1>5 DEF Remarks
<1>7. MayProtect(v, t)
  BY <1>4, <1>5, <1>6 DEF MayProtect, Alike, Protects
<1>8. QED
  BY <1>3, <1>7

(* The fields of the protection of ilyaD_pcall.                            *)
LEMMA PCallTryIs ==
  ASSUME NEW u \in State, NEW t \in Thr, NEW l \in Nat, NEW slot \in Nat, NEW st \in Status
  PROVE  LET a == Try(u, t, "pcall", l, slot, st)
         IN /\ a \in Activation /\ a.at = "try" /\ a.t = t /\ a.inc = 0 /\ a.ny = 0 /\ a.why = "pcall"
            /\ a.level = l /\ a.slot = slot /\ a.ccalls = u.th[t].ccalls /\ a.nny = u.th[t].nny
BY TryIs

(* ilyaD_pcall: the call gets a protection of its own.                     *)
LEMMA PushTryOK ==
  ASSUME NEW u, NEW g, Inv(u, g), NEW t, MayProtect(u, t), NEW slot,
         slot = u.th[t].ci[Len(u.th[t].ci)].base + 1
  PROVE  \E g2 : Inv(CCall(Push(u, Try(u, t, "pcall", Len(u.th[t].ci), slot, "ok")), t, 1, 1), g2)
<1> DEFINE n == Len(u.cs)
           c == u.cs[n]
           F == u.th[t].ci
           l == Len(F)
           a == Try(u, t, "pcall", l, slot, "ok")
           u2 == Push(u, a)
           r == [p |-> g[n].p, q |-> g[n].q, b |-> l]
           g2 == Append(g, r)
<1>1. /\ u.cs # <<>> /\ t = Running(u) /\ c.at = "cfun" /\ c.ok
      /\ F # <<>> /\ Protects(F[l]) /\ ~F[l].ypcall /\ ~F[l].hit
  BY DEF MayProtect
<1>2. Runs(u, g, t)
  BY <1>1, RunsIs
<1>3. /\ n \in Nat /\ n > 0 /\ t \in Thr /\ c.t = t /\ u \in State /\ ~u.wrong
      /\ g[n].p \in Nat /\ g[n].q \in Nat /\ g[n].b \in Nat /\ g[n].b <= l
      /\ g \in Seq(Ghost) /\ Len(g) = n /\ g[n].p < ErrCCalls
      /\ u.th[t].ccalls = g[n].p /\ u.th[t].nny = g[n].q
      /\ u.th[t] \in Thread /\ FramesOK(F) /\ l \in Nat
      /\ F \in Seq(Frame)
  BY <1>2 DEF Runs, Global
<1>4. l > 0 /\ l \in 1 .. l /\ slot \in Nat
  <2>1. l > 0
    BY <1>1, <1>3
  <2>2. l \in 1 .. l
    BY <2>1, <1>3
  <2>3. F[l].base \in Nat
    BY <2>2, <1>3, ThreadType
  <2> HIDE DEF l
  <2>4. QED
    BY <2>1, <2>2, <2>3 DEF l
<1>5. a \in Activation /\ a.at = "try" /\ a.t = t /\ a.inc = 0 /\ a.ny = 0 /\ a.why = "pcall"
      /\ a.level = l /\ a.slot = slot /\ a.ccalls = g[n].p /\ a.nny = g[n].q
  <2>1. "ok" \in Status
    BY DEF Status
  <2>2. "pcall" \in {"resume", "pcall", "closep"} /\ u \in State /\ t \in Thr /\ l \in Nat /\ slot \in Nat
    BY <1>3, <1>4
  <2> HIDE DEF l
  <2>3. /\ a \in Activation /\ a.at = "try" /\ a.t = t /\ a.inc = 0 /\ a.ny = 0 /\ a.why = "pcall"
        /\ a.level = l /\ a.slot = slot /\ a.ccalls = u.th[t].ccalls /\ a.nny = u.th[t].nny
    BY <2>1, <2>2, PCallTryIs
  <2> HIDE DEF a
  <2>4. QED
    BY <2>3, <1>3
<1>6. r \in Ghost /\ r.p = a.inc + g[n].p /\ r.q = a.ny + g[n].q /\ r.b = l
      /\ r.q = g[n].q /\ r.p = g[n].p
  <2>1. 0 + g[n].p = g[n].p /\ 0 + g[n].q = g[n].q
    BY <1>3
  <2> HIDE DEF a, l, n
  <2>2. r \in Ghost
    BY <2>1, <1>3 DEF Ghost
  <2>3. QED
    BY <2>1, <2>2, <1>5
<1> HIDE DEF a, r
<1>7. u2 \in State /\ u2.th = u.th /\ u2.wrong = u.wrong /\ u2.cs = Append(u.cs, a)
  BY <1>3, <1>5, PushFields
<1> HIDE DEF u2
<1>8. \A i \in 1 .. l : F[i].ypcall => i < l
  <2>1. SUFFICES ASSUME NEW i \in 1 .. l, F[i].ypcall PROVE i < l
    OBVIOUS
  <2>2. i # l
    BY <2>1, <1>1
  <2> HIDE DEF l
  <2>3. QED
    BY <2>2, <1>3
<1>9. Grows(u, u2, g, t, a, r)
  BY <1>1, <1>3, <1>5, <1>6, <1>7, <1>8 DEF Grows
<1>10. /\ Len(u2.cs) = n + 1 /\ u2.cs[n] = c /\ u2.cs[n + 1] = a /\ g2[n + 1] = r
       /\ End(u2.th, u2.cs, g2, n + 1) = l /\ Fr(u2.th, u2.cs, n + 1) = F
       /\ Same(u2.cs, n) /\ ~Same(u2.cs, n + 1)
  <2>1. Grown(u, u2, g, g2, t, a, r)
    BY <1>1, <1>9, GrowKept
  <2>2. n \in 1 .. n
    BY <1>3
  <2>3. QED
    BY <2>1, <2>2, <1>7 DEF Grown
<1>11. slot = F[l].base + 1
  OBVIOUS
<1> HIDE DEF n, c, F, g2, l
<1>12. TryOK(u2.th, u2.cs, g2, n + 1)
  <2> DEFINE k == n + 1
  <2>1. k > 1 /\ k - 1 = n
    BY <1>3
  <2>2. /\ u2.cs[k] = a /\ u2.cs[n] = c /\ g2[k].b = l /\ End(u2.th, u2.cs, g2, k) = l
        /\ Fr(u2.th, u2.cs, k) = F
    BY <1>6, <1>10
  <2>3. c.at = "cfun" /\ c.ok /\ c.t = a.t /\ Protects(F[l]) /\ ~F[l].ypcall /\ ~F[l].hit
    BY <1>1, <1>3, <1>5
  <2>4. l > 0 /\ l # 0
    BY <1>3, <1>4
  <2>5. a.level = l /\ a.slot = F[l].base + 1 /\ a.inc = 0 /\ a.why = "pcall"
    BY <1>5, <1>11
  <2> HIDE DEF k
  <2>6. TryOK(u2.th, u2.cs, g2, k)
    BY <2>1, <2>2, <2>3, <2>4, <2>5 DEF TryOK
  <2>7. QED
    BY <2>6 DEF k
<1>13. Serves(u2.th, u2.cs, g2, n + 1)
  BY <1>5, <1>10, <1>12 DEF Serves, ExecOK, CFunOK, MsgOK, CloseOK, UnrollOK, Msgs
<1>14. Inv(u2, g2)
  BY <1>1, <1>9, <1>13, GrowOK DEF n, g2
<1>15. MayCall(u2, t, 1, 1)
  <2>1. u2.cs # <<>> /\ Running(u2) = t
    <3>1. u2.cs # <<>>
      BY <1>3, <1>10
    <3>2. Running(u2) = u2.cs[Len(u2.cs)].t
      BY <3>1, <1>7, StateType
    <3>3. QED
      BY <3>1, <3>2, <1>5, <1>10
  <2>2. Exec(t, 1, 1).inc = 1 /\ Exec(t, 1, 1).ny = 1
    BY DEF Exec
  <2>3. Called(u2.th[t].ci, Len(u2.th[t].ci), u2.cs[Len(u2.cs)], Exec(t, 1, 1))
    BY <2>2, <1>5, <1>10 DEF Called
  <2>4. QED
    BY <2>1, <2>3 DEF MayCall
<1>16. QED
  BY <1>14, <1>15, CCallOK DEF u2, a, l, F

(* In a coroutine that may yield, unroll can finish all the calls below.   *)
LEMMA QuietBelow ==
  ASSUME NEW u, NEW g, Inv(u, g), NEW t, MayProtect(u, t), g[Len(u.cs)].q = 0
  PROVE  /\ Len(u.cs) > 1
         /\ \A i \in 1 .. Len(u.th[t].ci) - 1 : u.th[t].ci[i].kind = "ilya" \/ u.th[t].ci[i].ypcall
         /\ \A k \in Of(u.cs, t) : u.cs[k].at = "try" => u.cs[k].why = "resume"
<1> DEFINE n == Len(u.cs)
           m == n - 1
           F == u.th[t].ci
           l == Len(F)
<1>1. /\ u.cs # <<>> /\ t = Running(u) /\ u.cs[n].at = "cfun"
  BY DEF MayProtect
<1>2. Runs(u, g, t)
  BY <1>1, RunsIs
<1>3. /\ n \in Nat /\ n > 0 /\ t \in Thr /\ u.cs[n].t = t /\ u.cs[n] \in Activation
      /\ g[n].q \in Nat /\ g[n].b \in Nat /\ l \in Nat /\ F \in Seq(Frame)
      /\ Local(u.th, u.cs, g, n) /\ Backed(u.th, u.cs, g, t)
      /\ u.th[t].status = "ok" /\ End(u.th, u.cs, g, n) = l
  BY <1>2 DEF Runs, Global
<1>4. n > 1
  <2>1. n = 1 => g[n].q = u.cs[n].ny + 1
    BY <1>3 DEF Local, Counted
  <2>2. u.cs[n].ny \in {0, 1}
    BY <1>3, ActivationType
  <2>3. n # 1
    BY <2>1, <2>2
  <2> HIDE DEF n
  <2>4. QED
    BY <2>3, <1>3
<1>5. m \in 1 .. n /\ m \in 1 .. Len(u.cs) /\ n - 1 = m /\ m < n
  BY <1>3, <1>4
<1> HIDE DEF m
<1>6. u.cs[m].t = t /\ u.cs[m].at = "exec" /\ g[m].q = 0 /\ g[n].b + 1 = l
  <2>1. u.cs[m].at = "exec" /\ End(u.th, u.cs, g, n) = g[n].b + 1
    BY <1>1, <1>3, <1>4, <1>5 DEF Local, Serves, CFunOK
  <2>2. u.cs[m].t = t
    BY <1>1, <1>3, <1>4, <1>5 DEF Local, FirstOK
  <2>3. g[n].q = u.cs[n].ny + g[m].q
    <3>1. n # 1
      BY <1>3, <1>4
    <3>2. Counted(u.th, u.cs, g, n)
      BY <1>3 DEF Local
    <3>3. QED
      BY <3>1, <3>2, <2>2, <1>3, <1>5 DEF Counted
  <2>4. g[m].q \in Nat /\ u.cs[n].ny \in {0, 1}
    BY <1>3, <1>5, InvFacts, ActivationType
  <2>5. g[m].q = 0
    BY <2>3, <2>4
  <2>6. QED
    BY <2>1, <2>2, <2>5, <1>3
<1>7. \A k \in Of(u.cs, t) : k # n /\ k # m => k \in 1 .. m - 1 /\ u.cs[k].t = u.cs[m].t
  BY <1>3, <1>5, <1>6 DEF Of
<1>8. \A k \in Of(u.cs, t) : u.cs[k].at = "try" => u.cs[k].why = "resume"
  BY <1>1, <1>5, <1>6, <1>7, QuietTry
<1>9. \A k \in Of(u.cs, t) : u.cs[k].at \notin Msgs
  BY <1>1, <1>5, <1>6, <1>7, QuietMsg DEF Msgs
<1>10. \A k \in Of(u.cs, t) : k # n /\ u.cs[k].at = "cfun" => F[g[k].b + 1].ypcall
  <2>1. SUFFICES ASSUME NEW k \in Of(u.cs, t), k # n, u.cs[k].at = "cfun" PROVE F[g[k].b + 1].ypcall
    OBVIOUS
  <2>2. k # m
    BY <2>1, <1>6
  <2>3. k \in 1 .. m - 1 /\ u.cs[k].t = u.cs[m].t
    BY <2>1, <2>2, <1>7
  <2>4. QED
    BY <2>1, <2>3, <1>5, <1>6, QuietCFun
<1>11. ASSUME NEW i \in 1 .. l - 1
       PROVE  F[i].kind = "ilya" \/ F[i].ypcall
  <2>1. i \in 1 .. l /\ i # l
    BY <1>3
  <2>2. /\ F[i].kind \in CKinds \ {"yield"} =>
             F[i].ypcall \/ \E k \in Of(u.cs, t) : u.cs[k].at = "cfun" /\ g[k].b + 1 = i
        /\ F[i].kind = "yield" => \E k \in Of(u.cs, t) : u.cs[k].at \in Msgs /\ g[k].b = i
    BY <2>1, <1>3 DEF Backed, ErrorStatus
  <2>3. F[i].kind \in {"ilya"} \cup CKinds
    <3>1. F[i] \in Frame
      BY <2>1, <1>3, SeqElem
    <3>2. QED
      BY <3>1 DEF Frame
  <2>4. QED
    BY <2>1, <2>2, <2>3, <1>6, <1>9, <1>10
<1>12. QED
  BY <1>4, <1>8, <1>11

(* ilya_pcallk in a coroutine: the call is marked.                         *)
Marked(u, v, t) ==
  LET F == u.th[t].ci
      F2 == v.th[t].ci
      l == Len(F)
  IN /\ OnlyFrames(u, v, t) /\ Len(F2) = l /\ \A i \in 1 .. l - 1 : F2[i] = F[i]
     /\ F2[l] = [F[l] EXCEPT !.ypcall = TRUE]

(* The mark keeps the invariant, and ccall may be entered.                 *)
LEMMA MarkOK ==
  ASSUME NEW u, NEW g, Inv(u, g), NEW t, MayProtect(u, t), g[Len(u.cs)].q = 0,
         NEW v, Marked(u, v, t)
  PROVE  Inv(v, g) /\ MayCall(v, t, 1, 0)
<1> DEFINE n == Len(u.cs)
           F == u.th[t].ci
           F2 == v.th[t].ci
           l == Len(F)
<1>1. /\ u.cs # <<>> /\ t = Running(u) /\ u.cs[n].at = "cfun" /\ u.cs[n].ok
      /\ F # <<>> /\ Protects(F[l]) /\ ~F[l].ypcall /\ ~F[l].hit /\ ~ErrorStatus(F[l].recst)
  BY DEF MayProtect
<1>2. Runs(u, g, t)
  BY <1>1, RunsIs
<1>3. /\ n \in Nat /\ n > 0 /\ t \in Thr /\ u.cs[n].t = t /\ ~u.wrong
      /\ u.th[t].ccalls = g[n].p /\ u.th[t].nny = g[n].q
      /\ g \in Seq(Ghost) /\ Len(g) = n /\ g[n].b \in Nat
      /\ F \in Seq(Frame) /\ l \in Nat /\ u.th[t] \in Thread
      /\ ~Same(u.cs, n) /\ End(u.th, u.cs, g, n) = l
      /\ Local(u.th, u.cs, g, n) /\ Global(u.th, u.cs, g, t)
  BY <1>2 DEF Runs
<1>4. /\ n > 1 /\ \A i \in 1 .. l - 1 : F[i].kind = "ilya" \/ F[i].ypcall
      /\ \A k \in Of(u.cs, t) : u.cs[k].at = "try" => u.cs[k].why = "resume"
  BY QuietBelow
<1>5. /\ v \in State /\ v.cs = u.cs /\ v.wrong = u.wrong
      /\ \A x \in Thr : x # t => v.th[x] = u.th[x]
      /\ v.th[t].tbc = u.th[t].tbc /\ v.th[t].status = u.th[t].status
      /\ v.th[t].fn = u.th[t].fn
      /\ v.th[t].ccalls = u.th[t].ccalls /\ v.th[t].nny = u.th[t].nny
      /\ Len(F2) = l /\ \A i \in 1 .. l - 1 : F2[i] = F[i]
      /\ F2[l] = [F[l] EXCEPT !.ypcall = TRUE]
  BY DEF Marked, OnlyFrames
<1>6. l > 0 /\ l \in 1 .. l /\ l - 1 \in Nat /\ \A i \in 1 .. l : i = l \/ i \in 1 .. l - 1
  BY <1>1, <1>3
<1>7. /\ F2[l].kind = F[l].kind /\ F2[l].base = F[l].base /\ F2[l].fresh = F[l].fresh
      /\ F2[l].recst = F[l].recst /\ F2[l].hit = F[l].hit /\ F2[l].ypcall
  <2>1. F[l] \in Frame
    BY <1>3, <1>6
  <2> HIDE DEF F, F2, l
  <2>2. QED
    BY <2>1, <1>5 DEF Frame
<1>8. g[n].b + 1 = l
  <2>1. CFunOK(u.th, u.cs, g, n)
    BY <1>3 DEF Local, Serves
  <2>2. QED
    BY <2>1, <1>1, <1>3 DEF CFunOK
<1>9. Lower(F, F2, l)
  <2>1. l \in 0 .. Len(F) /\ Len(F2) = l
    BY <1>3, <1>5
  <2> HIDE DEF F, F2, l
  <2>2. QED
    BY <2>1, <1>1, <1>4, <1>5, <1>7 DEF Lower
<1>10. FramesOK(F2)
  BY <1>3, <1>9, LowerFrames DEF Global
<1>11. Owned(v.th, v.cs, t)
  <2>1. Heir(F, F2, u.th[t].tbc, l, Closing(v.cs, t))
    BY <1>7 DEF Heir
  <2>2. Closing(u.cs, t) => Closing(v.cs, t)
    BY <1>5
  <2>3. Owned(u.th, u.cs, t)
    BY <1>3 DEF Global
  <2>4. v.th[t].tbc = u.th[t].tbc /\ u.th[t] \in Thread /\ FramesOK(F)
    BY <1>3, <1>5 DEF Global
  <2> HIDE DEF l
  <2>5. QED
    BY <2>1, <2>2, <2>3, <2>4, <1>9, LowerOwned
<1>12. \A i \in 1 .. l : F2[i].kind = F[i].kind /\ (F[i].ypcall => F2[i].ypcall)
  BY <1>5, <1>6, <1>7
<1>13. Backed(v.th, v.cs, g, t)
  <2>1. Backed(u.th, u.cs, g, t)
    BY <1>3 DEF Global
  <2>2. SUFFICES ASSUME ~ErrorStatus(u.th[t].status), NEW i \in 1 .. l
        PROVE  /\ F2[i].kind \in CKinds \ {"yield"} =>
                    F2[i].ypcall \/ \E k \in Of(u.cs, t) : u.cs[k].at = "cfun" /\ g[k].b + 1 = i
               /\ F2[i].kind = "yield" =>
                    \/ u.th[t].status = "yield" /\ i = l
                    \/ \E k \in Of(u.cs, t) : u.cs[k].at \in Msgs /\ g[k].b = i
    BY <1>5 DEF Backed
  <2>3. /\ F[i].kind \in CKinds \ {"yield"} =>
             F[i].ypcall \/ \E k \in Of(u.cs, t) : u.cs[k].at = "cfun" /\ g[k].b + 1 = i
        /\ F[i].kind = "yield" =>
             \/ u.th[t].status = "yield" /\ i = l
             \/ \E k \in Of(u.cs, t) : u.cs[k].at \in Msgs /\ g[k].b = i
    BY <2>1, <2>2 DEF Backed
  <2> HIDE DEF F, F2, l
  <2>4. QED
    BY <2>2, <2>3, <1>12
<1>14. Ordered(v.th, v.cs, t)
  BY <1>4, <1>5 DEF Ordered
<1>15. Fr(v.th, v.cs, n) = F2 /\ End(v.th, v.cs, g, n) = l /\ Same(v.cs, n) = Same(u.cs, n)
  BY <1>3, <1>5 DEF Fr, End, Same
<1> HIDE DEF F, F2, l
<1>16. CFunOK(v.th, v.cs, g, n)
  <2>1. CFunOK(u.th, u.cs, g, n)
    BY <1>3 DEF Local, Serves
  <2>2. Protects(F2[l]) /\ F2[l].kind \in CKinds \ {"yield"} /\ ~F2[l].hit
    BY <1>1, <1>7 DEF Protects, CKinds
  <2>3. n > 1 => u.cs[n - 1].at = "exec"
    BY <2>1, <1>1 DEF CFunOK
  <2>4. n = Len(v.cs) /\ v.cs[n].ok /\ v.cs = u.cs
    BY <1>1, <1>5
  <2> HIDE DEF n
  <2>5. QED
    BY <2>2, <2>3, <2>4, <1>3, <1>8, <1>15 DEF CFunOK
<1>17. Serves(v.th, v.cs, g, n)
  BY <1>1, <1>5, <1>16 DEF Serves, ExecOK, TryOK, CloseOK, MsgOK, UnrollOK, Msgs
<1>18. Backs(u, v, g, t, n)
  <2>1. n \in 1 .. Len(u.cs) /\ Cut(u.cs, v.cs, n)
    BY <1>3, <1>5 DEF Cut
  <2>2. g[n].b <= Len(F2) /\ \A i \in 1 .. g[n].b : F2[i] = F[i]
    BY <1>3, <1>5, <1>8
  <2>3. n # 1
    BY <1>3, <1>4
  <2>4. QED
    BY <2>1, <2>2, <2>3, <1>3, <1>5 DEF Backs, F, F2
<1>19. SubSeq(g, 1, n) = g
  BY <1>3
<1>20. Inv(v, g)
  <2>1. Inv(v, SubSeq(g, 1, n))
    BY <1>1, <1>10, <1>11, <1>13, <1>14, <1>17, <1>18, BackOK DEF F2
  <2>2. QED
    BY <2>1, <1>19
<1>21. MayCall(v, t, 1, 0)
  <2>1. v.cs # <<>> /\ Running(v) = t
    BY <1>1, <1>5 DEF Running, Top
  <2>2. Exec(t, 1, 0).inc = 1 /\ Exec(t, 1, 0).ny = 0
    BY DEF Exec
  <2>3. Len(F2) > 0 /\ v.cs[Len(v.cs)].at = "cfun" /\ Protects(F2[Len(F2)]) /\ F2[Len(F2)].ypcall
    BY <1>1, <1>5, <1>6, <1>7 DEF Protects
  <2>4. Called(v.th[t].ci, Len(v.th[t].ci), v.cs[Len(v.cs)], Exec(t, 1, 0))
    BY <2>2, <2>3 DEF Called, F2
  <2>5. QED
    BY <2>1, <2>4 DEF MayCall
<1>22. QED
  BY <1>20, <1>21

(* ilya_pcallk.                                                            *)
LEMMA PCallKOK ==
  ASSUME NEW u, NEW g, Inv(u, g), NEW t, MayProtect(u, t)
  PROVE  \E g2 : Inv(PCallK(u, t), g2)
<1> DEFINE F == u.th[t].ci
           f == TopFrame(u, t)
           v == [SetTop(u, t, [f EXCEPT !.olderr = u.th[t].errfunc])
                   EXCEPT !.th[t].errfunc = (f.kind = "xpcall")]
           fv == TopFrame(v, t)
           f2 == [fv EXCEPT !.ypcall = TRUE]
           w == SetTop(v, t, f2)
           b == Try(v, t, "pcall", Len(CI(v, t)), f.base + 1, "ok")
<1>1. /\ u.cs # <<>> /\ t = Running(u) /\ F # <<>>
  BY DEF MayProtect
<1>2. /\ t \in Thr /\ u \in State /\ u.th[t].nny = g[Len(u.cs)].q
  BY <1>1, RunsIs DEF Runs
<1>3. PCallK(u, t) = IF Yieldable(u, t) THEN CCall(w, t, 1, 0) ELSE CCall(Push(v, b), t, 1, 1)
  BY DEF PCallK
<1>4. Remarks(u, v, t) /\ f = F[Len(F)]
  BY <1>1, <1>2, HandlesIs
<1> HIDE DEF v, f
<1>5. Inv(v, g) /\ MayProtect(v, t) /\ v \in State /\ v.cs = u.cs
  <2>1. v \in State /\ v.cs = u.cs
    BY <1>4 DEF Remarks
  <2>2. Inv(v, g) /\ MayProtect(v, t)
    BY <1>4, HandlesOK
  <2>3. QED
    BY <2>1, <2>2
<1>6. CASE Yieldable(u, t)
  <2>1. g[Len(v.cs)].q = 0
    BY <1>2, <1>5, <1>6 DEF Yieldable
  <2>2. /\ v.th[t].ci \in Seq(Frame) /\ v.th[t].ci # <<>> /\ fv = v.th[t].ci[Len(v.th[t].ci)]
        /\ fv \in Frame
    <3>1. v.th[t].ci \in Seq(Frame) /\ v.th[t].ci # <<>>
      BY <1>2, <1>5, StateType, ThreadType DEF MayProtect
    <3>2. QED
      BY <3>1, SeqFront DEF TopFrame, CI
  <2> HIDE DEF fv
  <2>3. f2 \in Frame
    BY <2>2 DEF Frame
  <2>4. OnlyFrames(v, w, t) /\ Len(w.th[t].ci) = Len(v.th[t].ci) /\ Len(v.th[t].ci) > 0
        /\ \A i \in 1 .. Len(v.th[t].ci) : w.th[t].ci[i] = IF i = Len(v.th[t].ci) THEN f2 ELSE v.th[t].ci[i]
    <3> HIDE DEF f2
    <3>1. QED
      BY <2>2, <2>3, <1>2, <1>5, SetTopIs
  <2> HIDE DEF w, f2
  <2>5. Marked(v, w, t)
    <3>1. Len(v.th[t].ci) \in Nat
      BY <2>2
    <3>2. Len(v.th[t].ci) \in 1 .. Len(v.th[t].ci)
          /\ \A i \in 1 .. Len(v.th[t].ci) - 1 : i \in 1 .. Len(v.th[t].ci) /\ i # Len(v.th[t].ci)
      BY <3>1, <2>4
    <3>3. QED
      BY <3>2, <2>2, <2>4 DEF Marked, f2
  <2>6. Inv(w, g) /\ MayCall(w, t, 1, 0)
    BY <2>1, <2>5, <1>5, MarkOK
  <2>7. QED
    BY <2>6, <1>3, <1>6, CCallOK
<1>7. CASE ~Yieldable(u, t)
  <2> DEFINE slot == v.th[t].ci[Len(v.th[t].ci)].base + 1
  <2>1. b = Try(v, t, "pcall", Len(v.th[t].ci), slot, "ok")
    <3>1. f.base = v.th[t].ci[Len(v.th[t].ci)].base
      BY <1>4 DEF Remarks, Alike
    <3>2. QED
      BY <3>1 DEF CI
  <2>2. \E g2 : Inv(CCall(Push(v, Try(v, t, "pcall", Len(v.th[t].ci), slot, "ok")), t, 1, 1), g2)
    BY <1>5, PushTryOK
  <2>3. QED
    BY <2>1, <2>2, <1>3, <1>7
<1>8. QED
  BY <1>6, <1>7

(* What Enter returns in the function that was called.                     *)
LEMMA EnterReady ==
  ASSUME NEW u, NEW g, Inv(u, g), u.cs # <<>>, NEW t, t = Running(u),
         u.cs[Len(u.cs)].at = "exec", NEW kind \in CKinds \ {"yield"}, NEW co \in Thr
  PROVE  LET v == Enter(u, t, kind, co)
             F == v.th[t].ci
             f == F[Len(F)]
         IN /\ v.cs # <<>> /\ t = Running(v) /\ v.cs[Len(v.cs)].at = "cfun" /\ v.cs[Len(v.cs)].ok
            /\ v.cs[Len(v.cs)].co = co /\ Len(F) > 0 /\ F # <<>>
            /\ f.kind = kind /\ ~f.ypcall /\ ~f.hit /\ ~ErrorStatus(f.recst)
<1> DEFINE v == Enter(u, t, kind, co)
<1>1. Runs(u, g, t)
  BY RunsIs
<1>2. Entered(u, v, t, kind, co)
  BY <1>1, EnterIs DEF Runs, Global
<1> HIDE DEF v
<1>3. Len(v.th[t].ci) > 0 /\ v.th[t].ci # <<>>
  <2>1. Len(u.th[t].ci) \in Nat
    BY <1>1 DEF Runs
  <2>2. Len(v.th[t].ci) = Len(u.th[t].ci) + 1
    BY <1>2 DEF Entered
  <2>3. v.th[t].ci \in Seq(Frame)
    BY <1>1, <1>2, StateType, ThreadType DEF Entered, Runs
  <2>4. QED
    BY <2>1, <2>2, <2>3, SMTT(20)
<1>4. QED
  BY <1>2, <1>3 DEF v, Entered, FrameOf, ErrorStatus

(* pcall and xpcall, called by an Ilya function.                           *)
LEMMA CallProtectedOK ==
  ASSUME NEW u, NEW g, Inv(u, g), u.cs # <<>>, NEW t, t = Running(u),
         u.cs[Len(u.cs)].at = "exec", NEW kind \in {"pcall", "xpcall"}, NEW co \in Thr
  PROVE  \E g2 : Inv(PCallK(Enter(u, t, kind, co), t), g2)
<1> DEFINE v == Enter(u, t, kind, co)
<1>1. kind \in CKinds \ {"yield"}
  BY DEF CKinds
<1>2. PICK g1 : Inv(v, g1)
  BY <1>1, EnterOK
<1>3. MayProtect(v, t)
  BY <1>1, EnterReady DEF MayProtect, Protects
<1> HIDE DEF v
<1>4. QED
  BY <1>2, <1>3, PCallKOK DEF v

(* Another C function that calls an Ilya function.                         *)
LEMMA CallCOK ==
  ASSUME NEW u, NEW g, Inv(u, g), u.cs # <<>>, NEW t, t = Running(u),
         u.cs[Len(u.cs)].at = "exec", NEW co \in Thr
  PROVE  \E g2 : Inv(CCall(Enter(u, t, "cfun", co), t, 1, 1), g2)
<1> DEFINE v == Enter(u, t, "cfun", co)
<1>1. "cfun" \in CKinds \ {"yield"}
  BY DEF CKinds
<1>2. PICK g1 : Inv(v, g1)
  BY <1>1, EnterOK
<1>3. /\ v.cs # <<>> /\ t = Running(v) /\ v.cs[Len(v.cs)].at = "cfun"
      /\ Len(v.th[t].ci) > 0 /\ v.th[t].ci[Len(v.th[t].ci)].kind = "cfun"
  BY <1>1, EnterReady
<1> HIDE DEF v
<1>4. Exec(t, 1, 1).inc = 1 /\ Exec(t, 1, 1).ny = 1
  BY DEF Exec
<1>5. MayCall(v, t, 1, 1)
  BY <1>3, <1>4 DEF MayCall, Called
<1>6. QED
  BY <1>2, <1>5, CCallOK DEF v

-----------------------------------------------------------------------------
(* ilyaV_execute goes on, with frames of Ilya functions more or less.      *)
Continues(u, u2, g, t) ==
  LET n == Len(u.cs)
      F == u.th[t].ci
      F2 == u2.th[t].ci
  IN /\ u.cs # <<>> /\ t = Running(u) /\ u.cs[n].at = "exec"
     /\ u2 \in State /\ u2.cs = u.cs /\ u2.wrong = u.wrong
     /\ \A x \in Thr : x # t => u2.th[x] = u.th[x]
     /\ u2.th[t].ccalls = u.th[t].ccalls /\ u2.th[t].nny = u.th[t].nny
     /\ u2.th[t].status = u.th[t].status /\ u2.th[t].fn = u.th[t].fn
     /\ g[n].b < Len(F2) /\ F2[Len(F2)].kind = "ilya"
     /\ \A i \in 1 .. Len(F2) :
          IF i <= Len(F) THEN F2[i] = F[i] ELSE F2[i].kind = "ilya" /\ ~F2[i].fresh /\ ~F2[i].ypcall

(* Then the invariant holds.                                               *)
LEMMA ContinueOK ==
  ASSUME NEW u, NEW g, Inv(u, g), NEW t, NEW u2, Continues(u, u2, g, t),
         FramesOK(u2.th[t].ci), Owned(u2.th, u2.cs, t)
  PROVE  Inv(u2, g)
<1> DEFINE n == Len(u.cs)
           F == u.th[t].ci
           F2 == u2.th[t].ci
           l == Len(F)
           l2 == Len(F2)
<1>1. /\ u.cs # <<>> /\ t = Running(u) /\ u.cs[n].at = "exec"
      /\ u2 \in State /\ u2.cs = u.cs /\ u2.wrong = u.wrong
      /\ \A x \in Thr : x # t => u2.th[x] = u.th[x]
      /\ u2.th[t].ccalls = u.th[t].ccalls /\ u2.th[t].nny = u.th[t].nny
      /\ u2.th[t].status = u.th[t].status /\ u2.th[t].fn = u.th[t].fn
      /\ g[n].b < l2 /\ F2[l2].kind = "ilya"
  BY DEF Continues
<1>2. Runs(u, g, t)
  BY <1>1, RunsIs
<1>3. /\ n \in Nat /\ n > 0 /\ t \in Thr /\ u.cs[n].t = t /\ ~u.wrong
      /\ u.th[t].ccalls = g[n].p /\ u.th[t].nny = g[n].q /\ u.th[t].status = "ok"
      /\ g \in Seq(Ghost) /\ Len(g) = n /\ g[n].b \in Nat /\ g[n].b <= l /\ l \in Nat
      /\ ~Same(u.cs, n) /\ End(u.th, u.cs, g, n) = l /\ Fr(u.th, u.cs, n) = F
      /\ ExecOK(u.th, u.cs, g, n) /\ Backed(u.th, u.cs, g, t) /\ Ordered(u.th, u.cs, t)
  BY <1>2 DEF Runs, Local, Global, Serves
<1>4. l2 \in Nat /\ l2 > 0
  <2>1. l2 \in Nat
    BY <1>1, <1>3, StateType, ThreadType
  <2> HIDE DEF l2, n
  <2>2. QED
    BY <2>1, <1>1, <1>3
<1>5. \A i \in 1 .. l2 : IF i <= l THEN F2[i] = F[i] ELSE F2[i].kind = "ilya" /\ ~F2[i].fresh /\ ~F2[i].ypcall
  BY DEF Continues
<1>6. /\ n > 1 /\ g[n].b < l
      /\ IF u.cs[n - 1].at = "unroll" THEN g[n].b = 0 /\ u.cs[n].inc = 0 /\ u.cs[n].ny = 0
         ELSE /\ Called(F, g[n].b, u.cs[n - 1], u.cs[n])
              /\ F[g[n].b + 1].fresh /\ \A i \in g[n].b + 2 .. l : ~F[i].fresh
  BY <1>1, <1>3 DEF ExecOK
<1>7. Fr(u2.th, u2.cs, n) = F2 /\ End(u2.th, u2.cs, g, n) = l2
  BY <1>1, <1>3 DEF Fr, End
<1> HIDE DEF n, F, F2, l, l2
<1>8. \A i \in 1 .. g[n].b + 1 : F2[i] = F[i]
  <2>1. SUFFICES ASSUME NEW i \in 1 .. g[n].b + 1 PROVE F2[i] = F[i]
    OBVIOUS
  <2>2. i \in 1 .. l2 /\ i <= l
    BY <1>1, <1>3, <1>4, <1>6
  <2>3. QED
    BY <2>2, <1>5
<1>9. ExecOK(u2.th, u2.cs, g, n)
  <2>1. CASE u.cs[n - 1].at = "unroll"
    BY <2>1, <1>1, <1>6, <1>7 DEF ExecOK
  <2>2. CASE u.cs[n - 1].at # "unroll"
    <3>1. Called(F2, g[n].b, u.cs[n - 1], u.cs[n])
      <4>1. g[n].b > 0 => g[n].b \in 1 .. g[n].b + 1
        BY <1>3
      <4>2. g[n].b > 0 => F2[g[n].b] = F[g[n].b]
        BY <4>1, <1>8
      <4>3. Called(F, g[n].b, u.cs[n - 1], u.cs[n])
        BY <2>2, <1>6
      <4>4. QED
        BY <4>2, <4>3 DEF Called
    <3>2. F2[g[n].b + 1].fresh
      <4>1. g[n].b + 1 \in 1 .. g[n].b + 1
        BY <1>3
      <4>2. QED
        BY <4>1, <2>2, <1>6, <1>8
    <3>3. \A i \in g[n].b + 2 .. l2 : ~F2[i].fresh
      <4>1. SUFFICES ASSUME NEW i \in g[n].b + 2 .. l2 PROVE ~F2[i].fresh
        OBVIOUS
      <4>2. i \in 1 .. l2 /\ (i <= l => i \in g[n].b + 2 .. l)
        BY <1>3, <1>4
      <4>3. QED
        BY <4>2, <2>2, <1>5, <1>6
    <3>4. QED
      BY <3>1, <3>2, <3>3, <2>2, <1>1, <1>6, <1>7 DEF ExecOK
  <2>3. QED
    BY <2>1, <2>2
<1>10. Serves(u2.th, u2.cs, g, n)
  BY <1>1, <1>9 DEF Serves, CFunOK, TryOK, CloseOK, MsgOK, UnrollOK, Msgs
<1>11. Backed(u2.th, u2.cs, g, t)
  <2>1. "ilya" \notin CKinds
    BY DEF CKinds
  <2>2. SUFFICES ASSUME NEW i \in 1 .. l2
        PROVE  /\ F2[i].kind \in CKinds \ {"yield"} =>
                    F2[i].ypcall \/ \E k \in Of(u.cs, t) : u.cs[k].at = "cfun" /\ g[k].b + 1 = i
               /\ F2[i].kind = "yield" => \E k \in Of(u.cs, t) : u.cs[k].at \in Msgs /\ g[k].b = i
    BY <1>1 DEF Backed, F2, l2
  <2>3. CASE i <= l
    <3>1. i \in 1 .. l /\ F2[i] = F[i]
      BY <2>3, <1>3, <1>5
    <3>2. /\ F[i].kind \in CKinds \ {"yield"} =>
             F[i].ypcall \/ \E k \in Of(u.cs, t) : u.cs[k].at = "cfun" /\ g[k].b + 1 = i
          /\ F[i].kind = "yield" => \E k \in Of(u.cs, t) : u.cs[k].at \in Msgs /\ g[k].b = i
      BY <3>1, <1>3 DEF Backed, ErrorStatus, F, l
    <3>3. QED
      BY <3>1, <3>2
  <2>4. CASE ~(i <= l)
    BY <2>1, <2>4, <1>5
  <2>5. QED
    BY <2>3, <2>4
<1>12. Ordered(u2.th, u2.cs, t)
  <2>1. SUFFICES ASSUME NEW k \in Of(u.cs, t), u.cs[k].at = "try", u.cs[k].why # "resume",
                        NEW i \in 1 .. l2, F2[i].ypcall
                 PROVE  i < u.cs[k].level
    BY <1>1 DEF Ordered, F2, l2
  <2>2. i <= l /\ F2[i] = F[i]
    BY <2>1, <1>5
  <2>3. i \in 1 .. l
    BY <2>2, <1>3
  <2>4. QED
    BY <2>1, <2>2, <2>3, <1>3 DEF Ordered, F, l
<1>13. Backs(u, u2, g, t, n)
  <2>1. n \in 1 .. Len(u.cs) /\ Cut(u.cs, u2.cs, n)
    BY <1>1, <1>3 DEF Cut, n
  <2>2. g[n].b <= Len(F2) /\ \A i \in 1 .. g[n].b : F2[i] = F[i]
    <3>1. g[n].b <= l2 /\ \A i \in 1 .. g[n].b : i \in 1 .. g[n].b + 1
      BY <1>1, <1>3, <1>4
    <3>2. QED
      BY <3>1, <1>8 DEF l2
  <2>3. n # 1
    BY <1>3, <1>6
  <2>4. QED
    BY <2>1, <2>2, <2>3, <1>1, <1>3 DEF Backs, F, F2, n
<1>14. SubSeq(g, 1, n) = g
  BY <1>3
<1>15. Inv(u2, SubSeq(g, 1, n))
  BY <1>1, <1>10, <1>11, <1>12, <1>13, BackOK
<1>16. QED
  BY <1>14, <1>15

(* What ilyaV_execute runs is an Ilya function.                            *)
LEMMA ExecTop ==
  ASSUME NEW u, NEW g, Inv(u, g), u.cs # <<>>, NEW t, t = Running(u),
         u.cs[Len(u.cs)].at = "exec"
  PROVE  LET n == Len(u.cs)
             F == u.th[t].ci
             l == Len(F)
         IN /\ Runs(u, g, t) /\ F # <<>> /\ l > 0 /\ F[l].kind = "ilya" /\ TopFrame(u, t) = F[l]
            /\ g[n].b < l /\ n > 1 /\ n - 1 \in 1 .. n
            /\ IF u.cs[n - 1].at = "unroll" THEN g[n].b = 0 /\ u.cs[n].inc = 0 /\ u.cs[n].ny = 0
               ELSE /\ Called(F, g[n].b, u.cs[n - 1], u.cs[n])
                    /\ F[g[n].b + 1].fresh /\ \A i \in g[n].b + 2 .. l : ~F[i].fresh
            /\ u.cs[n - 1].t = t
<1> DEFINE n == Len(u.cs)
           F == u.th[t].ci
           l == Len(F)
<1>1. Runs(u, g, t)
  BY RunsIs
<1>2. /\ n \in Nat /\ n > 0 /\ g[n].b \in Nat /\ l \in Nat /\ F \in Seq(Frame)
      /\ ~Same(u.cs, n) /\ End(u.th, u.cs, g, n) = l /\ Fr(u.th, u.cs, n) = F
      /\ ExecOK(u.th, u.cs, g, n) /\ FirstOK(u.th, u.cs, g, n) /\ u.cs[n].t = t
  BY <1>1 DEF Runs, Local, Serves
<1>3. /\ n > 1 /\ g[n].b < l /\ F[l].kind = "ilya"
      /\ IF u.cs[n - 1].at = "unroll" THEN g[n].b = 0 /\ u.cs[n].inc = 0 /\ u.cs[n].ny = 0
         ELSE /\ Called(F, g[n].b, u.cs[n - 1], u.cs[n])
              /\ F[g[n].b + 1].fresh /\ \A i \in g[n].b + 2 .. l : ~F[i].fresh
  BY <1>2 DEF ExecOK
<1>4. l > 0 /\ F # <<>> /\ n - 1 \in 1 .. n
  BY <1>2, <1>3
<1>5. TopFrame(u, t) = F[l]
  BY <1>2, <1>4, SeqFront DEF TopFrame, CI
<1>6. u.cs[n - 1].t = t
  <2>1. n > 1 /\ u.cs[n - 1].t # u.cs[n].t => u.cs[n].at = "try"
    BY <1>2 DEF FirstOK
  <2>2. QED
    BY <2>1, <1>2, <1>3
<1>7. QED
  BY <1>1, <1>3, <1>4, <1>5, <1>6

(* An Ilya function calls another one.                                     *)
LEMMA CallIlyaOK ==
  ASSUME NEW u, NEW g, Inv(u, g), u.cs # <<>>, NEW t, t = Running(u),
         u.cs[Len(u.cs)].at = "exec"
  PROVE  Inv(PushFrame(u, t, "ilya"), g)
<1> DEFINE n == Len(u.cs)
           F == u.th[t].ci
           l == Len(F)
           f == FrameOf("ilya", TopSlot(u, t) + 1)
           w == PushFrame(u, t, "ilya")
<1>1. Runs(u, g, t) /\ F # <<>> /\ l > 0 /\ F[l].kind = "ilya" /\ g[n].b < l
  BY ExecTop
<1>2. /\ t \in Thr /\ u \in State /\ FramesOK(F) /\ Owned(u.th, u.cs, t) /\ l \in Nat
      /\ F \in Seq(Frame) /\ u.th[t] \in Thread /\ g[n].b \in Nat
  BY <1>1 DEF Runs, Global
<1>3. OnlyFrames(u, w, t) /\ w.th[t].ci = Append(F, f) /\ f \in Frame /\ NewFrame(u.th[t], f)
  BY <1>2, PushFrameIs
<1>4. f.kind = "ilya" /\ ~f.fresh /\ ~f.ypcall
  BY DEF FrameOf
<1> HIDE DEF w, f
<1>5. /\ w.th[t].ci \in Seq(Frame) /\ Len(w.th[t].ci) = l + 1 /\ w.th[t].ci[l + 1] = f
      /\ \A i \in 1 .. l : w.th[t].ci[i] = F[i]
  <2> HIDE DEF F
  <2>1. QED
    BY <1>2, <1>3, SeqAppend DEF l
<1>6. FramesOK(w.th[t].ci)
  BY <1>1, <1>2, <1>3, <1>4, <1>5, FramesPush
<1>7. Owned(w.th, w.cs, t)
  <2>1. w.th[t].tbc = u.th[t].tbc /\ w.cs = u.cs
    BY <1>3 DEF OnlyFrames
  <2>2. QED
    BY <2>1, <1>2, <1>3, <1>5, OwnedPush
<1>8. Continues(u, w, g, t)
  <2>1. g[n].b < l + 1 /\ \A i \in 1 .. l + 1 : (i <= l => i \in 1 .. l) /\ (~(i <= l) => i = l + 1)
    <3> HIDE DEF l, n, F
    <3>1. QED
      BY <1>1, <1>2
  <2>2. \A i \in 1 .. l + 1 : IF i <= l THEN w.th[t].ci[i] = F[i]
                              ELSE w.th[t].ci[i].kind = "ilya" /\ ~w.th[t].ci[i].fresh /\ ~w.th[t].ci[i].ypcall
    BY <2>1, <1>4, <1>5
  <2>3. QED
    BY <2>1, <2>2, <1>3, <1>4, <1>5 DEF Continues, OnlyFrames
<1>9. QED
  BY <1>6, <1>7, <1>8, ContinueOK DEF w

-----------------------------------------------------------------------------
(* The list of the variables to be closed.                                 *)
OnlyVariables(u, v, t, T) ==
  /\ v \in State /\ v.cs = u.cs /\ v.wrong = u.wrong
  /\ \A x \in Thr : x # t => v.th[x] = u.th[x]
  /\ v.th[t].ci = u.th[t].ci /\ v.th[t].status = u.th[t].status
  /\ v.th[t].fn = u.th[t].fn /\ v.th[t].errfunc = u.th[t].errfunc
  /\ v.th[t].ccalls = u.th[t].ccalls /\ v.th[t].nny = u.th[t].nny
  /\ v.th[t].tbc = T

(* A thread with other variables is otherwise the same.                    *)
LEMMA PutVariables ==
  ASSUME NEW u \in State, NEW t \in Thr, NEW T \in Seq(Variable)
  PROVE  OnlyVariables(u, [u EXCEPT !.th[t].tbc = T], t, T)
<1> DEFINE h == [u.th[t] EXCEPT !.tbc = T]
           v == [u EXCEPT !.th[t].tbc = T]
<1>1. u.th \in [Thr -> Thread] /\ u.th[t] \in Thread
  BY StateType
<1>2. /\ h \in Thread /\ h.tbc = T /\ h.ci = u.th[t].ci /\ h.status = u.th[t].status
      /\ h.fn = u.th[t].fn /\ h.errfunc = u.th[t].errfunc
      /\ h.ccalls = u.th[t].ccalls /\ h.nny = u.th[t].nny
  BY <1>1 DEF Thread
<1>3. v = [u EXCEPT !.th = [u.th EXCEPT ![t] = h]]
  OBVIOUS
<1> HIDE DEF h, v
<1>4. v \in State /\ v.cs = u.cs /\ v.wrong = u.wrong /\ v.th = [u.th EXCEPT ![t] = h]
  BY <1>1, <1>2, <1>3 DEF State
<1>5. v.th[t] = h /\ \A x \in Thr : x # t => v.th[x] = u.th[x]
  BY <1>1, <1>4
<1>6. OnlyVariables(u, v, t, T)
  BY <1>2, <1>4, <1>5 DEF OnlyVariables
<1>7. QED
  BY <1>6 DEF v

(* A local variable to be closed is declared.                              *)
LEMMA DeclareTbcOK ==
  ASSUME NEW u, NEW g, Inv(u, g), u.cs # <<>>, NEW t, t = Running(u),
         u.cs[Len(u.cs)].at = "exec"
  PROVE  Inv([u EXCEPT !.th[t].tbc =
                Append(u.th[t].tbc, [slot |-> TopSlot(u, t) + 1, of |-> Len(CI(u, t))])], g)
<1> DEFINE n == Len(u.cs)
           F == u.th[t].ci
           l == Len(F)
           T == u.th[t].tbc
           x == TopSlot(u, t)
           v == [slot |-> x + 1, of |-> Len(CI(u, t))]
           T2 == Append(T, v)
           w == [u EXCEPT !.th[t].tbc = T2]
<1>1. Runs(u, g, t) /\ F # <<>> /\ l > 0 /\ F[l].kind = "ilya" /\ g[n].b < l
  BY ExecTop
<1>2. /\ t \in Thr /\ u \in State /\ FramesOK(F) /\ Owned(u.th, u.cs, t) /\ l \in Nat
      /\ F \in Seq(Frame) /\ u.th[t] \in Thread /\ g[n].b \in Nat
  BY <1>1 DEF Runs, Global
<1>3. T \in Seq(Variable) /\ Len(T) \in Nat /\ \A j \in 1 .. Len(T) : T[j].slot \in Nat
  BY <1>2, ThreadType
<1>4. /\ x \in Nat /\ \A i \in 1 .. l : F[i].base <= x
      /\ \A j \in 1 .. Len(T) : T[j].slot <= x
  BY <1>2, TopSlotAbove
<1>5. v.slot = x + 1 /\ v.of = l /\ v \in Variable
  BY <1>2, <1>4 DEF Variable, CI
<1> HIDE DEF v, x
<1>6. /\ T2 \in Seq(Variable) /\ Len(T2) = Len(T) + 1 /\ T2[Len(T) + 1] = v
      /\ \A j \in 1 .. Len(T) : T2[j] = T[j]
  <2> HIDE DEF T
  <2>1. QED
    BY <1>3, <1>5, SeqAppend
<1> HIDE DEF T2
<1>7. OnlyVariables(u, w, t, T2)
  BY <1>2, <1>6, PutVariables
<1> HIDE DEF w
<1>8. OwnedBy(F, v, l)
  <2>1. l \in 1 .. l
    BY <1>1, <1>2
  <2>2. F[l].base < v.slot
    <3>1. F[l].base <= x /\ F[l].base \in Nat
      BY <2>1, <1>2, <1>4, ThreadType
    <3>2. QED
      BY <3>1, <1>4, <1>5
  <2> HIDE DEF l, F
  <2>3. ~(l < Len(F))
    BY <1>2 DEF l
  <2>4. QED
    BY <2>2, <2>3, <1>1, <1>5 DEF OwnedBy
<1>9. /\ \A j \in 1 .. Len(T) : T[j].slot > 0
      /\ \A i, j \in 1 .. Len(T) : i < j => T[i].slot < T[j].slot
      /\ \A j \in 1 .. Len(T) : \E i \in 0 .. l : OwnedBy(F, T[j], i) /\ (i = 0 => Closing(u.cs, t))
  BY <1>2 DEF Owned
<1> HIDE DEF T, F
<1>10. \A j \in 1 .. Len(T) + 1 : j \in 1 .. Len(T) \/ j = Len(T) + 1
  BY <1>3
<1>11. Owned(w.th, w.cs, t)
  <2>1. w.th[t].ci = F /\ w.th[t].tbc = T2 /\ w.cs = u.cs
    BY <1>7 DEF OnlyVariables, F
  <2>2. \A j \in 1 .. Len(T2) : T2[j].slot > 0
    BY <1>4, <1>5, <1>6, <1>9, <1>10
  <2>3. \A i, j \in 1 .. Len(T2) : i < j => T2[i].slot < T2[j].slot
    <3>1. SUFFICES ASSUME NEW i \in 1 .. Len(T) + 1, NEW j \in 1 .. Len(T) + 1, i < j
                   PROVE  T2[i].slot < T2[j].slot
      BY <1>6
    <3>2. i \in 1 .. Len(T) /\ T2[i] = T[i]
      BY <3>1, <1>3, <1>6
    <3>3. CASE j \in 1 .. Len(T)
      BY <3>1, <3>2, <3>3, <1>6, <1>9
    <3>4. CASE j = Len(T) + 1
      <4>1. T[i].slot <= x /\ T[i].slot \in Nat
        BY <3>2, <1>3, <1>4
      <4>2. QED
        BY <4>1, <3>2, <3>4, <1>4, <1>5, <1>6
    <3>5. QED
      BY <3>3, <3>4, <1>10
  <2>4. \A j \in 1 .. Len(T2) : \E i \in 0 .. l : OwnedBy(F, T2[j], i) /\ (i = 0 => Closing(u.cs, t))
    <3>1. l \in 0 .. l /\ l # 0
      BY <1>1, <1>2
    <3>2. QED
      BY <3>1, <1>6, <1>8, <1>9, <1>10
  <2>5. QED
    BY <2>1, <2>2, <2>3, <2>4 DEF Owned, l
<1>12. Continues(u, w, g, t)
  <2>1. l = Len(F) /\ \A i \in 1 .. l : i <= l
    BY <1>2 DEF l
  <2> HIDE DEF l, n
  <2>2. QED
    BY <2>1, <1>1, <1>7 DEF Continues, OnlyVariables, n, F
<1>13. FramesOK(w.th[t].ci)
  BY <1>2, <1>7 DEF OnlyVariables, F
<1>14. Inv(w, g)
  BY <1>11, <1>12, <1>13, ContinueOK
<1>15. QED
  BY <1>14 DEF w, T2, v, x, T

=============================================================================
