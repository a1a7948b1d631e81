---------------------------- MODULE Coro_proofs -----------------------------
(***************************************************************************)
(* Coro keeps its inductive invariant, and so all its invariants, for any  *)
(* number of threads, frames and variables and any limit of the C stack:   *)
(* at first what is left, ilya_resume and the first call of the host, then *)
(* one lemma for each action, and the theorems.                            *)
(***************************************************************************)
EXTENDS Coro_returns, FiniteSetTheorems

-----------------------------------------------------------------------------
(* A suspended coroutine that ran before: its yield returns in it.         *)
Resumed(u, w, co, p) ==
  LET F == u.th[co].ci
      F1 == w.th[co].ci
  IN /\ w \in State /\ w.cs = u.cs /\ w.wrong = u.wrong
     /\ \A x \in Thr : x # co => w.th[x] = u.th[x]
     /\ w.th[co].ccalls = p /\ w.th[co].nny = 0
     /\ w.th[co].status = "ok" /\ w.th[co].fn = u.th[co].fn
     /\ w.th[co].tbc = u.th[co].tbc
     /\ Len(F1) = Len(F) - 1 /\ \A i \in 1 .. Len(F) - 1 : F1[i] = F[i]

(* A thread with another status is otherwise the same.                     *)
LEMMA StatusIs ==
  ASSUME NEW u \in State, NEW t \in Thr, NEW st \in Status
  PROVE  LET w == [u EXCEPT !.th[t].status = st]
         IN /\ w \in State /\ w.cs = u.cs /\ w.wrong = u.wrong
            /\ w.th = [u.th EXCEPT ![t] = [u.th[t] EXCEPT !.status = st]]
            /\ \A x \in Thr : x # t => w.th[x] = u.th[x]
            /\ w.th[t].ccalls = u.th[t].ccalls /\ w.th[t].nny = u.th[t].nny
            /\ w.th[t].status = st /\ w.th[t].fn = u.th[t].fn
            /\ w.th[t].tbc = u.th[t].tbc /\ w.th[t].ci = u.th[t].ci
<1> DEFINE h == u.th[t]
           k == [h EXCEPT !.status = st]
           w == [u EXCEPT !.th[t].status = st]
<1>1. u.th \in [Thr -> Thread] /\ h \in Thread
  BY StateType
<1>2. /\ k \in Thread /\ k.ccalls = h.ccalls /\ k.nny = h.nny /\ k.status = st /\ k.fn = h.fn
      /\ k.ci = h.ci /\ k.tbc = h.tbc
  <2> HIDE DEF h
  <2>1. QED
    BY <1>1 DEF Thread
<1>3. w = [u EXCEPT !.th = [u.th EXCEPT ![t] = k]]
  BY <1>1 DEF State
<1> HIDE DEF k, w
<1>4. w \in State /\ w.cs = u.cs /\ w.wrong = u.wrong /\ w.th = [u.th EXCEPT ![t] = k]
  BY <1>1, <1>2, <1>3 DEF State
<1>5. w.th[t] = k /\ \A x \in Thr : x # t => w.th[x] = u.th[x]
  BY <1>1, <1>4
<1>6. QED
  BY <1>2, <1>4, <1>5 DEF w, k

(* That is what ilya_resume does before it calls unroll.                   *)
LEMMA ResumedIs ==
  ASSUME NEW u \in State, NEW co \in Thr, NEW p \in Nat, u.th[co].ci # <<>>
  PROVE  LET v == [u EXCEPT !.th[co].ccalls = p, !.th[co].nny = 0]
         IN Resumed(u, PopFrame([v EXCEPT !.th[co].status = "ok"], co), co, p)
<1> DEFINE v == [u EXCEPT !.th[co].ccalls = p, !.th[co].nny = 0]
           y == [v EXCEPT !.th[co].status = "ok"]
           w == PopFrame(y, co)
<1>1. Recounted(u, v, co, p, 0)
  BY RecountIs
<1> HIDE DEF v
<1>2. v \in State /\ "ok" \in Status
  BY <1>1 DEF Recounted, Status
<1>3. /\ y \in State /\ y.cs = v.cs /\ y.wrong = v.wrong
      /\ \A x \in Thr : x # co => y.th[x] = v.th[x]
      /\ y.th[co].ccalls = v.th[co].ccalls /\ y.th[co].nny = v.th[co].nny
      /\ y.th[co].status = "ok" /\ y.th[co].fn = v.th[co].fn
      /\ y.th[co].tbc = v.th[co].tbc /\ y.th[co].ci = v.th[co].ci
  BY <1>2, StatusIs
<1> HIDE DEF y
<1>4. y.th[co].ci # <<>>
  BY <1>1, <1>3 DEF Recounted
<1>5. /\ OnlyFrames(y, w, co) /\ Len(w.th[co].ci) = Len(y.th[co].ci) - 1
      /\ \A i \in 1 .. Len(y.th[co].ci) - 1 : w.th[co].ci[i] = y.th[co].ci[i]
  BY <1>3, <1>4, PopFrameIs
<1> HIDE DEF w
<1>6. Resumed(u, w, co, p)
  BY <1>1, <1>3, <1>5 DEF Recounted, OnlyFrames, Resumed
<1>7. QED
  BY <1>6 DEF w, y, v

(* PopFrame, as a record.                                                  *)
LEMMA PopFrameFields ==
  ASSUME NEW u \in State, NEW t \in Thr
  PROVE  LET w == PopFrame(u, t)
         IN /\ w = [th |-> w.th, cs |-> w.cs, wrong |-> w.wrong]
            /\ w.cs = u.cs /\ w.wrong = u.wrong
            /\ w.th = [u.th EXCEPT ![t] = [u.th[t] EXCEPT !.ci = Front(u.th[t].ci)]]
  BY StateType DEF PopFrame, State

(* Push of a record.                                                       *)
LEMMA PushRecord ==
  ASSUME NEW th, NEW cs, NEW wrong, NEW a, NEW u, u = [th |-> th, cs |-> cs, wrong |-> wrong]
  PROVE  Push(u, a) = [th |-> th, cs |-> Append(cs, a), wrong |-> wrong]
  BY DEF Push

(* The order of the push and the pop makes no difference.                  *)
LEMMA PopAbovePush ==
  ASSUME NEW v \in State, NEW co \in Thr, NEW a \in Activation
  PROVE  PopFrame([Push(v, a) EXCEPT !.th[co].status = "ok"], co)
           = Push(PopFrame([v EXCEPT !.th[co].status = "ok"], co), a)
<1> DEFINE x == Push(v, a)
           y == [x EXCEPT !.th[co].status = "ok"]
           z == [v EXCEPT !.th[co].status = "ok"]
           w == PopFrame(y, co)
           w0 == PopFrame(z, co)
<1>1. x \in State /\ x.th = v.th /\ x.wrong = v.wrong /\ x.cs = Append(v.cs, a)
  BY PushFields
<1> HIDE DEF x
<1>2. "ok" \in Status
  BY DEF Status
<1>3. /\ y \in State /\ y.cs = x.cs /\ y.wrong = x.wrong
      /\ y.th = [x.th EXCEPT ![co] = [x.th[co] EXCEPT !.status = "ok"]]
  BY <1>1, <1>2, StatusIs
<1>4. /\ z \in State /\ z.cs = v.cs /\ z.wrong = v.wrong
      /\ z.th = [v.th EXCEPT ![co] = [v.th[co] EXCEPT !.status = "ok"]]
  BY <1>2, StatusIs
<1> HIDE DEF y, z
<1>5. y.th = z.th /\ y.cs = Append(z.cs, a) /\ y.wrong = z.wrong
  BY <1>1, <1>3, <1>4
<1>6. /\ w = [th |-> w.th, cs |-> w.cs, wrong |-> w.wrong]
      /\ w.cs = y.cs /\ w.wrong = y.wrong
      /\ w.th = [y.th EXCEPT ![co] = [y.th[co] EXCEPT !.ci = Front(y.th[co].ci)]]
  BY <1>3, PopFrameFields
<1>7. /\ w0 = [th |-> w0.th, cs |-> w0.cs, wrong |-> w0.wrong]
      /\ w0.cs = z.cs /\ w0.wrong = z.wrong
      /\ w0.th = [z.th EXCEPT ![co] = [z.th[co] EXCEPT !.ci = Front(z.th[co].ci)]]
  BY <1>4, PopFrameFields
<1> HIDE DEF w, w0
<1>8. Push(w0, a) = [th |-> w0.th, cs |-> Append(w0.cs, a), wrong |-> w0.wrong]
  <2> HIDE DEF z
  <2>1. QED
    BY <1>7, PushRecord
<1>9. w.th = w0.th /\ w.cs = Append(w0.cs, a) /\ w.wrong = w0.wrong
  BY <1>5, <1>6, <1>7
<1>10. w = Push(w0, a)
  BY <1>6, <1>8, <1>9
<1>11. QED
  BY <1>10 DEF w, w0, x, y, z

(* ilya_resume of a coroutine that yielded.                                *)
LEMMA ResumeYieldedOK ==
  ASSUME NEW u, NEW g, Inv(u, g), u.cs # <<>>, NEW t, t = Running(u),
         u.cs[Len(u.cs)].at = "cfun", ~Protects(u.th[t].ci[Len(u.th[t].ci)]),
         NEW co \in Thr, u.th[co].status = "yield",
         NEW p, p = u.th[t].ccalls + 1, u.th[t].ccalls < MaxCCalls
  PROVE  LET v == [u EXCEPT !.th[co].ccalls = p, !.th[co].nny = 0]
             w == Push(v, Try(v, co, "resume", 0, 0, "ok"))
         IN \E g2 : Inv(Push(PopFrame([w EXCEPT !.th[co].status = "ok"], co), Unroll(co)), g2)
<1> DEFINE n == Len(u.cs)
           v == [u EXCEPT !.th[co].ccalls = p, !.th[co].nny = 0]
           T == Try(v, co, "resume", 0, 0, "ok")
           w == PopFrame([v EXCEPT !.th[co].status = "ok"], co)
           F == u.th[co].ci
           F1 == w.th[co].ci
           l == Len(F) - 1
<1>1. Runs(u, g, t)
  BY RunsIs
<1>2. /\ u \in State /\ ~u.wrong /\ t \in Thr /\ n \in Nat /\ n > 0 /\ n \in 1 .. n
      /\ u.th[t].ccalls = g[n].p /\ g[n].p \in Nat /\ Fr(u.th, u.cs, n) = u.th[t].ci
  BY <1>1 DEF Runs
<1>3. p \in Nat /\ p = 1 + g[n].p /\ p < ErrCCalls
  <2>1. MaxCCalls \in Nat /\ ErrCCalls \in Nat /\ MaxCCalls < ErrCCalls
    BY CoroAssumption
  <2> HIDE DEF n
  <2>2. QED
    BY <2>1, <1>2
<1>4. /\ Global(u.th, u.cs, g, co) /\ u.th[co] \in Thread /\ F \in Seq(Frame) /\ Len(F) \in Nat
      /\ u.th[co].tbc \in Seq(Variable)
  BY InvFacts, ThreadType
<1>5. Of(u.cs, co) = {} /\ ~u.th[co].fn /\ F # <<>> /\ F[Len(F)].kind = "yield"
  BY <1>4 DEF Global, StatusOK
<1>6. Len(F) > 0 /\ l \in Nat /\ l \in 0 .. Len(F) /\ l + 1 = Len(F) /\ Len(F) \in 1 .. Len(F)
  <2>1. Len(F) > 0
    BY <1>4, <1>5, SeqFront
  <2> HIDE DEF F
  <2>2. QED
    BY <2>1, <1>4
<1>7. Resumed(u, w, co, p)
  <2> HIDE DEF F
  <2>1. u.th[co].ci # <<>>
    BY <1>5 DEF F
  <2>2. QED
    BY <2>1, <1>2, <1>3, ResumedIs
<1> HIDE DEF w
<1>8. \A k \in 1 .. n : u.cs[k].t # co
  BY <1>5 DEF Of
<1>9. Jumped(u, w, co, n)
  <2>1. \A k \in n + 1 .. Len(u.cs) : FALSE
    BY <1>2
  <2>2. QED
    BY <2>1, <1>2, <1>7 DEF Jumped, Resumed
<1>10. Unrolls(u, w, g, co, n, l)
  <2>1. FramesOK(F) /\ Backed(u.th, u.cs, g, co)
    BY <1>4 DEF Global
  <2>2. Len(F1) = l /\ \A i \in 1 .. l : F1[i] = F[i]
    BY <1>7 DEF Resumed
  <2>3. \A i \in 1 .. l : i \in 1 .. Len(F) /\ i # Len(F)
    <3> HIDE DEF F, l
    <3>1. QED
      BY <1>4, <1>6
  <2>4. Lower(F, F1, l)
    <3>1. \A i \in 1 .. l - 1 : F1[i] = F[i]
      <4> HIDE DEF F, F1, l
      <4>1. QED
        BY <2>2, <1>6
    <3>2. l > 0 => l \in 1 .. l /\ l \in 1 .. Len(F) /\ F1[l] = F[l]
      <4> HIDE DEF F, F1, l
      <4>1. QED
        BY <2>2, <1>4, <1>6
    <3>3. l > 0 /\ F[l].ypcall => \A i \in 1 .. l - 1 : F[i].kind = "ilya" \/ F[i].ypcall
      <4>1. \A i \in 1 .. l - 1 : i \in 1 .. Len(F) /\ i < l
        <5> HIDE DEF F, l
        <5>1. QED
          BY <1>4, <1>6
      <4> HIDE DEF F, l
      <4>2. QED
        BY <4>1, <3>2, <2>1 DEF FramesOK
    <3>4. l > 0 => /\ F[l].ypcall \/ F[l].hit => Protects(F[l])
                   /\ F[l].ypcall => (ErrorStatus(F[l].recst) <=> F[l].hit)
      <4> HIDE DEF F, l
      <4>1. QED
        BY <3>2, <2>1 DEF FramesOK
    <3> HIDE DEF F, F1, l
    <3>5. QED
      BY <3>1, <3>2, <3>3, <3>4, <2>2, <1>6 DEF Lower
  <2>5. Heir(F, F1, u.th[co].tbc, l, FALSE)
    <3>1. ~F[Len(F)].hit
      <4> HIDE DEF F
      <4>1. QED
        BY <2>1, <1>5, <1>6 DEF FramesOK, Protects
    <3>2. F[Len(F)].kind # "ilya"
      BY <1>5
    <3>3. \A j \in 1 .. Len(u.th[co].tbc) : u.th[co].tbc[j].slot <= F[Len(F)].base
      BY <3>1, <3>2, <1>5, TopOwnsNone
    <3>4. l > 0 => F1[l] = F[l]
      <4> HIDE DEF F, F1, l
      <4>1. QED
        BY <2>2, <1>6
    <3> HIDE DEF F, F1, l
    <3>5. QED
      BY <3>3, <3>4, <1>6 DEF Heir
  <2>6. \A i \in 1 .. l : F1[i].kind # "yield" /\ (F1[i].kind \in CKinds => F1[i].ypcall)
    <3>1. ~ErrorStatus(u.th[co].status)
      BY DEF ErrorStatus
    <3>2. ASSUME NEW i \in 1 .. l
          PROVE  F[i].kind # "yield" /\ (F[i].kind \in CKinds => F[i].ypcall)
      <4>1. i \in 1 .. Len(F) /\ i # Len(F)
        BY <2>3
      <4>2. /\ F[i].kind \in CKinds \ {"yield"} => F[i].ypcall
            /\ F[i].kind # "yield"
        BY <4>1, <3>1, <2>1, <1>5 DEF Backed
      <4>3. QED
        BY <4>2
    <3> HIDE DEF F, F1, l
    <3>3. QED
      BY <3>2, <2>2
  <2>7. ~Closing(u.cs, co)
    BY <1>5 DEF Closing
  <2> HIDE DEF n, l, F, F1
  <2>8. ~Protects(Fr(u.th, u.cs, n)[Len(Fr(u.th, u.cs, n))])
    BY <1>2
  <2>9. /\ w.th[co].status = "ok" /\ ~w.th[co].fn
        /\ w.th[co].ccalls = 1 + g[n].p /\ 1 + g[n].p < ErrCCalls /\ w.th[co].nny = 0
    BY <1>3, <1>5, <1>7 DEF Resumed
  <2>10. QED
    BY <2>4, <2>5, <2>6, <2>7, <2>8, <2>9, <1>8 DEF Unrolls, F, F1
<1> HIDE DEF l, n, F, F1
<1>11. \E g2 : Inv(Push(Push(w, Try(w, co, "resume", 0, 0, "ok")), Unroll(co)), g2)
  BY <1>9, <1>10, PushUnrollOK
<1>12. Recounted(u, v, co, p, 0)
  BY <1>2, <1>3, RecountIs
<1>13. Try(w, co, "resume", 0, 0, "ok") = T
  BY <1>7, <1>12 DEF Resumed, Recounted, Try
<1> HIDE DEF v
<1>14. T \in Activation
  <2>1. v \in State /\ 0 \in Nat /\ "ok" \in Status
    BY <1>12 DEF Recounted, Status
  <2>2. QED
    BY <2>1, TryIs
<1> HIDE DEF T
<1>15. PopFrame([Push(v, T) EXCEPT !.th[co].status = "ok"], co) = Push(w, T)
  BY <1>12, <1>14, PopAbovePush DEF Recounted, w
<1>16. QED
  BY <1>11, <1>13, <1>15 DEF T, v

(* What ilya_resume and ilyaD_rawrunprotected do for a new coroutine.      *)
Starts(u, w, t, co, e) ==
  /\ w \in State /\ w.wrong = u.wrong /\ w.cs = Append(u.cs, e)
  /\ \A x \in Thr : x # co => w.th[x] = u.th[x]
  /\ w.th[co].ccalls = u.th[t].ccalls + 1 /\ w.th[co].nny = 0
  /\ w.th[co].status = "ok" /\ ~w.th[co].fn
  /\ w.th[co].tbc = u.th[co].tbc /\ w.th[co].ci = u.th[co].ci
  /\ e \in Activation /\ e.at = "try" /\ e.t = co /\ e.why = "resume" /\ e.level = 0
  /\ e.inc = 1 /\ e.ny = 0 /\ e.ccalls = u.th[t].ccalls + 1 /\ e.nny = 0

(* The protection of the resume keeps the invariant.                       *)
LEMMA StartsOK ==
  ASSUME NEW u, NEW g, Inv(u, g), u.cs # <<>>, NEW t, t = Running(u),
         u.cs[Len(u.cs)].at = "cfun", ~Protects(u.th[t].ci[Len(u.th[t].ci)]),
         NEW co \in Thr, u.th[co].status = "ok", u.th[co].ci = <<>>, u.th[co].fn,
         u.th[t].ccalls < MaxCCalls, NEW w, NEW e, Starts(u, w, t, co, e)
  PROVE  \E g2 : Inv(w, g2)
<1> DEFINE n == Len(u.cs)
           r == [p |-> u.th[t].ccalls + 1, q |-> 0, b |-> 0]
           g2 == Append(g, r)
<1>1. Runs(u, g, t)
  BY RunsIs
<1>2. /\ u \in State /\ ~u.wrong /\ t \in Thr /\ n \in Nat /\ n > 0 /\ u.cs[n].t = t
      /\ u.th[t].ccalls = g[n].p /\ g[n].p \in Nat /\ Fr(u.th, u.cs, n) = u.th[t].ci
      /\ g \in Seq(Ghost) /\ Len(g) = n /\ ~Same(u.cs, n) /\ End(u.th, u.cs, g, n) = Len(u.th[t].ci)
      /\ Local(u.th, u.cs, g, n) /\ ~u.th[t].fn /\ u.cs \in Seq(Activation)
  BY <1>1 DEF Runs
<1>3. r \in Ghost /\ r.p = g[n].p + 1 /\ r.q = 0 /\ r.b = 0 /\ r.p < ErrCCalls
  <2>1. MaxCCalls \in Nat /\ ErrCCalls \in Nat /\ MaxCCalls < ErrCCalls
    BY CoroAssumption
  <2>2. g[n].p + 1 \in Nat /\ g[n].p + 1 < ErrCCalls
    <3> HIDE DEF n
    <3>1. QED
      BY <2>1, <1>2
  <2>3. r = [p |-> g[n].p + 1, q |-> 0, b |-> 0]
    BY <1>2
  <2> HIDE DEF r
  <2>4. QED
    BY <2>2, <2>3 DEF Ghost
<1> HIDE DEF r
<1>4. /\ g2 \in Seq(Ghost) /\ Len(g2) = n + 1 /\ g2[n + 1] = r
      /\ \A k \in 1 .. n : g2[k] = g[k]
  <2> HIDE DEF n
  <2>1. Len(g) = n
    BY <1>2
  <2>2. QED
    BY <1>2, <1>3, <2>1, SeqAppend
<1>5. /\ Len(w.cs) = n + 1 /\ w.cs[n + 1] = e /\ \A k \in 1 .. n : w.cs[k] = u.cs[k]
  BY <1>2, SeqAppend DEF Starts
<1> HIDE DEF g2
<1>6. co # t
  BY <1>2
<1>7. Of(u.cs, co) = {} /\ co # Main /\ u.th[co].tbc = <<>>
  <2>1. StatusOK(u.th, u.cs, co)
    BY InvFacts DEF Global
  <2>2. QED
    BY <2>1 DEF StatusOK
<1>8. \A k \in 1 .. n : u.cs[k].t # co
  BY <1>7 DEF Of
<1>9. /\ w \in State /\ ~w.wrong /\ w.th[co].ci = <<>> /\ w.th[co].tbc = <<>>
      /\ w.th[co].status = "ok" /\ ~w.th[co].fn /\ w.th[t] = u.th[t]
      /\ w.th[co].ccalls = g[n].p + 1 /\ w.th[co].nny = 0
      /\ e.at = "try" /\ e.t = co /\ e.why = "resume" /\ e.level = 0
      /\ e.inc = 1 /\ e.ny = 0 /\ e.ccalls = g[n].p + 1 /\ e.nny = 0
      /\ \A x \in Thr : x # co => w.th[x] = u.th[x]
  BY <1>2, <1>6, <1>7 DEF Starts
<1>10. Len(w.th[co].ci) = 0 /\ Len(w.th[co].tbc) = 0
  BY <1>9
<1> DEFINE m == n + 1
<1>11. /\ m \in Nat /\ m > 1 /\ m # 1 /\ m - 1 = n /\ n \in 1 .. n /\ m = n + 1 /\ n < m
       /\ \A k : k \in m .. m => k = m
       /\ \A k : k \in n + 1 .. n => FALSE
  <2> HIDE DEF n
  <2>1. n \in Nat /\ n > 0
    BY <1>2
  <2>2. QED
    BY <2>1
<1> HIDE DEF n, m
<1>12. w.cs[n] = u.cs[n] /\ g2[n] = g[n] /\ w.cs[m] = e /\ g2[m] = r /\ Len(w.cs) = m /\ Len(g2) = m
  BY <1>4, <1>5, <1>11
<1>13. ~Same(w.cs, n) /\ ~Same(w.cs, m)
  BY <1>2, <1>6, <1>9, <1>11, <1>12 DEF Same
<1>14. /\ Fr(w.th, w.cs, n) = u.th[t].ci /\ Fr(w.th, w.cs, m) = <<>>
       /\ End(w.th, w.cs, g2, n) = Len(u.th[t].ci) /\ End(w.th, w.cs, g2, m) = 0
  BY <1>2, <1>9, <1>10, <1>12, <1>13 DEF Fr, End
<1>15. Serves(w.th, w.cs, g2, n)
  <2> DEFINE f == u.th[t].ci[Len(u.th[t].ci)]
  <2>1. u.cs[n].at = "cfun" /\ ~Protects(f)
    BY DEF n
  <2>2. CFunOK(u.th, u.cs, g, n)
    BY <1>2 DEF Local, Serves
  <2>3. /\ Len(u.th[t].ci) = g[n].b + 1 /\ f.kind \in CKinds \ {"yield"}
        /\ n > 1 => u.cs[n - 1].at = "exec"
        /\ f.ypcall => ~f.hit /\ u.cs[n].ok
        /\ f.hit => \A j \in 1 .. Len(u.th[t].tbc) : u.th[t].tbc[j].slot <= f.base
    BY <1>2, <2>1, <2>2 DEF CFunOK
  <2>4. n > 1 => n - 1 \in 1 .. n
    BY <1>2
  <2>5. n > 1 => w.cs[n - 1] = u.cs[n - 1]
    BY <2>4, <1>5
  <2> HIDE DEF f
  <2>6. CFunOK(w.th, w.cs, g2, n)
    <3>1. /\ w.cs[n].t = t /\ w.th[w.cs[n].t].tbc = u.th[t].tbc /\ w.cs[n].ok = u.cs[n].ok
          /\ g2[n].b = g[n].b
      BY <1>2, <1>9, <1>12
    <3>2. Fr(w.th, w.cs, n)[End(w.th, w.cs, g2, n)] = f /\ End(w.th, w.cs, g2, n) = g2[n].b + 1
      BY <1>14, <2>3, <3>1 DEF f
    <3>3. n > 1 => w.cs[n - 1].at = "exec"
      BY <2>3, <2>5
    <3>4. ~Same(w.cs, n)
      BY <1>13
    <3>5. /\ f.kind \in CKinds \ {"yield"}
          /\ f.ypcall => ~f.hit /\ w.cs[n].ok
          /\ f.hit => \A j \in 1 .. Len(w.th[w.cs[n].t].tbc) : w.th[w.cs[n].t].tbc[j].slot <= f.base
      BY <2>3, <3>1
    <3>6. QED
      BY <2>1, <3>2, <3>3, <3>4, <3>5 DEF CFunOK
  <2>7. QED
    BY <2>1, <2>6, <1>12 DEF Serves, ExecOK, TryOK, CloseOK, MsgOK, Msgs, UnrollOK
<1>16. Local(w.th, w.cs, g2, m)
  <2>1. Counted(w.th, w.cs, g2, m)
    <3>1. g2[m].p = w.cs[m].inc + g2[m - 1].p
      BY <1>2, <1>3, <1>9, <1>11, <1>12
    <3>2. w.cs[m - 1].t # w.cs[m].t /\ g2[m].q = w.cs[m].ny + 0
      BY <1>2, <1>3, <1>6, <1>9, <1>11, <1>12
    <3>3. w.cs[m].ccalls = g2[m].p /\ w.cs[m].nny = g2[m].q
      BY <1>3, <1>9, <1>12
    <3>4. w.th[w.cs[m].t].ccalls = g2[m].p /\ w.th[w.cs[m].t].nny = g2[m].q
      BY <1>3, <1>9, <1>12
    <3>5. QED
      BY <3>1, <3>2, <3>3, <3>4, <1>3, <1>11, <1>12 DEF Counted
  <2>2. w.cs[m - 1].at = "cfun" /\ w.cs[m - 1].t = t
    BY <1>2, <1>11, <1>12 DEF n
  <2>3. FirstOK(w.th, w.cs, g2, m)
    BY <2>2, <1>9, <1>11, <1>12 DEF FirstOK
  <2>4. TryOK(w.th, w.cs, g2, m)
    BY <2>2, <1>3, <1>6, <1>9, <1>11, <1>12, <1>14 DEF TryOK
  <2>5. Serves(w.th, w.cs, g2, m)
    BY <2>4, <1>9, <1>12 DEF Serves, ExecOK, CFunOK, CloseOK, MsgOK, Msgs, UnrollOK
  <2>6. QED
    BY <2>1, <2>3, <2>5 DEF Local
<1>17. Adds(u, w, g, g2, co, n)
  <2>1. n \in 0 .. Len(u.cs) /\ n < Len(w.cs)
    BY <1>2, <1>11, <1>12 DEF n
  <2>2. \A k \in n + 1 .. Len(u.cs) : u.cs[k].t = co
    BY <1>11 DEF n
  <2>3. \A k \in n + 1 .. Len(w.cs) : k = m
    BY <1>11, <1>12
  <2>4. \A k \in n + 1 .. Len(w.cs) : w.cs[k].t = co /\ g2[k].b <= Len(w.th[co].ci)
    BY <2>3, <1>3, <1>9, <1>10, <1>12
  <2>5. \A j, k \in n + 1 .. Len(w.cs) : j < k => g2[j].b <= g2[k].b /\ g2[j].q <= g2[k].q
    <3>1. ~(m < m)
      BY <1>11
    <3>2. QED
      BY <2>3, <3>1
  <2>6. QED
    BY <2>1, <2>2, <2>4, <2>5, <1>4, <1>5, <1>8, <1>9, <1>12 DEF Adds
<1>18. \A k \in n + 1 .. Len(w.cs) : Local(w.th, w.cs, g2, k)
  BY <1>11, <1>12, <1>16
<1>19. FramesOK(w.th[co].ci) /\ Owned(w.th, w.cs, co)
  <2>1. \A i : i \in 1 .. 0 => FALSE
    OBVIOUS
  <2>2. QED
    BY <2>1, <1>10 DEF FramesOK, Owned
<1>20. Backed(w.th, w.cs, g2, co) /\ Ordered(w.th, w.cs, co)
  <2>1. \A i : i \in 1 .. 0 => FALSE
    OBVIOUS
  <2>2. QED
    BY <2>1, <1>10 DEF Backed, Ordered
<1>21. StatusOK(w.th, w.cs, co)
  <2>1. Of(w.cs, co) # {}
    <3>1. m \in 1 .. Len(w.cs)
      BY <1>11, <1>12
    <3>2. QED
      BY <3>1, <1>9, <1>12 DEF Of
  <2>2. QED
    BY <2>1, <1>9 DEF StatusOK
<1>22. QED
  BY <1>15, <1>17, <1>18, <1>19, <1>20, <1>21, AddOK

(* A thread whose function was called.                                     *)
LEMMA FnIs ==
  ASSUME NEW u \in State, NEW t \in Thr
  PROVE  LET w == [u EXCEPT !.th[t].fn = FALSE]
         IN /\ w \in State /\ w.cs = u.cs /\ w.wrong = u.wrong
            /\ \A x \in Thr : x # t => w.th[x] = u.th[x]
            /\ w.th[t].ccalls = u.th[t].ccalls /\ w.th[t].nny = u.th[t].nny
            /\ w.th[t].status = u.th[t].status /\ ~w.th[t].fn
            /\ w.th[t].tbc = u.th[t].tbc /\ w.th[t].ci = u.th[t].ci
<1> DEFINE h == u.th[t]
           k == [h EXCEPT !.fn = FALSE]
           w == [u EXCEPT !.th[t].fn = FALSE]
<1>1. u.th \in [Thr -> Thread] /\ h \in Thread
  BY StateType
<1>2. /\ k \in Thread /\ k.ccalls = h.ccalls /\ k.nny = h.nny /\ k.status = h.status /\ ~k.fn
      /\ k.ci = h.ci /\ k.tbc = h.tbc
  <2> HIDE DEF h
  <2>1. QED
    BY <1>1 DEF Thread
<1>3. w = [u EXCEPT !.th = [u.th EXCEPT ![t] = k]]
  BY <1>1 DEF State
<1> HIDE DEF k, w
<1>4. w \in State /\ w.cs = u.cs /\ w.wrong = u.wrong /\ w.th = [u.th EXCEPT ![t] = k]
  BY <1>1, <1>2, <1>3 DEF State
<1>5. w.th[t] = k /\ \A x \in Thr : x # t => w.th[x] = u.th[x]
  BY <1>1, <1>4
<1>6. QED
  BY <1>2, <1>4, <1>5 DEF w

(* ilya_resume of a new coroutine.                                         *)
LEMMA ResumeNewOK ==
  ASSUME NEW u, NEW g, Inv(u, g), u.cs # <<>>, NEW t, t = Running(u),
         u.cs[Len(u.cs)].at = "cfun", ~Protects(u.th[t].ci[Len(u.th[t].ci)]),
         NEW co \in Thr, u.th[co].status = "ok", u.th[co].ci = <<>>, u.th[co].fn,
         NEW p, p = u.th[t].ccalls + 1, u.th[t].ccalls < MaxCCalls
  PROVE  LET v == [u EXCEPT !.th[co].ccalls = p, !.th[co].nny = 0]
             w == Push(v, Try(v, co, "resume", 0, 0, "ok"))
         IN \E g2 : Inv(CCall([w EXCEPT !.th[co].fn = FALSE], co, 0, 0), g2)
<1> DEFINE v == [u EXCEPT !.th[co].ccalls = p, !.th[co].nny = 0]
           e == Try(v, co, "resume", 0, 0, "ok")
           w == Push(v, e)
           x == [w EXCEPT !.th[co].fn = FALSE]
<1>1. u \in State /\ p \in Nat /\ u.cs \in Seq(Activation)
  <2>1. Runs(u, g, t)
    BY RunsIs
  <2>2. u.th[t].ccalls \in Nat
    BY <2>1, ThreadType DEF Runs
  <2>3. QED
    BY <2>1, <2>2 DEF Runs
<1>2. Recounted(u, v, co, p, 0)
  BY <1>1, RecountIs
<1> HIDE DEF v
<1>3. /\ e \in Activation /\ e.at = "try" /\ e.t = co /\ e.why = "resume"
      /\ e.level = 0 /\ e.inc = 1 /\ e.ny = 0
      /\ e.ccalls = v.th[co].ccalls /\ e.nny = v.th[co].nny
  <2>1. v \in State /\ 0 \in Nat /\ "ok" \in Status
    BY <1>2 DEF Recounted, Status
  <2>2. QED
    BY <2>1, TryIs
<1> HIDE DEF e
<1>4. w \in State /\ w.th = v.th /\ w.wrong = v.wrong /\ w.cs = Append(v.cs, e)
  BY <1>2, <1>3, PushFields DEF Recounted
<1> HIDE DEF w
<1>5. /\ x \in State /\ x.cs = w.cs /\ x.wrong = w.wrong
      /\ \A y \in Thr : y # co => x.th[y] = w.th[y]
      /\ x.th[co].ccalls = w.th[co].ccalls /\ x.th[co].nny = w.th[co].nny
      /\ x.th[co].status = w.th[co].status /\ ~x.th[co].fn
      /\ x.th[co].tbc = w.th[co].tbc /\ x.th[co].ci = w.th[co].ci
  BY <1>4, FnIs
<1> HIDE DEF x
<1>6. Starts(u, x, t, co, e)
  BY <1>2, <1>3, <1>4, <1>5 DEF Recounted, Starts
<1>7. PICK g2 : Inv(x, g2)
  BY <1>6, StartsOK
<1>8. MayCall(x, co, 0, 0)
  <2>1. x.cs = Append(u.cs, e) /\ x.cs # <<>> /\ x.cs[Len(x.cs)] = e
    <3>1. x.cs = Append(u.cs, e)
      BY <1>6 DEF Starts
    <3>2. Len(Append(u.cs, e)) = Len(u.cs) + 1 /\ Append(u.cs, e)[Len(u.cs) + 1] = e
      BY <1>1, <1>3, SeqAppend
    <3>3. Append(u.cs, e) # <<>>
      BY <1>1, <1>3
    <3>4. QED
      BY <3>1, <3>2, <3>3
  <2>2. co = Running(x)
    BY <2>1, <1>3, <1>5, StateType
  <2>3. Exec(co, 0, 0).inc = 0 /\ Exec(co, 0, 0).ny = 0
    BY ExecIs
  <2>4. QED
    BY <2>1, <2>2, <2>3, <1>3 DEF MayCall, Called
<1>9. \E h : Inv(CCall(x, co, 0, 0), h)
  BY <1>7, <1>8, CCallOK
<1>10. QED
  BY <1>9 DEF x, w, e, v

(* ilya_resume, called by coroutine.resume or wrap.                        *)
LEMMA ResumeOK ==
  ASSUME NEW u, NEW g, Inv(u, g), NEW t, NEW kind \in {"resume", "wrap"}, InCFun(u, t, kind),
         NEW co \in Thr
  PROVE  \E g2 : Inv(Resume(u, t, co), g2)
<1> DEFINE p == u.th[t].ccalls + 1
           v == [u EXCEPT !.th[co].ccalls = p, !.th[co].nny = 0]
           w == Push(v, Try(v, co, "resume", 0, 0, "ok"))
           x == CCall([w EXCEPT !.th[co].fn = FALSE], co, 0, 0)
           y == Push(PopFrame([w EXCEPT !.th[co].status = "ok"], co), Unroll(co))
<1>1. /\ u.cs # <<>> /\ t = Running(u) /\ u.cs[Len(u.cs)].at = "cfun"
      /\ ~Protects(u.th[t].ci[Len(u.th[t].ci)])
  BY DEF InCFun, Protects
<1>2. Resume(u, t, co) = IF ~CanResume(u, co) \/ u.th[t].ccalls >= MaxCCalls THEN ResumeDone(u, FALSE)
                         ELSE IF u.th[co].status = "ok" THEN x ELSE y
  BY DEF Resume
<1> HIDE DEF x, y
<1>3. CASE ~CanResume(u, co) \/ u.th[t].ccalls >= MaxCCalls
  BY <1>1, <1>2, <1>3, ResumeFailsOK
<1>4. CASE CanResume(u, co) /\ ~(u.th[t].ccalls >= MaxCCalls)
  <2>1. u.th[t].ccalls < MaxCCalls
    <3>1. Runs(u, g, t)
      BY <1>1, RunsIs
    <3>2. u.th[t].ccalls \in Nat /\ MaxCCalls \in Nat
      BY <3>1, ThreadType, CoroAssumption DEF Runs
    <3>3. QED
      BY <3>2, <1>4
  <2>2. CASE u.th[co].status = "ok"
    <3>1. u.th[co].ci = <<>> /\ u.th[co].fn
      BY <2>2, <1>4 DEF CanResume, CI
    <3> DEFINE q == p
    <3>2. q = u.th[t].ccalls + 1
      OBVIOUS
    <3>3. \E g2 : Inv(x, g2)
      BY <3>1, <2>1, <2>2, <1>1, ResumeNewOK DEF x
    <3>4. QED
      BY <3>3, <2>2, <1>2, <1>4
  <2>3. CASE u.th[co].status # "ok"
    <3>1. u.th[co].status = "yield"
      BY <2>3, <1>4 DEF CanResume
    <3>2. \E g2 : Inv(y, g2)
      BY <3>1, <2>1, <1>1, ResumeYieldedOK DEF y
    <3>3. QED
      BY <3>2, <2>3, <1>2, <1>4
  <2>4. QED
    BY <2>2, <2>3
<1>5. QED
  BY <1>3, <1>4

-----------------------------------------------------------------------------
(* The program's choices.                                                  *)
LEMMA InIlyaIs ==
  ASSUME NEW g, Inv(s, g), s.cs # <<>>, Top(s).at = "exec"
  PROVE  /\ s.cs # <<>> /\ s.cs[Len(s.cs)].at = "exec" /\ Top(s) = s.cs[Len(s.cs)]
         /\ s \in State /\ Running(s) \in Thr
<1>1. s \in State
  BY DEF Inv
<1>2. Top(s) = s.cs[Len(s.cs)]
  BY <1>1, StateType
<1>3. Running(s) \in Thr
  BY RunFacts
<1>4. QED
  BY <1>1, <1>2, <1>3

(* A call of an Ilya function keeps the invariant.                         *)
LEMMA CallIlyaStepOK ==
  ASSUME NEW g, Inv(s, g), CallIlya
  PROVE  \E g2 : Inv(s', g2)
<1>1. s.cs # <<>> /\ Top(s).at = "exec" /\ s' = PushFrame(s, Running(s), "ilya")
  BY DEF CallIlya, InIlya
<1>2. s.cs[Len(s.cs)].at = "exec"
  BY <1>1, InIlyaIs
<1>3. Inv(PushFrame(s, Running(s), "ilya"), g)
  BY <1>1, <1>2, CallIlyaOK
<1>4. QED
  BY <1>1, <1>3

(* So does a call of pcall or xpcall,                                      *)
LEMMA CallProtectedStepOK ==
  ASSUME NEW g, Inv(s, g), CallProtected
  PROVE  \E g2 : Inv(s', g2)
<1>1. s.cs # <<>> /\ Top(s).at = "exec"
  BY DEF CallProtected, InIlya
<1>2. PICK kind \in {"pcall", "xpcall"} : s' = PCallK(Enter(s, Running(s), kind, Main), Running(s))
  BY DEF CallProtected
<1>3. s.cs[Len(s.cs)].at = "exec" /\ Main \in Thr
  BY <1>1, InIlyaIs, CoroAssumption
<1>4. \E g2 : Inv(PCallK(Enter(s, Running(s), kind, Main), Running(s)), g2)
  BY <1>1, <1>3, CallProtectedOK
<1>5. QED
  BY <1>2, <1>4

(* ... of another C function that calls back,                              *)
LEMMA CallCStepOK ==
  ASSUME NEW g, Inv(s, g), CallC
  PROVE  \E g2 : Inv(s', g2)
<1>1. /\ s.cs # <<>> /\ Top(s).at = "exec"
      /\ s' = CCall(Enter(s, Running(s), "cfun", Main), Running(s), 1, 1)
  BY DEF CallC, InIlya
<1>2. s.cs[Len(s.cs)].at = "exec" /\ Main \in Thr
  BY <1>1, InIlyaIs, CoroAssumption
<1>3. \E g2 : Inv(CCall(Enter(s, Running(s), "cfun", Main), Running(s), 1, 1), g2)
  BY <1>1, <1>2, CallCOK
<1>4. QED
  BY <1>1, <1>3

(* ... of coroutine.yield,                                                 *)
LEMMA CallYieldStepOK ==
  ASSUME NEW g, Inv(s, g), CallYield
  PROVE  \E g2 : Inv(s', g2)
<1>1. /\ s.cs # <<>> /\ Top(s).at = "exec"
      /\ s' = YieldK(PushFrame(s, Running(s), "yield"), Running(s))
  BY DEF CallYield, InIlya
<1>2. s.cs[Len(s.cs)].at = "exec"
  BY <1>1, InIlyaIs
<1>3. \E g2 : Inv(YieldK(PushFrame(s, Running(s), "yield"), Running(s)), g2)
  BY <1>1, <1>2, CallYieldOK
<1>4. QED
  BY <1>1, <1>3

(* A C function that was called has its frame and its activation.          *)
LEMMA EnterInCFun ==
  ASSUME NEW u, NEW g, Inv(u, g), u.cs # <<>>, NEW t, t = Running(u),
         u.cs[Len(u.cs)].at = "exec", NEW kind \in CKinds \ {"yield"}, NEW co \in Thr
  PROVE  \E g2 : Inv(Enter(u, t, kind, co), g2) /\ InCFun(Enter(u, t, kind, co), t, kind)
<1> DEFINE v == Enter(u, t, kind, co)
<1>1. \E g2 : Inv(v, g2)
  BY EnterOK
<1>2. LET F == v.th[t].ci
      IN /\ v.cs # <<>> /\ t = Running(v) /\ v.cs[Len(v.cs)].at = "cfun"
         /\ Len(F) > 0 /\ F # <<>> /\ F[Len(F)].kind = kind
  BY EnterReady
<1> HIDE DEF v
<1>3. InCFun(v, t, kind)
  BY <1>2 DEF InCFun
<1>4. QED
  BY <1>1, <1>3 DEF v

(* ... of coroutine.resume or of a wrapped coroutine,                      *)
LEMMA CallResumeStepOK ==
  ASSUME NEW g, Inv(s, g), CallResume
  PROVE  \E g2 : Inv(s', g2)
<1>1. s.cs # <<>> /\ Top(s).at = "exec"
  BY DEF CallResume, InIlya
<1>2. PICK kind \in {"resume", "wrap"}, co \in Thr :
        s' = Resume(Enter(s, Running(s), kind, co), Running(s), co)
  BY DEF CallResume
<1>3. s.cs[Len(s.cs)].at = "exec" /\ kind \in CKinds \ {"yield"}
  BY <1>1, InIlyaIs DEF CKinds
<1>4. PICK g1 : Inv(Enter(s, Running(s), kind, co), g1)
                /\ InCFun(Enter(s, Running(s), kind, co), Running(s), kind)
  BY <1>1, <1>3, EnterInCFun
<1>5. \E g2 : Inv(Resume(Enter(s, Running(s), kind, co), Running(s), co), g2)
  BY <1>4, ResumeOK
<1>6. QED
  BY <1>2, <1>5

(* ... and of coroutine.close.                                             *)
LEMMA CallCloseStepOK ==
  ASSUME NEW g, Inv(s, g), CallClose
  PROVE  \E g2 : Inv(s', g2)
<1>1. s.cs # <<>> /\ Top(s).at = "exec"
  BY DEF CallClose, InIlya
<1>2. PICK co \in Thr : s' = CoClose(Enter(s, Running(s), "close", co), Running(s), co)
  BY DEF CallClose
<1>3. s.cs[Len(s.cs)].at = "exec" /\ "close" \in CKinds \ {"yield"}
  BY <1>1, InIlyaIs DEF CKinds
<1>4. PICK g1 : Inv(Enter(s, Running(s), "close", co), g1)
                /\ InCFun(Enter(s, Running(s), "close", co), Running(s), "close")
  BY <1>1, <1>3, EnterInCFun
<1>5. \E g2 : Inv(CoClose(Enter(s, Running(s), "close", co), Running(s), co), g2)
  BY <1>4, CoCloseOK
<1>6. QED
  BY <1>2, <1>5

(* The declaration of a variable keeps the invariant.                      *)
LEMMA DeclareTbcStepOK ==
  ASSUME NEW g, Inv(s, g), DeclareTbc
  PROVE  \E g2 : Inv(s', g2)
<1> DEFINE t == Running(s)
<1>1. /\ s.cs # <<>> /\ Top(s).at = "exec"
      /\ s' = [s EXCEPT !.th[t].tbc = Append(@, [slot |-> TopSlot(s, t) + 1, of |-> Len(CI(s, t))])]
  BY DEF DeclareTbc, InIlya
<1>2. s.cs[Len(s.cs)].at = "exec" /\ s \in State /\ t \in Thr
  BY <1>1, InIlyaIs
<1>3. Inv([s EXCEPT !.th[t].tbc =
             Append(s.th[t].tbc, [slot |-> TopSlot(s, t) + 1, of |-> Len(CI(s, t))])], g)
  BY <1>1, <1>2, DeclareTbcOK
<1>4. s' = [s EXCEPT !.th[t].tbc =
             Append(s.th[t].tbc, [slot |-> TopSlot(s, t) + 1, of |-> Len(CI(s, t))])]
  <2> DEFINE new == [slot |-> TopSlot(s, t) + 1, of |-> Len(CI(s, t))]
  <2>1. s' = [s EXCEPT !.th[t].tbc = Append(@, new)]
    BY <1>1
  <2> HIDE DEF new, t
  <2>2. s' = [s EXCEPT !.th[t].tbc = Append(s.th[t].tbc, new)]
    BY <2>1, <1>2, StateType
  <2>3. QED
    BY <2>2 DEF new
<1>5. QED
  BY <1>3, <1>4

(* An error keeps the invariant.                                           *)
LEMMA RaiseErrorStepOK ==
  ASSUME NEW g, Inv(s, g), RaiseError
  PROVE  \E g2 : Inv(s', g2)
<1>1. s.cs # <<>> /\ Top(s).at = "exec" /\ s' = RunError(s, Running(s))
  BY DEF RaiseError, InIlya
<1>2. s.cs[Len(s.cs)].at = "exec"
  BY <1>1, InIlyaIs
<1>3. \E g2 : Inv(RunError(s, Running(s)), g2)
  BY <1>1, <1>2, RunErrorOK
<1>4. QED
  BY <1>1, <1>3

(* The return of an Ilya function keeps the invariant.                     *)
LEMMA ReturnStepOK ==
  ASSUME NEW g, Inv(s, g), Return
  PROVE  \E g2 : Inv(s', g2)
<1> DEFINE t == Running(s)
           f == TopFrame(s, t)
           e == Top(s)
           back == [Pop(s) EXCEPT !.th[t].ccalls = @ - e.inc, !.th[t].nny = @ - e.ny]
           x == Push(SetTop(s, t, [f EXCEPT !.op = "return"]), Close(t, f.base, TRUE, "return"))
           y == PopFrame(back, t)
           z == PopFrame(s, t)
<1>1. s.cs # <<>> /\ Top(s).at = "exec"
  BY DEF Return
<1>2. s.cs[Len(s.cs)].at = "exec" /\ e = s.cs[Len(s.cs)] /\ s \in State /\ t \in Thr
  BY <1>1, InIlyaIs
<1>3. s' = IF OwnTbc(s, t) # {} THEN x ELSE IF f.fresh THEN y ELSE z
  <2>1. s' = IF OwnTbc(s, t) # {} THEN x ELSE PopFrame(IF f.fresh THEN back ELSE s, t)
    BY DEF Return
  <2> HIDE DEF x, back, f
  <2>2. QED
    BY <2>1
<1>4. CASE OwnTbc(s, t) # {}
  <2>1. \E g2 : Inv(x, g2)
    BY <1>1, <1>2, ReturnClosesOK
  <2> HIDE DEF x, y, z
  <2>2. QED
    BY <2>1, <1>3, <1>4
<1>5. CASE OwnTbc(s, t) = {} /\ f.fresh
  <2>1. \E g2 : Inv(y, g2)
    <3> HIDE DEF e
    <3>1. LET c == s.cs[Len(s.cs)]
          IN \E g2 : Inv(PopFrame([Pop(s) EXCEPT !.th[t].ccalls = @ - c.inc, !.th[t].nny = @ - c.ny], t), g2)
      BY <1>1, <1>2, <1>5, ReturnFreshOK
    <3>2. QED
      BY <3>1, <1>2
  <2> HIDE DEF x, y, z
  <2>2. QED
    BY <2>1, <1>3, <1>5
<1>6. CASE OwnTbc(s, t) = {} /\ ~f.fresh
  <2>1. Inv(z, g)
    BY <1>1, <1>2, <1>6, ReturnIlyaOK
  <2> HIDE DEF x, y, z
  <2>2. QED
    BY <2>1, <1>3, <1>6
<1>7. QED
  BY <1>4, <1>5, <1>6

(* The host's protected call is the first activation of all.               *)
LEMMA StartedOK ==
  ASSUME NEW g, Inv(s, g), s.cs = <<>>
  PROVE  LET v == Enter(s, Main, "pcall", Main)
         IN \E g2 : Inv(v, g2) /\ MayProtect(v, Main)
<1> DEFINE v == Enter(s, Main, "pcall", Main)
           F2 == v.th[Main].ci
           a == v.cs[1]
           r == [p |-> 0, q |-> 1, b |-> 0]
           g2 == <<r>>
           f == FrameOf("pcall", TopSlot(s, Main) + 1)
<1>1. s \in State /\ ~s.wrong /\ Main \in Thr /\ Global(s.th, s.cs, g, Main) /\ "pcall" \in CKinds
  BY InvFacts, CoroAssumption DEF CKinds
<1>2. /\ FramesOK(s.th[Main].ci) /\ Owned(s.th, s.cs, Main) /\ Of(s.cs, Main) = {}
  BY <1>1 DEF Global, Of
<1>3. /\ s.th[Main].status = "ok" /\ ~s.th[Main].fn /\ s.th[Main].ci = <<>> /\ s.th[Main].tbc = <<>>
      /\ s.th[Main].ccalls = 0 /\ s.th[Main].nny = 1
  BY <1>1, <1>2 DEF Global, StatusOK
<1>4. /\ Entered(s, v, Main, "pcall", Main) /\ v.wrong = s.wrong
      /\ v.th[Main].tbc = s.th[Main].tbc /\ NewFrame(s.th[Main], f)
  BY <1>1, <1>2, EnterIs
<1> HIDE DEF v
<1>5. /\ v \in State /\ v.cs # <<>> /\ Running(v) = Main /\ Len(v.cs) = 1
      /\ a.at = "cfun" /\ a.t = Main /\ a.ok
      /\ \A x \in Thr : x # Main => v.th[x] = s.th[x]
      /\ v.th[Main].status = "ok" /\ ~v.th[Main].fn /\ v.th[Main].tbc = <<>>
      /\ v.th[Main].ccalls = 0 /\ v.th[Main].nny = 1
      /\ Len(F2) = 1 /\ F2[1] = f /\ ~v.wrong
  <2>1. Len(s.cs) = 0 /\ Len(s.th[Main].ci) = 0
    BY <1>3
  <2>2. QED
    BY <2>1, <1>1, <1>3, <1>4 DEF Entered
<1>6. a \in Activation /\ a.inc = 0 /\ a.ny = 0
  <2>1. 1 \in 1 .. Len(v.cs)
    BY <1>5
  <2>2. QED
    BY <2>1, <1>5, StateType, ActivationType
<1>7. /\ f.kind = "pcall" /\ f.base > 0 /\ ~f.ypcall /\ ~f.hit /\ ~f.fresh /\ Protects(f)
      /\ ~ErrorStatus(f.recst)
  BY <1>4 DEF NewFrame, FrameOf, Protects, ErrorStatus
<1> HIDE DEF f
<1>8. g2 \in Seq(Ghost) /\ Len(g2) = 1 /\ g2[1].p = 0 /\ g2[1].q = 1 /\ g2[1].b = 0
  BY DEF Ghost
<1> HIDE DEF g2, r
<1>9. \A k : k \in 1 .. 1 <=> k = 1
  OBVIOUS
<1>10. /\ ~Same(v.cs, 1) /\ Fr(v.th, v.cs, 1) = F2 /\ End(v.th, v.cs, g2, 1) = 1
  BY <1>5 DEF Same, Fr, End
<1>11. MayProtect(v, Main)
  <2>1. F2 # <<>>
    BY <1>5
  <2>2. QED
    BY <2>1, <1>5, <1>7 DEF MayProtect
<1> HIDE DEF F2
<1>12. Local(v.th, v.cs, g2, 1)
  <2>1. Counted(v.th, v.cs, g2, 1)
    <3>1. 0 < ErrCCalls
      BY CoroAssumption
    <3>2. QED
      BY <3>1, <1>5, <1>6, <1>8, <1>10 DEF Counted
  <2>2. FirstOK(v.th, v.cs, g2, 1)
    BY <1>5, <1>7, <1>8, <1>10 DEF FirstOK
  <2>3. CFunOK(v.th, v.cs, g2, 1)
    <3>1. f.kind \in CKinds \ {"yield"}
      BY <1>7 DEF CKinds
    <3>2. QED
      BY <3>1, <1>5, <1>7, <1>8, <1>10 DEF CFunOK
  <2>4. Serves(v.th, v.cs, g2, 1)
    BY <2>3, <1>5 DEF Serves, ExecOK, TryOK, CloseOK, MsgOK, Msgs, UnrollOK
  <2>5. QED
    BY <2>1, <2>2, <2>4 DEF Local
<1>13. FramesOK(v.th[Main].ci)
  <2>1. ~(1 < 1)
    OBVIOUS
  <2>2. QED
    BY <2>1, <1>5, <1>7, <1>9 DEF FramesOK, F2
<1>14. Backed(v.th, v.cs, g2, Main)
  <2>1. 1 \in Of(v.cs, Main) /\ a.at = "cfun" /\ g2[1].b + 1 = 1
    BY <1>5, <1>8, <1>9 DEF Of
  <2>2. QED
    BY <2>1, <1>5, <1>7, <1>9 DEF Backed, F2
<1>15. Ordered(v.th, v.cs, Main)
  BY <1>5, <1>9 DEF Ordered, Of
<1>16. Owned(v.th, v.cs, Main)
  <2>1. \A j : j \in 1 .. 0 => FALSE
    OBVIOUS
  <2>2. Len(v.th[Main].tbc) = 0
    BY <1>5
  <2>3. QED
    BY <2>1, <2>2 DEF Owned
<1>17. StatusOK(v.th, v.cs, Main)
  <2>1. 1 \in Of(v.cs, Main)
    BY <1>5, <1>9 DEF Of
  <2>2. QED
    BY <2>1, <1>5 DEF StatusOK
<1>18. Adds(s, v, g, g2, Main, 0)
  <2>1. Len(s.cs) = 0 /\ 0 + 1 = 1 /\ 0 \in 0 .. 0 /\ 0 < 1 /\ ~(1 < 1) /\ ~(0 > 0)
    OBVIOUS
  <2>2. \A k : k \in 1 .. 0 => FALSE
    OBVIOUS
  <2>3. \A k : k \in 0 + 1 .. 1 <=> k = 1
    OBVIOUS
  <2>4. \A k : k \in 0 + 1 .. 0 => FALSE
    OBVIOUS
  <2>5. \A k \in 0 + 1 .. Len(v.cs) : v.cs[k].t = Main /\ g2[k].b <= Len(v.th[Main].ci)
    BY <2>3, <1>5, <1>8 DEF F2
  <2>6. QED
    BY <2>1, <2>2, <2>3, <2>4, <2>5, <1>1, <1>5, <1>8 DEF Adds
<1>19. \A k \in 0 + 1 .. Len(v.cs) : Local(v.th, v.cs, g2, k)
  <2>1. \A k : k \in 0 + 1 .. 1 => k = 1
    OBVIOUS
  <2>2. QED
    BY <2>1, <1>5, <1>12
<1>20. ~(0 > 0)
  OBVIOUS
<1>21. Inv(v, g2)
  BY <1>13, <1>14, <1>15, <1>16, <1>17, <1>18, <1>19, <1>20, AddOK
<1>22. QED
  BY <1>11, <1>21 DEF v

(* The start of the main chunk keeps the invariant.                        *)
LEMMA StartStepOK ==
  ASSUME NEW g, Inv(s, g), Start
  PROVE  \E g2 : Inv(s', g2)
<1> DEFINE v == Enter(s, Main, "pcall", Main)
<1>1. s.cs = <<>> /\ s' = PCallK(v, Main)
  BY DEF Start
<1>2. PICK g1 : Inv(v, g1) /\ MayProtect(v, Main)
  BY <1>1, StartedOK
<1> HIDE DEF v
<1>3. \E g2 : Inv(PCallK(v, Main), g2)
  BY <1>2, PCallKOK
<1>4. QED
  BY <1>1, <1>3

-----------------------------------------------------------------------------
(* Nothing runs at first.                                                  *)
LEMMA InitOK == Init => Inv(s, <<>>)
<1> SUFFICES ASSUME Init PROVE Inv(s, <<>>)
  OBVIOUS
<1> DEFINE h(t) == IF t = Main THEN [NewThread EXCEPT !.fn = FALSE, !.nny = 1] ELSE NewThread
<1>1. s = [th |-> [t \in Thr |-> h(t)], cs |-> <<>>, wrong |-> FALSE]
  BY DEF Init
<1>2. ASSUME NEW t \in Thr
      PROVE  /\ h(t) \in Thread /\ h(t).ci = <<>> /\ h(t).tbc = <<>> /\ h(t).status = "ok"
             /\ h(t).ccalls = 0 /\ (t = Main => ~h(t).fn /\ h(t).nny = 1)
  <2>1. <<>> \in Seq(Frame) /\ <<>> \in Seq(Variable) /\ 0 \in Nat /\ 1 \in Nat
    OBVIOUS
  <2> HIDE DEF Frame, Variable
  <2>2. NewThread \in Thread /\ [NewThread EXCEPT !.fn = FALSE, !.nny = 1] \in Thread
    BY <2>1 DEF NewThread, Thread, Status
  <2>3. /\ NewThread.ci = <<>> /\ NewThread.tbc = <<>> /\ NewThread.status = "ok" /\ NewThread.ccalls = 0
    BY DEF NewThread
  <2> DEFINE k == [NewThread EXCEPT !.fn = FALSE, !.nny = 1]
  <2>4. k.ci = <<>> /\ k.tbc = <<>> /\ k.status = "ok" /\ k.ccalls = 0 /\ ~k.fn /\ k.nny = 1
    BY DEF NewThread
  <2> HIDE DEF k
  <2>5. QED
    BY <2>2, <2>3, <2>4 DEF k
<1> HIDE DEF h
<1>3. s.cs = <<>> /\ s.wrong = FALSE /\ \A t \in Thr : s.th[t] = h(t)
  BY <1>1
<1>4. s \in State
  BY <1>1, <1>2 DEF State
<1>5. \A k : k \in 1 .. 0 => FALSE
  OBVIOUS
<1>6. Len(s.cs) = 0
  BY <1>3
<1>7. ASSUME NEW t \in Thr
      PROVE  Global(s.th, s.cs, <<>>, t)
  <2>1. Of(s.cs, t) = {}
    BY <1>5, <1>6 DEF Of
  <2>2. Len(s.th[t].ci) = 0 /\ Len(s.th[t].tbc) = 0
    BY <1>2, <1>3
  <2>3. Nested(s.th, s.cs, <<>>, t) /\ Ordered(s.th, s.cs, t)
    BY <2>1 DEF Nested, Ordered
  <2>4. FramesOK(s.th[t].ci) /\ Owned(s.th, s.cs, t)
    BY <1>5, <2>2 DEF FramesOK, Owned
  <2>5. Backed(s.th, s.cs, <<>>, t)
    BY <1>5, <2>2 DEF Backed
  <2>6. StatusOK(s.th, s.cs, t)
    BY <1>2, <1>3, <2>1 DEF StatusOK
  <2>7. QED
    BY <2>3, <2>4, <2>5, <2>6 DEF Global
<1>8. \A k \in 1 .. Len(s.cs) : Local(s.th, s.cs, <<>>, k)
  BY <1>5, <1>6
<1>9. <<>> \in Seq(Ghost) /\ Len(<<>>) = Len(s.cs)
  BY <1>3
<1>10. QED
  BY <1>3, <1>4, <1>7, <1>8, <1>9 DEF Inv, Shape

(* Every step keeps the invariant.                                         *)
LEMMA NextOK ==
  ASSUME NEW g, Inv(s, g), Next
  PROVE  \E g2 : Inv(s', g2)
<1>1. CASE CallIlya
  BY <1>1, CallIlyaStepOK
<1>2. CASE CallProtected
  BY <1>2, CallProtectedStepOK
<1>3. CASE CallC
  BY <1>3, CallCStepOK
<1>4. CASE CallYield
  BY <1>4, CallYieldStepOK
<1>5. CASE CallResume
  BY <1>5, CallResumeStepOK
<1>6. CASE CallClose
  BY <1>6, CallCloseStepOK
<1>7. CASE DeclareTbc
  BY <1>7, DeclareTbcStepOK
<1>8. CASE RaiseError
  BY <1>8, RaiseErrorStepOK
<1>9. CASE Return
  BY <1>9, ReturnStepOK
<1>10. CASE CloseStep
  BY <1>10, CloseStepOK
<1>11. CASE ErrorMsgStep
  BY <1>11, ErrorMsgStepOK
<1>12. CASE UnrollStep
  BY <1>12, UnrollStepOK
<1>13. CASE TryReturns
  BY <1>13, TryReturnsOK
<1>14. CASE CFunReturns
  BY <1>14, CFunReturnsOK
<1>15. CASE Start
  BY <1>15, StartStepOK
<1>16. QED
  BY <1>1, <1>2, <1>3, <1>4, <1>5, <1>6, <1>7, <1>8, <1>9, <1>10, <1>11, <1>12, <1>13,
     <1>14, <1>15 DEF Next

(* In every reachable state, the C stack mirrors the frames of the threads *)
(* that run: every activation has its counts, its protection and its       *)
(* frames, and every frame is served or can be finished.                   *)
THEOREM StackMirrored == Spec => []IInv
<1>1. Init => IInv
  <2>1. <<>> \in Seq(Ghost)
    OBVIOUS
  <2>2. QED
    BY <2>1, InitOK DEF IInv
<1>2. IInv /\ [Next]_s => IInv'
  <2> SUFFICES ASSUME IInv, [Next]_s PROVE IInv'
    OBVIOUS
  <2>1. PICK g \in Seq(Ghost) : Inv(s, g)
    BY DEF IInv
  <2>2. CASE Next
    <3>1. PICK g2 : Inv(s', g2)
      BY <2>1, <2>2, NextOK
    <3>2. g2 \in Seq(Ghost)
      BY <3>1 DEF Inv
    <3>3. QED
      BY <3>1, <3>2 DEF IInv
  <2>3. CASE s' = s
    BY <2>1, <2>3 DEF IInv
  <2>4. QED
    BY <2>2, <2>3
<1>3. QED
  BY <1>1, <1>2, PTL DEF Spec

-----------------------------------------------------------------------------
(* What the invariant says of the properties of Coro.                      *)

(* Threads, frames and activations keep their types; no count of calls     *)
(* wraps around below zero.                                                *)
THEOREM TypesKept == Spec => []TypeOK
<1>1. IInv => TypeOK
  BY DEF IInv, Inv, TypeOK
<1>2. QED
  BY <1>1, StackMirrored, PTL

(* Every error reaches the innermost protected call of its thread.         *)
THEOREM ErrorsReachTheirCall == Spec => []ErrorsAimed
<1>1. IInv => ErrorsAimed
  BY DEF IInv, Inv, ErrorsAimed
<1>2. QED
  BY <1>1, StackMirrored, PTL

(* The invariant tells which threads are on the C stack.                   *)
LEMMA StatusIsTrue ==
  ASSUME NEW g, Inv(s, g)
  PROVE  StatusTruthful
<1> SUFFICES ASSUME InIlya, NEW co \in Thr \ {Running(s)}
             PROVE  LET active == \E i \in DOMAIN s.cs : s.cs[i].t = co
                        status == AuxStatus(s, Running(s), co)
                    IN /\ active <=> status = "normal"
                       /\ status = "suspended" <=> CanResume(s, co)
  BY DEF StatusTruthful
<1> DEFINE active == \E i \in DOMAIN s.cs : s.cs[i].t = co
           status == AuxStatus(s, Running(s), co)
<1>1. s.cs # <<>> /\ s \in State /\ co # Running(s) /\ co \in Thr
  BY DEF InIlya, Inv
<1>2. DOMAIN s.cs = 1 .. Len(s.cs)
  BY <1>1, StateType
<1>3. active <=> Of(s.cs, co) # {}
  BY <1>2 DEF Of
<1>4. active => s.th[co].ci # <<>> /\ s.th[co].status = "ok"
  BY <1>1, <1>3, OnStack
<1>5. s.th[co].status = "ok" /\ s.th[co].ci # <<>> => active
  <2>1. StatusOK(s.th, s.cs, co)
    BY <1>1, InvFacts DEF Global
  <2>2. QED
    BY <2>1, <1>3 DEF StatusOK
<1> HIDE DEF active
<1>6. active <=> status = "normal"
  BY <1>1, <1>4, <1>5 DEF AuxStatus
<1>7. status = "suspended" <=> CanResume(s, co)
  BY <1>1 DEF AuxStatus, CanResume, CI
<1>8. QED
  BY <1>6, <1>7 DEF active

(* coroutine.status tells whether a thread runs, has resumed another one,  *)
(* waits, or ended.                                                        *)
THEOREM StatusTold == Spec => []StatusTruthful
<1>1. IInv => StatusTruthful
  BY StatusIsTrue DEF IInv
<1>2. QED
  BY <1>1, StackMirrored, PTL

(* The invariant gives every variable its owner.                           *)
LEMMA NoneLost ==
  ASSUME NEW g, Inv(s, g)
  PROVE  NoLostVariable
<1> SUFFICES ASSUME NEW t \in Thr
             PROVE  LET h == s.th[t]
                        active == {i \in DOMAIN s.cs : s.cs[i].t = t}
                    IN /\ \A i \in DOMAIN h.tbc :
                            LET v == h.tbc[i]
                                below == {k \in DOMAIN h.ci : h.ci[k].base < v.slot}
                                f == h.ci[Max(below)]
                            IN IF below = {} THEN \E k \in active : s.cs[k].at = "close" /\ s.cs[k].slot = 1
                               ELSE f.hit \/ (f.kind = "ilya" /\ v.of = Max(below))
                       /\ h.status = "ok" /\ h.ci = <<>> /\ active = {} => h.tbc = <<>>
  BY DEF NoLostVariable
<1> DEFINE F == s.th[t].ci
           T == s.th[t].tbc
           active == {i \in DOMAIN s.cs : s.cs[i].t = t}
<1>1. s \in State /\ Global(s.th, s.cs, g, t) /\ s.th[t] \in Thread
  BY InvFacts
<1>2. /\ F \in Seq(Frame) /\ Len(F) \in Nat /\ DOMAIN F = 1 .. Len(F)
      /\ \A i \in 1 .. Len(F) : F[i].base \in Nat
      /\ T \in Seq(Variable) /\ DOMAIN T = 1 .. Len(T)
      /\ \A j \in 1 .. Len(T) : T[j].slot \in Nat
  BY <1>1, ThreadType
<1>3. DOMAIN s.cs = 1 .. Len(s.cs)
  BY <1>1, StateType
<1>4. active = Of(s.cs, t)
  BY <1>3 DEF Of
<1>5. s.th[t].status = "ok" /\ F = <<>> /\ active = {} => T = <<>>
  BY <1>1, <1>4 DEF Global, StatusOK
<1>6. \A i, j \in 1 .. Len(F) : i < j => F[i].base < F[j].base
  BY <1>1 DEF Global, FramesOK
<1> HIDE DEF F
<1>7. ASSUME NEW j \in DOMAIN T
      PROVE  LET v == T[j]
                 below == {k \in DOMAIN F : F[k].base < v.slot}
                 f == F[Max(below)]
             IN IF below = {} THEN \E k \in active : s.cs[k].at = "close" /\ s.cs[k].slot = 1
                ELSE f.hit \/ (f.kind = "ilya" /\ v.of = Max(below))
  <2> DEFINE v == T[j]
             below == {k \in DOMAIN F : F[k].base < v.slot}
  <2>1. PICK i \in 0 .. Len(F) : OwnedBy(F, v, i) /\ (i = 0 => Closing(s.cs, t))
    BY <1>1, <1>2 DEF Global, Owned, F
  <2>2. v.slot \in Nat
    BY <1>2
  <2> HIDE DEF v
  <2>3. ASSUME NEW k \in 1 .. Len(F), k > i
        PROVE  ~(F[k].base < v.slot)
    <3>1. i < Len(F) /\ i + 1 \in 1 .. Len(F) /\ (i + 1 = k \/ i + 1 < k)
      BY <2>3, <1>2
    <3>2. F[i + 1].base >= v.slot
      BY <3>1, <2>1 DEF OwnedBy
    <3>3. F[i + 1].base <= F[k].base /\ F[i + 1].base \in Nat /\ F[k].base \in Nat
      BY <3>1, <1>2, <1>6
    <3>4. QED
      BY <3>2, <3>3, <2>2
  <2>4. CASE i = 0
    <3>1. below = {}
      BY <2>3, <2>4, <1>2
    <3>2. \E k \in active : s.cs[k].at = "close" /\ s.cs[k].slot = 1
      BY <2>1, <2>4, <1>4 DEF Closing
    <3>3. QED
      BY <3>1, <3>2 DEF v
  <2>5. CASE i > 0
    <3>1. i \in 1 .. Len(F) /\ F[i].base < v.slot /\ (F[i].hit \/ (F[i].kind = "ilya" /\ v.of = i))
      BY <2>1, <2>5, <1>2 DEF OwnedBy
    <3>2. i \in below /\ below \subseteq 0 .. Len(F) /\ \A x \in below : x <= i
      BY <3>1, <2>3, <1>2
    <3> HIDE DEF below
    <3>3. Max(below) = i
      BY <3>2, <1>2, MaxIs
    <3>4. below # {}
      BY <3>2
    <3>5. QED
      BY <3>1, <3>3, <3>4 DEF below, v
  <2>6. QED
    <3>1. i = 0 \/ i > 0
      BY <1>2
    <3> HIDE DEF below, v
    <3>2. QED
      BY <2>4, <2>5, <3>1
<1>8. QED
  BY <1>5, <1>7 DEF F

(* No variable to be closed is lost, whatever errors and yields come.      *)
THEOREM VariablesKept == Spec => []NoLostVariable
<1>1. IInv => NoLostVariable
  BY NoneLost DEF IInv
<1>2. QED
  BY <1>1, StackMirrored, PTL

-----------------------------------------------------------------------------
(* The sum of the numbers in w is what a sequence of partial sums says.    *)
LEMMA TotalIs ==
  ASSUME NEW w, NEW n \in Nat, Len(w) = n, NEW P,
         P = [i \in 0 .. n |-> IF i = 0 THEN 0 ELSE P[i - 1] + w[i]]
  PROVE  Total(w) = P[n]
<1> DEFINE Sums(f) == f = [i \in 0 .. n |-> IF i = 0 THEN 0 ELSE f[i - 1] + w[i]]
           sum == CHOOSE f : Sums(f)
<1>1. Total(w) = sum[n]
  BY DEF Total
<1>2. Sums(P)
  OBVIOUS
<1>3. Sums(sum)
  <2> HIDE DEF Sums
  <2>1. QED
    BY <1>2
<1>4. sum = [i \in 0 .. n |-> IF i = 0 THEN 0 ELSE sum[i - 1] + w[i]]
  BY <1>3
<1> HIDE DEF Sums, sum
<1> DEFINE D == {i \in 0 .. n : sum[i] # P[i]}
<1>5. D = {}
  <2> SUFFICES ASSUME D # {} PROVE FALSE
    OBVIOUS
  <2>1. D \in SUBSET Nat
    OBVIOUS
  <2> HIDE DEF D
  <2>2. PICK m \in D : \A x \in D : m <= x
    BY <2>1, LeastNat
  <2> USE DEF D
  <2>3. m \in 0 .. n /\ sum[m] # P[m] /\ m \in Nat
    BY <2>2
  <2>4. sum[m] = IF m = 0 THEN 0 ELSE sum[m - 1] + w[m]
    BY <2>3, <1>4
  <2>5. P[m] = IF m = 0 THEN 0 ELSE P[m - 1] + w[m]
    BY <2>3
  <2>6. m # 0
    BY <2>3, <2>4, <2>5
  <2>7. m - 1 \in 0 .. n /\ m - 1 < m
    BY <2>3, <2>6
  <2>8. m - 1 \notin D
    BY <2>2, <2>3, <2>7
  <2>9. sum[m - 1] = P[m - 1]
    BY <2>7, <2>8
  <2>10. QED
    BY <2>3, <2>4, <2>5, <2>6, <2>9
<1>6. n \in 0 .. n
  OBVIOUS
<1>7. sum[n] = P[n]
  BY <1>5, <1>6
<1>8. QED
  BY <1>1, <1>7

(* The counts in the ghost are the partial sums.                           *)
LEMMA CountsExact ==
  ASSUME NEW g, Inv(s, g)
  PROVE  CStackExact
<1> SUFFICES ASSUME s.cs # <<>>
             PROVE  LET t == Running(s) IN
                    /\ s.th[t].ccalls = Total([i \in DOMAIN s.cs |-> s.cs[i].inc])
                    /\ s.th[t].nny = Total([i \in DOMAIN s.cs |-> IF s.cs[i].t = t THEN s.cs[i].ny ELSE 0])
                                     + IF t = Main THEN 1 ELSE 0
                    /\ s.th[t].ccalls < ErrCCalls
  BY DEF CStackExact
<1> DEFINE t == Running(s)
           n == Len(s.cs)
           base == IF t = Main THEN 1 ELSE 0
           inc == [i \in DOMAIN s.cs |-> s.cs[i].inc]
           ny == [i \in DOMAIN s.cs |-> IF s.cs[i].t = t THEN s.cs[i].ny ELSE 0]
           P == [i \in 0 .. n |-> IF i = 0 THEN 0 ELSE g[i].p]
           Q == [i \in 0 .. n |-> IF i = 0 THEN 0 ELSE IF s.cs[i].t = t THEN g[i].q - base ELSE 0]
<1>1. Runs(s, g, t)
  BY RunsIs
<1>2. /\ n \in Nat /\ n > 0 /\ s.cs[n].t = t /\ s \in State /\ n \in 1 .. n
      /\ s.th[t].ccalls = g[n].p /\ s.th[t].nny = g[n].q /\ g[n].p < ErrCCalls /\ g[n].q \in Nat
  BY <1>1 DEF Runs
<1>3. DOMAIN s.cs = 1 .. n
  BY <1>2, StateType
<1>4. \A i \in 1 .. n : /\ s.cs[i].inc \in {0, 1} /\ s.cs[i].ny \in {0, 1}
                        /\ g[i].p \in Nat /\ g[i].q \in Nat
                        /\ Counted(s.th, s.cs, g, i) /\ FirstOK(s.th, s.cs, g, i)
  BY InvFacts, ActivationType DEF Local
<1>5. \A j, k \in 1 .. n : s.cs[j].t = t /\ s.cs[k].t = t /\ j < k => \A m \in j .. k : s.cs[m].t = t
  BY Contiguous
<1>6. base \in {0, 1} /\ (t = Main => base = 1) /\ (t # Main => base = 0)
  OBVIOUS
<1> HIDE DEF base, n
<1>7. Len(inc) = n /\ Len(ny) = n
  BY <1>2, <1>3
<1>8. P = [i \in 0 .. n |-> IF i = 0 THEN 0 ELSE P[i - 1] + inc[i]]
  <2>1. ASSUME NEW i \in 0 .. n, i # 0
        PROVE  P[i] = P[i - 1] + inc[i]
    <3>1. i \in 1 .. n /\ i - 1 \in 0 .. n /\ (i # 1 => i - 1 # 0 /\ i - 1 \in 1 .. n) /\ (i = 1 => i - 1 = 0)
      BY <2>1, <1>2
    <3>2. g[i].p = s.cs[i].inc + IF i = 1 THEN 0 ELSE g[i - 1].p
      BY <3>1, <1>4 DEF Counted
    <3>3. P[i] = g[i].p /\ inc[i] = s.cs[i].inc
      BY <2>1, <3>1, <1>3
    <3>4. P[i - 1] = IF i = 1 THEN 0 ELSE g[i - 1].p
      BY <3>1
    <3>5. /\ s.cs[i].inc \in Nat /\ (i # 1 => g[i - 1].p \in Nat)
      BY <3>1, <1>4
    <3> HIDE DEF P, inc
    <3>6. QED
      BY <3>2, <3>3, <3>4, <3>5
  <2>2. 0 \in 0 .. n => P[0] = 0
    OBVIOUS
  <2>3. P = [i \in 0 .. n |-> P[i]]
    OBVIOUS
  <2> HIDE DEF P, inc
  <2>4. \A i \in 0 .. n : P[i] = IF i = 0 THEN 0 ELSE P[i - 1] + inc[i]
    BY <2>1, <2>2
  <2>5. QED
    BY <2>3, <2>4
<1>9. Q = [i \in 0 .. n |-> IF i = 0 THEN 0 ELSE Q[i - 1] + ny[i]]
  <2>1. ASSUME NEW i \in 0 .. n, i # 0
        PROVE  Q[i] = Q[i - 1] + ny[i]
    <3>1. i \in 1 .. n /\ i - 1 \in 0 .. n /\ (i # 1 => i - 1 # 0 /\ i - 1 \in 1 .. n) /\ (i = 1 => i - 1 = 0)
      BY <2>1, <1>2
    <3>2. g[i].q = s.cs[i].ny + IF i = 1 THEN 1 ELSE IF s.cs[i - 1].t # s.cs[i].t THEN 0 ELSE g[i - 1].q
      BY <3>1, <1>4 DEF Counted
    <3>3. Q[i] = (IF s.cs[i].t = t THEN g[i].q - base ELSE 0) /\ ny[i] = IF s.cs[i].t = t THEN s.cs[i].ny ELSE 0
      BY <2>1, <3>1, <1>3
    <3>4. Q[i - 1] = IF i = 1 THEN 0 ELSE IF s.cs[i - 1].t = t THEN g[i - 1].q - base ELSE 0
      BY <3>1
    <3>5. /\ s.cs[i].ny \in Nat /\ g[i].q \in Nat /\ (i # 1 => g[i - 1].q \in Nat) /\ base \in Nat
      BY <3>1, <1>4, <1>6
    <3>6. i # 1 /\ s.cs[i - 1].t = t => s.cs[i].t = t
      <4>1. i # 1 => i - 1 < n /\ i \in i - 1 .. n
        BY <3>1, <1>2
      <4>2. QED
        BY <4>1, <3>1, <1>2, <1>5
    <3>7. s.cs[1].t = Main
      <4>1. 1 \in 1 .. n
        BY <1>2
      <4>2. QED
        BY <4>1, <1>4 DEF FirstOK
    <3>8. i # 1 /\ s.cs[i].t = t /\ s.cs[i - 1].t # t => t # Main
      <4>1. i # 1 => 1 \in 1 .. n /\ 1 < i /\ i - 1 \in 1 .. i
        BY <3>1, <1>2
      <4>2. QED
        BY <4>1, <3>1, <3>7, <1>5
    <3> HIDE DEF Q, ny
    <3>9. CASE s.cs[i].t # t
      <4>1. ny[i] = 0 /\ Q[i] = 0
        BY <3>9, <3>3
      <4>2. Q[i - 1] = 0
        BY <3>9, <3>4, <3>6
      <4>3. QED
        BY <4>1, <4>2
    <3>10. CASE s.cs[i].t = t /\ i = 1
      <4>1. t = Main /\ base = 1
        BY <3>7, <3>10, <1>6
      <4>2. g[i].q = s.cs[i].ny + 1
        BY <3>2, <3>10
      <4>3. Q[i] = g[i].q - 1 /\ ny[i] = s.cs[i].ny /\ Q[i - 1] = 0
        BY <3>3, <3>4, <3>10, <4>1
      <4>4. QED
        BY <4>2, <4>3, <3>5
    <3>11. CASE s.cs[i].t = t /\ i # 1 /\ s.cs[i - 1].t = t
      <4>1. g[i].q = s.cs[i].ny + g[i - 1].q
        BY <3>2, <3>11
      <4>2. Q[i] = g[i].q - base /\ ny[i] = s.cs[i].ny /\ Q[i - 1] = g[i - 1].q - base
        BY <3>3, <3>4, <3>11
      <4>3. g[i - 1].q \in Nat
        BY <3>5, <3>11
      <4>4. QED
        BY <4>1, <4>2, <4>3, <3>5
    <3>12. CASE s.cs[i].t = t /\ i # 1 /\ s.cs[i - 1].t # t
      <4>1. base = 0
        BY <3>8, <3>12, <1>6
      <4>2. g[i].q = s.cs[i].ny + 0
        BY <3>2, <3>12
      <4>3. Q[i] = g[i].q - 0 /\ ny[i] = s.cs[i].ny /\ Q[i - 1] = 0
        BY <3>3, <3>4, <3>12, <4>1
      <4>4. QED
        BY <4>2, <4>3, <3>5
    <3>13. QED
      BY <3>9, <3>10, <3>11, <3>12
  <2>2. 0 \in 0 .. n => Q[0] = 0
    OBVIOUS
  <2>3. Q = [i \in 0 .. n |-> Q[i]]
    OBVIOUS
  <2> HIDE DEF Q, ny
  <2>4. \A i \in 0 .. n : Q[i] = IF i = 0 THEN 0 ELSE Q[i - 1] + ny[i]
    BY <2>1, <2>2
  <2>5. QED
    BY <2>3, <2>4
<1>10. P[n] = g[n].p /\ Q[n] = g[n].q - base
  <2>1. n \in 0 .. n /\ n # 0
    BY <1>2
  <2>2. QED
    BY <2>1, <1>2
<1> HIDE DEF P, Q, inc, ny
<1>11. Total(inc) = P[n] /\ Total(ny) = Q[n]
  BY <1>2, <1>7, <1>8, <1>9, TotalIs
<1>12. s.th[t].nny = Total(ny) + base
  BY <1>2, <1>6, <1>10, <1>11
<1>13. QED
  BY <1>2, <1>10, <1>11, <1>12 DEF inc, ny, base

(* nCcalls counts exactly the activations on the C stack, and those that   *)
(* cannot yield; the C stack stays bounded.                                *)
THEOREM CountsKept == Spec => []CStackExact
<1>1. IInv => CStackExact
  BY CountsExact DEF IInv
<1>2. QED
  BY <1>1, StackMirrored, PTL

-----------------------------------------------------------------------------
(* Different frames have different activations.                            *)
LEMMA NoMoreNeeds ==
  ASSUME NEW A, NEW B, NEW n \in Nat, B \subseteq 1 .. n, NEW b,
         \A i \in A : \E k \in B : b[k] + 1 = i
  PROVE  Cardinality(A) <= Cardinality(B)
<1> DEFINE f == [i \in A |-> CHOOSE k \in B : b[k] + 1 = i]
<1>1. \A i \in A : f[i] \in B /\ b[f[i]] + 1 = i
  OBVIOUS
<1>2. f \in [A -> B]
  BY <1>1
<1>3. \A i, j \in A : f[i] = f[j] => i = j
  BY <1>1
<1> HIDE DEF f
<1>4. f \in Injection(A, B)
  BY <1>2, <1>3 DEF Injection, IsInjective
<1>5. IsFiniteSet(1 .. n)
  BY FS_Interval
<1>6. IsFiniteSet(B)
  BY <1>5, FS_Subset
<1>7. QED
  BY <1>4, <1>6, FS_Injection

(* Where the thread that runs may yield, its last protection is that of    *)
(* its resume.                                                             *)
LEMMA YieldsToResume ==
  ASSUME NEW g, Inv(s, g), InIlya, NEW t, t = Running(s), s.th[t].nny = 0
  PROVE  s.cs[LastTry(s, t)].why = "resume"
<1> DEFINE n == Len(s.cs)
           i == LastTry(s, t)
<1>1. s.cs # <<>> /\ s.cs[n].at = "exec"
  BY InIlyaIs DEF InIlya
<1>2. Runs(s, g, t) /\ n > 1
  BY <1>1, ExecTop
<1>3. s.cs[n].t = t /\ g[n].q = 0 /\ n \in Nat /\ n \in 1 .. n
  BY <1>2 DEF Runs
<1>4. i \in 1 .. n /\ s.cs[i].at = "try" /\ s.cs[i].t = t
  BY <1>2, LastTryIs
<1>5. i \in 1 .. n - 1
  <2>1. i # n
    BY <1>1, <1>4
  <2> HIDE DEF i, n
  <2>2. QED
    BY <2>1, <1>3, <1>4
<1> HIDE DEF i
<1>6. s.cs[i].why = "resume"
  BY <1>1, <1>3, <1>4, <1>5, QuietTry
<1>7. QED
  BY <1>6 DEF i

(* The invariant gives every frame its activation or its mark.             *)
LEMMA AllFinishable ==
  ASSUME NEW g, Inv(s, g)
  PROVE  FramesFinishable
<1> SUFFICES ASSUME NEW t \in Thr, ~ErrorStatus(s.th[t].status)
             PROVE  LET inC(i)    == CI(s, t)[i].kind \notin {"ilya", "yield"}
                        needs     == {i \in DOMAIN CI(s, t) : inC(i) /\ ~CI(s, t)[i].ypcall}
                        active(a) == {i \in DOMAIN s.cs : s.cs[i].t = t /\ s.cs[i].at = a}
                    IN /\ Cardinality(needs) <= Cardinality(active("cfun"))
                       /\ s.th[t].status = "yield" => needs = {}
                       /\ InIlya /\ Running(s) = t /\ Yieldable(s, t) =>
                            needs = {} /\ s.cs[Max(active("try"))].why = "resume"
  BY DEF FramesFinishable
<1> DEFINE F == CI(s, t)
           needs == {i \in DOMAIN F : F[i].kind \notin {"ilya", "yield"} /\ ~F[i].ypcall}
           active(a) == {i \in DOMAIN s.cs : s.cs[i].t = t /\ s.cs[i].at = a}
           b == [k \in 1 .. Len(s.cs) |-> g[k].b]
<1>1. s \in State /\ Global(s.th, s.cs, g, t) /\ s.th[t] \in Thread /\ Len(s.cs) \in Nat
  BY InvFacts
<1>2. F = s.th[t].ci /\ F \in Seq(Frame) /\ DOMAIN F = 1 .. Len(F)
  BY <1>1, ThreadType DEF CI
<1>3. DOMAIN s.cs = 1 .. Len(s.cs)
  BY <1>1, StateType
<1>4. \A i \in needs : i \in 1 .. Len(F) /\ F[i].kind \in CKinds \ {"yield"} /\ ~F[i].ypcall
  <2>1. \A i \in 1 .. Len(F) : F[i].kind \in {"ilya"} \cup CKinds
    <3>1. \A i \in 1 .. Len(F) : F[i] \in Frame
      BY <1>2, SeqElem
    <3> HIDE DEF F
    <3>2. QED
      BY <3>1 DEF Frame
  <2>2. QED
    BY <2>1, <1>2
<1>5. \A i \in needs : \E k \in Of(s.cs, t) : s.cs[k].at = "cfun" /\ g[k].b + 1 = i
  <2>1. Backed(s.th, s.cs, g, t)
    BY <1>1 DEF Global
  <2> HIDE DEF needs
  <2>2. QED
    BY <2>1, <1>2, <1>4 DEF Backed
<1> HIDE DEF needs
<1>6. Cardinality(needs) <= Cardinality(active("cfun"))
  <2>1. active("cfun") \subseteq 1 .. Len(s.cs)
    BY <1>3
  <2>2. \A i \in needs : \E k \in active("cfun") : b[k] + 1 = i
    <3>1. ASSUME NEW i \in needs
          PROVE  \E k \in active("cfun") : b[k] + 1 = i
      <4>1. PICK k \in Of(s.cs, t) : s.cs[k].at = "cfun" /\ g[k].b + 1 = i
        BY <1>5
      <4>2. k \in 1 .. Len(s.cs) /\ s.cs[k].t = t
        BY DEF Of
      <4>3. k \in active("cfun") /\ b[k] = g[k].b
        BY <4>1, <4>2, <1>3
      <4> HIDE DEF b, active
      <4>4. QED
        BY <4>1, <4>3
    <3>2. QED
      BY <3>1
  <2> DEFINE B == active("cfun")
  <2> HIDE DEF b, active
  <2>3. B \subseteq 1 .. Len(s.cs) /\ \A i \in needs : \E k \in B : b[k] + 1 = i
    BY <2>1, <2>2
  <2> HIDE DEF B
  <2>4. Cardinality(needs) <= Cardinality(B)
    BY <2>3, <1>1, NoMoreNeeds
  <2>5. QED
    BY <2>4 DEF B
<1>7. s.th[t].status = "yield" => needs = {}
  <2>1. s.th[t].status = "yield" => Of(s.cs, t) = {}
    BY <1>1 DEF Global, StatusOK
  <2>2. QED
    BY <2>1, <1>5
<1>8. ASSUME InIlya, Running(s) = t, Yieldable(s, t)
      PROVE  needs = {} /\ s.cs[Max(active("try"))].why = "resume"
  <2>1. s.cs # <<>> /\ s.cs[Len(s.cs)].at = "exec" /\ s.th[t].nny = 0
    BY <1>8, InIlyaIs DEF InIlya, Yieldable
  <2>2. g[Len(s.cs)].q = 0
    BY <2>1, <1>8, RunsIs DEF Runs
  <2>3. \A i \in 1 .. Len(F) : F[i].kind \in CKinds => F[i].ypcall
    BY <2>1, <2>2, <1>2, <1>8, QuietFrames
  <2>4. needs = {}
    BY <2>3, <1>4
  <2>5. s.cs[LastTry(s, t)].why = "resume"
    BY <2>1, <1>8, YieldsToResume
  <2>6. active("try") = {k \in DOMAIN s.cs : s.cs[k].at = "try" /\ s.cs[k].t = t}
    OBVIOUS
  <2> HIDE DEF active
  <2>7. QED
    BY <2>4, <2>5, <2>6 DEF LastTry
<1>9. QED
  BY <1>6, <1>7, <1>8 DEF needs

(* Every frame of a C function of a live thread has its activation, or     *)
(* unroll can finish it without one.                                       *)
THEOREM FramesKept == Spec => []FramesFinishable
<1>1. IInv => FramesFinishable
  BY AllFinishable DEF IInv
<1>2. QED
  BY <1>1, StackMirrored, PTL

-----------------------------------------------------------------------------
(* The ghost of a state is the only one that the invariant allows.         *)

(* The frames below those that an activation serves, by its kind, when e   *)
(* is the last that it serves.                                             *)
BelowIs(th, cs, k, e) ==
  LET F == Fr(th, cs, k) IN
  CASE cs[k].at = "cfun" -> e - 1
    [] cs[k].at = "unroll" \/ (cs[k].at = "exec" /\ cs[k - 1].at = "unroll") -> 0
    [] cs[k].at = "exec" /\ cs[k - 1].at # "unroll" ->
         Max({0} \cup {i \in 1 .. e : F[i].fresh}) - 1
    [] OTHER -> e

(* The frames below are what the kind of the activation says.              *)
LEMMA BelowEnd ==
  ASSUME NEW g, Inv(s, g), NEW k \in 1 .. Len(s.cs)
  PROVE  g[k].b = BelowIs(s.th, s.cs, k, End(s.th, s.cs, g, k))
<1> DEFINE F == Fr(s.th, s.cs, k)
           e == End(s.th, s.cs, g, k)
           b == g[k].b
           a == s.cs[k]
           c == s.cs[k - 1]
<1>1. /\ Serves(s.th, s.cs, g, k) /\ b \in Nat /\ a \in Activation
      /\ k \in Nat
  BY InvFacts DEF Local
<1>2. a.at \in {"exec", "errormsg", "handling", "cfun", "try", "close", "unroll"}
  BY <1>1, ActivationType
<1>3. a.at = "cfun" => e = b + 1
  BY <1>1 DEF Serves, CFunOK
<1>4. a.at = "unroll" => b = 0
  BY <1>1 DEF Serves, UnrollOK
<1>5. a.at = "try" => b = e
  BY <1>1 DEF Serves, TryOK
<1>6. a.at = "close" => b = e
  BY <1>1 DEF Serves, CloseOK
<1>7. a.at \in Msgs => b = e
  BY <1>1 DEF Serves, MsgOK
<1>8. a.at = "exec" /\ c.at = "unroll" => b = 0
  BY <1>1 DEF Serves, ExecOK
<1>9. a.at = "exec" /\ c.at # "unroll" =>
        b < e /\ F[b + 1].fresh /\ \A i \in b + 2 .. e : ~F[i].fresh
  BY <1>1 DEF Serves, ExecOK
<1>10. e \in Nat
  <2>1. Len(F) \in Nat
    <3>1. s.cs[k].t \in Thr /\ s \in State
      BY InvFacts
    <3>2. QED
      BY <3>1, StateType, ThreadType DEF Fr
  <2>2. Same(s.cs, k) => g[k + 1].b \in Nat
    <3>1. Len(s.cs) \in Nat
      BY InvFacts
    <3>2. Same(s.cs, k) => k + 1 \in 1 .. Len(s.cs)
      BY <3>1 DEF Same
    <3>3. QED
      BY <3>2, InvFacts
  <2>3. QED
    BY <2>1, <2>2 DEF End
<1> HIDE DEF F, e, b, a, c
<1>11. ASSUME a.at = "exec", c.at # "unroll"
       PROVE  b = Max({0} \cup {i \in 1 .. e : F[i].fresh}) - 1
  <2> DEFINE T == {0} \cup {i \in 1 .. e : F[i].fresh}
  <2>1. T \subseteq 0 .. e /\ b + 1 \in T
    BY <1>1, <1>9, <1>10, <1>11
  <2>2. ASSUME NEW x \in T
        PROVE  x <= b + 1
    <3>1. x \in 0 .. e /\ (x > b + 1 => x \in b + 2 .. e)
      BY <1>1, <1>10
    <3>2. x > b + 1 => ~F[x].fresh
      BY <3>1, <1>9, <1>11
    <3>3. x = 0 \/ F[x].fresh
      OBVIOUS
    <3>4. QED
      BY <3>1, <3>2, <3>3, <1>1
  <2> HIDE DEF T
  <2>3. Max(T) = b + 1
    BY <2>1, <2>2, <1>10, MaxIs
  <2>4. QED
    BY <2>3, <1>1 DEF T
<1>12. CASE a.at = "cfun"
  <2>1. BelowIs(s.th, s.cs, k, e) = e - 1
    BY <1>12 DEF BelowIs, a
  <2>2. QED
    BY <2>1, <1>1, <1>3, <1>12 DEF b, e
<1>13. CASE a.at = "unroll" \/ (a.at = "exec" /\ c.at = "unroll")
  <2>1. BelowIs(s.th, s.cs, k, e) = 0
    BY <1>13 DEF BelowIs, a, c
  <2>2. QED
    BY <2>1, <1>4, <1>8, <1>13 DEF b, e
<1>14. CASE a.at = "exec" /\ c.at # "unroll"
  <2>1. BelowIs(s.th, s.cs, k, e) = Max({0} \cup {i \in 1 .. e : F[i].fresh}) - 1
    BY <1>14 DEF BelowIs, a, c, F
  <2>2. QED
    BY <2>1, <1>11, <1>14 DEF b, e
<1>15. CASE a.at \in {"try", "close"} \cup Msgs
  <2>1. BelowIs(s.th, s.cs, k, e) = e
    BY <1>15 DEF BelowIs, a, Msgs
  <2>2. QED
    BY <2>1, <1>5, <1>6, <1>7, <1>15 DEF b, e
<1>16. QED
  BY <1>2, <1>12, <1>13, <1>14, <1>15 DEF Msgs

(* So the ghost is computed from the state.                                *)
LEMMA GhostIs ==
  ASSUME NEW g, Inv(s, g)
  PROVE  GhostOf(s.th, s.cs) = g
<1> DEFINE n == Len(s.cs)
           cs == s.cs
           th == s.th
           SumsP(f) == f = [k \in 0 .. n |-> IF k = 0 THEN 0 ELSE f[k - 1] + cs[k].inc]
           SumsQ(f) == f = [k \in 0 .. n |->
                              IF k = 0 THEN 0
                              ELSE cs[k].ny + IF k = 1 THEN 1 ELSE IF cs[k - 1].t # cs[k].t THEN 0 ELSE f[k - 1]]
           Bs(f) == f = [k \in 1 .. n |-> BelowIs(th, cs, k, IF Same(cs, k) THEN f[k + 1] ELSE Len(Fr(th, cs, k)))]
           p == CHOOSE f : SumsP(f)
           q == CHOOSE f : SumsQ(f)
           b == CHOOSE f : Bs(f)
<1>1. GhostOf(th, cs) = [k \in 1 .. n |-> [p |-> p[k], q |-> q[k], b |-> b[k]]]
  BY DEF GhostOf, BelowIs
<1>2. /\ n \in Nat /\ g \in Seq(Ghost) /\ Len(g) = n /\ DOMAIN g = 1 .. n
      /\ \A k \in 1 .. n : /\ g[k] \in Ghost /\ g[k].p \in Nat /\ g[k].q \in Nat /\ g[k].b \in Nat
                           /\ Counted(th, cs, g, k) /\ cs[k].inc \in Nat /\ cs[k].ny \in Nat
  <2>1. g \in Seq(Ghost) /\ Len(g) = n /\ n \in Nat
    BY InvFacts
  <2>2. DOMAIN g = 1 .. n
    BY <2>1
  <2>3. \A k \in 1 .. n : g[k] \in Ghost /\ g[k].p \in Nat /\ g[k].q \in Nat /\ g[k].b \in Nat
    BY InvFacts
  <2>4. \A k \in 1 .. n : Counted(th, cs, g, k)
    BY InvFacts DEF Local
  <2>5. \A k \in 1 .. n : cs[k].inc \in Nat /\ cs[k].ny \in Nat
    BY InvFacts, ActivationType
  <2>6. QED
    BY <2>1, <2>2, <2>3, <2>4, <2>5
<1>3. \A k \in 1 .. n : g[k].b = BelowIs(th, cs, k, IF Same(cs, k) THEN g[k + 1].b ELSE Len(Fr(th, cs, k)))
  BY BelowEnd DEF End
<1> HIDE DEF n, cs, th
<1>4. \A k \in 0 .. n : k # 0 => k \in 1 .. n /\ k - 1 \in 0 .. n /\ k - 1 < k /\ (k = 1 <=> k - 1 = 0)
                                 /\ (k # 1 => k - 1 \in 1 .. n)
  BY <1>2
<1>5. \A k \in 1 .. n : p[k] = g[k].p
  <2> DEFINE P == [k \in 0 .. n |-> IF k = 0 THEN 0 ELSE g[k].p]
  <2>1. ASSUME NEW k \in 0 .. n
        PROVE  P[k] = IF k = 0 THEN 0 ELSE P[k - 1] + cs[k].inc
    <3>1. CASE k = 0
      BY <3>1
    <3>2. CASE k # 0
      <4>1. g[k].p = cs[k].inc + IF k = 1 THEN 0 ELSE g[k - 1].p
        BY <3>2, <1>2, <1>4 DEF Counted
      <4>2. P[k] = g[k].p /\ P[k - 1] = IF k = 1 THEN 0 ELSE g[k - 1].p
        BY <3>2, <1>4
      <4>3. cs[k].inc \in Nat /\ (k # 1 => g[k - 1].p \in Nat)
        BY <3>2, <1>2, <1>4
      <4> HIDE DEF P
      <4>4. QED
        BY <3>2, <4>1, <4>2, <4>3
    <3>3. QED
      BY <3>1, <3>2
  <2>2. P = [k \in 0 .. n |-> P[k]] /\ \A k \in 1 .. n : k \in 0 .. n /\ P[k] = g[k].p
    OBVIOUS
  <2> HIDE DEF P
  <2>3. SumsP(P)
    BY <2>1, <2>2
  <2> HIDE DEF SumsP
  <2>4. SumsP(p)
    BY <2>3
  <2> USE DEF SumsP
  <2>5. \A k \in 0 .. n : p[k] = IF k = 0 THEN 0 ELSE p[k - 1] + cs[k].inc
    BY <2>4
  <2> HIDE DEF SumsP, p
  <2> DEFINE D == {k \in 0 .. n : p[k] # P[k]}
  <2>6. D = {}
    <3> SUFFICES ASSUME D # {} PROVE FALSE
      OBVIOUS
    <3>1. D \in SUBSET Nat
      OBVIOUS
    <3> HIDE DEF D
    <3>2. PICK m \in D : \A x \in D : m <= x
      BY <3>1, LeastNat
    <3>3. m \in 0 .. n /\ p[m] # P[m] /\ m \in Nat
      BY <3>2 DEF D
    <3>4. m # 0 /\ m - 1 \in 0 .. n /\ m - 1 < m
      BY <3>3, <2>1, <2>5, <1>4
    <3>5. m - 1 \notin D
      BY <3>2, <3>3, <3>4
    <3>6. p[m - 1] = P[m - 1]
      BY <3>4, <3>5 DEF D
    <3>7. QED
      BY <3>3, <3>4, <3>6, <2>1, <2>5
  <2>7. QED
    BY <2>2, <2>6
<1>6. \A k \in 1 .. n : q[k] = g[k].q
  <2> DEFINE Q == [k \in 0 .. n |-> IF k = 0 THEN 0 ELSE g[k].q]
  <2>1. ASSUME NEW k \in 0 .. n
        PROVE  Q[k] = IF k = 0 THEN 0
                      ELSE cs[k].ny + IF k = 1 THEN 1 ELSE IF cs[k - 1].t # cs[k].t THEN 0 ELSE Q[k - 1]
    <3>1. CASE k = 0
      BY <3>1
    <3>2. CASE k # 0
      <4>1. g[k].q = cs[k].ny + IF k = 1 THEN 1 ELSE IF cs[k - 1].t # cs[k].t THEN 0 ELSE g[k - 1].q
        BY <3>2, <1>2, <1>4 DEF Counted
      <4>2. Q[k] = g[k].q /\ (k # 1 => Q[k - 1] = g[k - 1].q)
        BY <3>2, <1>4
      <4> HIDE DEF Q
      <4>3. QED
        BY <3>2, <4>1, <4>2
    <3>3. QED
      BY <3>1, <3>2
  <2>2. Q = [k \in 0 .. n |-> Q[k]] /\ \A k \in 1 .. n : k \in 0 .. n /\ Q[k] = g[k].q
    OBVIOUS
  <2> HIDE DEF Q
  <2>3. SumsQ(Q)
    BY <2>1, <2>2
  <2> HIDE DEF SumsQ
  <2>4. SumsQ(q)
    BY <2>3
  <2> USE DEF SumsQ
  <2>5. \A k \in 0 .. n : q[k] = IF k = 0 THEN 0
          ELSE cs[k].ny + IF k = 1 THEN 1 ELSE IF cs[k - 1].t # cs[k].t THEN 0 ELSE q[k - 1]
    BY <2>4
  <2> HIDE DEF SumsQ, q
  <2> DEFINE D == {k \in 0 .. n : q[k] # Q[k]}
  <2>6. D = {}
    <3> SUFFICES ASSUME D # {} PROVE FALSE
      OBVIOUS
    <3>1. D \in SUBSET Nat
      OBVIOUS
    <3> HIDE DEF D
    <3>2. PICK m \in D : \A x \in D : m <= x
      BY <3>1, LeastNat
    <3>3. m \in 0 .. n /\ q[m] # Q[m] /\ m \in Nat
      BY <3>2 DEF D
    <3>4. m # 0 /\ m - 1 \in 0 .. n /\ m - 1 < m
      BY <3>3, <2>1, <2>5, <1>4
    <3>5. m - 1 \notin D
      BY <3>2, <3>3, <3>4
    <3>6. q[m - 1] = Q[m - 1]
      BY <3>4, <3>5 DEF D
    <3>7. QED
      BY <3>3, <3>4, <3>6, <2>1, <2>5
  <2>7. QED
    BY <2>2, <2>6
<1>7. \A k \in 1 .. n : b[k] = g[k].b
  <2> DEFINE B == [k \in 1 .. n |-> g[k].b]
  <2>1. Len(s.cs) = n
    BY DEF n
  <2>2. ASSUME NEW k \in 1 .. n
        PROVE  B[k] = BelowIs(th, cs, k, IF Same(cs, k) THEN B[k + 1] ELSE Len(Fr(th, cs, k)))
    <3>1. Same(cs, k) => k + 1 \in 1 .. n
      BY <2>1, <1>2 DEF Same, cs
    <3>2. B[k] = g[k].b /\ (Same(cs, k) => B[k + 1] = g[k + 1].b)
      BY <3>1
    <3> HIDE DEF B
    <3>3. (IF Same(cs, k) THEN B[k + 1] ELSE Len(Fr(th, cs, k)))
            = (IF Same(cs, k) THEN g[k + 1].b ELSE Len(Fr(th, cs, k)))
      BY <3>2
    <3>4. QED
      BY <3>2, <3>3, <1>3
  <2>3. B = [k \in 1 .. n |-> B[k]] /\ \A k \in 1 .. n : B[k] = g[k].b
    OBVIOUS
  <2> HIDE DEF B
  <2>4. Bs(B)
    BY <2>2, <2>3
  <2> HIDE DEF Bs
  <2>5. Bs(b)
    BY <2>4
  <2> USE DEF Bs
  <2>6. \A k \in 1 .. n :
          b[k] = BelowIs(th, cs, k, IF Same(cs, k) THEN b[k + 1] ELSE Len(Fr(th, cs, k)))
    BY <2>5
  <2> HIDE DEF Bs, b
  <2> DEFINE D == {k \in 1 .. n : b[k] # B[k]}
  <2>7. D = {}
    <3> SUFFICES ASSUME D # {} PROVE FALSE
      OBVIOUS
    <3>1. D \in SUBSET (0 .. n)
      BY <1>2
    <3> DEFINE m == Max(D)
    <3>2. m \in D /\ \A x \in D : m >= x
      <4> HIDE DEF D
      <4>1. QED
        BY <3>1, <1>2, MaxIn
    <3>3. m \in 1 .. n /\ b[m] # B[m]
      BY <3>2
    <3> HIDE DEF m
    <3>4. Same(cs, m) => m + 1 \in 1 .. n /\ ~(m >= m + 1)
      BY <3>3, <2>1, <1>2 DEF Same, cs
    <3>5. Same(cs, m) => b[m + 1] = B[m + 1]
      BY <3>2, <3>4
    <3> HIDE DEF D
    <3>6. (IF Same(cs, m) THEN b[m + 1] ELSE Len(Fr(th, cs, m)))
            = (IF Same(cs, m) THEN B[m + 1] ELSE Len(Fr(th, cs, m)))
      BY <3>5
    <3>7. b[m] = B[m]
      BY <3>3, <3>6, <2>2, <2>6
    <3>8. QED
      BY <3>3, <3>7
  <2>8. QED
    BY <2>3, <2>7
<1> HIDE DEF p, q, b
<1>8. \A k \in 1 .. n : g[k] = [p |-> g[k].p, q |-> g[k].q, b |-> g[k].b]
  BY <1>2 DEF Ghost
<1>9. g = [k \in 1 .. n |-> g[k]]
  BY <1>2
<1>10. QED
  BY <1>1, <1>5, <1>6, <1>7, <1>8, <1>9 DEF th, cs

(* The same invariant, with the ghost that the state determines.           *)
THEOREM MirrorKept == Spec => []StackMirrorsFrames
<1>1. IInv => StackMirrorsFrames
  BY GhostIs DEF IInv, StackMirrorsFrames
<1>2. QED
  BY <1>1, StackMirrored, PTL

=============================================================================
