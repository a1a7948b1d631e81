---------------------------- MODULE Coro_returns ----------------------------
(***************************************************************************)
(* Returns keep the inductive invariant of Coro: of Ilya functions, of     *)
(* ilyaF_close, unroll, ilyaG_errormsg, ilyaD_rawrunprotected, and of C    *)
(* functions.                                                              *)
(***************************************************************************)
EXTENDS Coro_calls

(* The activation on top returns to the one below, of the same thread t,   *)
(* and leaves the frames that it served.                                   *)
Returns(u, u2, g, t) ==
  LET n == Len(u.cs)
      m == n - 1
      F == u.th[t].ci
      F2 == u2.th[t].ci
      T == u2.th[t].tbc
      b == g[n].b
      c == u2.cs[m]
  IN /\ u.cs # <<>> /\ t = Running(u) /\ n > 1 /\ u.cs[m].t = t /\ u.cs[n].at \notin Msgs
     /\ u2 \in State /\ ~u2.wrong /\ Cut(u.cs, u2.cs, m)
     /\ \A x \in Thr : x # t => u2.th[x] = u.th[x]
     /\ u2.th[t].ccalls = g[m].p /\ u2.th[t].nny = g[m].q
     /\ u2.th[t].status = u.th[t].status /\ u2.th[t].fn = u.th[t].fn
     /\ Len(F2) = b /\ \A i \in 1 .. b : F2[i] = F[i]
     /\ c.at = "cfun" =>
          /\ F[b].ypcall => c.ok
          /\ Protects(F[b]) => (c.ok <=> ~F[b].hit)
          /\ F[b].hit => \A j \in 1 .. Len(T) : T[j].slot <= F[b].base
     /\ c.at = "try" /\ c.why = "closep" => \A j \in 1 .. Len(T) : T[j].slot < c.slot

(* Where the activation on top returns to.                                 *)
LEMMA ReturnFacts ==
  ASSUME NEW u, NEW g, Inv(u, g), NEW t, NEW u2, Returns(u, u2, g, t)
  PROVE  LET n == Len(u.cs)
             m == n - 1
             F == u.th[t].ci
         IN /\ Runs(u, g, t) /\ n \in Nat /\ n > 1 /\ m \in 1 .. n /\ m \in Nat /\ m > 0 /\ m < n /\ m + 1 = n
            /\ g[n].b \in Nat /\ g[n].b \in 0 .. Len(F)
            /\ g[m].b \in Nat /\ g[m].q \in Nat /\ g[m].p \in Nat /\ g[m].b <= g[n].b
            /\ Local(u.th, u.cs, g, m) /\ Same(u.cs, m) /\ End(u.th, u.cs, g, m) = g[n].b
            /\ Fr(u.th, u.cs, m) = F /\ u.cs[m].t = t
            /\ u.cs[n].t = t
<1> DEFINE n == Len(u.cs)
           m == n - 1
           F == u.th[t].ci
<1>1. u.cs # <<>> /\ t = Running(u) /\ n > 1 /\ u.cs[m].t = t
  BY DEF Returns
<1>2. Runs(u, g, t)
  BY <1>1, RunsIs
<1>3. n \in Nat /\ g[n].b \in Nat /\ g[n].b <= Len(F) /\ Len(F) \in Nat /\ u.cs[n].t = t
  BY <1>2 DEF Runs
<1>4. m \in 1 .. n /\ m \in Nat /\ m > 0 /\ m < n /\ m + 1 = n /\ n \in 1 .. n
  BY <1>1, <1>3
<1>5. g[n].b \in 0 .. Len(F)
  <2> HIDE DEF n, F
  <2>1. QED
    BY <1>3
<1> HIDE DEF m
<1>6. g[m].b \in Nat /\ g[m].q \in Nat /\ g[m].p \in Nat /\ Local(u.th, u.cs, g, m)
  BY <1>4, InvFacts
<1>7. g[m].b <= g[n].b
  BY <1>1, <1>3, <1>4, Contiguous
<1>8. Same(u.cs, m) /\ End(u.th, u.cs, g, m) = g[n].b /\ Fr(u.th, u.cs, m) = F
  BY <1>1, <1>3, <1>4 DEF Same, End, Fr
<1>9. QED
  BY <1>1, <1>2, <1>3, <1>4, <1>5, <1>6, <1>7, <1>8 DEF m

(* The activation below still serves its frames.                           *)
LEMMA ReturnServes ==
  ASSUME NEW u, NEW g, Inv(u, g), NEW t, NEW u2, Returns(u, u2, g, t)
  PROVE  Serves(u2.th, u2.cs, g, Len(u.cs) - 1)
<1> DEFINE n == Len(u.cs)
           m == n - 1
           F == u.th[t].ci
           F2 == u2.th[t].ci
           T == u2.th[t].tbc
           b == g[n].b
           c == u.cs[m]
           c2 == u2.cs[m]
<1>1. /\ n \in Nat /\ n > 1 /\ m \in Nat /\ m > 0 /\ m + 1 = n
      /\ b \in Nat /\ g[m].b \in Nat /\ g[m].b <= b
      /\ Local(u.th, u.cs, g, m) /\ Same(u.cs, m) /\ End(u.th, u.cs, g, m) = b
      /\ Fr(u.th, u.cs, m) = F /\ c.t = t
  BY ReturnFacts
<1>2. /\ u.cs[n].at \notin Msgs /\ Len(u2.cs) = m /\ \A k \in 1 .. m - 1 : u2.cs[k] = u.cs[k]
      /\ c2.t = c.t /\ c2.at = c.at /\ (c.at # "cfun" => c2 = c)
      /\ Len(F2) = b /\ \A i \in 1 .. b : F2[i] = F[i]
      /\ c2.at = "cfun" =>
          /\ F[b].ypcall => c2.ok
          /\ Protects(F[b]) => (c2.ok <=> ~F[b].hit)
          /\ F[b].hit => \A j \in 1 .. Len(T) : T[j].slot <= F[b].base
      /\ c2.at = "try" /\ c2.why = "closep" => \A j \in 1 .. Len(T) : T[j].slot < c2.slot
  BY <1>1 DEF Returns, Cut
<1> HIDE DEF n, m, F, F2, T, b, c, c2
<1>3. m > 1 => u2.cs[m - 1] = u.cs[m - 1]
  BY <1>1, <1>2
<1>4. ~Same(u2.cs, m) /\ Fr(u2.th, u2.cs, m) = F2 /\ End(u2.th, u2.cs, g, m) = b /\ u2.cs[m] = c2
  BY <1>1, <1>2 DEF Same, Fr, End, F2, c2
<1>5. /\ ExecOK(u.th, u.cs, g, m) /\ CFunOK(u.th, u.cs, g, m) /\ TryOK(u.th, u.cs, g, m)
      /\ CloseOK(u.th, u.cs, g, m) /\ MsgOK(u.th, u.cs, g, m) /\ UnrollOK(u.th, u.cs, g, m)
  BY <1>1 DEF Local, Serves
<1>6. g[m].b > 0 => F2[g[m].b] = F[g[m].b]
  BY <1>1, <1>2
<1>7. \A x : Called(F, g[m].b, x, c) => Called(F2, g[m].b, x, c)
  BY <1>6 DEF Called
<1>8. u.cs[m] = c /\ u.cs[m + 1] = u.cs[n]
  BY <1>1 DEF c
<1>9. ExecOK(u2.th, u2.cs, g, m)
  <2>1. SUFFICES ASSUME c.at = "exec" PROVE ExecOK(u2.th, u2.cs, g, m)
    BY <1>2, <1>4 DEF ExecOK
  <2>2. c2 = c
    BY <2>1, <1>2
  <2>3. /\ m > 1 /\ g[m].b < b
        /\ IF u.cs[m - 1].at = "unroll" THEN g[m].b = 0 /\ c.inc = 0 /\ c.ny = 0
           ELSE /\ Called(F, g[m].b, u.cs[m - 1], c)
                /\ F[g[m].b + 1].fresh /\ \A i \in g[m].b + 2 .. b : ~F[i].fresh
        /\ F[b].kind = "ilya"
    BY <2>1, <1>1, <1>2, <1>5, <1>8 DEF ExecOK
  <2>4. /\ F2[b] = F[b] /\ F2[g[m].b + 1] = F[g[m].b + 1]
        /\ \A i \in g[m].b + 2 .. b : F2[i] = F[i]
    <3>1. b \in 1 .. b /\ g[m].b + 1 \in 1 .. b /\ \A i \in g[m].b + 2 .. b : i \in 1 .. b
      BY <2>3, <1>1
    <3>2. QED
      BY <3>1, <1>2
  <2>5. QED
    BY <2>2, <2>3, <2>4, <1>3, <1>4, <1>7 DEF ExecOK
<1>10. CFunOK(u2.th, u2.cs, g, m)
  <2>1. SUFFICES ASSUME c.at = "cfun" PROVE CFunOK(u2.th, u2.cs, g, m)
    BY <1>2, <1>4 DEF CFunOK
  <2>2. /\ b = g[m].b + 1 /\ F[b].kind \in CKinds \ {"yield"}
        /\ m > 1 => u.cs[m - 1].at = "exec"
        /\ F[b].ypcall => ~F[b].hit
    BY <2>1, <1>1, <1>5, <1>8 DEF CFunOK
  <2>3. F2[b] = F[b]
    <3>1. b \in 1 .. b
      BY <2>2, <1>1
    <3>2. QED
      BY <3>1, <1>2
  <2>4. c2.at = "cfun" /\ c2.t = t
    BY <2>1, <1>1, <1>2
  <2>5. /\ F2[b].ypcall => ~F2[b].hit /\ c2.ok
        /\ Protects(F2[b]) => (c2.ok <=> ~F2[b].hit)
        /\ F2[b].hit => \A j \in 1 .. Len(T) : T[j].slot <= F2[b].base
    BY <2>2, <2>3, <2>4, <1>2
  <2>6. m = Len(u2.cs) /\ (m > 1 => u2.cs[m - 1].at = "exec") /\ T = u2.th[c2.t].tbc
    BY <2>2, <2>4, <1>2, <1>3 DEF T
  <2>7. b = g[m].b + 1 /\ F2[b].kind \in CKinds \ {"yield"}
    BY <2>2, <2>3
  <2>8. QED
    BY <2>4, <2>5, <2>6, <2>7, <1>4 DEF CFunOK
<1>11. TryOK(u2.th, u2.cs, g, m)
  <2>1. SUFFICES ASSUME c.at = "try" PROVE TryOK(u2.th, u2.cs, g, m)
    BY <1>2, <1>4 DEF TryOK
  <2>2. c2 = c
    BY <2>1, <1>2
  <2>3. /\ m > 1 /\ g[m].b = c.level /\ b = c.level
        /\ u.cs[m - 1].at = "cfun"
        /\ c.inc = (IF c.why = "resume" THEN 1 ELSE 0)
        /\ c.why = "resume" => u.cs[m - 1].t # c.t
        /\ u.cs[m - 1].t = c.t <=> c.level > 0
        /\ c.level > 0 => Protects(F[c.level]) /\ ~F[c.level].ypcall
        /\ c.why # "resume" => c.slot = IF c.level = 0 THEN 1 ELSE F[c.level].base + 1
        /\ c.why = "pcall" => c.level > 0 /\ ~F[c.level].hit /\ u.cs[m - 1].ok
        /\ c.why = "closep" => (c.level > 0 => F[c.level].hit /\ ErrorStatus(c.status))
    BY <2>1, <1>1, <1>5, <1>8 DEF TryOK
  <2>4. c.level > 0 => F2[c.level] = F[c.level]
    BY <2>3, <1>1, <1>2
  <2>5. u2.cs[m - 1] = u.cs[m - 1]
    BY <2>3, <1>3
  <2>6. c.why = "closep" => \A j \in 1 .. Len(T) : T[j].slot < c.slot
    BY <2>1, <2>2, <1>2
  <2>7. T = u2.th[c.t].tbc
    BY <1>1 DEF T
  <2>8. c.level \in Nat /\ (c.level = 0 \/ c.level > 0)
    BY <2>3, <1>1
  <2>9. c.level > 0 => /\ Protects(F2[c.level]) /\ ~F2[c.level].ypcall
                       /\ c.why # "resume" => c.slot = F2[c.level].base + 1
                       /\ c.why = "pcall" => ~F2[c.level].hit
                       /\ c.why = "closep" => F2[c.level].hit
    BY <2>3, <2>4, <2>8
  <2>10. c.level = 0 => (c.why # "resume" => c.slot = 1)
    BY <2>3
  <2>11. QED
    BY <2>1, <2>2, <2>3, <2>5, <2>6, <2>7, <2>8, <2>9, <2>10, <1>4 DEF TryOK
<1>12. CloseOK(u2.th, u2.cs, g, m)
  BY <1>1, <1>2, <1>3, <1>4, <1>5, <1>6, <1>8 DEF CloseOK
<1>13. MsgOK(u2.th, u2.cs, g, m)
  <2>1. SUFFICES ASSUME c.at \in Msgs PROVE MsgOK(u2.th, u2.cs, g, m)
    BY <1>2, <1>4 DEF MsgOK
  <2>2. c2 = c
    BY <2>1, <1>2 DEF Msgs
  <2>3. /\ m > 1 /\ b = g[m].b
        /\ \/ Called(F, b, u.cs[m - 1], c)
           \/ /\ u.cs[m - 1].at = "exec" \/ (u.cs[m - 1].at = "cfun" /\ b > 0 /\ F[b].kind \in {"wrap", "close"})
              /\ c.inc = 0 /\ c.ny = 0
    BY <2>1, <1>1, <1>5, <1>8 DEF MsgOK
  <2>4. m = Len(u2.cs)
    BY <1>2
  <2>5. b > 0 => F2[b] = F[b]
    BY <2>3, <1>6
  <2>6. \/ Called(F2, b, u.cs[m - 1], c)
        \/ /\ u.cs[m - 1].at = "exec" \/ (u.cs[m - 1].at = "cfun" /\ b > 0 /\ F2[b].kind \in {"wrap", "close"})
           /\ c.inc = 0 /\ c.ny = 0
    BY <2>3, <2>5, <1>7
  <2>7. QED
    BY <2>2, <2>3, <2>4, <2>6, <1>3, <1>4 DEF MsgOK
<1>14. UnrollOK(u2.th, u2.cs, g, m)
  BY <1>2, <1>3, <1>4, <1>5, <1>8 DEF UnrollOK
<1>15. QED
  BY <1>9, <1>10, <1>11, <1>12, <1>13, <1>14 DEF Serves, m, n

(* So the return keeps the invariant.                                      *)
LEMMA ReturnOK ==
  ASSUME NEW u, NEW g, Inv(u, g), NEW t, NEW u2, Returns(u, u2, g, t), Owned(u2.th, u2.cs, t)
  PROVE  \E g2 : Inv(u2, g2)
<1> DEFINE n == Len(u.cs)
           m == n - 1
           F == u.th[t].ci
           F2 == u2.th[t].ci
           b == g[n].b
<1>1. /\ Runs(u, g, t) /\ n \in Nat /\ n > 1 /\ m \in 1 .. n /\ m \in Nat /\ m > 0 /\ m < n /\ m + 1 = n
      /\ b \in Nat /\ b \in 0 .. Len(F) /\ g[m].b \in Nat /\ g[m].b <= b
      /\ Local(u.th, u.cs, g, m) /\ Same(u.cs, m) /\ End(u.th, u.cs, g, m) = b
      /\ Fr(u.th, u.cs, m) = F /\ u.cs[m].t = t
  BY ReturnFacts
<1>2. /\ u.cs # <<>> /\ t = Running(u) /\ u.cs[n].at \notin Msgs
      /\ u2 \in State /\ ~u2.wrong /\ Cut(u.cs, u2.cs, m)
      /\ \A x \in Thr : x # t => u2.th[x] = u.th[x]
      /\ u2.th[t].ccalls = g[m].p /\ u2.th[t].nny = g[m].q
      /\ u2.th[t].status = u.th[t].status /\ u2.th[t].fn = u.th[t].fn
      /\ Len(F2) = b /\ \A i \in 1 .. b : F2[i] = F[i]
  BY DEF Returns
<1>3. /\ F \in Seq(Frame) /\ Len(F) \in Nat /\ u.th[t].status = "ok"
      /\ FramesOK(F) /\ Backed(u.th, u.cs, g, t) /\ Ordered(u.th, u.cs, t)
  BY <1>1 DEF Runs, Global
<1> HIDE DEF n, m, F, F2, b
<1>4. Lower(F, F2, b)
  <2>1. b > 0 => F2[b] = F[b] /\ b \in 1 .. Len(F) /\ \A i \in 1 .. b - 1 : i \in 1 .. Len(F) /\ i < b
    BY <1>1, <1>2, <1>3
  <2>2. b > 0 => /\ F[b].ypcall \/ F[b].hit => Protects(F[b])
                 /\ F[b].ypcall => (ErrorStatus(F[b].recst) <=> F[b].hit)
                 /\ F[b].ypcall => \A i \in 1 .. b - 1 : F[i].kind = "ilya" \/ F[i].ypcall
    BY <2>1, <1>3 DEF FramesOK
  <2>3. \A i \in 1 .. b - 1 : i \in 1 .. b
    BY <1>1
  <2>4. QED
    BY <2>1, <2>2, <2>3, <1>1, <1>2 DEF Lower
<1>5. FramesOK(F2)
  BY <1>3, <1>4, LowerFrames
<1>6. Len(u2.cs) = m /\ \A k \in 1 .. m : u2.cs[k].t = u.cs[k].t /\ u2.cs[k].at = u.cs[k].at
                                          /\ (u.cs[k].at # "cfun" => u2.cs[k] = u.cs[k])
  <2>1. \A k \in 1 .. m : k = m \/ k \in 1 .. m - 1
    BY <1>1
  <2>2. QED
    BY <2>1, <1>1, <1>2 DEF Cut
<1>7. \A k \in Of(u2.cs, t) : k \in Of(u.cs, t) /\ k \in 1 .. m
  <2>1. 1 .. m \subseteq 1 .. n
    BY <1>1
  <2>2. QED
    BY <2>1, <1>6 DEF Of, n
<1>8. \A k \in Of(u.cs, t) : k # n => k \in Of(u2.cs, t) /\ u2.cs[k].at = u.cs[k].at
  <2>1. \A k \in 1 .. n : k # n => k \in 1 .. m
    BY <1>1
  <2>2. QED
    BY <2>1, <1>6 DEF Of, n
<1>9. Backed(u2.th, u2.cs, g, t)
  <2>1. SUFFICES ASSUME NEW i \in 1 .. b
        PROVE  /\ F2[i].kind \in CKinds \ {"yield"} =>
                    F2[i].ypcall \/ \E k \in Of(u2.cs, t) : u2.cs[k].at = "cfun" /\ g[k].b + 1 = i
               /\ F2[i].kind = "yield" => \E k \in Of(u2.cs, t) : u2.cs[k].at \in Msgs /\ g[k].b = i
    BY <1>2 DEF Backed, F2
  <2>2. i \in 1 .. Len(F) /\ F2[i] = F[i] /\ i # b + 1
    BY <1>1, <1>2, <1>3
  <2>3. /\ F[i].kind \in CKinds \ {"yield"} =>
             F[i].ypcall \/ \E k \in Of(u.cs, t) : u.cs[k].at = "cfun" /\ g[k].b + 1 = i
        /\ F[i].kind = "yield" => \E k \in Of(u.cs, t) : u.cs[k].at \in Msgs /\ g[k].b = i
    BY <2>2, <1>3 DEF Backed, ErrorStatus, F
  <2>4. \A k \in Of(u.cs, t) : g[k].b + 1 = i => k # n
    BY <2>2 DEF b
  <2>5. \A k \in Of(u.cs, t) : u.cs[k].at \in Msgs => k # n
    BY <1>2
  <2>6. QED
    BY <2>2, <2>3, <2>4, <2>5, <1>8
<1>10. Ordered(u2.th, u2.cs, t)
  <2>1. SUFFICES ASSUME NEW k \in Of(u2.cs, t), u2.cs[k].at = "try", u2.cs[k].why # "resume",
                        NEW i \in 1 .. b, F2[i].ypcall
                 PROVE  i < u2.cs[k].level
    BY <1>2 DEF Ordered, F2
  <2>2. k \in Of(u.cs, t) /\ u2.cs[k] = u.cs[k]
    BY <2>1, <1>6, <1>7
  <2>3. i \in 1 .. Len(F) /\ F2[i] = F[i]
    BY <1>1, <1>2, <1>3
  <2>4. QED
    BY <2>1, <2>2, <2>3, <1>3 DEF Ordered, F
<1>11. Serves(u2.th, u2.cs, g, m)
  BY ReturnServes DEF m, n
<1>12. Backs(u, u2, g, t, m)
  <2>1. g[m].b <= Len(F2) /\ \A i \in 1 .. g[m].b : F2[i] = F[i]
    <3>1. \A i \in 1 .. g[m].b : i \in 1 .. b
      BY <1>1
    <3>2. QED
      BY <3>1, <1>1, <1>2
  <2>2. m = 1 => F2[1].kind = "pcall" /\ ~F2[1].ypcall
    <3>1. SUFFICES ASSUME m = 1 PROVE F2[1].kind = "pcall" /\ ~F2[1].ypcall
      OBVIOUS
    <3>2. u.cs[1].at = "cfun" /\ g[1].b = 0 /\ F[1].kind = "pcall" /\ ~F[1].ypcall
      BY <3>1, <1>1 DEF Local, FirstOK
    <3>3. b = 0 + 1
      BY <3>1, <3>2, <1>1 DEF Local, Serves, CFunOK
    <3>4. 1 \in 1 .. b
      BY <3>3
    <3>5. QED
      BY <3>2, <3>4, <1>2
  <2>3. QED
    BY <2>1, <2>2, <1>1, <1>2 DEF Backs, F, F2, n
<1>13. FramesOK(u2.th[t].ci)
  BY <1>5 DEF F2
<1>14. Inv(u2, SubSeq(g, 1, m))
  BY <1>2, <1>9, <1>10, <1>11, <1>12, <1>13, BackOK
<1>15. QED
  BY <1>14

-----------------------------------------------------------------------------
(* unroll, the activation m, gets rid of the top frame.                    *)
Unwinds(u, u2, g, t, m) ==
  LET n == Len(u.cs)
      F == u.th[t].ci
      F2 == u2.th[t].ci
  IN /\ u.cs # <<>> /\ t = Running(u) /\ m \in 1 .. n /\ m \in {n - 1, n} /\ u.cs[m].t = t
     /\ u.cs[m].at = "unroll" /\ u.cs[n].at \notin Msgs \cup {"cfun"}
     /\ u2 \in State /\ ~u2.wrong /\ Cut(u.cs, u2.cs, m)
     /\ \A x \in Thr : x # t => u2.th[x] = u.th[x]
     /\ u2.th[t].ccalls = g[m].p /\ u2.th[t].nny = g[m].q
     /\ u2.th[t].status = u.th[t].status /\ u2.th[t].fn = u.th[t].fn
     /\ Len(F) > 0 /\ Len(F2) = Len(F) - 1 /\ \A i \in 1 .. Len(F) - 1 : F2[i] = F[i]

(* That keeps the invariant.                                               *)
LEMMA UnwindOK ==
  ASSUME NEW u, NEW g, Inv(u, g), NEW t, NEW u2, NEW m, Unwinds(u, u2, g, t, m),
         Owned(u2.th, u2.cs, t)
  PROVE  \E g2 : Inv(u2, g2)
<1> DEFINE n == Len(u.cs)
           F == u.th[t].ci
           F2 == u2.th[t].ci
           l == Len(F)
           l2 == l - 1
<1>1. /\ u.cs # <<>> /\ t = Running(u) /\ m \in 1 .. n /\ m \in {n - 1, n} /\ u.cs[m].t = t
      /\ u.cs[m].at = "unroll" /\ u.cs[n].at \notin Msgs \cup {"cfun"}
      /\ u2 \in State /\ ~u2.wrong /\ Cut(u.cs, u2.cs, m)
      /\ \A x \in Thr : x # t => u2.th[x] = u.th[x]
      /\ u2.th[t].ccalls = g[m].p /\ u2.th[t].nny = g[m].q
      /\ u2.th[t].status = u.th[t].status /\ u2.th[t].fn = u.th[t].fn
      /\ l > 0 /\ Len(F2) = l2 /\ \A i \in 1 .. l2 : F2[i] = F[i]
  BY DEF Unwinds
<1>2. Runs(u, g, t)
  BY <1>1, RunsIs
<1>3. /\ F \in Seq(Frame) /\ l \in Nat /\ u.th[t].status = "ok" /\ n \in Nat /\ n > 0
      /\ FramesOK(F) /\ Backed(u.th, u.cs, g, t) /\ Ordered(u.th, u.cs, t)
  BY <1>2 DEF Runs, Global
<1>4. /\ m \in Nat /\ m > 0 /\ (m = n \/ m + 1 = n) /\ l2 \in 0 .. l /\ l2 \in Nat
      /\ \A i \in 1 .. l2 : i \in 1 .. l
  <2> HIDE DEF n, l, F
  <2>1. QED
    BY <1>1, <1>3
<1>5. Local(u.th, u.cs, g, m)
  BY <1>1, InvFacts
<1>6. g[m].b = 0 /\ m > 1 /\ u.cs[m - 1].at = "try" /\ u.cs[m - 1].why = "resume"
  BY <1>1, <1>5 DEF Local, Serves, UnrollOK
<1>7. Lower(F, F2, l2)
  <2> HIDE DEF F, F2, l2
  <2>1. l2 > 0 => F2[l2] = F[l2] /\ l2 \in 1 .. Len(F) /\ \A i \in 1 .. l2 - 1 : i \in 1 .. Len(F) /\ i < l2
    BY <1>1, <1>3, <1>4 DEF l
  <2>2. l2 > 0 => /\ F[l2].ypcall \/ F[l2].hit => Protects(F[l2])
                  /\ F[l2].ypcall => (ErrorStatus(F[l2].recst) <=> F[l2].hit)
                  /\ F[l2].ypcall => \A i \in 1 .. l2 - 1 : F[i].kind = "ilya" \/ F[i].ypcall
    BY <2>1, <1>3 DEF FramesOK
  <2>3. \A i \in 1 .. l2 - 1 : i \in 1 .. l2
    BY <1>4
  <2>4. l2 \in 0 .. Len(F) /\ Len(F2) = l2 /\ \A i \in 1 .. l2 - 1 : F2[i] = F[i]
    BY <2>3, <1>1, <1>4 DEF l
  <2> HIDE DEF l
  <2>5. QED
    BY <2>1, <2>2, <2>4, <1>3 DEF Lower
<1>8. FramesOK(F2)
  BY <1>3, <1>7, LowerFrames
<1>9. Len(u2.cs) = m /\ \A k \in 1 .. m : u2.cs[k] = u.cs[k]
  <2>1. \A k \in 1 .. m : k = m \/ k \in 1 .. m - 1
    BY <1>4
  <2>2. QED
    BY <2>1, <1>1, <1>4 DEF Cut
<1>10. \A k \in Of(u2.cs, t) : k \in Of(u.cs, t) /\ u2.cs[k] = u.cs[k]
  <2>1. 1 .. m \subseteq 1 .. n
    BY <1>4
  <2>2. QED
    BY <2>1, <1>9 DEF Of
<1>11. \A k \in Of(u.cs, t) : u.cs[k].at \in Msgs \cup {"cfun"} => k \in Of(u2.cs, t) /\ u2.cs[k] = u.cs[k]
  <2>1. \A k \in 1 .. n : k # n => k \in 1 .. m
    BY <1>3, <1>4
  <2>2. \A k \in Of(u.cs, t) : u.cs[k].at \in Msgs \cup {"cfun"} => k # n
    BY <1>1
  <2>3. QED
    BY <2>1, <2>2, <1>9 DEF Of
<1> HIDE DEF n, F, F2, l, l2
<1>12. Backed(u2.th, u2.cs, g, t)
  <2>1. SUFFICES ASSUME NEW i \in 1 .. l2
        PROVE  /\ F2[i].kind \in CKinds \ {"yield"} =>
                    F2[i].ypcall \/ \E k \in Of(u2.cs, t) : u2.cs[k].at = "cfun" /\ g[k].b + 1 = i
               /\ F2[i].kind = "yield" => \E k \in Of(u2.cs, t) : u2.cs[k].at \in Msgs /\ g[k].b = i
    BY <1>1 DEF Backed, F2
  <2>2. i \in 1 .. l /\ F2[i] = F[i]
    BY <1>1, <1>4
  <2>3. /\ F[i].kind \in CKinds \ {"yield"} =>
             F[i].ypcall \/ \E k \in Of(u.cs, t) : u.cs[k].at = "cfun" /\ g[k].b + 1 = i
        /\ F[i].kind = "yield" => \E k \in Of(u.cs, t) : u.cs[k].at \in Msgs /\ g[k].b = i
    BY <2>2, <1>3 DEF Backed, ErrorStatus, F, l
  <2>4. QED
    BY <2>2, <2>3, <1>11
<1>13. Ordered(u2.th, u2.cs, t)
  <2>1. SUFFICES ASSUME NEW k \in Of(u2.cs, t), u2.cs[k].at = "try", u2.cs[k].why # "resume",
                        NEW i \in 1 .. l2, F2[i].ypcall
                 PROVE  i < u2.cs[k].level
    BY <1>1 DEF Ordered, F2
  <2>2. k \in Of(u.cs, t) /\ u2.cs[k] = u.cs[k]
    BY <2>1, <1>10
  <2>3. i \in 1 .. l /\ F2[i] = F[i]
    BY <1>1, <1>4
  <2>4. QED
    BY <2>1, <2>2, <2>3, <1>3 DEF Ordered, F, l
<1>14. Serves(u2.th, u2.cs, g, m)
  <2>1. u2.cs[m] = u.cs[m] /\ u2.cs[m - 1] = u.cs[m - 1]
    <3>1. m \in 1 .. m /\ m - 1 \in 1 .. m
      BY <1>4, <1>6
    <3>2. QED
      BY <3>1, <1>9
  <2>2. UnrollOK(u2.th, u2.cs, g, m)
    BY <2>1, <1>6 DEF UnrollOK
  <2>3. u2.cs[m].at = "unroll"
    BY <2>1, <1>1
  <2>4. QED
    BY <2>2, <2>3 DEF Serves, ExecOK, CFunOK, TryOK, CloseOK, MsgOK, Msgs
<1>15. Backs(u, u2, g, t, m)
  <2>1. 0 <= Len(F2) /\ \A i \in 1 .. 0 : F2[i] = F[i]
    BY <1>1, <1>4
  <2>2. g[m].b <= Len(F2) /\ \A i \in 1 .. g[m].b : F2[i] = F[i]
    BY <2>1, <1>6
  <2>3. m # 1
    BY <1>4, <1>6
  <2>4. QED
    BY <2>2, <2>3, <1>1 DEF Backs, F, F2, n
<1>16. FramesOK(u2.th[t].ci)
  BY <1>8 DEF F2
<1>17. Inv(u2, SubSeq(g, 1, m))
  BY <1>1, <1>12, <1>13, <1>14, <1>15, <1>16, BackOK
<1>18. QED
  BY <1>17

-----------------------------------------------------------------------------
(* A frame without variables of its own is left.                           *)
LEMMA PopOwned ==
  ASSUME NEW u, NEW g, Inv(u, g), u.cs # <<>>, NEW t, t = Running(u),
         NEW th2, NEW cs2, NEW l, l \in 0 .. Len(u.th[t].ci) - 1,
         Len(th2[t].ci) = l, \A i \in 1 .. l : th2[t].ci[i] = u.th[t].ci[i],
         th2[t].tbc = u.th[t].tbc,
         \A j \in 1 .. Len(u.th[t].tbc) : u.th[t].tbc[j].slot <= u.th[t].ci[l + 1].base,
         Closing(u.cs, t) => Closing(cs2, t)
  PROVE  Owned(th2, cs2, t)
<1> DEFINE F == u.th[t].ci
           F2 == th2[t].ci
           T == u.th[t].tbc
<1>1. Runs(u, g, t)
  BY RunsIs
<1>2. /\ F \in Seq(Frame) /\ Len(F) \in Nat /\ u.th[t] \in Thread
      /\ FramesOK(F) /\ Owned(u.th, u.cs, t)
  BY <1>1 DEF Runs, Global
<1>3. l \in 0 .. Len(F) /\ Len(F2) = l /\ \A i \in 1 .. l : F2[i] = F[i]
  <2>1. Len(F) \in Nat /\ l \in 0 .. Len(F) - 1
    BY <1>2
  <2> HIDE DEF F
  <2>2. l \in 0 .. Len(F)
    BY <2>1
  <2>3. QED
    BY <2>2 DEF F
<1> HIDE DEF F, F2
<1>4. Lower(F, F2, l)
  <2>1. l > 0 => F2[l] = F[l] /\ l \in 1 .. Len(F) /\ \A i \in 1 .. l - 1 : i \in 1 .. Len(F) /\ i < l
    BY <1>2, <1>3
  <2>2. l > 0 => /\ F[l].ypcall \/ F[l].hit => Protects(F[l])
                 /\ F[l].ypcall => (ErrorStatus(F[l].recst) <=> F[l].hit)
                 /\ F[l].ypcall => \A i \in 1 .. l - 1 : F[i].kind = "ilya" \/ F[i].ypcall
    BY <2>1, <1>2 DEF FramesOK
  <2>3. \A i \in 1 .. l - 1 : i \in 1 .. l
    BY <1>3
  <2>4. QED
    BY <2>1, <2>2, <2>3, <1>2, <1>3 DEF Lower
<1>5. Heir(F, F2, T, l, Closing(cs2, t))
  <2>1. l > 0 /\ F[l].hit => F2[l].hit
    BY <1>3
  <2>2. \A j \in 1 .. Len(T) : T[j].slot <= F[l + 1].base
    BY DEF F
  <2>3. QED
    BY <2>1, <2>2 DEF Heir
<1>6. QED
  BY <1>2, <1>4, <1>5, LowerOwned DEF F, F2

(* The counts of calls go down by what the call had added.                 *)
LEMMA RecountBy ==
  ASSUME NEW u \in State, NEW t \in Thr, NEW p \in Nat, NEW q \in Nat, NEW inc, NEW ny,
         u.th[t].ccalls - inc = p, u.th[t].nny - ny = q
  PROVE  Recounted(u, [u EXCEPT !.th[t].ccalls = @ - inc, !.th[t].nny = @ - ny], t, p, q)
<1> DEFINE v == [u EXCEPT !.th[t].ccalls = @ - inc, !.th[t].nny = @ - ny]
<1>1. v = [u EXCEPT !.th[t].ccalls = p, !.th[t].nny = q]
  <2>1. u.th \in [Thr -> Thread] /\ u.th[t] \in Thread
    BY StateType
  <2>2. [u EXCEPT !.th[t].ccalls = p].th[t].nny = u.th[t].nny
    BY <2>1 DEF State, Thread
  <2>3. [u EXCEPT !.th[t].ccalls = u.th[t].ccalls - inc] = [u EXCEPT !.th[t].ccalls = p]
    OBVIOUS
  <2>4. v = [[u EXCEPT !.th[t].ccalls = u.th[t].ccalls - inc] EXCEPT !.th[t].nny =
               [u EXCEPT !.th[t].ccalls = u.th[t].ccalls - inc].th[t].nny - ny]
    OBVIOUS
  <2>5. v = [[u EXCEPT !.th[t].ccalls = p] EXCEPT !.th[t].nny = [u EXCEPT !.th[t].ccalls = p].th[t].nny - ny]
    BY <2>3, <2>4
  <2>6. QED
    BY <2>2, <2>5
<1> HIDE DEF v
<1>2. Recounted(u, v, t, p, q)
  BY <1>1, RecountIs
<1>3. QED
  BY <1>2 DEF v

(* Pop cuts the C stack by one.                                            *)
LEMMA PopIs ==
  ASSUME NEW u \in State, u.cs # <<>>
  PROVE  LET n == Len(u.cs)
             v == Pop(u)
         IN /\ v \in State /\ v.th = u.th /\ v.wrong = u.wrong
            /\ n \in Nat /\ n > 0 /\ Len(v.cs) = n - 1
            /\ \A k \in 1 .. n - 1 : v.cs[k] = u.cs[k]
            /\ Cut(u.cs, v.cs, n - 1)
<1>1. /\ Pop(u) \in State /\ Pop(u).th = u.th /\ Pop(u).wrong = u.wrong
      /\ Pop(u).cs = Front(u.cs)
  BY PopFields
<1>2. u.cs \in Seq(Activation) /\ Len(u.cs) \in Nat
  BY StateType
<1>3. /\ Len(u.cs) > 0 /\ Len(Pop(u).cs) = Len(u.cs) - 1
      /\ \A k \in 1 .. Len(u.cs) - 1 : Pop(u).cs[k] = u.cs[k]
  BY <1>1, <1>2, SeqFront
<1>4. Cut(u.cs, Pop(u).cs, Len(u.cs) - 1)
  <2> DEFINE m == Len(u.cs) - 1
  <2>1. m \in Nat /\ Len(Pop(u).cs) = m /\ \A k \in 1 .. m : Pop(u).cs[k] = u.cs[k]
    BY <1>2, <1>3
  <2>2. (m > 0 => m \in 1 .. m) /\ \A k \in 1 .. m - 1 : k \in 1 .. m
    BY <2>1
  <2> HIDE DEF m
  <2>3. Cut(u.cs, Pop(u).cs, m)
    BY <2>1, <2>2 DEF Cut
  <2>4. QED
    BY <2>3 DEF m
<1>5. QED
  BY <1>1, <1>2, <1>3, <1>4

(* ilyaF_close is called, before a return or to finish a protected call.   *)
MayClose(u, t, slot, why) ==
  LET F == u.th[t].ci
      c == u.cs[Len(u.cs)]
      f == F[Len(F)]
  IN /\ u.cs # <<>> /\ t = Running(u) /\ Len(F) > 0 /\ slot \in Nat
     /\ \/ why = "return" /\ c.at = "exec" /\ slot = f.base
        \/ why = "pcallk" /\ c.at = "unroll" /\ slot = f.base + 1 /\ f.ypcall /\ f.hit

(* That keeps the invariant.                                               *)
LEMMA PushCloseOK ==
  ASSUME NEW u, NEW g, Inv(u, g), NEW t, NEW slot, NEW why,
         MayClose(u, t, slot, why)
  PROVE  \E g2 : Inv(Push(u, Close(t, slot, TRUE, why)), g2)
<1> DEFINE n == Len(u.cs)
           c == u.cs[n]
           F == u.th[t].ci
           l == Len(F)
           a == Close(t, slot, TRUE, why)
           u2 == Push(u, a)
           r == [p |-> g[n].p, q |-> g[n].q, b |-> l]
           g2 == Append(g, r)
<1>1. /\ u.cs # <<>> /\ t = Running(u) /\ l > 0 /\ slot \in Nat
      /\ \/ why = "return" /\ c.at = "exec" /\ slot = F[l].base
         \/ why = "pcallk" /\ c.at = "unroll" /\ slot = F[l].base + 1 /\ F[l].ypcall /\ F[l].hit
  BY DEF MayClose
<1>2. Runs(u, g, t)
  BY <1>1, RunsIs
<1>3. /\ n \in Nat /\ n > 0 /\ t \in Thr /\ u \in State /\ ~u.wrong
      /\ g[n].p \in Nat /\ g[n].q \in Nat /\ g[n].b \in Nat /\ g[n].b <= l
      /\ g \in Seq(Ghost) /\ g[n].p < ErrCCalls
      /\ u.th[t].ccalls = g[n].p /\ u.th[t].nny = g[n].q /\ l \in Nat
  BY <1>2 DEF Runs
<1>4. /\ a \in Activation /\ a.at = "close" /\ a.t = t /\ a.why = why /\ a.slot = slot /\ a.yy
      /\ a.inc = 0 /\ a.ny = 0
  <2>1. why \in {"closep", "return", "pcallk"}
    BY <1>1
  <2> HIDE DEF n, c, F, l
  <2>2. QED
    BY <2>1, <1>1, <1>3 DEF Close, Activation
<1>5. r \in Ghost /\ r.p = a.inc + g[n].p /\ r.q = a.ny + g[n].q /\ r.b = l
      /\ r.q = g[n].q /\ r.p = g[n].p
  <2>1. 0 + g[n].p = g[n].p /\ 0 + g[n].q = g[n].q
    BY <1>3
  <2> HIDE DEF a, l, n
  <2>2. r \in Ghost
    BY <2>1, <1>3 DEF Ghost
  <2>3. QED
    BY <2>1, <2>2, <1>4
<1> HIDE DEF a, r
<1>6. u2 \in State /\ u2.th = u.th /\ u2.wrong = u.wrong /\ u2.cs = Append(u.cs, a)
  BY <1>3, <1>4, PushFields
<1> HIDE DEF u2
<1>7. Grows(u, u2, g, t, a, r)
  BY <1>1, <1>3, <1>4, <1>5, <1>6 DEF Grows
<1>8. /\ Len(u2.cs) = n + 1 /\ u2.cs[n] = c /\ u2.cs[n + 1] = a /\ g2[n + 1] = r
      /\ End(u2.th, u2.cs, g2, n + 1) = l /\ Fr(u2.th, u2.cs, n + 1) = F
  <2>1. Grown(u, u2, g, g2, t, a, r)
    BY <1>1, <1>7, GrowKept
  <2>2. n \in 1 .. n
    BY <1>3
  <2>3. QED
    BY <2>1, <2>2, <1>6 DEF Grown
<1> HIDE DEF n, c, F, g2, l
<1>9. CloseOK(u2.th, u2.cs, g2, n + 1)
  <2> DEFINE k == n + 1
  <2>1. k > 1 /\ k - 1 = n
    BY <1>3
  <2>2. u2.cs[k] = a /\ u2.cs[n] = c /\ g2[k].b = l /\ End(u2.th, u2.cs, g2, k) = l
        /\ Fr(u2.th, u2.cs, k) = F
    BY <1>5, <1>8
  <2> HIDE DEF k
  <2>3. CloseOK(u2.th, u2.cs, g2, k)
    BY <2>1, <2>2, <1>1, <1>4 DEF CloseOK
  <2>4. QED
    BY <2>3 DEF k
<1>10. Serves(u2.th, u2.cs, g2, n + 1)
  BY <1>4, <1>8, <1>9 DEF Serves, ExecOK, CFunOK, MsgOK, TryOK, UnrollOK, Msgs
<1>11. Inv(u2, g2)
  BY <1>1, <1>7, <1>10, GrowOK DEF n, g2
<1>12. QED
  BY <1>11 DEF u2, a

-----------------------------------------------------------------------------
(* A return whose frame has variables to close.                            *)
LEMMA ReturnClosesOK ==
  ASSUME NEW u, NEW g, Inv(u, g), u.cs # <<>>, NEW t, t = Running(u),
         u.cs[Len(u.cs)].at = "exec"
  PROVE  LET f == TopFrame(u, t)
         IN \E g2 : Inv(Push(SetTop(u, t, [f EXCEPT !.op = "return"]),
                             Close(t, f.base, TRUE, "return")), g2)
<1> DEFINE F == u.th[t].ci
           l == Len(F)
           f == TopFrame(u, t)
           f2 == [f EXCEPT !.op = "return"]
           v == SetTop(u, t, f2)
<1>1. Runs(u, g, t) /\ F # <<>> /\ l > 0 /\ f = F[l]
  BY ExecTop
<1>2. t \in Thr /\ u \in State /\ F \in Seq(Frame) /\ l \in Nat
  BY <1>1 DEF Runs
<1>3. l \in 1 .. l /\ f \in Frame
  BY <1>1, <1>2, SeqElem
<1>4. f2 \in Frame /\ Alike(f, f2)
  BY <1>3 DEF Frame, Alike
<1> HIDE DEF f2
<1>5. /\ OnlyFrames(u, v, t) /\ Len(v.th[t].ci) = l
      /\ \A i \in 1 .. l : v.th[t].ci[i] = IF i = l THEN f2 ELSE F[i]
  BY <1>1, <1>2, <1>4, SetTopIs
<1> HIDE DEF v, f
<1>6. /\ v.th[t].ci[l] = f2 /\ \A i \in 1 .. l - 1 : v.th[t].ci[i] = F[i]
  <2>1. \A i \in 1 .. l - 1 : i \in 1 .. l /\ i # l
    BY <1>2
  <2>2. QED
    BY <2>1, <1>3, <1>5
<1>7. Inv(v, g)
  <2>1. /\ u.cs[Len(u.cs)].at \in {"exec", "cfun"} /\ v \in State /\ v.cs = u.cs /\ v.wrong = u.wrong
        /\ u.th[t].ci # <<>>
        /\ \A x \in Thr : x # t => v.th[x] = u.th[x]
        /\ v.th[t].ccalls = u.th[t].ccalls /\ v.th[t].nny = u.th[t].nny
        /\ v.th[t].status = u.th[t].status /\ v.th[t].fn = u.th[t].fn
        /\ v.th[t].tbc = u.th[t].tbc
    BY <1>1, <1>5 DEF OnlyFrames
  <2>2. Alike(F[l], v.th[t].ci[l]) /\ Len(v.th[t].ci) = l /\ l > 0
    BY <1>1, <1>4, <1>5, <1>6
  <2>3. \A i \in 1 .. l - 1 : v.th[t].ci[i] = F[i]
    BY <1>6
  <2>4. Remarks(u, v, t)
    BY <2>1, <2>2, <2>3 DEF Remarks
  <2> HIDE DEF l, F
  <2>5. QED
    BY <1>1, <2>1, <2>4, AlikeOK
<1>8. v.cs # <<>> /\ t = Running(v) /\ v.cs[Len(v.cs)].at = "exec"
  BY <1>5 DEF OnlyFrames, Running, Top
<1>9. MayClose(v, t, f.base, "return")
  <2>1. f2.base = f.base /\ f.base \in Nat
    BY <1>3, <1>4 DEF Alike, Frame
  <2>2. QED
    BY <2>1, <1>1, <1>5, <1>6, <1>8 DEF MayClose
<1>10. \E g2 : Inv(Push(v, Close(t, f.base, TRUE, "return")), g2)
  BY <1>7, <1>9, PushCloseOK
<1>11. QED
  BY <1>10 DEF v, f2, f

(* A frame without variables of its own is above all variables.            *)
LEMMA NoVariables ==
  ASSUME NEW u \in State, NEW t \in Thr, OwnTbc(u, t) = {}, NEW b \in Nat, b = TopFrame(u, t).base
  PROVE  \A j \in 1 .. Len(u.th[t].tbc) : u.th[t].tbc[j].slot <= b
<1>1. SUFFICES ASSUME NEW j \in 1 .. Len(u.th[t].tbc) PROVE u.th[t].tbc[j].slot <= b
  OBVIOUS
<1>2. u.th[t].tbc \in Seq(Variable) /\ u.th[t].tbc[j].slot \in Nat
  BY StateType, ThreadType
<1>3. u.th[t].tbc[j] \in Range(u.th[t].tbc)
  BY <1>2 DEF Range
<1>4. ~(u.th[t].tbc[j].slot > b)
  BY <1>3 DEF OwnTbc
<1>5. QED
  BY <1>2, <1>4

(* A return within ilyaV_execute.                                          *)
LEMMA ReturnIlyaOK ==
  ASSUME NEW u, NEW g, Inv(u, g), u.cs # <<>>, NEW t, t = Running(u),
         u.cs[Len(u.cs)].at = "exec", OwnTbc(u, t) = {}, ~TopFrame(u, t).fresh
  PROVE  Inv(PopFrame(u, t), g)
<1> DEFINE n == Len(u.cs)
           F == u.th[t].ci
           l == Len(F)
           w == PopFrame(u, t)
<1>1. /\ Runs(u, g, t) /\ F # <<>> /\ l > 0 /\ F[l].kind = "ilya" /\ TopFrame(u, t) = F[l]
      /\ g[n].b < l
      /\ IF u.cs[n - 1].at = "unroll" THEN g[n].b = 0 ELSE F[g[n].b + 1].fresh
  BY ExecTop
<1>2. /\ t \in Thr /\ u \in State /\ F \in Seq(Frame) /\ l \in Nat /\ FramesOK(F)
      /\ u.th[t] \in Thread /\ g[n].b \in Nat
  BY <1>1 DEF Runs, Global
<1>3. /\ OnlyFrames(u, w, t) /\ Len(w.th[t].ci) = l - 1
      /\ \A i \in 1 .. l - 1 : w.th[t].ci[i] = F[i]
  BY <1>1, <1>2, PopFrameIs
<1> HIDE DEF w
<1>4. l \in 1 .. l /\ ~F[l].fresh /\ F[l].base \in Nat
  <2>1. l \in 1 .. l
    BY <1>1, <1>2
  <2>2. QED
    BY <2>1, <1>1, <1>2, ThreadType
<1>5. l > 1 /\ F[l - 1].kind = "ilya"
  BY <1>1, <1>2, <1>4 DEF FramesOK
<1>6. g[n].b < l - 1
  <2>1. g[n].b + 1 # l
    <3>1. CASE u.cs[n - 1].at = "unroll"
      <4>1. g[n].b = 0
        BY <3>1, <1>1
      <4> HIDE DEF l, n
      <4>2. QED
        BY <4>1, <1>5, <1>2
    <3>2. CASE u.cs[n - 1].at # "unroll"
      <4>1. F[g[n].b + 1].fresh
        BY <3>2, <1>1
      <4>2. QED
        BY <4>1, <1>4
    <3>3. QED
      BY <3>1, <3>2
  <2> HIDE DEF l, n
  <2>2. QED
    BY <2>1, <1>1, <1>2
<1>7. l - 1 \in 0 .. l /\ l - 1 \in 0 .. l - 1 /\ l - 1 \in 1 .. l - 1 /\ (l - 1) + 1 = l
      /\ \A i \in 1 .. l - 1 : i <= l /\ i \in 1 .. l
  <2> HIDE DEF l
  <2>1. QED
    BY <1>2, <1>5
<1>8. \A j \in 1 .. Len(u.th[t].tbc) : u.th[t].tbc[j].slot <= F[(l - 1) + 1].base
  BY <1>1, <1>2, <1>4, <1>7, NoVariables
<1>9. Owned(w.th, w.cs, t)
  <2>1. w.th[t].tbc = u.th[t].tbc /\ w.cs = u.cs
    BY <1>3 DEF OnlyFrames
  <2>2. QED
    BY <2>1, <1>3, <1>7, <1>8, PopOwned
<1>10. FramesOK(w.th[t].ci)
  <2>1. \A i \in 1 .. l - 1 : w.th[t].ci[i] = F[i] /\ i \in 1 .. l
    BY <1>3, <1>7
  <2>2. \A i \in 1 .. l - 1 : i > 1 => i - 1 \in 1 .. l - 1
    BY <1>2
  <2> HIDE DEF l
  <2>3. Len(w.th[t].ci) = l - 1 /\ l = Len(F)
    BY <1>3 DEF l
  <2> HIDE DEF F
  <2>4. QED
    BY <2>1, <2>2, <2>3, <1>2, ZenonT(30) DEF FramesOK
<1>11. Continues(u, w, g, t)
  <2> HIDE DEF l
  <2>1. w.th[t].ci[Len(w.th[t].ci)].kind = "ilya" /\ Len(F) = l
    BY <1>3, <1>5, <1>7 DEF l
  <2>2. \A i \in 1 .. Len(w.th[t].ci) : i <= l /\ w.th[t].ci[i] = F[i]
    BY <1>3, <1>7
  <2>3. g[n].b < Len(w.th[t].ci)
    BY <1>3, <1>6
  <2> HIDE DEF F
  <2>4. QED
    BY <2>1, <2>2, <2>3, <1>3 DEF Continues, OnlyFrames, F
<1>12. QED
  BY <1>9, <1>10, <1>11, ContinueOK DEF w

(* A return that leaves ilyaV_execute.                                     *)
LEMMA ReturnFreshOK ==
  ASSUME NEW u, NEW g, Inv(u, g), u.cs # <<>>, NEW t, t = Running(u),
         u.cs[Len(u.cs)].at = "exec", OwnTbc(u, t) = {}, TopFrame(u, t).fresh
  PROVE  LET e == u.cs[Len(u.cs)]
             back == [Pop(u) EXCEPT !.th[t].ccalls = @ - e.inc, !.th[t].nny = @ - e.ny]
         IN \E g2 : Inv(PopFrame(back, t), g2)
<1> DEFINE n == Len(u.cs)
           m == n - 1
           e == u.cs[n]
           F == u.th[t].ci
           l == Len(F)
           x == Pop(u)
           v == [x EXCEPT !.th[t].ccalls = @ - e.inc, !.th[t].nny = @ - e.ny]
           w == PopFrame(v, t)
<1>1. /\ Runs(u, g, t) /\ F # <<>> /\ l > 0 /\ F[l].kind = "ilya" /\ TopFrame(u, t) = F[l]
      /\ g[n].b < l /\ n > 1 /\ m \in 1 .. n /\ u.cs[m].t = t
      /\ IF u.cs[m].at = "unroll" THEN g[n].b = 0 /\ e.inc = 0 /\ e.ny = 0
         ELSE /\ Called(F, g[n].b, u.cs[m], e)
              /\ F[g[n].b + 1].fresh /\ \A i \in g[n].b + 2 .. l : ~F[i].fresh
  BY ExecTop, SMTT(20)
<1>2. /\ t \in Thr /\ u \in State /\ ~u.wrong /\ F \in Seq(Frame) /\ l \in Nat /\ FramesOK(F)
      /\ u.th[t] \in Thread /\ g[n].b \in Nat /\ g[n].p \in Nat /\ g[n].q \in Nat /\ n \in Nat
      /\ u.th[t].ccalls = g[n].p /\ u.th[t].nny = g[n].q /\ Local(u.th, u.cs, g, n)
      /\ e \in Activation /\ e.t = t
  BY <1>1 DEF Runs, Global
<1>3. /\ x \in State /\ x.th = u.th /\ x.wrong = u.wrong /\ Cut(u.cs, x.cs, m)
      /\ Len(x.cs) = m /\ \A k \in 1 .. m : x.cs[k] = u.cs[k]
  BY <1>2, PopIs
<1>4. g[m].p \in Nat /\ g[m].q \in Nat /\ g[n].p - e.inc = g[m].p /\ g[n].q - e.ny = g[m].q
  <2>1. e.inc \in {0, 1} /\ e.ny \in {0, 1}
    BY <1>2, ActivationType
  <2>2. g[m].p \in Nat /\ g[m].q \in Nat
    BY <1>1, InvFacts
  <2>3. Counted(u.th, u.cs, g, n) /\ n # 1
    BY <1>1, <1>2 DEF Local
  <2>4. u.cs[n - 1].t = u.cs[n].t
    BY <1>1, <1>2
  <2> HIDE DEF n, e
  <2>5. g[n].p = u.cs[n].inc + g[m].p /\ g[n].q = u.cs[n].ny + g[m].q
    BY <2>3, <2>4 DEF Counted
  <2>6. e = u.cs[n]
    BY DEF e
  <2> HIDE DEF m
  <2>7. QED
    BY <2>1, <2>2, <2>5, <2>6, <1>2
<1> HIDE DEF x
<1>5. Recounted(x, v, t, g[m].p, g[m].q)
  <2>1. x.th[t].ccalls - e.inc = g[m].p /\ x.th[t].nny - e.ny = g[m].q
    BY <1>2, <1>3, <1>4
  <2> HIDE DEF v, m, e
  <2>2. v = [x EXCEPT !.th[t].ccalls = @ - e.inc, !.th[t].nny = @ - e.ny]
    BY DEF v
  <2>3. QED
    BY <2>1, <2>2, <1>2, <1>3, <1>4, RecountBy
<1> HIDE DEF v
<1>6. /\ v \in State /\ v.cs = x.cs /\ ~v.wrong /\ v.th[t].ci = F
      /\ v.th[t].ccalls = g[m].p /\ v.th[t].nny = g[m].q
      /\ v.th[t].tbc = u.th[t].tbc /\ v.th[t].status = u.th[t].status /\ v.th[t].fn = u.th[t].fn
      /\ \A y \in Thr : y # t => v.th[y] = u.th[y]
  BY <1>2, <1>3, <1>5 DEF Recounted
<1>7. /\ OnlyFrames(v, w, t) /\ Len(w.th[t].ci) = l - 1
      /\ \A i \in 1 .. l - 1 : w.th[t].ci[i] = F[i]
  <2>1. v.th[t].ci # <<>> /\ v.th[t].ci = F /\ v \in State /\ t \in Thr
    BY <1>1, <1>2, <1>6
  <2> HIDE DEF F
  <2>2. QED
    BY <2>1, PopFrameIs
<1> HIDE DEF w
<1>8. /\ w \in State /\ ~w.wrong /\ w.cs = x.cs /\ Cut(u.cs, w.cs, m)
      /\ w.th[t].ccalls = g[m].p /\ w.th[t].nny = g[m].q
      /\ w.th[t].tbc = u.th[t].tbc /\ w.th[t].status = u.th[t].status /\ w.th[t].fn = u.th[t].fn
      /\ \A y \in Thr : y # t => w.th[y] = u.th[y]
  BY <1>3, <1>6, <1>7 DEF OnlyFrames
<1>9. l \in 1 .. l /\ F[l].fresh /\ F[l].base \in Nat
  <2>1. l \in 1 .. l
    BY <1>1, <1>2
  <2>2. QED
    BY <2>1, <1>1, <1>2, ThreadType
<1>10. l - 1 \in 0 .. l - 1 /\ (l - 1) + 1 = l /\ m \in Nat /\ m > 0 /\ m + 1 = n
  BY <1>1, <1>2
<1>11. \A j \in 1 .. Len(u.th[t].tbc) : u.th[t].tbc[j].slot <= F[(l - 1) + 1].base
  BY <1>1, <1>2, <1>9, <1>10, NoVariables
<1>12. Closing(u.cs, t) => Closing(w.cs, t)
  <2>1. \A k \in Of(u.cs, t) : u.cs[k].at = "close" => k \in Of(w.cs, t) /\ w.cs[k] = u.cs[k]
    <3>1. SUFFICES ASSUME NEW k \in Of(u.cs, t), u.cs[k].at = "close"
                   PROVE  k \in Of(w.cs, t) /\ w.cs[k] = u.cs[k]
      OBVIOUS
    <3>2. k \in 1 .. n /\ k # n
      BY <3>1 DEF Of
    <3>3. k \in 1 .. m
      BY <3>2, <1>2
    <3>4. QED
      BY <3>1, <3>3, <1>3, <1>8 DEF Of
  <2>2. QED
    BY <2>1 DEF Closing
<1>13. Owned(w.th, w.cs, t)
  <2> DEFINE l1 == l - 1
  <2>1. l1 \in 0 .. Len(u.th[t].ci) - 1 /\ Len(w.th[t].ci) = l1 /\ l1 + 1 = l
    BY <1>7, <1>10
  <2>2. \A i \in 1 .. l1 : w.th[t].ci[i] = u.th[t].ci[i]
    BY <1>7
  <2>3. w.th[t].tbc = u.th[t].tbc
    BY <1>8
  <2>4. \A j \in 1 .. Len(u.th[t].tbc) : u.th[t].tbc[j].slot <= u.th[t].ci[l1 + 1].base
    BY <1>11
  <2> HIDE DEF l1, l, n, m, F, e
  <2>5. QED
    BY <2>1, <2>2, <2>3, <2>4, <1>12, PopOwned
<1>14. CASE u.cs[m].at = "unroll"
  <2>1. Unwinds(u, w, g, t, m)
    BY <1>1, <1>7, <1>8, <1>14 DEF Unwinds, Msgs
  <2>2. \E g2 : Inv(w, g2)
    BY <2>1, <1>13, UnwindOK
  <2>3. QED
    BY <2>2 DEF w, v, x
<1>15. CASE u.cs[m].at # "unroll"
  <2>1. /\ Called(F, g[n].b, u.cs[m], e)
        /\ F[g[n].b + 1].fresh /\ \A i \in g[n].b + 2 .. l : ~F[i].fresh
    BY <1>1, <1>15
  <2>2. g[n].b = l - 1
    <3>1. l \notin g[n].b + 2 .. l
      BY <2>1, <1>9
    <3> HIDE DEF n, l, m
    <3>2. l \in Nat /\ g[n].b \in Nat /\ g[n].b < l
      BY <1>1, <1>2
    <3>3. QED
      BY <3>1, <3>2
  <2>3. w.cs[m] = u.cs[m]
    <3>1. m \in 1 .. m
      BY <1>10
    <3>2. QED
      BY <3>1, <1>3, <1>8
  <2>4. u.cs[m].at = "cfun" =>
          /\ F[g[n].b].ypcall => u.cs[m].ok
          /\ Protects(F[g[n].b]) => (u.cs[m].ok <=> ~F[g[n].b].hit)
          /\ ~F[g[n].b].hit
    <3>1. SUFFICES ASSUME u.cs[m].at = "cfun"
                   PROVE  /\ F[g[n].b].ypcall => u.cs[m].ok
                          /\ Protects(F[g[n].b]) => (u.cs[m].ok <=> ~F[g[n].b].hit)
                          /\ ~F[g[n].b].hit
      OBVIOUS
    <3>2. g[n].b > 0 /\ (F[g[n].b].kind = "cfun" \/ (Protects(F[g[n].b]) /\ F[g[n].b].ypcall))
      BY <2>1, <3>1 DEF Called
    <3>3. g[n].b \in 1 .. l
      <4>1. l \in Nat /\ g[n].b \in Nat /\ g[n].b > 0 /\ g[n].b = l - 1
        BY <3>2, <2>2, <1>2
      <4> HIDE DEF n, l, m
      <4>2. QED
        BY <4>1
    <3>4. F[g[n].b].ypcall \/ F[g[n].b].hit => Protects(F[g[n].b])
      BY <3>3, <1>2 DEF FramesOK
    <3>5. F[g[n].b].ypcall => ~F[g[n].b].hit /\ u.cs[m].ok
      <4>1. CFunOK(u.th, u.cs, g, m) /\ Same(u.cs, m) /\ End(u.th, u.cs, g, m) = g[n].b /\ Fr(u.th, u.cs, m) = F
        <5>1. Local(u.th, u.cs, g, m)
          BY <1>1, InvFacts
        <5>2. m < n /\ u.cs[m + 1].t = t
          BY <1>2, <1>10
        <5>3. QED
          BY <5>1, <5>2, <1>1, <1>10 DEF Local, Serves, Same, End, Fr
      <4>2. QED
        BY <4>1, <3>1 DEF CFunOK
    <3>6. F[g[n].b].kind = "cfun" => ~Protects(F[g[n].b])
      BY DEF Protects
    <3>7. QED
      BY <3>2, <3>4, <3>5, <3>6
  <2>5. ~(u.cs[m].at = "try" /\ u.cs[m].why = "closep")
    BY <2>1 DEF Called
  <2>6. Returns(u, w, g, t)
    BY <2>2, <2>3, <2>4, <2>5, <1>1, <1>7, <1>8 DEF Returns, Msgs
  <2>7. \E g2 : Inv(w, g2)
    BY <2>6, <1>13, ReturnOK
  <2>8. QED
    BY <2>7 DEF w, v, x
<1>16. QED
  BY <1>14, <1>15

-----------------------------------------------------------------------------
(* What ilyaF_close knows.                                                 *)
LEMMA CloseTop ==
  ASSUME NEW u, NEW g, Inv(u, g), u.cs # <<>>, NEW t, t = Running(u),
         u.cs[Len(u.cs)].at = "close"
  PROVE  LET n == Len(u.cs)
             m == n - 1
             F == u.th[t].ci
             l == Len(F)
             e == u.cs[n]
             c == u.cs[m]
         IN /\ Runs(u, g, t) /\ n > 1 /\ m \in 1 .. n /\ m \in Nat /\ m > 0 /\ m + 1 = n
            /\ c.t = t /\ e.t = t /\ e \in Activation /\ c \in Activation
            /\ g[n].b = l /\ e.inc = 0 /\ e.ny = 0 /\ e.slot \in Nat
            /\ g[m].p = g[n].p /\ g[m].q = g[n].q
            /\ \/ e.why = "closep" /\ c.at = "try" /\ c.why = "closep" /\ e.slot = c.slot /\ ~e.yy
               \/ e.why = "return" /\ c.at = "exec" /\ l > 0 /\ e.slot = u.th[t].ci[l].base
               \/ /\ e.why = "pcallk" /\ c.at = "unroll" /\ l > 0 /\ e.yy
                  /\ F[l].ypcall /\ F[l].hit /\ e.slot = F[l].base + 1
<1> DEFINE n == Len(u.cs)
           m == n - 1
           F == u.th[t].ci
           l == Len(F)
           e == u.cs[n]
           c == u.cs[m]
<1>1. Runs(u, g, t)
  BY RunsIs
<1>2. /\ e \in Activation /\ e.t = t /\ n \in Nat /\ n > 0 /\ Local(u.th, u.cs, g, n)
      /\ Fr(u.th, u.cs, n) = F /\ End(u.th, u.cs, g, n) = l
      /\ g[n].p \in Nat /\ g[n].q \in Nat
  BY <1>1 DEF Runs
<1>3. CloseOK(u.th, u.cs, g, n) /\ Counted(u.th, u.cs, g, n) /\ FirstOK(u.th, u.cs, g, n)
  BY <1>2 DEF Local, Serves
<1>4. e.why \in {"closep", "return", "pcallk"} /\ e.inc = 0 /\ e.ny = 0 /\ e.slot \in Nat
  BY <1>2, ActivationType
<1>5. n > 1
  BY <1>3 DEF CloseOK
<1>6. m \in 1 .. n /\ m \in Nat /\ m > 0 /\ m + 1 = n /\ n # 1
  BY <1>2, <1>5
<1>7. c \in Activation /\ g[m].p \in Nat /\ g[m].q \in Nat
  BY <1>6, InvFacts
<1>8. c.t = t
  BY <1>2, <1>3, <1>5 DEF FirstOK
<1>9. /\ g[n].b = l
      /\ \/ e.why = "closep" /\ c.at = "try" /\ c.why = "closep" /\ e.slot = c.slot /\ ~e.yy
         \/ e.why = "return" /\ c.at = "exec" /\ l > 0 /\ e.slot = u.th[t].ci[l].base
         \/ /\ e.why = "pcallk" /\ c.at = "unroll" /\ l > 0 /\ e.yy
            /\ F[l].ypcall /\ F[l].hit /\ e.slot = F[l].base + 1
  <2> HIDE DEF n, l, F, c
  <2>1. /\ u.cs[n].at = "close" /\ End(u.th, u.cs, g, n) = l /\ Fr(u.th, u.cs, n) = F
        /\ u.cs[n - 1] = c
    BY <1>2 DEF n, c
  <2>2. F = u.th[t].ci
    BY DEF F
  <2>3. QED
    BY <2>1, <2>2, <1>3, <1>4 DEF CloseOK
<1>10. g[m].p = g[n].p /\ g[m].q = g[n].q
  <2>1. e = u.cs[n] /\ c = u.cs[n - 1]
    OBVIOUS
  <2> HIDE DEF e, c, n
  <2>2. /\ g[n].p = e.inc + g[n - 1].p
        /\ g[n].q = e.ny + g[n - 1].q
    BY <2>1, <1>2, <1>3, <1>6, <1>8 DEF Counted
  <2>3. QED
    BY <2>2, <1>2, <1>4, <1>7
<1>11. QED
  BY <1>1, <1>2, <1>4, <1>5, <1>6, <1>7, <1>8, <1>9, <1>10

(* The last variable is taken off the list of the thread that runs.        *)
LEMMA DropOwned ==
  ASSUME NEW u, NEW g, Inv(u, g), u.cs # <<>>, NEW t, t = Running(u), u.th[t].tbc # <<>>,
         NEW v, OnlyVariables(u, v, t, Front(u.th[t].tbc))
  PROVE  Owned(v.th, v.cs, t)
<1> DEFINE F == u.th[t].ci
           T == u.th[t].tbc
           T2 == Front(T)
<1>1. Runs(u, g, t)
  BY RunsIs
<1>2. Owned(u.th, u.cs, t) /\ u.th[t] \in Thread
  BY <1>1 DEF Runs, Global
<1>3. T \in Seq(Variable) /\ Len(T) \in Nat
  BY <1>2, ThreadType
<1>4. Len(T2) = Len(T) - 1 /\ \A j \in 1 .. Len(T) - 1 : T2[j] = T[j]
  <2> HIDE DEF T
  <2>1. QED
    BY <1>3, SeqFront DEF T
<1> HIDE DEF T2
<1>5. \A j \in 1 .. Len(T2) : j \in 1 .. Len(T) /\ T2[j] = T[j]
  <2>1. \A j \in 1 .. Len(T2) : j \in 1 .. Len(T) - 1 /\ j \in 1 .. Len(T)
    BY <1>3, <1>4
  <2>2. QED
    BY <2>1, <1>4
<1>6. v.th[t].ci = F /\ v.th[t].tbc = T2 /\ v.cs = u.cs
  BY DEF OnlyVariables, T2
<1>7. /\ \A j \in 1 .. Len(T) : T[j].slot > 0
      /\ \A i, j \in 1 .. Len(T) : i < j => T[i].slot < T[j].slot
      /\ \A j \in 1 .. Len(T) : \E i \in 0 .. Len(F) :
           OwnedBy(F, T[j], i) /\ (i = 0 => Closing(u.cs, t))
  BY <1>2 DEF Owned
<1> HIDE DEF T, F
<1>8. /\ \A j \in 1 .. Len(T2) : T2[j].slot > 0
      /\ \A i, j \in 1 .. Len(T2) : i < j => T2[i].slot < T2[j].slot
      /\ \A j \in 1 .. Len(T2) : \E i \in 0 .. Len(F) :
           OwnedBy(F, T2[j], i) /\ (i = 0 => Closing(u.cs, t))
  BY <1>5, <1>7
<1>9. QED
  BY <1>6, <1>8 DEF Owned

(* That keeps the invariant.                                               *)
LEMMA DropOK ==
  ASSUME NEW u, NEW g, Inv(u, g), u.cs # <<>>, NEW t, t = Running(u),
         u.cs[Len(u.cs)].at = "close", u.th[t].tbc # <<>>,
         NEW v, OnlyVariables(u, v, t, Front(u.th[t].tbc))
  PROVE  \E g2 : Inv(v, g2)
<1> DEFINE n == Len(u.cs)
           F == u.th[t].ci
<1>1. Runs(u, g, t) /\ n > 1 /\ g[n].b = Len(F)
  BY CloseTop
<1>2. /\ n \in Nat /\ n \in 1 .. n /\ u.cs[n].t = t /\ ~u.wrong
      /\ u.th[t].ccalls = g[n].p /\ u.th[t].nny = g[n].q
      /\ Local(u.th, u.cs, g, n) /\ Global(u.th, u.cs, g, t)
      /\ Fr(u.th, u.cs, n) = F /\ End(u.th, u.cs, g, n) = Len(F)
      /\ n # 1 /\ Len(F) \in Nat
  BY <1>1 DEF Runs
<1>3. v.cs = u.cs /\ v.th[t].ci = F
  BY DEF OnlyVariables
<1>4. Backs(u, v, g, t, n)
  <2>1. Cut(u.cs, v.cs, n)
    BY <1>2, <1>3 DEF Cut
  <2>2. g[n].b <= Len(F)
    BY <1>1, <1>2
  <2>3. n \in 1 .. Len(u.cs)
    BY <1>2
  <2> HIDE DEF n
  <2>4. QED
    BY <2>1, <2>2, <2>3, <1>2, <1>3 DEF Backs, OnlyVariables
<1>5. Serves(v.th, v.cs, g, n)
  <2>1. CloseOK(u.th, u.cs, g, n)
    BY <1>2 DEF Local, Serves
  <2>2. Fr(v.th, v.cs, n) = Fr(u.th, u.cs, n) /\ End(v.th, v.cs, g, n) = End(u.th, u.cs, g, n)
    BY <1>2, <1>3 DEF Fr, End, Same
  <2>3. CloseOK(v.th, v.cs, g, n)
    BY <2>1, <2>2, <1>3 DEF CloseOK
  <2>4. u.cs[n].at = "close"
    OBVIOUS
  <2> HIDE DEF n
  <2>5. QED
    BY <2>3, <2>4, <1>3 DEF Serves, ExecOK, CFunOK, TryOK, MsgOK, UnrollOK, Msgs
<1>6. FramesOK(v.th[t].ci) /\ Ordered(v.th, v.cs, t) /\ Backed(v.th, v.cs, g, t)
  <2>1. v.th[t].status = u.th[t].status
    BY DEF OnlyVariables
  <2>2. QED
    BY <2>1, <1>2, <1>3 DEF Global, Ordered, Backed
<1>7. Owned(v.th, v.cs, t)
  BY DropOwned
<1>8. QED
  BY <1>4, <1>5, <1>6, <1>7, BackOK

(* ilyaF_close calls the method of the last variable.                      *)
LEMMA CloseCallsOK ==
  ASSUME NEW u, NEW g, Inv(u, g), u.cs # <<>>, NEW t, t = Running(u),
         u.cs[Len(u.cs)].at = "close", u.th[t].tbc # <<>>
  PROVE  \E g2 : Inv(CCall([u EXCEPT !.th[t].tbc = Front(u.th[t].tbc)], t, 1,
                           IF u.cs[Len(u.cs)].yy THEN 0 ELSE 1), g2)
<1> DEFINE T == u.th[t].tbc
           T2 == Front(T)
           v == [u EXCEPT !.th[t].tbc = T2]
           ny == IF u.cs[Len(u.cs)].yy THEN 0 ELSE 1
<1>1. Runs(u, g, t)
  BY RunsIs
<1>2. T2 \in Seq(Variable) /\ t \in Thr /\ u \in State
  <2>1. T \in Seq(Variable) /\ t \in Thr /\ u \in State
    BY <1>1, ThreadType DEF Runs
  <2> HIDE DEF T
  <2>2. QED
    BY <2>1, SeqFront DEF T
<1> HIDE DEF T2
<1>3. OnlyVariables(u, v, t, T2)
  BY <1>2, PutVariables
<1> HIDE DEF v
<1>4. PICK g2 : Inv(v, g2)
  BY <1>3, DropOK DEF T2
<1>5. v.cs = u.cs
  BY <1>3 DEF OnlyVariables
<1>6. ny \in {0, 1}
  OBVIOUS
<1>7. MayCall(v, t, 1, ny)
  <2> DEFINE x == Exec(t, 1, ny)
  <2>1. x.inc = 1 /\ x.ny = ny
    BY <1>2, <1>6, ExecIs
  <2> HIDE DEF x
  <2>2. Called(v.th[t].ci, Len(v.th[t].ci), v.cs[Len(v.cs)], x)
    BY <2>1, <1>5 DEF Called
  <2>3. v.cs # <<>> /\ t = Running(v)
    BY <1>5 DEF Running, Top
  <2>4. QED
    BY <2>2, <2>3, <1>6 DEF MayCall, x
<1>8. \E g3 : Inv(CCall(v, t, 1, ny), g3)
  BY <1>4, <1>7, CCallOK
<1>9. QED
  BY <1>8 DEF v, T2

(* ilyaF_close has closed all variables above its slot.                    *)
Closed(u, t) ==
  LET T == u.th[t].tbc
  IN T # <<>> => T[Len(T)].slot < u.cs[Len(u.cs)].slot

(* Variables are in order, so all are below the slot.                      *)
LEMMA ClosedIs ==
  ASSUME NEW u, NEW g, Inv(u, g), u.cs # <<>>, NEW t, t = Running(u),
         u.cs[Len(u.cs)].at = "close", Closed(u, t)
  PROVE  \A j \in 1 .. Len(u.th[t].tbc) :
           u.th[t].tbc[j].slot < u.cs[Len(u.cs)].slot /\ u.th[t].tbc[j].slot \in Nat
<1> DEFINE T == u.th[t].tbc
           n == Len(T)
           x == u.cs[Len(u.cs)].slot
<1>1. Runs(u, g, t) /\ x \in Nat
  BY CloseTop
<1>2. Owned(u.th, u.cs, t) /\ u.th[t] \in Thread
  BY <1>1 DEF Runs, Global
<1>3. /\ T \in Seq(Variable) /\ n \in Nat
      /\ \A j \in 1 .. n : T[j].slot \in Nat
  BY <1>2, ThreadType
<1>4. \A i, j \in 1 .. n : i < j => T[i].slot < T[j].slot
  BY <1>2 DEF Owned
<1>5. SUFFICES ASSUME NEW j \in 1 .. n PROVE T[j].slot < x /\ T[j].slot \in Nat
  OBVIOUS
<1>6. T # <<>> /\ n \in 1 .. n
  BY <1>3, <1>5
<1>7. T[n].slot < x
  BY <1>6 DEF Closed
<1>8. CASE j = n
  BY <1>3, <1>5, <1>7, <1>8
<1>9. CASE j # n
  <2>1. j < n /\ j \in 1 .. n
    BY <1>3, <1>5, <1>9
  <2>2. T[j].slot < T[n].slot /\ T[j].slot \in Nat /\ T[n].slot \in Nat
    BY <2>1, <1>3, <1>4, <1>6
  <2> HIDE DEF n, T, x
  <2>3. QED
    BY <2>2, <1>1, <1>7
<1>10. QED
  BY <1>8, <1>9

(* ... and returns to the closing of a protected call or of a thread, or   *)
(* to the return of a function.                                            *)
LEMMA CloseEndsOK ==
  ASSUME NEW u, NEW g, Inv(u, g), u.cs # <<>>, NEW t, t = Running(u),
         u.cs[Len(u.cs)].at = "close", Closed(u, t), u.cs[Len(u.cs)].why # "pcallk"
  PROVE  \E g2 : Inv(Pop(u), g2)
<1> DEFINE n == Len(u.cs)
           m == n - 1
           F == u.th[t].ci
           l == Len(F)
           T == u.th[t].tbc
           e == u.cs[n]
           c == u.cs[m]
           v == Pop(u)
<1>1. /\ Runs(u, g, t) /\ n > 1 /\ m \in 1 .. n /\ m \in Nat /\ m > 0 /\ m + 1 = n
      /\ c.t = t /\ g[n].b = l /\ g[m].p = g[n].p /\ g[m].q = g[n].q
      /\ \/ e.why = "closep" /\ c.at = "try" /\ c.why = "closep" /\ e.slot = c.slot /\ ~e.yy
         \/ e.why = "return" /\ c.at = "exec"
  BY CloseTop
<1>2. /\ u \in State /\ ~u.wrong /\ u.th[t].ccalls = g[n].p /\ u.th[t].nny = g[n].q
      /\ Global(u.th, u.cs, g, t) /\ n \in Nat
  BY <1>1 DEF Runs
<1>3. /\ v \in State /\ v.th = u.th /\ v.wrong = u.wrong
      /\ Len(v.cs) = m /\ \A k \in 1 .. m : v.cs[k] = u.cs[k]
      /\ Cut(u.cs, v.cs, m)
  BY <1>2, PopIs
<1> HIDE DEF v
<1>4. v.cs[m] = c
  BY <1>1, <1>3
<1>5. \A j \in 1 .. Len(T) : T[j].slot < e.slot /\ T[j].slot \in Nat
  BY ClosedIs
<1>6. Returns(u, v, g, t)
  <2>1. /\ c.at # "cfun"
        /\ c.at = "try" /\ c.why = "closep" => \A j \in 1 .. Len(T) : T[j].slot < c.slot
    BY <1>1, <1>5
  <2>2. e.at \notin Msgs
    BY DEF Msgs
  <2> HIDE DEF n, l
  <2>3. Len(v.th[t].ci) = g[n].b /\ \A i \in 1 .. g[n].b : v.th[t].ci[i] = F[i]
    BY <1>1, <1>3 DEF l
  <2> HIDE DEF m, F
  <2>4. QED
    BY <2>1, <2>2, <2>3, <1>1, <1>2, <1>3, <1>4 DEF Returns, n, m, F
<1>7. Owned(v.th, v.cs, t)
  <2>1. Owned(u.th, u.cs, t)
    BY <1>2 DEF Global
  <2>2. \A j \in 1 .. Len(T) : T[j].slot > 0
    BY <2>1 DEF Owned
  <2>3. CASE e.why = "closep" /\ e.slot = 1
    <3>1. \A j \in 1 .. Len(T) : FALSE
      BY <2>2, <2>3, <1>5
    <3>2. QED
      BY <3>1, <1>3 DEF Owned
  <2>4. CASE ~(e.why = "closep" /\ e.slot = 1)
    <3>1. Closing(u.cs, t) => Closing(v.cs, t)
      <4>1. SUFFICES ASSUME NEW k \in Of(u.cs, t), u.cs[k].at = "close", u.cs[k].why = "closep",
                            u.cs[k].slot = 1
                     PROVE  k \in Of(v.cs, t) /\ v.cs[k] = u.cs[k]
        BY DEF Closing
      <4>2. k \in 1 .. n /\ k # n /\ u.cs[k].t = t
        BY <2>4, <4>1 DEF Of
      <4>3. k \in 1 .. m
        BY <4>2, <1>2
      <4>4. QED
        BY <4>2, <4>3, <1>3 DEF Of
    <3>2. QED
      BY <2>1, <3>1, <1>3 DEF Owned
  <2>5. QED
    BY <2>3, <2>4
<1>8. QED
  BY <1>6, <1>7, ReturnOK DEF v

-----------------------------------------------------------------------------
(* A protected call ends, as it should.                                    *)
Finished(u, v, t) ==
  LET F == u.th[t].ci
      F2 == v.th[t].ci
  IN /\ v \in State /\ v.cs = u.cs /\ ~v.wrong
     /\ \A x \in Thr : x # t => v.th[x] = u.th[x]
     /\ v.th[t].tbc = u.th[t].tbc /\ v.th[t].status = u.th[t].status
     /\ v.th[t].fn = u.th[t].fn
     /\ v.th[t].ccalls = u.th[t].ccalls /\ v.th[t].nny = u.th[t].nny
     /\ Len(F2) = Len(F) - 1 /\ \A i \in 1 .. Len(F) - 1 : F2[i] = F[i]

(* FinishPCall drops the frame; the result agrees with the history.        *)
LEMMA FinishIs ==
  ASSUME NEW u \in State, NEW t \in Thr, u.th[t].ci # <<>>, ~u.wrong,
         NEW ok \in BOOLEAN, ok # u.th[t].ci[Len(u.th[t].ci)].hit
  PROVE  Finished(u, FinishPCall(u, t, ok), t)
<1> DEFINE F == u.th[t].ci
           f == F[Len(F)]
           w == PopFrame(u, t)
           x == f.olderr
           y == w.wrong \/ ok = f.hit
           v == [w EXCEPT !.th[t].errfunc = x, !.wrong = y]
<1>1. /\ OnlyFrames(u, w, t) /\ Len(w.th[t].ci) = Len(F) - 1
      /\ \A i \in 1 .. Len(F) - 1 : w.th[t].ci[i] = F[i]
      /\ TopFrame(u, t) = f /\ Len(F) > 0
  BY PopFrameIs
<1>2. x \in BOOLEAN
  <2>1. F \in Seq(Frame) /\ Len(F) \in 1 .. Len(F)
    BY <1>1, StateType, ThreadType
  <2>2. f \in Frame
    BY <2>1, SeqElem
  <2>3. QED
    BY <2>2 DEF Frame
<1>3. FinishPCall(u, t, ok) = v
  BY <1>1 DEF FinishPCall
<1>4. y = FALSE
  BY <1>1 DEF OnlyFrames
<1> HIDE DEF w, x, y
<1>5. /\ v \in State /\ v.cs = w.cs /\ v.wrong = y
      /\ \A z \in Thr : z # t => v.th[z] = w.th[z]
      /\ v.th[t] = [w.th[t] EXCEPT !.errfunc = x]
  <2>1. w \in State /\ w.th \in [Thr -> Thread] /\ w.th[t] \in Thread
    BY <1>1, StateType DEF OnlyFrames
  <2>2. [w.th[t] EXCEPT !.errfunc = x] \in Thread
    BY <2>1, <1>2 DEF Thread
  <2>3. /\ v \in State /\ v.cs = w.cs /\ v.wrong = y
        /\ v.th = [w.th EXCEPT ![t] = [w.th[t] EXCEPT !.errfunc = x]]
    BY <2>1, <2>2, <1>4 DEF State
  <2>4. QED
    BY <2>1, <2>3
<1>6. /\ v.th[t].ci = w.th[t].ci /\ v.th[t].tbc = w.th[t].tbc /\ v.th[t].status = w.th[t].status
      /\ v.th[t].fn = w.th[t].fn /\ v.th[t].ccalls = w.th[t].ccalls /\ v.th[t].nny = w.th[t].nny
  <2>1. w.th[t] \in Thread
    BY <1>1, StateType DEF OnlyFrames
  <2>2. QED
    BY <2>1, <1>5 DEF Thread
<1> HIDE DEF v
<1>7. Finished(u, v, t)
  BY <1>1, <1>4, <1>5, <1>6 DEF Finished, OnlyFrames
<1>8. QED
  BY <1>3, <1>7

(* ... or it ends a protected call that unroll is finishing.               *)
LEMMA CloseFinishOK ==
  ASSUME NEW u, NEW g, Inv(u, g), u.cs # <<>>, NEW t, t = Running(u),
         u.cs[Len(u.cs)].at = "close", Closed(u, t), u.cs[Len(u.cs)].why = "pcallk"
  PROVE  \E g2 : Inv(FinishPCall(Pop(u), t, FALSE), g2)
<1> DEFINE n == Len(u.cs)
           m == n - 1
           F == u.th[t].ci
           l == Len(F)
           T == u.th[t].tbc
           e == u.cs[n]
           c == u.cs[m]
           v == Pop(u)
           w == FinishPCall(v, t, FALSE)
<1>1. /\ Runs(u, g, t) /\ n > 1 /\ m \in 1 .. n /\ m \in Nat /\ m > 0 /\ m + 1 = n
      /\ c.t = t /\ g[n].b = l /\ g[m].p = g[n].p /\ g[m].q = g[n].q
      /\ c.at = "unroll" /\ l > 0 /\ F[l].hit /\ e.slot = F[l].base + 1
  BY CloseTop
<1>2. /\ u \in State /\ ~u.wrong /\ u.th[t].ccalls = g[n].p /\ u.th[t].nny = g[n].q
      /\ n \in Nat /\ l \in Nat /\ t \in Thr /\ u.th[t] \in Thread
  BY <1>1 DEF Runs
<1>3. /\ v \in State /\ v.th = u.th /\ v.wrong = u.wrong
      /\ Len(v.cs) = m /\ \A k \in 1 .. m : v.cs[k] = u.cs[k]
      /\ Cut(u.cs, v.cs, m)
  BY <1>2, PopIs
<1> HIDE DEF v
<1>4. F[l].hit = TRUE /\ F[l].base \in Nat
  <2>1. l \in 1 .. l
    BY <1>1, <1>2
  <2>2. F[l] \in Frame /\ F[l].base \in Nat
    BY <2>1, <1>2, ThreadType
  <2>3. QED
    BY <2>2, <1>1 DEF Frame
<1>5. Finished(v, w, t)
  <2>1. F # <<>>
    BY <1>1, <1>2
  <2>2. v.th[t].ci = F /\ F[Len(F)].hit = TRUE
    BY <1>3, <1>4
  <2> HIDE DEF F
  <2>3. v.th[t].ci # <<>> /\ ~v.wrong /\ FALSE # v.th[t].ci[Len(v.th[t].ci)].hit
    BY <2>1, <2>2, <1>2, <1>3
  <2>4. QED
    BY <2>3, <1>2, <1>3, FinishIs
<1> HIDE DEF w
<1>6. /\ w \in State /\ w.cs = v.cs /\ ~w.wrong
      /\ \A x \in Thr : x # t => w.th[x] = u.th[x]
      /\ w.th[t].tbc = T /\ w.th[t].status = u.th[t].status /\ w.th[t].fn = u.th[t].fn
      /\ w.th[t].ccalls = g[m].p /\ w.th[t].nny = g[m].q
      /\ Len(w.th[t].ci) = l - 1 /\ \A i \in 1 .. l - 1 : w.th[t].ci[i] = F[i]
  BY <1>1, <1>2, <1>3, <1>5 DEF Finished
<1>7. \A j \in 1 .. Len(T) : T[j].slot <= F[l].base
  <2>1. \A j \in 1 .. Len(T) : T[j].slot < e.slot /\ T[j].slot \in Nat
    BY ClosedIs
  <2> HIDE DEF T, l, F, n
  <2>2. QED
    BY <2>1, <1>1, <1>4
<1>8. Closing(u.cs, t) => Closing(w.cs, t)
  <2>1. SUFFICES ASSUME NEW k \in Of(u.cs, t), u.cs[k].at = "close", u.cs[k].why = "closep",
                        u.cs[k].slot = 1
                 PROVE  k \in Of(w.cs, t) /\ w.cs[k] = u.cs[k]
    BY DEF Closing
  <2>2. k \in 1 .. n /\ k # n /\ u.cs[k].t = t
    BY <2>1 DEF Of
  <2>3. k \in 1 .. m
    BY <2>2, <1>2
  <2>4. QED
    BY <2>2, <2>3, <1>3, <1>6 DEF Of
<1>9. Owned(w.th, w.cs, t)
  <2> DEFINE l1 == l - 1
  <2>1. l1 \in 0 .. Len(u.th[t].ci) - 1 /\ l1 + 1 = l
    BY <1>1, <1>2
  <2>2. Len(w.th[t].ci) = l1 /\ \A i \in 1 .. l1 : w.th[t].ci[i] = u.th[t].ci[i]
    BY <1>6
  <2>3. \A j \in 1 .. Len(u.th[t].tbc) : u.th[t].tbc[j].slot <= u.th[t].ci[l1 + 1].base
    BY <2>1, <1>7
  <2>4. w.th[t].tbc = u.th[t].tbc
    BY <1>6
  <2> HIDE DEF l1, l, n, m, F, e, T
  <2>5. QED
    BY <2>1, <2>2, <2>3, <2>4, <1>8, PopOwned
<1>10. Unwinds(u, w, g, t, m)
  <2>1. e.at \notin Msgs \cup {"cfun"}
    BY DEF Msgs
  <2>2. m \in {n - 1, n}
    OBVIOUS
  <2>3. Cut(u.cs, w.cs, m)
    BY <1>3, <1>6 DEF Cut
  <2> HIDE DEF m
  <2>4. QED
    BY <2>1, <2>2, <2>3, <1>1, <1>6 DEF Unwinds
<1>11. QED
  BY <1>9, <1>10, UnwindOK DEF w, v

(* Every step of ilyaF_close keeps the invariant.                          *)
LEMMA CloseStepOK ==
  ASSUME NEW g, Inv(s, g), CloseStep
  PROVE  \E g2 : Inv(s', g2)
<1> DEFINE t == Running(s)
           T == s.th[t].tbc
           e == s.cs[Len(s.cs)]
<1>1. s.cs # <<>> /\ Top(s) = e /\ e.at = "close" /\ e.t = t
  BY InvFacts, StateType DEF CloseStep, Running
<1>2. Runs(s, g, t) /\ e.slot \in Nat /\ e.why \in {"closep", "return", "pcallk"}
  BY <1>1, CloseTop
<1>3. T \in Seq(Variable) /\ Len(T) \in Nat /\ \A j \in 1 .. Len(T) : T[j].slot \in Nat
  BY <1>2, ThreadType DEF Runs
<1>4. T # <<>> => Last(T) = T[Len(T)] /\ T[Len(T)].slot \in Nat
  <2>1. T # <<>> => Len(T) \in 1 .. Len(T)
    BY <1>3
  <2>2. QED
    BY <2>1, <1>3 DEF Last
<1>5. s' = IF T # <<>> /\ Last(T).slot >= e.slot
           THEN CCall([s EXCEPT !.th[t].tbc = Front(T)], t, 1, IF e.yy THEN 0 ELSE 1)
           ELSE IF e.why = "pcallk" THEN FinishPCall(Pop(s), t, FALSE)
           ELSE Pop(s)
  <2>1. [s EXCEPT !.th[t].tbc = Front(@)] = [s EXCEPT !.th[t].tbc = Front(T)]
    OBVIOUS
  <2>2. QED
    BY <2>1, <1>1 DEF CloseStep
<1>6. CASE T # <<>> /\ Last(T).slot >= e.slot
  BY <1>1, <1>5, <1>6, CloseCallsOK
<1>7. CASE ~(T # <<>> /\ Last(T).slot >= e.slot)
  <2>1. Closed(s, t)
    <3>1. ASSUME T # <<>>
          PROVE  T[Len(T)].slot < e.slot
      <4>1. ~(T[Len(T)].slot >= e.slot) /\ T[Len(T)].slot \in Nat
        BY <3>1, <1>4, <1>7
      <4> HIDE DEF T, e
      <4>2. QED
        BY <4>1, <1>2
    <3>2. QED
      BY <3>1 DEF Closed
  <2>2. CASE e.why = "pcallk"
    BY <2>1, <2>2, <1>1, <1>5, <1>7, CloseFinishOK
  <2>3. CASE e.why # "pcallk"
    BY <2>1, <2>3, <1>1, <1>5, <1>7, CloseEndsOK
  <2>4. QED
    BY <2>2, <2>3
<1>8. QED
  BY <1>6, <1>7

-----------------------------------------------------------------------------
(* A C function, but for a protected call with an error, has no variables. *)
LEMMA TopOwnsNone ==
  ASSUME NEW u, NEW g, Inv(u, g), NEW t \in Thr, u.th[t].ci # <<>>,
         u.th[t].ci[Len(u.th[t].ci)].kind # "ilya", ~u.th[t].ci[Len(u.th[t].ci)].hit
  PROVE  \A j \in 1 .. Len(u.th[t].tbc) :
           u.th[t].tbc[j].slot <= u.th[t].ci[Len(u.th[t].ci)].base
<1> DEFINE F == u.th[t].ci
           l == Len(F)
           T == u.th[t].tbc
<1>1. u.th[t] \in Thread /\ Global(u.th, u.cs, g, t)
  BY InvFacts
<1>2. /\ u.th[t] \in Thread /\ Owned(u.th, u.cs, t) /\ FramesOK(F)
      /\ F \in Seq(Frame) /\ l \in Nat
  BY <1>1, ThreadType DEF Global
<1>3. /\ \A i \in 1 .. l : F[i].base \in Nat
      /\ \A j \in 1 .. Len(T) : T[j].slot \in Nat
  BY <1>2, ThreadType
<1>4. l \in 1 .. l
  BY <1>2
<1>5. SUFFICES ASSUME NEW j \in 1 .. Len(T) PROVE T[j].slot <= F[l].base
  OBVIOUS
<1>6. PICK i \in 0 .. l : OwnedBy(F, T[j], i)
  BY <1>2 DEF Owned
<1>7. i # l
  <2>1. CASE i = l
    <3>1. i > 0
      BY <2>1, <1>4
    <3>2. F[l].hit \/ F[l].kind = "ilya"
      BY <2>1, <3>1, <1>6 DEF OwnedBy
    <3>3. QED
      BY <3>2
  <2>2. QED
    BY <2>1
<1>8. i < l /\ i + 1 \in 1 .. l
  BY <1>2, <1>7
<1>9. F[i + 1].base >= T[j].slot
  BY <1>6, <1>8 DEF OwnedBy
<1>10. F[i + 1].base <= F[l].base
  <2>1. CASE i + 1 = l
    BY <2>1, <1>3, <1>4
  <2>2. CASE i + 1 < l
    <3>1. F[i + 1].base < F[l].base
      BY <2>2, <1>2, <1>4, <1>8 DEF FramesOK
    <3>2. F[i + 1].base \in Nat /\ F[l].base \in Nat
      BY <1>3, <1>4, <1>8
    <3> HIDE DEF F, l
    <3>3. QED
      BY <3>1, <3>2
  <2>3. QED
    BY <2>1, <2>2, <1>2, <1>8
<1>11. QED
  <2>1. F[i + 1].base \in Nat /\ F[l].base \in Nat /\ T[j].slot \in Nat
    BY <1>3, <1>4, <1>8
  <2> HIDE DEF F, T, l
  <2>2. QED
    BY <2>1, <1>9, <1>10

(* What unroll knows.                                                      *)
LEMMA UnrollTop ==
  ASSUME NEW u, NEW g, Inv(u, g), u.cs # <<>>, NEW t, t = Running(u),
         u.cs[Len(u.cs)].at = "unroll"
  PROVE  LET n == Len(u.cs)
             m == n - 1
             c == u.cs[m]
         IN /\ Runs(u, g, t) /\ n > 1 /\ m \in 1 .. n /\ m \in Nat /\ m > 0 /\ m + 1 = n
            /\ c.t = t /\ u.cs[n].t = t /\ g[n].b = 0 /\ c.at = "try" /\ c.why = "resume"
            /\ g[m].p = g[n].p /\ g[m].q = g[n].q
<1> DEFINE n == Len(u.cs)
           m == n - 1
           e == u.cs[n]
           c == u.cs[m]
<1>1. Runs(u, g, t)
  BY RunsIs
<1>2. /\ e \in Activation /\ e.t = t /\ n \in Nat /\ n > 0 /\ Local(u.th, u.cs, g, n)
      /\ g[n].p \in Nat /\ g[n].q \in Nat
  BY <1>1 DEF Runs
<1>3. UnrollOK(u.th, u.cs, g, n) /\ Counted(u.th, u.cs, g, n) /\ FirstOK(u.th, u.cs, g, n)
  BY <1>2 DEF Local, Serves
<1>4. e.inc = 0 /\ e.ny = 0
  BY <1>2, ActivationType
<1>5. n > 1 /\ g[n].b = 0 /\ c.at = "try" /\ c.why = "resume"
  BY <1>3 DEF UnrollOK
<1>6. m \in 1 .. n /\ m \in Nat /\ m > 0 /\ m + 1 = n /\ n # 1
  BY <1>2, <1>5
<1>7. c \in Activation /\ g[m].p \in Nat /\ g[m].q \in Nat
  BY <1>6, InvFacts
<1>8. c.t = t
  BY <1>2, <1>3, <1>5 DEF FirstOK
<1>9. g[m].p = g[n].p /\ g[m].q = g[n].q
  <2>1. e = u.cs[n] /\ c = u.cs[n - 1]
    OBVIOUS
  <2> HIDE DEF e, c, n
  <2>2. /\ g[n].p = e.inc + g[n - 1].p
        /\ g[n].q = e.ny + g[n - 1].q
    BY <2>1, <1>2, <1>3, <1>6, <1>8 DEF Counted
  <2>3. QED
    BY <2>2, <1>2, <1>4, <1>7
<1>10. QED
  BY <1>1, <1>2, <1>5, <1>6, <1>8, <1>9

(* unroll returns to ilya_resume.                                          *)
LEMMA UnrollEndsOK ==
  ASSUME NEW u, NEW g, Inv(u, g), u.cs # <<>>, NEW t, t = Running(u),
         u.cs[Len(u.cs)].at = "unroll", u.th[t].ci = <<>>
  PROVE  \E g2 : Inv(Pop(u), g2)
<1> DEFINE n == Len(u.cs)
           m == n - 1
           F == u.th[t].ci
           c == u.cs[m]
           v == Pop(u)
<1>1. /\ Runs(u, g, t) /\ n > 1 /\ m \in 1 .. n /\ m \in Nat /\ m > 0 /\ m + 1 = n
      /\ c.t = t /\ g[n].b = 0 /\ g[m].p = g[n].p /\ g[m].q = g[n].q
      /\ c.at = "try" /\ c.why = "resume"
  BY UnrollTop
<1>2. /\ u \in State /\ ~u.wrong /\ u.th[t].ccalls = g[n].p /\ u.th[t].nny = g[n].q
      /\ Owned(u.th, u.cs, t) /\ n \in Nat
  BY <1>1 DEF Runs, Global
<1>3. /\ v \in State /\ v.th = u.th /\ v.wrong = u.wrong
      /\ Len(v.cs) = m /\ \A k \in 1 .. m : v.cs[k] = u.cs[k]
      /\ Cut(u.cs, v.cs, m)
  BY <1>2, PopIs
<1> HIDE DEF v
<1>4. v.cs[m] = c
  BY <1>1, <1>3
<1>5. Returns(u, v, g, t)
  <2>1. u.cs[n].at \notin Msgs
    BY DEF Msgs
  <2>2. Len(v.th[t].ci) = g[n].b /\ \A i \in 1 .. g[n].b : v.th[t].ci[i] = F[i]
    BY <1>1, <1>3
  <2>3. c.at # "cfun" /\ ~(c.at = "try" /\ c.why = "closep")
    BY <1>1
  <2> HIDE DEF m, F
  <2>4. QED
    BY <2>1, <2>2, <2>3, <1>1, <1>2, <1>3, <1>4 DEF Returns, m, F
<1>6. Owned(v.th, v.cs, t)
  <2>1. Closing(u.cs, t) => Closing(v.cs, t)
    <3>1. SUFFICES ASSUME NEW k \in Of(u.cs, t), u.cs[k].at = "close", u.cs[k].why = "closep",
                          u.cs[k].slot = 1
                   PROVE  k \in Of(v.cs, t) /\ v.cs[k] = u.cs[k]
      BY DEF Closing
    <3>2. k \in 1 .. n /\ k # n /\ u.cs[k].t = t
      BY <3>1 DEF Of
    <3>3. k \in 1 .. m
      BY <3>2, <1>2
    <3>4. QED
      BY <3>2, <3>3, <1>3 DEF Of
  <2>2. QED
    BY <2>1, <1>2, <1>3 DEF Owned
<1>7. QED
  BY <1>5, <1>6, ReturnOK DEF v

(* unroll goes on with an Ilya function.                                   *)
LEMMA UnrollRunsOK ==
  ASSUME NEW u, NEW g, Inv(u, g), u.cs # <<>>, NEW t, t = Running(u),
         u.cs[Len(u.cs)].at = "unroll", u.th[t].ci # <<>>,
         u.th[t].ci[Len(u.th[t].ci)].kind = "ilya"
  PROVE  \E g2 : Inv(Push(u, Exec(t, 0, 0)), g2)
<1> DEFINE n == Len(u.cs)
           c == u.cs[n]
           F == u.th[t].ci
           l == Len(F)
           a == Exec(t, 0, 0)
           u2 == Push(u, a)
           r == [p |-> g[n].p, q |-> g[n].q, b |-> 0]
           g2 == Append(g, r)
<1>1. Runs(u, g, t) /\ g[n].b = 0
  BY UnrollTop
<1>2. /\ n \in Nat /\ n > 0 /\ t \in Thr /\ u \in State /\ ~u.wrong
      /\ g[n].p \in Nat /\ g[n].q \in Nat
      /\ g \in Seq(Ghost) /\ g[n].p < ErrCCalls
      /\ u.th[t].ccalls = g[n].p /\ u.th[t].nny = g[n].q /\ l \in Nat
  BY <1>1 DEF Runs
<1>3. /\ a \in Activation /\ a.at = "exec" /\ a.t = t /\ a.inc = 0 /\ a.ny = 0
  BY <1>2, ExecIs
<1>4. r \in Ghost /\ r.p = a.inc + g[n].p /\ r.q = a.ny + g[n].q /\ r.b = 0
      /\ r.q = g[n].q /\ r.p = g[n].p
  <2>1. 0 + g[n].p = g[n].p /\ 0 + g[n].q = g[n].q
    BY <1>2
  <2> HIDE DEF a, l, n
  <2>2. r \in Ghost
    BY <2>1, <1>2 DEF Ghost
  <2>3. QED
    BY <2>1, <2>2, <1>3
<1>5. l > 0
  BY <1>1, <1>2 DEF Runs
<1> HIDE DEF a, r
<1>6. u2 \in State /\ u2.th = u.th /\ u2.wrong = u.wrong /\ u2.cs = Append(u.cs, a)
  BY <1>2, <1>3, PushFields
<1> HIDE DEF u2
<1>7. Grows(u, u2, g, t, a, r)
  BY <1>1, <1>2, <1>3, <1>4, <1>6 DEF Grows
<1>8. /\ Len(u2.cs) = n + 1 /\ u2.cs[n] = c /\ u2.cs[n + 1] = a /\ g2[n + 1] = r
      /\ End(u2.th, u2.cs, g2, n + 1) = l /\ Fr(u2.th, u2.cs, n + 1) = F
  <2>1. Grown(u, u2, g, g2, t, a, r)
    BY <1>7, GrowKept
  <2>2. n \in 1 .. n
    BY <1>2
  <2>3. QED
    BY <2>1, <2>2, <1>6 DEF Grown
<1>9. F[l].kind = "ilya" /\ c.at = "unroll"
  OBVIOUS
<1> HIDE DEF n, c, F, g2, l
<1>10. ExecOK(u2.th, u2.cs, g2, n + 1)
  <2> DEFINE k == n + 1
  <2>1. k > 1 /\ k - 1 = n
    BY <1>2
  <2>2. u2.cs[k] = a /\ u2.cs[k - 1] = c /\ g2[k].b = 0 /\ End(u2.th, u2.cs, g2, k) = l
        /\ Fr(u2.th, u2.cs, k) = F
    BY <2>1, <1>4, <1>8
  <2> HIDE DEF k
  <2>3. ExecOK(u2.th, u2.cs, g2, k)
    BY <2>1, <2>2, <1>3, <1>5, <1>9 DEF ExecOK
  <2>4. QED
    BY <2>3 DEF k
<1>11. Serves(u2.th, u2.cs, g2, n + 1)
  BY <1>3, <1>8, <1>10 DEF Serves, CloseOK, CFunOK, MsgOK, TryOK, UnrollOK, Msgs
<1>12. Inv(u2, g2)
  BY <1>7, <1>11, GrowOK DEF n, g2
<1>13. QED
  BY <1>12 DEF u2, a

(* unroll finishes a protected call without an error.                      *)
LEMMA UnrollFinishOK ==
  ASSUME NEW u, NEW g, Inv(u, g), u.cs # <<>>, NEW t, t = Running(u),
         u.cs[Len(u.cs)].at = "unroll", u.th[t].ci # <<>>,
         u.th[t].ci[Len(u.th[t].ci)].ypcall,
         ~ErrorStatus(u.th[t].ci[Len(u.th[t].ci)].recst)
  PROVE  \E g2 : Inv(FinishPCall(u, t, TRUE), g2)
<1> DEFINE n == Len(u.cs)
           F == u.th[t].ci
           l == Len(F)
           T == u.th[t].tbc
           w == FinishPCall(u, t, TRUE)
<1>1. Runs(u, g, t)
  BY RunsIs
<1>2. /\ u \in State /\ ~u.wrong /\ u.th[t].ccalls = g[n].p /\ u.th[t].nny = g[n].q
      /\ n \in Nat /\ n > 0 /\ l \in Nat /\ t \in Thr /\ u.th[t] \in Thread
      /\ F \in Seq(Frame) /\ FramesOK(F) /\ u.cs[n].t = t
  BY <1>1 DEF Runs, Global
<1>3. l > 0 /\ l \in 1 .. l /\ F[l] \in Frame
  <2>1. l > 0
    BY <1>2
  <2>2. l \in 1 .. l
    BY <2>1, <1>2
  <2>3. QED
    BY <2>1, <2>2, <1>2, ThreadType
<1>4. ~F[l].hit /\ Protects(F[l]) /\ F[l].kind # "ilya"
  BY <1>2, <1>3 DEF FramesOK, Protects
<1>5. TRUE # F[l].hit
  BY <1>4
<1>6. Finished(u, w, t)
  <2>1. F # <<>> /\ l = Len(F)
    OBVIOUS
  <2> HIDE DEF w, l
  <2>2. w = FinishPCall(u, t, TRUE)
    BY DEF w
  <2>3. u.th[t].ci # <<>> /\ TRUE # u.th[t].ci[Len(u.th[t].ci)].hit
    BY <2>1, <1>5
  <2>4. QED
    BY <2>2, <2>3, <1>2, FinishIs
<1> HIDE DEF w
<1>7. /\ w \in State /\ w.cs = u.cs /\ ~w.wrong
      /\ \A x \in Thr : x # t => w.th[x] = u.th[x]
      /\ w.th[t].tbc = T /\ w.th[t].status = u.th[t].status /\ w.th[t].fn = u.th[t].fn
      /\ w.th[t].ccalls = g[n].p /\ w.th[t].nny = g[n].q
      /\ Len(w.th[t].ci) = l - 1 /\ \A i \in 1 .. l - 1 : w.th[t].ci[i] = F[i]
  BY <1>2, <1>6 DEF Finished
<1>8. \A j \in 1 .. Len(T) : T[j].slot <= F[l].base
  <2>1. t \in Thr
    BY <1>2
  <2>2. QED
    BY <2>1, <1>4, TopOwnsNone
<1>9. Owned(w.th, w.cs, t)
  <2> DEFINE l1 == l - 1
  <2>1. l1 \in 0 .. Len(u.th[t].ci) - 1 /\ l1 + 1 = l
    BY <1>2, <1>3
  <2>2. Len(w.th[t].ci) = l1 /\ \A i \in 1 .. l1 : w.th[t].ci[i] = u.th[t].ci[i]
    BY <1>7
  <2>3. \A j \in 1 .. Len(u.th[t].tbc) : u.th[t].tbc[j].slot <= u.th[t].ci[l1 + 1].base
    BY <2>1, <1>8
  <2>4. w.th[t].tbc = u.th[t].tbc /\ w.cs = u.cs
    BY <1>7
  <2> HIDE DEF l1, l, n, F, T
  <2>5. QED
    BY <2>1, <2>2, <2>3, <2>4, PopOwned, ZenonT(30)
<1>10. Unwinds(u, w, g, t, n)
  <2>1. u.cs[n].at \notin Msgs \cup {"cfun"}
    BY DEF Msgs
  <2>2. n \in {n - 1, n} /\ n \in 1 .. n
    BY <1>2
  <2>3. Cut(u.cs, w.cs, n)
    BY <1>2, <1>7 DEF Cut
  <2> HIDE DEF l
  <2>4. QED
    BY <2>1, <2>2, <2>3, <1>2, <1>3, <1>7 DEF Unwinds, l
<1>11. QED
  BY <1>9, <1>10, UnwindOK DEF w

(* The last frame of a thread that has one.                                *)
LEMMA TopFrameIs ==
  ASSUME NEW u \in State, NEW t \in Thr, u.th[t].ci # <<>>
  PROVE  /\ TopFrame(u, t) = u.th[t].ci[Len(u.th[t].ci)]
         /\ TopFrame(u, t) \in Frame /\ TopFrame(u, t).base \in Nat
         /\ Len(u.th[t].ci) > 0
<1>1. u.th[t].ci \in Seq(Frame)
  BY StateType, ThreadType
<1> DEFINE F == u.th[t].ci
<1> HIDE DEF F
<1>2. Len(F) > 0 /\ Last(F) = F[Len(F)] /\ Last(F) \in Frame
  BY <1>1, SeqFront DEF F
<1>3. QED
  BY <1>2 DEF TopFrame, CI, F, Frame

(* Every step of unroll keeps the invariant.                               *)
LEMMA UnrollStepOK ==
  ASSUME NEW g, Inv(s, g), UnrollStep
  PROVE  \E g2 : Inv(s', g2)
<1> DEFINE t == Running(s)
           F == s.th[t].ci
           f == TopFrame(s, t)
<1>1. s.cs # <<>> /\ s.cs[Len(s.cs)].at = "unroll"
  BY InvFacts, StateType DEF UnrollStep
<1>2. s \in State /\ t \in Thr /\ FramesOK(F) /\ Len(F) \in Nat
  <2>1. Runs(s, g, t)
    BY <1>1, RunsIs
  <2>2. QED
    BY <2>1 DEF Runs, Global
<1>3. CASE F = <<>>
  <2>1. s' = Pop(s)
    BY <1>3 DEF UnrollStep, CI
  <2>2. QED
    BY <2>1, <1>1, <1>3, UnrollEndsOK
<1>4. CASE F # <<>>
  <2>1. f = F[Len(F)] /\ Len(F) > 0 /\ f.base \in Nat
    BY <1>2, <1>4, TopFrameIs
  <2>2. CASE f.kind = "ilya"
    <3>1. s' = Push(s, Exec(t, 0, 0))
      BY <2>2, <1>4 DEF UnrollStep, CI
    <3>2. QED
      BY <3>1, <2>1, <2>2, <1>1, <1>4, UnrollRunsOK
  <2>3. CASE f.kind # "ilya" /\ ErrorStatus(f.recst)
    <3>1. f.ypcall /\ s' = Push(s, Close(t, f.base + 1, TRUE, "pcallk"))
      BY <2>3, <1>4 DEF UnrollStep, CI
    <3>2. f.hit
      <4>1. Len(F) \in 1 .. Len(F)
        BY <1>2, <2>1
      <4>2. QED
        BY <4>1, <3>1, <2>1, <2>3, <1>2 DEF FramesOK
    <3> DEFINE slot == f.base + 1
    <3>3. slot = F[Len(F)].base + 1 /\ slot \in Nat
      BY <2>1
    <3> HIDE DEF slot
    <3>4. MayClose(s, t, slot, "pcallk")
      BY <3>1, <3>2, <3>3, <2>1, <1>1 DEF MayClose
    <3>5. QED
      BY <3>1, <3>4, PushCloseOK DEF slot
  <2>4. CASE f.kind # "ilya" /\ ~ErrorStatus(f.recst)
    <3>1. f.ypcall /\ s' = FinishPCall(s, t, TRUE)
      BY <2>4, <1>4 DEF UnrollStep, CI
    <3>2. QED
      BY <3>1, <2>1, <2>4, <1>1, <1>4, UnrollFinishOK
  <2>5. QED
    BY <2>2, <2>3, <2>4
<1>5. QED
  BY <1>3, <1>4

-----------------------------------------------------------------------------
(* What ilyaG_errormsg knows.                                              *)
LEMMA MsgTop ==
  ASSUME NEW u, NEW g, Inv(u, g), u.cs # <<>>, NEW t, t = Running(u),
         u.cs[Len(u.cs)].at \in Msgs
  PROVE  LET n == Len(u.cs)
             m == n - 1
         IN /\ Runs(u, g, t) /\ n > 1 /\ m \in 1 .. n /\ m \in Nat /\ m > 0 /\ m < n /\ m + 1 = n
            /\ u.cs[m].t = t /\ u.cs[n].t = t /\ g[m].b \in Nat /\ g[m].q \in Nat
            /\ g[m].b <= g[n].b /\ g[m].q <= g[n].q /\ g[n].b = Len(u.th[t].ci)
<1> DEFINE n == Len(u.cs)
           m == n - 1
<1>1. Runs(u, g, t)
  BY RunsIs
<1>2. /\ u.cs[n].t = t /\ n \in Nat /\ n > 0 /\ Local(u.th, u.cs, g, n)
      /\ End(u.th, u.cs, g, n) = Len(u.th[t].ci)
  BY <1>1 DEF Runs
<1>3. MsgOK(u.th, u.cs, g, n) /\ FirstOK(u.th, u.cs, g, n)
  BY <1>2 DEF Local, Serves
<1>4. n > 1 /\ g[n].b = Len(u.th[t].ci)
  BY <1>2, <1>3 DEF MsgOK
<1>5. m \in 1 .. n /\ n \in 1 .. n /\ m \in Nat /\ m > 0 /\ m < n /\ m + 1 = n
  BY <1>2, <1>4
<1>6. u.cs[m].t = t
  BY <1>2, <1>3, <1>4 DEF FirstOK, Msgs
<1>7. g[m].b \in Nat /\ g[m].q \in Nat
  BY <1>5, InvFacts
<1> HIDE DEF m
<1>8. g[m].b <= g[n].b /\ g[m].q <= g[n].q
  BY <1>2, <1>5, <1>6, Contiguous
<1>9. QED
  BY <1>1, <1>2, <1>4, <1>5, <1>6, <1>7, <1>8 DEF m

(* ilyaG_errormsg calls the message handler.                               *)
Handling(u, v) ==
  LET n == Len(u.cs) IN
  /\ v \in State /\ v.th = u.th /\ v.wrong = u.wrong /\ Len(v.cs) = n
  /\ \A k \in 1 .. n : k # n => v.cs[k] = u.cs[k]
  /\ v.cs[n].at = "handling" /\ v.cs[n].t = u.cs[n].t
  /\ v.cs[n].inc = u.cs[n].inc /\ v.cs[n].ny = u.cs[n].ny

(* The activation of ilyaG_errormsg notes that it calls the handler.       *)
LEMMA HandlingIs ==
  ASSUME NEW u \in State, u.cs # <<>>, u.cs[Len(u.cs)].at = "errormsg"
  PROVE  Handling(u, [u EXCEPT !.cs[Len(u.cs)].at = "handling"])
<1> DEFINE n == Len(u.cs)
           a == u.cs[n]
           b == [a EXCEPT !.at = "handling"]
           C == [u.cs EXCEPT ![n] = b]
           v == [u EXCEPT !.cs[n].at = "handling"]
<1>1. u.cs \in Seq(Activation) /\ n \in Nat /\ n \in 1 .. n /\ a \in Activation
  BY StateType
<1>2. b \in Activation /\ b.at = "handling" /\ b.t = a.t /\ b.inc = a.inc /\ b.ny = a.ny
  <2>1. a \in [at : {"exec", "errormsg", "handling"}, t : Thr, inc : {0, 1}, ny : {0, 1}]
    BY <1>1 DEF Activation
  <2>2. b \in [at : {"exec", "errormsg", "handling"}, t : Thr, inc : {0, 1}, ny : {0, 1}]
    BY <2>1
  <2>3. QED
    BY <2>1, <2>2 DEF Activation
<1>3. v = [u EXCEPT !.cs = C]
  OBVIOUS
<1> HIDE DEF b, v
<1>4. C \in Seq(Activation) /\ Len(C) = n /\ \A k \in 1 .. n : C[k] = IF k = n THEN b ELSE u.cs[k]
  BY <1>1, <1>2, SeqPut
<1> HIDE DEF C
<1>5. v \in State /\ v.cs = C /\ v.th = u.th /\ v.wrong = u.wrong
  BY <1>3, <1>4 DEF State
<1>6. Handling(u, v)
  BY <1>1, <1>2, <1>4, <1>5 DEF Handling
<1>7. QED
  BY <1>6 DEF v

(* That keeps the invariant.                                               *)
LEMMA HandlingOK ==
  ASSUME NEW u, NEW g, Inv(u, g), u.cs # <<>>, NEW t, t = Running(u),
         u.cs[Len(u.cs)].at = "errormsg", NEW v, Handling(u, v)
  PROVE  Inv(v, g)
<1> DEFINE n == Len(u.cs)
           m == n - 1
           F == u.th[t].ci
<1>1. /\ Runs(u, g, t) /\ n > 1 /\ m \in 1 .. n /\ m \in Nat /\ m > 0 /\ m < n /\ m + 1 = n
      /\ u.cs[m].t = t /\ u.cs[n].t = t /\ g[m].b \in Nat /\ g[m].q \in Nat
      /\ g[m].b <= g[n].b /\ g[m].q <= g[n].q /\ g[n].b = Len(F)
  BY MsgTop DEF Msgs
<1>2. /\ n \in Nat /\ t \in Thr /\ ~u.wrong /\ g \in Seq(Ghost) /\ Len(g) = n
      /\ Local(u.th, u.cs, g, n) /\ Global(u.th, u.cs, g, t) /\ Len(F) \in Nat
      /\ ~Same(u.cs, n)
  BY <1>1 DEF Runs
<1>3. /\ v \in State /\ v.th = u.th /\ v.wrong = u.wrong /\ Len(v.cs) = n
      /\ \A k \in 1 .. n : k # n => v.cs[k] = u.cs[k]
      /\ v.cs[n].at = "handling" /\ v.cs[n].t = u.cs[n].t
      /\ v.cs[n].inc = u.cs[n].inc /\ v.cs[n].ny = u.cs[n].ny
  BY DEF Handling
<1>4. n \in 1 .. n /\ n # 1 /\ m # n /\ n - 1 = m
  BY <1>1, <1>2
<1>5. \A k \in 1 .. n : v.cs[k].t = u.cs[k].t
  BY <1>3
<1>6. Fr(v.th, v.cs, n) = F /\ Fr(v.th, v.cs, m) = F /\ Fr(u.th, u.cs, n) = F /\ Fr(u.th, u.cs, m) = F
  BY <1>1, <1>3, <1>4, <1>5 DEF Fr
<1>7. /\ End(v.th, v.cs, g, n) = End(u.th, u.cs, g, n)
      /\ End(v.th, v.cs, g, m) = End(u.th, u.cs, g, m)
      /\ Same(u.cs, m) /\ Same(v.cs, m) /\ ~Same(v.cs, n)
  BY <1>1, <1>2, <1>3, <1>4, <1>5, <1>6 DEF End, Same
<1>8. v.cs[m] = u.cs[m]
  BY <1>1, <1>3, <1>4
<1>9. Serves(v.th, v.cs, g, m)
  <2>1. Serves(u.th, u.cs, g, m)
    BY <1>1, InvFacts DEF Local
  <2>2. m > 1 => v.cs[m - 1] = u.cs[m - 1]
    <3>1. m > 1 => m - 1 \in 1 .. n /\ m - 1 # n
      BY <1>1, <1>2
    <3>2. QED
      BY <3>1, <1>3
  <2>3. u.cs[m + 1].at = "errormsg" /\ v.cs[m + 1].at = "handling"
    BY <1>1, <1>3
  <2>4. m # Len(u.cs)
    BY <1>4
  <2> HIDE DEF n, m, F
  <2>5. ExecOK(v.th, v.cs, g, m)
    BY <2>1, <2>2, <2>3, <1>6, <1>7, <1>8 DEF Serves, ExecOK, Msgs
  <2>6. CFunOK(v.th, v.cs, g, m)
    BY <2>1, <2>2, <2>3, <1>3, <1>6, <1>7, <1>8 DEF Serves, CFunOK
  <2>7. TryOK(v.th, v.cs, g, m)
    BY <2>1, <2>2, <2>3, <1>3, <1>6, <1>7, <1>8 DEF Serves, TryOK
  <2>8. CloseOK(v.th, v.cs, g, m)
    BY <2>1, <2>2, <1>6, <1>7, <1>8 DEF Serves, CloseOK
  <2>9. MsgOK(v.th, v.cs, g, m) /\ UnrollOK(v.th, v.cs, g, m)
    BY <2>1, <2>2, <2>4, <1>6, <1>7, <1>8 DEF Serves, MsgOK, UnrollOK
  <2>10. QED
    BY <2>5, <2>6, <2>7, <2>8, <2>9 DEF Serves
<1>10. Local(v.th, v.cs, g, n)
  <2>1. v.cs[n - 1] = u.cs[n - 1]
    BY <1>8
  <2>2. n > 1 /\ u.cs[n].at = "errormsg" /\ u.cs[n - 1].t = u.cs[n].t
    BY <1>1
  <2>3. \A b, c : Called(F, b, c, v.cs[n]) <=> Called(F, b, c, u.cs[n])
    BY <1>3 DEF Called
  <2> HIDE DEF n, m, F
  <2>4. Counted(v.th, v.cs, g, n)
    BY <2>1, <2>2, <1>2, <1>3, <1>7 DEF Local, Counted
  <2>5. FirstOK(v.th, v.cs, g, n)
    BY <2>1, <2>2, <1>3, <1>4 DEF FirstOK
  <2>6. MsgOK(v.th, v.cs, g, n)
    BY <2>1, <2>2, <2>3, <1>2, <1>3, <1>6, <1>7 DEF Local, Serves, MsgOK, Msgs
  <2>7. Serves(v.th, v.cs, g, n)
    BY <2>6, <1>3 DEF Serves, ExecOK, CFunOK, TryOK, CloseOK, UnrollOK
  <2>8. QED
    BY <2>4, <2>5, <2>7 DEF Local
<1>11. Of(v.cs, t) = Of(u.cs, t)
  BY <1>3, <1>5 DEF Of
<1>12. \A k \in Of(u.cs, t) : /\ v.cs[k].at \in Msgs <=> u.cs[k].at \in Msgs
                              /\ v.cs[k].at \notin Msgs => v.cs[k] = u.cs[k]
  BY <1>3 DEF Of, Msgs
<1>13. Adds(u, v, g, g, t, m)
  <2>1. \A k \in m + 1 .. n : k = n
    BY <1>2
  <2>2. \A k \in 1 .. m : k \in 1 .. n /\ k # n
    BY <1>2
  <2>3. m = 1 => v.th[t].ci[1].kind = "pcall" /\ ~v.th[t].ci[1].ypcall
    <3>1. SUFFICES ASSUME m = 1 PROVE F[1].kind = "pcall" /\ ~F[1].ypcall
      BY <1>3
    <3>2. FirstOK(u.th, u.cs, g, 1) /\ Fr(u.th, u.cs, 1) = F
      BY <3>1, <1>1, <1>6, InvFacts DEF Local
    <3>3. QED
      BY <3>2 DEF FirstOK
  <2>4. \A j, k \in m + 1 .. n : ~(j < k)
    BY <1>2
  <2>5. m \in 0 .. Len(u.cs) /\ Len(F) >= g[m].b /\ g[n].b <= Len(F)
    <3>1. m \in 0 .. Len(u.cs)
      BY <1>1, <1>2
    <3> DEFINE x == Len(F)
               y == g[m].b
               z == g[n].b
    <3>2. x \in Nat /\ y \in Nat /\ y <= z /\ z = x
      BY <1>1, <1>2
    <3> HIDE DEF x, y, z
    <3>3. x >= y /\ z <= x
      BY <3>2
    <3>4. QED
      BY <3>1, <3>3 DEF x, y, z
  <2> HIDE DEF m, F
  <2>6. QED
    BY <2>1, <2>2, <2>3, <2>4, <2>5, <1>1, <1>2, <1>3, <1>5 DEF Adds, F
<1>14. \A k \in m + 1 .. Len(v.cs) : Local(v.th, v.cs, g, k)
  <2>1. \A k \in m + 1 .. n : k = n
    BY <1>2
  <2>2. QED
    BY <2>1, <1>3, <1>10
<1>15. FramesOK(v.th[t].ci) /\ StatusOK(v.th, v.cs, t)
  BY <1>2, <1>3, <1>11 DEF Global, StatusOK
<1>16. Backed(v.th, v.cs, g, t)
  <2>1. Backed(u.th, u.cs, g, t)
    BY <1>2 DEF Global
  <2>2. \A k \in Of(u.cs, t) : u.cs[k].at = "cfun" => v.cs[k].at = "cfun"
    BY <1>12 DEF Msgs
  <2> HIDE DEF n, m, F
  <2>3. QED
    BY <2>1, <2>2, <1>3, <1>11, <1>12 DEF Backed
<1>17. Ordered(v.th, v.cs, t)
  <2>1. Ordered(u.th, u.cs, t)
    BY <1>2 DEF Global
  <2>2. \A k \in Of(v.cs, t) : v.cs[k].at = "try" => v.cs[k] = u.cs[k]
    BY <1>11, <1>12 DEF Msgs
  <2>3. QED
    BY <2>1, <2>2, <1>3, <1>11 DEF Ordered
<1>18. Owned(v.th, v.cs, t)
  <2>1. Owned(u.th, u.cs, t)
    BY <1>2 DEF Global
  <2>2. Closing(u.cs, t) => Closing(v.cs, t)
    BY <1>11, <1>12 DEF Closing, Msgs
  <2>3. QED
    BY <2>1, <2>2, <1>3 DEF Owned
<1> HIDE DEF m
<1>19. QED
  BY <1>9, <1>13, <1>14, <1>15, <1>16, <1>17, <1>18, AddOK

(* Every step of ilyaG_errormsg keeps the invariant.                       *)
LEMMA ErrorMsgStepOK ==
  ASSUME NEW g, Inv(s, g), ErrorMsgStep
  PROVE  \E g2 : Inv(s', g2)
<1> DEFINE t == Running(s)
           e == s.cs[Len(s.cs)]
           v == [s EXCEPT !.cs[Len(s.cs)].at = "handling"]
<1>1. s.cs # <<>> /\ Top(s) = e /\ e.at \in Msgs /\ e.t = t
  BY InvFacts, StateType DEF ErrorMsgStep, Running, Msgs
<1>2. Runs(s, g, t) /\ Len(s.cs) > 1 /\ s \in State /\ t \in Thr
  BY <1>1, MsgTop, InvFacts DEF Runs
<1>3. s' = IF e.at = "errormsg" /\ s.th[t].errfunc THEN CCall(v, t, 1, 1) ELSE Throw(s, t, "errrun")
  BY <1>1 DEF ErrorMsgStep
<1> HIDE DEF v
<1>4. CASE e.at = "errormsg" /\ s.th[t].errfunc
  <2>1. Handling(s, v)
    BY <1>1, <1>2, <1>4, HandlingIs DEF v
  <2>2. Inv(v, g)
    BY <2>1, <1>1, <1>4, HandlingOK
  <2>3. v.cs # <<>> /\ Running(v) = t /\ v.cs[Len(v.cs)].at = "handling"
    <3>1. Len(v.cs) = Len(s.cs) /\ v \in State /\ v.cs[Len(s.cs)].t = t
      BY <2>1, <1>1 DEF Handling
    <3>2. v.cs # <<>>
      BY <3>1, <1>2, StateType
    <3>3. QED
      BY <2>1, <3>1, <3>2, StateType DEF Handling
  <2>4. MayCall(v, t, 1, 1)
    <3> DEFINE x == Exec(t, 1, 1)
    <3>1. x.inc = 1 /\ x.ny = 1
      BY <1>2, ExecIs
    <3> HIDE DEF x
    <3>2. Called(v.th[t].ci, Len(v.th[t].ci), v.cs[Len(v.cs)], x)
      BY <3>1, <2>3 DEF Called
    <3>3. QED
      BY <2>3, <3>2 DEF MayCall, x
  <2>5. QED
    BY <2>2, <2>4, <1>3, <1>4, CCallOK
<1>5. CASE ~(e.at = "errormsg" /\ s.th[t].errfunc)
  <2>1. MayThrow(s, t)
    BY <1>1, <1>2 DEF MayThrow, Msgs
  <2>2. "errrun" \in Status /\ ErrorStatus("errrun")
    BY DEF Status, ErrorStatus
  <2>3. QED
    BY <2>1, <2>2, <1>3, <1>5, ThrowOK
<1>6. QED
  BY <1>4, <1>5

-----------------------------------------------------------------------------
(* What a rawrunprotected knows when its function returned.                *)
LEMMA TryTop ==
  ASSUME NEW u, NEW g, Inv(u, g), u.cs # <<>>, NEW t, t = Running(u),
         u.cs[Len(u.cs)].at = "try"
  PROVE  LET n == Len(u.cs)
             m == n - 1
             F == u.th[t].ci
             l == Len(F)
             T == u.th[t].tbc
             e == u.cs[n]
             c == u.cs[m]
         IN /\ Runs(u, g, t) /\ n > 1 /\ m \in 1 .. n /\ m \in Nat /\ m > 0 /\ m < n /\ m + 1 = n
            /\ e.t = t /\ e \in Activation /\ c \in Activation /\ c.at = "cfun"
            /\ g[n].b = l /\ e.level = l /\ e.ccalls = g[n].p /\ e.nny = g[n].q
            /\ c.t = t <=> l > 0
            /\ e.why = "resume" => c.t # t
            /\ e.why # "resume" => e.slot = (IF l = 0 THEN 1 ELSE F[l].base + 1)
            /\ e.why = "pcall" => l > 0 /\ ~F[l].hit /\ c.ok
            /\ e.why = "closep" =>
                 /\ l > 0 => F[l].hit /\ ErrorStatus(e.status)
                 /\ \A j \in 1 .. Len(T) : T[j].slot < e.slot
            /\ l > 0 => Protects(F[l]) /\ ~F[l].ypcall
            /\ c.t = t => g[m].p = g[n].p /\ g[m].q = g[n].q
            /\ e.why \in {"resume", "pcall", "closep"}
<1> DEFINE n == Len(u.cs)
           m == n - 1
           F == u.th[t].ci
           l == Len(F)
           T == u.th[t].tbc
           e == u.cs[n]
           c == u.cs[m]
<1>1. Runs(u, g, t)
  BY RunsIs
<1>2. /\ e \in Activation /\ e.t = t /\ n \in Nat /\ n > 0 /\ Local(u.th, u.cs, g, n)
      /\ Fr(u.th, u.cs, n) = F /\ End(u.th, u.cs, g, n) = l /\ ~Same(u.cs, n)
      /\ g[n].p \in Nat /\ g[n].q \in Nat
  BY <1>1 DEF Runs
<1>3. TryOK(u.th, u.cs, g, n) /\ Counted(u.th, u.cs, g, n)
  BY <1>2 DEF Local, Serves
<1>4. e.why \in {"resume", "pcall", "closep"} /\ e.ny = 0
  BY <1>2, ActivationType
<1>5. n > 1
  BY <1>3 DEF TryOK
<1>6. m \in 1 .. n /\ m \in Nat /\ m > 0 /\ m < n /\ m + 1 = n /\ n # 1
  BY <1>2, <1>5
<1>7. c \in Activation /\ g[m].p \in Nat /\ g[m].q \in Nat
  BY <1>6, InvFacts
<1>8. e.ccalls = g[n].p /\ e.nny = g[n].q
  BY <1>3 DEF Counted
<1>9. /\ c.at = "cfun" /\ g[n].b = l /\ e.level = l
      /\ c.t = t <=> l > 0
      /\ e.why = "resume" => c.t # t
      /\ e.why # "resume" => e.slot = (IF l = 0 THEN 1 ELSE F[l].base + 1)
      /\ e.why = "pcall" => l > 0 /\ ~F[l].hit /\ c.ok
      /\ e.why = "closep" =>
           /\ l > 0 => F[l].hit /\ ErrorStatus(e.status)
           /\ \A j \in 1 .. Len(T) : T[j].slot < e.slot
      /\ l > 0 => Protects(F[l]) /\ ~F[l].ypcall
      /\ e.inc = IF e.why = "resume" THEN 1 ELSE 0
  <2>1. /\ u.cs[n] = e /\ u.cs[n - 1] = c /\ T = u.th[e.t].tbc /\ e.at = "try"
    BY <1>2
  <2> HIDE DEF n, l, F, c, T, e
  <2>2. QED
    BY <2>1, <1>2, <1>3 DEF TryOK
<1>10. c.t = t => g[m].p = g[n].p /\ g[m].q = g[n].q
  <2>1. e = u.cs[n] /\ c = u.cs[n - 1]
    OBVIOUS
  <2> HIDE DEF e, c, n
  <2>2. ASSUME c.t = t
        PROVE  /\ g[n].p = e.inc + g[n - 1].p
               /\ g[n].q = e.ny + g[n - 1].q
    BY <2>1, <2>2, <1>2, <1>3, <1>6 DEF Counted
  <2>3. c.t = t => e.inc = 0
    BY <1>9
  <2>4. QED
    BY <2>2, <2>3, <1>2, <1>4, <1>7
<1>11. QED
  BY <1>1, <1>2, <1>4, <1>5, <1>6, <1>7, <1>8, <1>9, <1>10

(* The state after the return; 'ok' for the C function below is anything   *)
(* but what its protected call made of it.                                 *)
Unprotects(u, v, t) ==
  LET n == Len(u.cs)
      m == n - 1
      e == u.cs[n]
      c == v.cs[m]
  IN /\ v \in State /\ v.wrong = u.wrong /\ Cut(u.cs, v.cs, m)
     /\ \A x \in Thr : x # t => v.th[x] = u.th[x]
     /\ v.th[t].ci = u.th[t].ci /\ v.th[t].tbc = u.th[t].tbc
     /\ v.th[t].status = u.th[t].status /\ v.th[t].fn = u.th[t].fn
     /\ v.th[t].ccalls = e.ccalls /\ v.th[t].nny = e.nny
     /\ e.why = "closep" => c.ok = (e.status = "ok")
     /\ e.why # "closep" => c = u.cs[m]

(* That is the state.                                                      *)
LEMMA UnprotectsIs ==
  ASSUME NEW u, NEW g, Inv(u, g), u.cs # <<>>, NEW t, t = Running(u),
         u.cs[Len(u.cs)].at = "try"
  PROVE  LET e == u.cs[Len(u.cs)]
             v == [Pop(u) EXCEPT !.th[t].ccalls = e.ccalls, !.th[t].nny = e.nny]
         IN Unprotects(u, IF e.why = "closep" THEN ResumeDone(v, e.status = "ok") ELSE v, t)
<1> DEFINE n == Len(u.cs)
           m == n - 1
           e == u.cs[n]
           c == u.cs[m]
           x == Pop(u)
           v == [x EXCEPT !.th[t].ccalls = e.ccalls, !.th[t].nny = e.nny]
           ok == (e.status = "ok")
           w == ResumeDone(v, ok)
<1>1. /\ Runs(u, g, t) /\ m \in 1 .. n /\ m \in Nat /\ m > 0 /\ c.at = "cfun"
      /\ e.ccalls = g[n].p /\ e.nny = g[n].q
  BY TryTop
<1>2. u \in State /\ t \in Thr /\ e.ccalls \in Nat /\ e.nny \in Nat
  BY <1>1 DEF Runs
<1>3. /\ x \in State /\ x.th = u.th /\ x.wrong = u.wrong
      /\ Len(x.cs) = m /\ \A k \in 1 .. m : x.cs[k] = u.cs[k]
      /\ Cut(u.cs, x.cs, m)
  BY <1>2, PopIs
<1> HIDE DEF x
<1>4. Recounted(x, v, t, e.ccalls, e.nny)
  BY <1>2, <1>3, RecountIs
<1> HIDE DEF v
<1>5. /\ v \in State /\ v.cs = x.cs /\ v.wrong = u.wrong
      /\ \A y \in Thr : y # t => v.th[y] = u.th[y]
      /\ v.th[t].ci = u.th[t].ci /\ v.th[t].tbc = u.th[t].tbc
      /\ v.th[t].status = u.th[t].status /\ v.th[t].fn = u.th[t].fn
      /\ v.th[t].ccalls = e.ccalls /\ v.th[t].nny = e.nny
  BY <1>3, <1>4 DEF Recounted
<1>6. m \in 1 .. m /\ v.cs[m] = c /\ Len(v.cs) = m
  BY <1>1, <1>3, <1>5
<1>7. CASE e.why # "closep"
  <2>1. Unprotects(u, v, t)
    BY <1>3, <1>5, <1>6, <1>7 DEF Unprotects
  <2>2. QED
    BY <2>1, <1>7 DEF v, x
<1>8. CASE e.why = "closep"
  <2>1. ok \in BOOLEAN
    OBVIOUS
  <2>2. v.cs # <<>> /\ v.cs[Len(v.cs)].at = "cfun"
    BY <1>1, <1>5, <1>6, StateType
  <2> HIDE DEF ok, w
  <2>3. Done(v, w) /\ w.cs[m].ok = ok
    BY <2>1, <2>2, <1>5, <1>6, ResumeDoneIs DEF w
  <2>4. /\ w \in State /\ w.th = v.th /\ w.wrong = v.wrong /\ Len(w.cs) = m
        /\ \A k \in 1 .. m - 1 : w.cs[k] = v.cs[k]
        /\ w.cs[m].t = c.t /\ w.cs[m].at = "cfun"
    BY <2>3, <1>6 DEF Done
  <2>5. Cut(u.cs, w.cs, m)
    <3>1. \A k \in 1 .. m - 1 : k \in 1 .. m
      BY <1>1
    <3>2. \A k \in 1 .. m - 1 : w.cs[k] = u.cs[k]
      BY <3>1, <2>4, <1>3, <1>5
    <3> HIDE DEF m
    <3>3. QED
      BY <3>2, <2>4, <1>1 DEF Cut
  <2>6. Unprotects(u, w, t)
    BY <2>3, <2>4, <2>5, <1>5, <1>8 DEF Unprotects, ok
  <2>7. QED
    BY <2>6, <1>8 DEF w, v, x, ok
<1>9. QED
  BY <1>7, <1>8

(* A protected call of this thread is done.                                *)
LEMMA TryReturnsHere ==
  ASSUME NEW u, NEW g, Inv(u, g), u.cs # <<>>, NEW t, t = Running(u),
         u.cs[Len(u.cs)].at = "try", u.th[t].ci # <<>>, NEW v, Unprotects(u, v, t)
  PROVE  \E g2 : Inv(v, g2)
<1> DEFINE n == Len(u.cs)
           m == n - 1
           F == u.th[t].ci
           l == Len(F)
           T == u.th[t].tbc
           e == u.cs[n]
           c == u.cs[m]
           d == v.cs[m]
<1>1. /\ Runs(u, g, t) /\ n > 1 /\ m \in 1 .. n /\ m \in Nat /\ m > 0 /\ m < n /\ m + 1 = n
      /\ e.t = t /\ e.why \in {"resume", "pcall", "closep"} /\ c.at = "cfun"
      /\ g[n].b = l /\ e.ccalls = g[n].p /\ e.nny = g[n].q
      /\ c.t = t <=> l > 0
      /\ e.why = "resume" => c.t # t
      /\ e.why # "resume" => e.slot = (IF l = 0 THEN 1 ELSE F[l].base + 1)
      /\ e.why = "pcall" => l > 0 /\ ~F[l].hit /\ c.ok
      /\ e.why = "closep" =>
           /\ l > 0 => F[l].hit /\ ErrorStatus(e.status)
           /\ \A j \in 1 .. Len(T) : T[j].slot < e.slot
      /\ l > 0 => Protects(F[l]) /\ ~F[l].ypcall
      /\ c.t = t => g[m].p = g[n].p /\ g[m].q = g[n].q
  BY TryTop
<1>2. /\ u \in State /\ ~u.wrong /\ t \in Thr /\ n \in Nat /\ l \in Nat
      /\ u.th[t] \in Thread /\ Owned(u.th, u.cs, t)
  BY <1>1 DEF Runs, Global
<1>3. l > 0 /\ l \in 1 .. l
  <2>1. l > 0
    BY <1>2
  <2>2. QED
    BY <2>1, <1>2
<1>4. /\ v \in State /\ v.wrong = u.wrong /\ Cut(u.cs, v.cs, m)
      /\ \A x \in Thr : x # t => v.th[x] = u.th[x]
      /\ v.th[t].ci = F /\ v.th[t].tbc = T
      /\ v.th[t].status = u.th[t].status /\ v.th[t].fn = u.th[t].fn
      /\ v.th[t].ccalls = e.ccalls /\ v.th[t].nny = e.nny
      /\ e.why = "closep" => d.ok = (e.status = "ok")
      /\ e.why # "closep" => d = c
  BY DEF Unprotects
<1>5. d.at = "cfun"
  BY <1>1, <1>4 DEF Cut
<1>6. Protects(F[l]) => (d.ok <=> ~F[l].hit)
  <2>1. CASE e.why = "pcall"
    <3>1. c.ok /\ ~F[l].hit /\ d = c
      BY <2>1, <1>1, <1>4
    <3> HIDE DEF c, d, l, F
    <3>2. QED
      BY <3>1
  <2>2. CASE e.why = "closep"
    <3>1. F[l].hit /\ ErrorStatus(e.status) /\ d.ok = (e.status = "ok")
      BY <2>2, <1>1, <1>3, <1>4
    <3>2. e.status # "ok"
      BY <3>1 DEF ErrorStatus
    <3> HIDE DEF e, d, l, F
    <3>3. ~d.ok
      BY <3>1, <3>2
    <3>4. QED
      BY <3>1, <3>3
  <2>3. QED
    BY <2>1, <2>2, <1>1, <1>3
<1>7. F[l].hit => \A j \in 1 .. Len(T) : T[j].slot <= F[l].base
  <2>1. SUFFICES ASSUME F[l].hit, NEW j \in 1 .. Len(T) PROVE T[j].slot <= F[l].base
    OBVIOUS
  <2>2. e.why = "closep"
    BY <2>1, <1>1, <1>3
  <2>3. T[j].slot < e.slot /\ e.slot = F[l].base + 1
    BY <2>2, <1>1, <1>3
  <2>4. T[j].slot \in Nat /\ F[l].base \in Nat
    BY <1>2, <1>3, ThreadType
  <2> HIDE DEF T, F, l, e
  <2>5. QED
    BY <2>3, <2>4
<1>8. Returns(u, v, g, t)
  <2>1. e.at \notin Msgs
    BY DEF Msgs
  <2>2. c.t = t /\ ~F[l].ypcall
    BY <1>1, <1>3
  <2>3. g[n].b = l /\ v.th[t].ccalls = g[m].p /\ v.th[t].nny = g[m].q
    BY <2>2, <1>1, <1>4
  <2> HIDE DEF l
  <2>4. Len(v.th[t].ci) = g[n].b /\ \A i \in 1 .. g[n].b : v.th[t].ci[i] = F[i]
    BY <2>3, <1>4 DEF l
  <2> DEFINE b == g[n].b
  <2>5. /\ F[b].ypcall => d.ok
        /\ Protects(F[b]) => (d.ok <=> ~F[b].hit)
        /\ F[b].hit => \A j \in 1 .. Len(v.th[t].tbc) : v.th[t].tbc[j].slot <= F[b].base
        /\ d.at # "try"
    BY <2>2, <2>3, <1>4, <1>5, <1>6, <1>7
  <2> HIDE DEF m, F, T, b
  <2>6. QED
    BY <2>1, <2>2, <2>3, <2>4, <2>5, <1>1, <1>2, <1>4 DEF Returns, m, F, b
<1>9. Owned(v.th, v.cs, t)
  <2>1. Closing(u.cs, t) => Closing(v.cs, t)
    <3>1. SUFFICES ASSUME NEW k \in Of(u.cs, t), u.cs[k].at = "close", u.cs[k].why = "closep",
                          u.cs[k].slot = 1
                   PROVE  k \in Of(v.cs, t) /\ v.cs[k] = u.cs[k]
      BY DEF Closing
    <3>2. k \in 1 .. n /\ k # n /\ u.cs[k].t = t
      BY <3>1 DEF Of
    <3>3. k \in 1 .. m /\ k # m
      BY <3>1, <3>2, <1>1, <1>2
    <3>4. k \in 1 .. m - 1
      BY <3>3, <1>1
    <3>5. v.cs[k] = u.cs[k] /\ Len(v.cs) = m
      BY <3>4, <1>4 DEF Cut
    <3>6. QED
      BY <3>2, <3>3, <3>5 DEF Of
  <2>2. QED
    BY <2>1, <1>2, <1>4 DEF Owned
<1>10. QED
  BY <1>8, <1>9, ReturnOK

(* A thread has ended, or all its variables are closed.                    *)
LEMMA TryReturnsAway ==
  ASSUME NEW u, NEW g, Inv(u, g), u.cs # <<>>, NEW t, t = Running(u),
         u.cs[Len(u.cs)].at = "try", u.th[t].ci = <<>>, NEW v, Unprotects(u, v, t)
  PROVE  \E g2 : Inv(v, g2)
<1> DEFINE n == Len(u.cs)
           m == n - 1
           T == u.th[t].tbc
           e == u.cs[n]
           c == u.cs[m]
<1>1. /\ Runs(u, g, t) /\ n > 1 /\ m \in 1 .. n /\ m \in Nat /\ m > 0 /\ m < n /\ m + 1 = n
      /\ e.t = t /\ e.why \in {"resume", "pcall", "closep"} /\ c.at = "cfun" /\ c.t # t
      /\ e.why # "resume" => e.slot = 1
      /\ e.why = "pcall" => FALSE
      /\ e.why = "closep" => \A j \in 1 .. Len(T) : T[j].slot < e.slot
  BY TryTop
<1>2. /\ u \in State /\ ~u.wrong /\ t \in Thr /\ n \in Nat
      /\ u.th[t] \in Thread /\ Owned(u.th, u.cs, t)
      /\ u.th[t].status = "ok" /\ ~u.th[t].fn
  BY <1>1 DEF Runs, Global
<1>3. /\ v \in State /\ v.wrong = u.wrong /\ Cut(u.cs, v.cs, m)
      /\ \A x \in Thr : x # t => v.th[x] = u.th[x]
      /\ v.th[t].ci = <<>> /\ v.th[t].tbc = T
      /\ v.th[t].status = "ok" /\ ~v.th[t].fn
  BY <1>2 DEF Unprotects
<1>4. \A k \in 1 .. m : u.cs[k].t # t
  <2>1. SUFFICES ASSUME NEW k \in 1 .. m, u.cs[k].t = t PROVE FALSE
    OBVIOUS
  <2>2. k \in 1 .. n /\ n \in 1 .. n /\ k < n /\ m \in k .. n
    BY <1>1, <1>2
  <2> HIDE DEF m, n
  <2>3. u.cs[m].t = t
    BY <2>1, <2>2, <1>1, Contiguous DEF n
  <2>4. QED
    BY <2>3, <1>1
<1>5. T = <<>>
  <2>1. T \in Seq(Variable) /\ Len(T) \in Nat /\ \A j \in 1 .. Len(T) : T[j].slot \in Nat
    BY <1>2, ThreadType
  <2>2. \A j \in 1 .. Len(T) : FALSE
    <3>1. SUFFICES ASSUME NEW j \in 1 .. Len(T) PROVE FALSE
      OBVIOUS
    <3>2. T[j].slot > 0
      BY <1>2 DEF Owned
    <3>3. CASE e.why = "closep"
      <4>1. T[j].slot < 1 /\ T[j].slot \in Nat
        BY <3>3, <1>1, <2>1
      <4> HIDE DEF T
      <4>2. QED
        BY <3>2, <4>1
    <3>4. CASE e.why # "closep"
      <4>1. \E i \in 0 .. 0 : i = 0 => Closing(u.cs, t)
        BY <1>2 DEF Owned
      <4>2. Closing(u.cs, t)
        BY <4>1
      <4>3. PICK k \in Of(u.cs, t) : u.cs[k].at = "close"
        BY <4>2 DEF Closing
      <4>4. k \in 1 .. n /\ k # n /\ u.cs[k].t = t
        BY <4>3 DEF Of
      <4>5. k \in 1 .. m
        BY <4>4, <1>2
      <4>6. QED
        BY <4>4, <4>5, <1>4
    <3>5. QED
      BY <3>3, <3>4
  <2> HIDE DEF T
  <2>3. Len(T) = 0
    <3>1. ~(Len(T) > 0)
      <4>1. Len(T) > 0 => 1 \in 1 .. Len(T)
        BY <2>1
      <4>2. QED
        BY <4>1, <2>2
    <3>2. QED
      BY <3>1, <2>1
  <2>4. QED
    BY <2>1, <2>3
<1>6. Leaves(u, v, t, m)
  <2>1. \A k \in m + 1 .. Len(u.cs) : u.cs[k].t = t
    <3>1. \A k \in m + 1 .. n : k = n
      BY <1>2
    <3>2. QED
      BY <3>1, <1>1
  <2> HIDE DEF m
  <2>2. QED
    BY <2>1, <1>1, <1>2, <1>3, <1>4 DEF Leaves
<1>7. FramesOK(v.th[t].ci) /\ \A g2 : Backed(v.th, v.cs, g2, t)
  BY <1>3 DEF FramesOK, Backed
<1>8. Owned(v.th, v.cs, t)
  BY <1>3, <1>5 DEF Owned
<1>9. QED
  BY <1>3, <1>5, <1>6, <1>7, <1>8, LeaveOK

(* The return of every rawrunprotected keeps the invariant.                *)
LEMMA TryReturnsOK ==
  ASSUME NEW g, Inv(s, g), TryReturns
  PROVE  \E g2 : Inv(s', g2)
<1> DEFINE t == Running(s)
           e == s.cs[Len(s.cs)]
           v == [Pop(s) EXCEPT !.th[t].ccalls = e.ccalls, !.th[t].nny = e.nny]
           w == IF e.why = "closep" THEN ResumeDone(v, e.status = "ok") ELSE v
<1>1. s.cs # <<>> /\ Top(s) = e /\ e.at = "try" /\ e.t = t
  BY InvFacts, StateType DEF TryReturns, Running
<1>2. s' = w
  BY <1>1 DEF TryReturns
<1>3. Unprotects(s, w, t)
  BY <1>1, UnprotectsIs
<1> HIDE DEF w
<1>4. CASE s.th[t].ci = <<>>
  BY <1>1, <1>2, <1>3, <1>4, TryReturnsAway
<1>5. CASE s.th[t].ci # <<>>
  BY <1>1, <1>2, <1>3, <1>5, TryReturnsHere
<1>6. QED
  BY <1>4, <1>5

-----------------------------------------------------------------------------
(* What a C function knows when its callee returned.                       *)
LEMMA CFunTop ==
  ASSUME NEW u, NEW g, Inv(u, g), u.cs # <<>>, NEW t, t = Running(u),
         u.cs[Len(u.cs)].at = "cfun"
  PROVE  LET n == Len(u.cs)
             m == n - 1
             F == u.th[t].ci
             l == Len(F)
             T == u.th[t].tbc
             e == u.cs[n]
         IN /\ Runs(u, g, t) /\ e.t = t /\ e \in Activation /\ e.ok \in BOOLEAN /\ e.co \in Thr
            /\ g[n].b + 1 = l /\ l > 0 /\ l \in 1 .. l /\ F # <<>> /\ F[l] \in Frame
            /\ F[l].kind \in CKinds \ {"yield"}
            /\ Protects(F[l]) => (e.ok <=> ~F[l].hit)
            /\ \A j \in 1 .. Len(T) : T[j].slot <= F[l].base
            /\ n = 1 => t = Main /\ l = 1 /\ g[n].p = 0 /\ g[n].q = 1
            /\ n > 1 => /\ m \in 1 .. n /\ m \in Nat /\ m > 0 /\ m < n /\ m + 1 = n
                        /\ u.cs[m].at = "exec" /\ u.cs[m].t = t
                        /\ g[m].p = g[n].p /\ g[m].q = g[n].q
<1> DEFINE n == Len(u.cs)
           m == n - 1
           F == u.th[t].ci
           l == Len(F)
           T == u.th[t].tbc
           e == u.cs[n]
           c == u.cs[m]
<1>1. Runs(u, g, t)
  BY RunsIs
<1>2. /\ e \in Activation /\ e.t = t /\ n \in Nat /\ n > 0 /\ Local(u.th, u.cs, g, n)
      /\ Fr(u.th, u.cs, n) = F /\ End(u.th, u.cs, g, n) = l /\ ~Same(u.cs, n)
      /\ g[n].p \in Nat /\ g[n].q \in Nat /\ g[n].b \in Nat /\ l \in Nat
      /\ u.th[t] \in Thread /\ F \in Seq(Frame) /\ FramesOK(F)
  BY <1>1 DEF Runs, Global
<1>3. CFunOK(u.th, u.cs, g, n) /\ Counted(u.th, u.cs, g, n) /\ FirstOK(u.th, u.cs, g, n)
  BY <1>2 DEF Local, Serves
<1>4. e.ok \in BOOLEAN /\ e.co \in Thr /\ e.inc = 0 /\ e.ny = 0
  BY <1>2, ActivationType
<1>5. /\ l = g[n].b + 1 /\ F[l].kind \in CKinds \ {"yield"}
      /\ n > 1 => c.at = "exec"
      /\ F[l].ypcall => ~F[l].hit /\ e.ok
      /\ Protects(F[l]) => (e.ok <=> ~F[l].hit)
      /\ F[l].hit => \A j \in 1 .. Len(T) : T[j].slot <= F[l].base
  <2>1. /\ u.cs[n] = e /\ u.cs[n - 1] = c /\ T = u.th[e.t].tbc /\ e.at = "cfun"
    BY <1>2
  <2> HIDE DEF n, l, F, c, T, e
  <2>2. QED
    BY <2>1, <1>2, <1>3 DEF CFunOK
<1>6. g[n].b + 1 = l /\ l > 0 /\ l \in 1 .. l /\ F # <<>>
  <2>1. l > 0
    <3> HIDE DEF n
    <3>1. QED
      BY <1>2, <1>5
  <2>2. g[n].b + 1 = l
    BY <1>5
  <2>3. F # <<>>
    BY <2>1
  <2> HIDE DEF l, F
  <2>4. l \in 1 .. l
    BY <2>1, <1>2
  <2>5. QED
    BY <2>1, <2>2, <2>3, <2>4
<1>7. F[l] \in Frame
  BY <1>2, <1>6, ThreadType
<1>8. \A j \in 1 .. Len(T) : T[j].slot <= F[l].base
  <2>1. CASE F[l].hit
    BY <2>1, <1>5
  <2>2. CASE ~F[l].hit
    <3>1. F[l].kind # "ilya"
      BY <1>5 DEF CKinds
    <3>2. t \in Thr
      BY <1>1 DEF Runs
    <3>3. QED
      BY <2>2, <3>1, <3>2, <1>6, TopOwnsNone
  <2>3. QED
    BY <2>1, <2>2
<1>9. ASSUME n = 1
      PROVE  t = Main /\ l = 1 /\ g[n].p = 0 /\ g[n].q = 1
  <2>1. u.cs[1].t = Main /\ g[1].b = 0
    BY <1>3, <1>9 DEF FirstOK
  <2>2. g[1].p = e.inc + 0 /\ g[1].q = e.ny + 1
    BY <1>3, <1>9 DEF Counted
  <2>3. QED
    BY <2>1, <2>2, <1>2, <1>4, <1>5, <1>9
<1>10. ASSUME n > 1
       PROVE  /\ m \in 1 .. n /\ m \in Nat /\ m > 0 /\ m < n /\ m + 1 = n
              /\ c.at = "exec" /\ c.t = t
              /\ g[m].p = g[n].p /\ g[m].q = g[n].q
  <2>1. m \in 1 .. n /\ m \in Nat /\ m > 0 /\ m < n /\ m + 1 = n /\ n # 1
    BY <1>2, <1>10
  <2>2. c.at = "exec"
    BY <1>5, <1>10
  <2>3. c.t = t
    BY <1>2, <1>3, <1>10 DEF FirstOK
  <2>4. g[m].p \in Nat /\ g[m].q \in Nat
    BY <2>1, InvFacts
  <2>5. e = u.cs[n] /\ c = u.cs[n - 1]
    OBVIOUS
  <2> HIDE DEF e, c, n
  <2>6. /\ g[n].p = e.inc + g[n - 1].p
        /\ g[n].q = e.ny + g[n - 1].q
    BY <2>1, <2>3, <2>5, <1>2, <1>3 DEF Counted
  <2>7. QED
    BY <2>1, <2>2, <2>3, <2>4, <2>6, <1>4
<1>11. QED
  BY <1>1, <1>2, <1>4, <1>5, <1>6, <1>7, <1>8, <1>9, <1>10

(* It returns.                                                             *)
LeavesCFun(u, v, t) ==
  LET n == Len(u.cs)
      F == u.th[t].ci
      F2 == v.th[t].ci
  IN /\ v \in State /\ ~v.wrong /\ Len(v.cs) = n - 1 /\ \A k \in 1 .. n - 1 : v.cs[k] = u.cs[k]
     /\ \A x \in Thr : x # t => v.th[x] = u.th[x]
     /\ v.th[t].tbc = u.th[t].tbc /\ v.th[t].status = u.th[t].status
     /\ v.th[t].fn = u.th[t].fn
     /\ v.th[t].ccalls = u.th[t].ccalls /\ v.th[t].nny = u.th[t].nny
     /\ Len(F2) = Len(F) - 1 /\ \A i \in 1 .. Len(F) - 1 : F2[i] = F[i]

(* Its frame had no variables, or another frame has them now.              *)
LEMMA LeavesCFunOwned ==
  ASSUME NEW u, NEW g, Inv(u, g), u.cs # <<>>, NEW t, t = Running(u),
         u.cs[Len(u.cs)].at = "cfun", NEW v, LeavesCFun(u, v, t)
  PROVE  Owned(v.th, v.cs, t)
<1> DEFINE n == Len(u.cs)
           m == n - 1
           F == u.th[t].ci
           l == Len(F)
           T == u.th[t].tbc
           l1 == l - 1
<1>1. /\ Runs(u, g, t) /\ l > 0 /\ \A j \in 1 .. Len(T) : T[j].slot <= F[l].base
  BY CFunTop
<1>2. n \in Nat /\ l \in Nat
  BY <1>1 DEF Runs
<1>3. Closing(u.cs, t) => Closing(v.cs, t)
  <2>1. SUFFICES ASSUME NEW k \in Of(u.cs, t), u.cs[k].at = "close", u.cs[k].why = "closep",
                        u.cs[k].slot = 1
                 PROVE  k \in Of(v.cs, t) /\ v.cs[k] = u.cs[k]
    BY DEF Closing
  <2>2. k \in 1 .. n /\ k # n /\ u.cs[k].t = t
    BY <2>1 DEF Of
  <2>3. k \in 1 .. m
    BY <2>2, <1>2
  <2>4. QED
    BY <2>2, <2>3 DEF Of, LeavesCFun
<1>4. l1 \in 0 .. Len(u.th[t].ci) - 1 /\ l1 + 1 = l
  BY <1>1, <1>2
<1>5. Len(v.th[t].ci) = l1 /\ \A i \in 1 .. l1 : v.th[t].ci[i] = u.th[t].ci[i]
  BY DEF LeavesCFun
<1>6. \A j \in 1 .. Len(u.th[t].tbc) : u.th[t].tbc[j].slot <= u.th[t].ci[l1 + 1].base
  BY <1>1, <1>4
<1>7. v.th[t].tbc = u.th[t].tbc
  BY DEF LeavesCFun
<1> HIDE DEF l1, l, n, m, F, T
<1>8. QED
  BY <1>3, <1>4, <1>5, <1>6, <1>7, PopOwned

(* The return of a C function keeps the invariant.                         *)
LEMMA LeavesCFunOK ==
  ASSUME NEW u, NEW g, Inv(u, g), u.cs # <<>>, NEW t, t = Running(u),
         u.cs[Len(u.cs)].at = "cfun", NEW v, LeavesCFun(u, v, t)
  PROVE  \E g2 : Inv(v, g2)
<1> DEFINE n == Len(u.cs)
           m == n - 1
           F == u.th[t].ci
           l == Len(F)
           T == u.th[t].tbc
<1>1. /\ Runs(u, g, t) /\ u.cs[n].t = t
      /\ g[n].b + 1 = l /\ l > 0
      /\ n = 1 => t = Main /\ l = 1 /\ g[n].p = 0 /\ g[n].q = 1
      /\ n > 1 => /\ m \in 1 .. n /\ m \in Nat /\ m > 0 /\ m < n /\ m + 1 = n
                  /\ u.cs[m].at = "exec" /\ u.cs[m].t = t
                  /\ g[m].p = g[n].p /\ g[m].q = g[n].q
  BY CFunTop
<1>2. /\ u \in State /\ ~u.wrong /\ u.th[t].ccalls = g[n].p /\ u.th[t].nny = g[n].q
      /\ n \in Nat /\ n > 0 /\ l \in Nat /\ t \in Thr /\ g[n].b \in Nat
      /\ u.th[t].status = "ok" /\ ~u.th[t].fn /\ g \in Seq(Ghost) /\ Len(g) = n
  BY <1>1 DEF Runs
<1>3. /\ v \in State /\ ~v.wrong /\ Len(v.cs) = m /\ \A k \in 1 .. m : v.cs[k] = u.cs[k]
      /\ \A x \in Thr : x # t => v.th[x] = u.th[x]
      /\ v.th[t].tbc = T /\ v.th[t].status = u.th[t].status
      /\ v.th[t].fn = u.th[t].fn
      /\ v.th[t].ccalls = u.th[t].ccalls /\ v.th[t].nny = u.th[t].nny
      /\ Len(v.th[t].ci) = l - 1 /\ \A i \in 1 .. l - 1 : v.th[t].ci[i] = F[i]
  BY DEF LeavesCFun
<1>4. Owned(v.th, v.cs, t)
  BY LeavesCFunOwned
<1>5. Cut(u.cs, v.cs, m)
  <2>1. (m > 0 => m \in 1 .. m) /\ \A k \in 1 .. m - 1 : k \in 1 .. m
    BY <1>2
  <2> HIDE DEF m
  <2>2. QED
    BY <2>1, <1>3 DEF Cut
<1>6. CASE n > 1
  <2>1. Returns(u, v, g, t)
    <3>1. u.cs[n].at \notin Msgs
      BY DEF Msgs
    <3>2. l - 1 = g[n].b
      <4> HIDE DEF n, l
      <4>1. QED
        BY <1>1, <1>2
    <3>3. m \in 1 .. m /\ v.cs[m].at = "exec"
      <4>1. m \in 1 .. m
        BY <1>1, <1>6
      <4>2. QED
        BY <4>1, <1>1, <1>3, <1>6
    <3> HIDE DEF l
    <3>4. Len(v.th[t].ci) = g[n].b /\ \A i \in 1 .. g[n].b : v.th[t].ci[i] = F[i]
      BY <3>2, <1>3 DEF l
    <3> HIDE DEF m, F
    <3>5. QED
      BY <3>1, <3>3, <3>4, <1>1, <1>2, <1>3, <1>5, <1>6 DEF Returns, m, F
  <2>2. QED
    BY <2>1, <1>4, ReturnOK
<1>7. CASE n = 1
  <2> DEFINE g2 == SubSeq(g, 1, 0)
  <2>1. g2 \in Seq(Ghost) /\ Len(g2) = 0
    <3>1. 0 \in 0 .. Len(g)
      BY <1>2
    <3>2. QED
      BY <3>1, <1>2, SeqCut
  <2> HIDE DEF g2
  <2>2. m = 0 /\ t = Main /\ l = 1
    BY <1>1, <1>2, <1>7
  <2>3. v.th[t].ci = <<>> /\ v.cs = <<>>
    <3>1. Len(v.th[t].ci) = 0 /\ Len(v.cs) = 0
      BY <2>2, <1>2, <1>3
    <3>2. v.th[t].ci \in Seq(Frame) /\ v.cs \in Seq(Activation)
      BY <1>2, <1>3, StateType, ThreadType
    <3>3. QED
      BY <3>1, <3>2
  <2>4. Of(v.cs, t) = {}
    BY <2>3 DEF Of
  <2>5. v.th[t].tbc = <<>>
    <3>1. \A j \in 1 .. Len(T) : FALSE
      <4>1. SUFFICES ASSUME NEW j \in 1 .. Len(T) PROVE FALSE
        OBVIOUS
      <4>2. \E i \in 0 .. 0 : i = 0 => Closing(v.cs, t)
        BY <4>1, <2>3, <1>3, <1>4 DEF Owned
      <4>3. Closing(v.cs, t)
        BY <4>2
      <4>4. QED
        BY <4>3, <2>4 DEF Closing
    <3>2. T \in Seq(Variable) /\ Len(T) \in Nat
      BY <1>2, StateType, ThreadType
    <3> HIDE DEF T
    <3>3. ~(Len(T) > 0)
      <4>1. Len(T) > 0 => 1 \in 1 .. Len(T)
        BY <3>2
      <4>2. QED
        BY <4>1, <3>1
    <3>4. T = <<>>
      BY <3>2, <3>3
    <3>5. QED
      BY <3>4, <1>3
  <2>6. Cuts(u, v, g, g2, t, 0)
    <3>1. \A k \in 0 + 1 .. Len(u.cs) : u.cs[k].t = t
      BY <1>1, <1>7
    <3>2. 0 \in 0 .. Len(u.cs) /\ 0 < Len(u.cs) /\ Cut(u.cs, v.cs, 0)
      BY <2>2, <1>2, <1>5
    <3>3. QED
      BY <3>1, <3>2, <2>1, <1>2, <1>3 DEF Cuts
  <2>7. FramesOK(v.th[t].ci) /\ Backed(v.th, v.cs, g2, t) /\ Ordered(v.th, v.cs, t)
    BY <2>3, <2>4 DEF FramesOK, Backed, Ordered
  <2>8. StatusOK(v.th, v.cs, t)
    BY <2>2, <2>3, <2>4, <2>5, <1>1, <1>2, <1>3, <1>7 DEF StatusOK
  <2>9. Inv(v, g2)
    BY <2>6, <2>7, <2>8, <1>4, CutOK
  <2>10. QED
    BY <2>9
<1> HIDE DEF n
<1>8. n = 1 \/ n > 1
  BY <1>2
<1>9. QED
  BY <1>6, <1>7, <1>8

(* A C function that is no protected call leaves its frame.                *)
LEMMA PopsCFun ==
  ASSUME NEW u, NEW g, Inv(u, g), u.cs # <<>>, NEW t, t = Running(u),
         u.cs[Len(u.cs)].at = "cfun"
  PROVE  LeavesCFun(u, PopFrame(Pop(u), t), t)
<1> DEFINE n == Len(u.cs)
           F == u.th[t].ci
           x == Pop(u)
           v == PopFrame(x, t)
<1>1. Runs(u, g, t) /\ F # <<>>
  BY CFunTop
<1>2. u \in State /\ ~u.wrong /\ t \in Thr
  BY <1>1 DEF Runs
<1>3. /\ x \in State /\ x.th = u.th /\ x.wrong = u.wrong
      /\ Len(x.cs) = n - 1 /\ \A k \in 1 .. n - 1 : x.cs[k] = u.cs[k]
  BY <1>2, PopIs
<1> HIDE DEF x
<1>4. /\ OnlyFrames(x, v, t) /\ Len(v.th[t].ci) = Len(F) - 1
      /\ \A i \in 1 .. Len(F) - 1 : v.th[t].ci[i] = F[i]
  <2>1. x.th[t].ci = F
    BY <1>3
  <2> HIDE DEF F
  <2>2. QED
    BY <2>1, <1>1, <1>2, <1>3, PopFrameIs
<1> HIDE DEF v
<1>5. LeavesCFun(u, v, t)
  BY <1>2, <1>3, <1>4 DEF LeavesCFun, OnlyFrames
<1>6. QED
  BY <1>5 DEF v, x

(* A protected call returns the right result.                              *)
LEMMA FinishesCFun ==
  ASSUME NEW u, NEW g, Inv(u, g), u.cs # <<>>, NEW t, t = Running(u),
         u.cs[Len(u.cs)].at = "cfun", Protects(u.th[t].ci[Len(u.th[t].ci)])
  PROVE  LeavesCFun(u, FinishPCall(Pop(u), t, u.cs[Len(u.cs)].ok), t)
<1> DEFINE n == Len(u.cs)
           F == u.th[t].ci
           x == Pop(u)
           ok == u.cs[n].ok
           v == FinishPCall(x, t, ok)
<1>1. /\ Runs(u, g, t) /\ F # <<>> /\ ok \in BOOLEAN /\ (ok <=> ~F[Len(F)].hit)
      /\ F[Len(F)] \in Frame
  BY CFunTop
<1>2. u \in State /\ ~u.wrong /\ t \in Thr
  BY <1>1 DEF Runs
<1>3. /\ x \in State /\ x.th = u.th /\ x.wrong = u.wrong
      /\ Len(x.cs) = n - 1 /\ \A k \in 1 .. n - 1 : x.cs[k] = u.cs[k]
  BY <1>2, PopIs
<1> HIDE DEF x, ok
<1>4. ok # F[Len(F)].hit
  <2> HIDE DEF F
  <2>1. QED
    BY <1>1
<1>5. Finished(x, v, t)
  <2>1. x.th[t].ci # <<>> /\ ok # x.th[t].ci[Len(x.th[t].ci)].hit /\ ~x.wrong
    BY <1>1, <1>2, <1>3, <1>4
  <2>2. QED
    BY <2>1, <1>1, <1>2, <1>3, FinishIs
<1> HIDE DEF v
<1>6. LeavesCFun(u, v, t)
  BY <1>2, <1>3, <1>5 DEF LeavesCFun, Finished
<1>7. QED
  BY <1>6 DEF v, x, ok

-----------------------------------------------------------------------------
(* A thread that resumed another one has its frames, and no error.         *)
LEMMA OnStack ==
  ASSUME NEW u, NEW g, Inv(u, g), u.cs # <<>>, NEW t, t = Running(u),
         NEW co \in Thr, co # t, Of(u.cs, co) # {}
  PROVE  u.th[co].ci # <<>> /\ u.th[co].status = "ok" /\ ~u.th[co].fn
<1> DEFINE n == Len(u.cs)
           K == Of(u.cs, co)
           F == u.th[co].ci
<1>1. Runs(u, g, t)
  BY RunsIs
<1>2. n \in Nat /\ u.cs[n].t = t /\ n > 0
  BY <1>1 DEF Runs
<1>3. K \subseteq 0 .. n /\ K \in SUBSET (0 .. n)
  BY <1>2 DEF Of
<1>4. PICK k \in K : \A j \in K : j <= k
  <2>1. Max(K) \in K /\ \A j \in K : Max(K) >= j
    BY <1>2, <1>3, MaxIn
  <2>2. \A j \in K : Max(K) \in 0 .. n /\ j \in 0 .. n
    BY <2>1, <1>3
  <2>3. \A j \in K : j <= Max(K)
    BY <2>1, <2>2, <1>2
  <2>4. QED
    BY <2>1, <2>3
<1>5. k \in 1 .. n /\ u.cs[k].t = co /\ k # n
  BY <1>2, <1>4 DEF Of
<1>6. k + 1 \in 1 .. n /\ k + 1 > 1 /\ (k + 1) - 1 = k /\ ~(k + 1 <= k) /\ k \in Nat
  BY <1>2, <1>5
<1>7. u.cs[k + 1].t # co
  BY <1>4, <1>6 DEF Of
<1>8. u.cs[k].at = "cfun"
  <2>1. FirstOK(u.th, u.cs, g, k + 1)
    BY <1>6, InvFacts DEF Local
  <2>2. QED
    BY <2>1, <1>5, <1>6, <1>7 DEF FirstOK
<1>9. ~Same(u.cs, k) /\ Fr(u.th, u.cs, k) = F /\ End(u.th, u.cs, g, k) = Len(F)
  BY <1>5, <1>7 DEF Same, Fr, End
<1>10. Len(F) = g[k].b + 1 /\ g[k].b \in Nat
  <2>1. CFunOK(u.th, u.cs, g, k) /\ g[k].b \in Nat
    BY <1>5, InvFacts DEF Local, Serves
  <2> HIDE DEF F, K
  <2>2. QED
    BY <2>1, <1>8, <1>9 DEF CFunOK
<1>11. F # <<>>
  BY <1>10
<1>12. u.th[co].status = "ok" /\ ~u.th[co].fn
  <2>1. StatusOK(u.th, u.cs, co)
    BY InvFacts DEF Global
  <2>2. QED
    BY <2>1 DEF StatusOK
<1>13. QED
  BY <1>11, <1>12

(* The thread co gets new counts and status.                               *)
Resets(u, w, co, p) ==
  /\ w \in State /\ w.cs = u.cs /\ w.wrong = u.wrong
  /\ \A x \in Thr : x # co => w.th[x] = u.th[x]
  /\ w.th[co].ccalls = p /\ w.th[co].nny = 0
  /\ w.th[co].status = "ok" /\ ~w.th[co].fn
  /\ w.th[co].ci = u.th[co].ci /\ w.th[co].tbc = u.th[co].tbc

(* ilyaE_resetthread sets counts and status.                               *)
LEMMA ResetsIs ==
  ASSUME NEW u \in State, NEW co \in Thr, NEW p \in Nat
  PROVE  Resets(u, [u EXCEPT !.th[co].ccalls = p, !.th[co].nny = 0,
                             !.th[co].status = "ok", !.th[co].fn = FALSE], co, p)
<1> DEFINE h == u.th[co]
           k == [h EXCEPT !.ccalls = p, !.nny = 0, !.status = "ok", !.fn = FALSE]
           w == [u EXCEPT !.th[co].ccalls = p, !.th[co].nny = 0,
                          !.th[co].status = "ok", !.th[co].fn = FALSE]
<1>1. u.th \in [Thr -> Thread] /\ h \in Thread
  BY StateType
<1>2. /\ k \in Thread /\ k.ccalls = p /\ k.nny = 0 /\ k.status = "ok" /\ ~k.fn
      /\ k.ci = h.ci /\ k.tbc = h.tbc
  <2> HIDE DEF h
  <2>1. QED
    BY <1>1 DEF Thread, Status
<1>3. w = [u EXCEPT !.th = [u.th EXCEPT ![co] = k]]
  BY <1>1 DEF State
<1> HIDE DEF k, w
<1>4. w \in State /\ w.cs = u.cs /\ w.wrong = u.wrong /\ w.th = [u.th EXCEPT ![co] = k]
  BY <1>1, <1>2, <1>3 DEF State
<1>5. w.th[co] = k /\ \A x \in Thr : x # co => w.th[x] = u.th[x]
  BY <1>1, <1>4
<1>6. Resets(u, w, co, p)
  BY <1>2, <1>4, <1>5 DEF Resets
<1>7. QED
  BY <1>6 DEF w

(* ilya_closethread, called for a thread that is not on the C stack.       *)
LEMMA CloseThreadOK ==
  ASSUME NEW u, NEW g, Inv(u, g), u.cs # <<>>, NEW t, t = Running(u),
         u.cs[Len(u.cs)].at = "cfun", ~Protects(u.th[t].ci[Len(u.th[t].ci)]),
         NEW co \in Thr, Of(u.cs, co) = {}
  PROVE  \E g2 : Inv(CloseThread(u, t, co), g2)
<1> DEFINE n == Len(u.cs)
           p == u.th[t].ccalls
           st == u.th[co].status
           st2 == IF st = "yield" THEN "ok" ELSE st
           w == [u EXCEPT !.th[co].ccalls = p, !.th[co].nny = 0,
                          !.th[co].status = "ok", !.th[co].fn = FALSE]
<1>1. Runs(u, g, t)
  BY RunsIs
<1>2. /\ u \in State /\ ~u.wrong /\ t \in Thr /\ n \in Nat /\ n > 0 /\ n \in 1 .. n
      /\ p = g[n].p /\ p \in Nat /\ Fr(u.th, u.cs, n) = u.th[t].ci
  BY <1>1 DEF Runs
<1>3. Resets(u, w, co, p)
  <2> HIDE DEF p
  <2>1. QED
    BY <1>2, ResetsIs
<1> HIDE DEF w
<1>4. \A k \in 1 .. n : u.cs[k].t # co
  BY DEF Of
<1>5. Jumped(u, w, co, n)
  <2>1. \A k \in n + 1 .. Len(u.cs) : FALSE
    BY <1>2
  <2>2. QED
    BY <2>1, <1>2, <1>3 DEF Jumped, Resets
<1>6. Catches(u, w, g, co, n, 0)
  <2>1. Len(u.th[co].ci) \in Nat
    BY <1>2, StateType, ThreadType
  <2>2. 0 \in 0 .. Len(u.th[co].ci)
    BY <2>1
  <2> HIDE DEF n, p
  <2>3. QED
    BY <2>2, <1>2, <1>3, <1>4 DEF Catches, Resets
<1>7. st2 \in Status
  <2>1. st \in Status
    BY <1>2, StateType, ThreadType
  <2>2. QED
    BY <2>1 DEF Status
<1> HIDE DEF st2
<1>8. \E g2 : Inv(CloseProtected(w, co, 0, 1, st2), g2)
  BY <1>5, <1>6, <1>7, CloseProtectedOK
<1>9. CloseThread(u, t, co) = CloseProtected(w, co, 0, 1, st2)
  BY DEF CloseThread, w, st2
<1>10. QED
  BY <1>8, <1>9

(* What a C function does after its call keeps the invariant.              *)
LEMMA CFunReturnsOK ==
  ASSUME NEW g, Inv(s, g), CFunReturns
  PROVE  \E g2 : Inv(s', g2)
<1> DEFINE t == Running(s)
           e == s.cs[Len(s.cs)]
           F == s.th[t].ci
           f == TopFrame(s, t)
           co == e.co
<1>1. s.cs # <<>> /\ Top(s) = e /\ e.at = "cfun" /\ e.t = t
  BY InvFacts, StateType DEF CFunReturns, Running
<1>2. /\ Runs(s, g, t) /\ e.ok \in BOOLEAN /\ co \in Thr /\ F # <<>> /\ Len(F) > 0
      /\ F[Len(F)].kind \in CKinds \ {"yield"}
  BY <1>1, CFunTop
<1>3. f = F[Len(F)]
  BY <1>2, TopFrameIs DEF Runs
<1>4. s' = IF Protects(f) THEN FinishPCall(Pop(s), t, e.ok)
           ELSE IF f.kind # "wrap" \/ e.ok THEN PopFrame(Pop(s), t)
           ELSE IF ErrorStatus(s.th[co].status) THEN CloseThread(s, t, co)
           ELSE RunError(s, t)
  BY <1>1 DEF CFunReturns
<1>5. CASE Protects(f)
  <2>1. LeavesCFun(s, s', t)
    BY <1>1, <1>3, <1>4, <1>5, FinishesCFun
  <2>2. QED
    BY <2>1, <1>1, LeavesCFunOK
<1>6. CASE ~Protects(f) /\ (f.kind # "wrap" \/ e.ok)
  <2>1. LeavesCFun(s, s', t)
    BY <1>1, <1>4, <1>6, PopsCFun
  <2>2. QED
    BY <2>1, <1>1, LeavesCFunOK
<1>7. CASE ~Protects(f) /\ ~(f.kind # "wrap" \/ e.ok) /\ ErrorStatus(s.th[co].status)
  <2>1. Of(s.cs, co) = {}
    <3>1. StatusOK(s.th, s.cs, co)
      BY <1>2, InvFacts DEF Global
    <3>2. s.th[co].status # "ok"
      BY <1>7 DEF ErrorStatus
    <3>3. QED
      BY <3>1, <3>2 DEF StatusOK
  <2>2. s' = CloseThread(s, t, co)
    BY <1>4, <1>7
  <2> HIDE DEF co
  <2>3. QED
    BY <2>1, <2>2, <1>1, <1>2, <1>3, <1>7, CloseThreadOK
<1>8. CASE ~Protects(f) /\ ~(f.kind # "wrap" \/ e.ok) /\ ~ErrorStatus(s.th[co].status)
  <2>1. s' = RunError(s, t)
    BY <1>4, <1>8
  <2>2. QED
    BY <2>1, <1>1, <1>2, <1>3, <1>8, RunErrorOK
<1>9. QED
  BY <1>5, <1>6, <1>7, <1>8

-----------------------------------------------------------------------------
(* What Enter returned in: a C function on top of the C stack.             *)
InCFun(u, t, kind) ==
  LET F == u.th[t].ci IN
  /\ u.cs # <<>> /\ t = Running(u) /\ u.cs[Len(u.cs)].at = "cfun"
  /\ Len(F) > 0 /\ F # <<>> /\ F[Len(F)].kind = kind

(* coroutine.close.                                                        *)
LEMMA CoCloseOK ==
  ASSUME NEW u, NEW g, Inv(u, g), NEW t, InCFun(u, t, "close"), NEW co \in Thr
  PROVE  \E g2 : Inv(CoClose(u, t, co), g2)
<1> DEFINE F == u.th[t].ci
           aux == AuxStatus(u, t, co)
<1>1. u.cs # <<>> /\ t = Running(u) /\ u.cs[Len(u.cs)].at = "cfun" /\ F[Len(F)].kind = "close" /\ Len(F) > 0
  BY DEF InCFun
<1>2. CASE aux \in {"dead", "suspended"}
  <2>1. co # t
    BY <1>2 DEF AuxStatus
  <2>2. Of(u.cs, co) = {}
    <3> SUFFICES ASSUME Of(u.cs, co) # {} PROVE FALSE
      OBVIOUS
    <3>1. u.cs # <<>> /\ t = Running(u)
      BY <1>1
    <3>2. u.th[co].ci # <<>> /\ u.th[co].status = "ok"
      <4> HIDE DEF F, aux
      <4> QED
        BY <3>1, <2>1, OnStack, SMTT(20)
    <3>3. QED
      BY <3>2, <2>1, <1>2 DEF AuxStatus
  <2>3. ~Protects(F[Len(F)])
    BY <1>1 DEF Protects
  <2>4. CoClose(u, t, co) = CloseThread(u, t, co)
    BY <1>2 DEF CoClose
  <2>5. QED
    BY <2>2, <2>3, <2>4, <1>1, CloseThreadOK
<1>3. CASE aux \notin {"dead", "suspended"}
  <2>1. CoClose(u, t, co) = RunError(u, t)
    BY <1>3 DEF CoClose
  <2>2. QED
    BY <2>1, <1>1, RunErrorOK
<1>4. QED
  BY <1>2, <1>3

(* A resume that cannot be done.                                           *)
LEMMA ResumeFailsOK ==
  ASSUME NEW u, NEW g, Inv(u, g), u.cs # <<>>, NEW t, t = Running(u),
         u.cs[Len(u.cs)].at = "cfun", ~Protects(u.th[t].ci[Len(u.th[t].ci)])
  PROVE  \E g2 : Inv(ResumeDone(u, FALSE), g2)
<1> DEFINE n == Len(u.cs)
           F == u.th[t].ci
           v == ResumeDone(u, FALSE)
<1>1. Runs(u, g, t) /\ Len(F) > 0 /\ Len(F) \in 1 .. Len(F)
  BY CFunTop
<1>2. /\ n \in Nat /\ n > 0 /\ n \in 1 .. n /\ u.cs[n].t = t /\ ~u.wrong /\ u \in State
      /\ u.th[t].ccalls = g[n].p /\ u.th[t].nny = g[n].q
      /\ Local(u.th, u.cs, g, n) /\ Global(u.th, u.cs, g, t)
      /\ Fr(u.th, u.cs, n) = F /\ End(u.th, u.cs, g, n) = Len(F) /\ ~Same(u.cs, n)
      /\ g[n].b <= Len(F)
  BY <1>1 DEF Runs
<1>3. Done(u, v)
  BY <1>2, ResumeDoneIs
<1> HIDE DEF v
<1>4. /\ v \in State /\ v.th = u.th /\ v.wrong = u.wrong /\ Len(v.cs) = n
      /\ \A k \in 1 .. n - 1 : v.cs[k] = u.cs[k]
      /\ v.cs[n].t = u.cs[n].t /\ v.cs[n].at = "cfun"
  BY <1>3 DEF Done
<1>5. Cut(u.cs, v.cs, n)
  BY <1>4 DEF Cut
<1>6. \A k \in 1 .. n : v.cs[k].t = u.cs[k].t /\ v.cs[k].at = u.cs[k].at
                        /\ (u.cs[k].at # "cfun" => v.cs[k] = u.cs[k])
  <2>1. \A k \in 1 .. n : k = n \/ k \in 1 .. n - 1
    BY <1>2
  <2>2. QED
    BY <2>1, <1>4
<1>7. Of(v.cs, t) = Of(u.cs, t)
  BY <1>4, <1>6 DEF Of
<1>8. Backs(u, v, g, t, n)
  <2>1. n = 1 => F[1].kind = "pcall" /\ ~F[1].ypcall
    <3>1. ASSUME n = 1
          PROVE  F[1].kind = "pcall" /\ ~F[1].ypcall
      <4>1. FirstOK(u.th, u.cs, g, n)
        BY <1>2 DEF Local
      <4>2. QED
        BY <4>1, <3>1, <1>2 DEF FirstOK
    <3>2. QED
      BY <3>1
  <2> HIDE DEF F
  <2>2. QED
    BY <2>1, <1>2, <1>4, <1>5 DEF Backs, F
<1>9. Serves(v.th, v.cs, g, n)
  <2>1. CFunOK(u.th, u.cs, g, n)
    BY <1>2 DEF Local, Serves
  <2>2. ~F[Len(F)].ypcall /\ ~F[Len(F)].hit
    BY <1>1, <1>2 DEF Global, FramesOK
  <2>3. /\ Fr(v.th, v.cs, n) = F /\ ~Same(v.cs, n) /\ End(v.th, v.cs, g, n) = Len(F)
    BY <1>2, <1>4 DEF Fr, Same, End
  <2>4. n > 1 => v.cs[n - 1] = u.cs[n - 1]
    <3>1. n > 1 => n - 1 \in 1 .. n - 1
      BY <1>2
    <3>2. QED
      BY <3>1, <1>4
  <2>5. ~Protects(F[Len(F)])
    OBVIOUS
  <2>6. u.cs[n].at = "cfun"
    OBVIOUS
  <2> HIDE DEF n, F
  <2>7. CFunOK(v.th, v.cs, g, n)
    BY <2>1, <2>2, <2>3, <2>4, <2>5, <2>6, <1>2 DEF CFunOK
  <2>8. QED
    BY <2>7, <1>4 DEF Serves, ExecOK, TryOK, CloseOK, MsgOK, UnrollOK, Msgs
<1>10. FramesOK(v.th[t].ci) /\ Backed(v.th, v.cs, g, t) /\ Ordered(v.th, v.cs, t)
  <2>1. FramesOK(u.th[t].ci) /\ Backed(u.th, u.cs, g, t) /\ Ordered(u.th, u.cs, t)
    BY <1>2 DEF Global
  <2>2. \A k \in Of(u.cs, t) : v.cs[k].at = u.cs[k].at /\ (u.cs[k].at # "cfun" => v.cs[k] = u.cs[k])
    BY <1>6 DEF Of
  <2>3. QED
    BY <2>1, <2>2, <1>4, <1>7, SMTT(20) DEF Backed, Ordered
<1>11. Owned(v.th, v.cs, t)
  <2>1. Owned(u.th, u.cs, t)
    BY <1>2 DEF Global
  <2>2. Closing(u.cs, t) => Closing(v.cs, t)
    BY <1>6, <1>7 DEF Closing, Of
  <2>3. QED
    BY <2>1, <2>2, <1>4 DEF Owned
<1>12. Inv(v, SubSeq(g, 1, n))
  BY <1>8, <1>9, <1>10, <1>11, BackOK
<1>13. QED
  BY <1>12 DEF v

=============================================================================
