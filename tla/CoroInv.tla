------------------------------ MODULE CoroInv ------------------------------
(***************************************************************************)
(* The inductive invariant of Coro.  The code relies on it but keeps no    *)
(* record of it: which activation of the C stack serves which frame.  A    *)
(* ghost sequence g, parallel to the C stack, tells for every activation   *)
(*   p  the calls counted in nCcalls up to it                              *)
(*   q  those of them in its thread that cannot yield                      *)
(*   b  the frames of its thread below the ones that it serves             *)
(* The activations of a thread are contiguous, and an activation serves    *)
(* the frames after b and up to the b of the next one of its thread (End). *)
(***************************************************************************)
EXTENDS Coro

Ghost == [p : Nat, q : Nat, b : Nat]

Msgs == {"errormsg", "handling"}
Of(cs, t) == {k \in 1 .. Len(cs) : cs[k].t = t}
Same(cs, k) == k < Len(cs) /\ cs[k + 1].t = cs[k].t
Fr(th, cs, k) == th[cs[k].t].ci
End(th, cs, g, k) == IF Same(cs, k) THEN g[k + 1].b ELSE Len(Fr(th, cs, k))

-----------------------------------------------------------------------------
(* Every activation k.                                                     *)

(* The counts; a rawrunprotected saved those of its caller.                *)
Counted(th, cs, g, k) ==
  /\ g[k].p = cs[k].inc + IF k = 1 THEN 0 ELSE g[k - 1].p
  /\ g[k].q = cs[k].ny + IF k = 1 THEN 1 ELSE IF cs[k - 1].t # cs[k].t THEN 0 ELSE g[k - 1].q
  /\ g[k].p < ErrCCalls
  /\ cs[k].at = "try" => cs[k].ccalls = g[k].p /\ cs[k].nny = g[k].q
  /\ ~Same(cs, k) => th[cs[k].t].ccalls = g[k].p /\ th[cs[k].t].nny = g[k].q

(* What can call the Ilya function of activation a: the activation c, with *)
(* b frames of the thread F so far.                                        *)
Called(F, b, c, a) ==
  \/ c.at = "cfun" /\ b > 0 /\ F[b].kind = "cfun" /\ a.inc = 1 /\ a.ny = 1
  \/ c.at = "cfun" /\ b > 0 /\ Protects(F[b]) /\ F[b].ypcall /\ a.inc = 1 /\ a.ny = 0
  \/ c.at = "try" /\ c.why = "pcall" /\ a.inc = 1 /\ a.ny = 1
  \/ c.at = "try" /\ c.why = "resume" /\ a.inc = 0 /\ a.ny = 0
  \/ c.at = "close" /\ a.inc = 1 /\ a.ny = IF c.yy THEN 0 ELSE 1
  \/ c.at = "handling" /\ a.inc = 1 /\ a.ny = 1

(* The first activation of all is the host's protected call, the first of  *)
(* another thread a protection, called by a C function.                    *)
FirstOK(th, cs, g, k) ==
  /\ k = 1 => /\ cs[1].t = Main /\ cs[1].at = "cfun" /\ g[1].b = 0
              /\ Fr(th, cs, 1)[1].kind = "pcall" /\ ~Fr(th, cs, 1)[1].ypcall
  /\ k > 1 /\ cs[k - 1].t # cs[k].t =>
       /\ cs[k].at = "try" /\ cs[k].why \in {"resume", "closep"} /\ cs[k].level = 0
       /\ cs[k - 1].at = "cfun"

(* ilyaV_execute runs its fresh frame and those called from it; only a     *)
(* yield that fails leaves a frame that is not Ilya's.                     *)
ExecOK(th, cs, g, k) ==
  LET F == Fr(th, cs, k)
      b == g[k].b
      e == End(th, cs, g, k)
  IN cs[k].at = "exec" =>
     /\ k > 1 /\ b < e
     /\ IF cs[k - 1].at = "unroll" THEN b = 0 /\ cs[k].inc = 0 /\ cs[k].ny = 0
        ELSE /\ Called(F, b, cs[k - 1], cs[k])
             /\ F[b + 1].fresh /\ \A i \in b + 2 .. e : ~F[i].fresh
     /\ F[e].kind = "ilya" \/ (F[e].kind = "yield" /\ Same(cs, k) /\ cs[k + 1].at \in Msgs)

(* A C function has one frame.  A protected call is protected by its       *)
(* resume or by the next activation; when that is gone, 'ok' tells whether *)
(* an error came, and the variables above it are closed.                   *)
CFunOK(th, cs, g, k) ==
  LET F == Fr(th, cs, k)
      e == End(th, cs, g, k)
      T == th[cs[k].t].tbc
  IN cs[k].at = "cfun" =>
     /\ e = g[k].b + 1 /\ F[e].kind \in CKinds \ {"yield"}
     /\ k > 1 => cs[k - 1].at = "exec"
     /\ F[e].ypcall => ~F[e].hit /\ cs[k].ok
     /\ Protects(F[e]) =>
          IF Same(cs, k) THEN F[e].ypcall \/ cs[k + 1].at = "try"
          ELSE k = Len(cs) /\ (cs[k].ok <=> ~F[e].hit)
     /\ ~Same(cs, k) /\ F[e].hit => \A j \in 1 .. Len(T) : T[j].slot <= F[e].base

(* A protection knows the level of its protected call, 0 when it protects  *)
(* a thread.                                                               *)
TryOK(th, cs, g, k) ==
  LET F == Fr(th, cs, k)
      a == cs[k]
      f == F[a.level]
      T == th[a.t].tbc
  IN cs[k].at = "try" =>
     /\ k > 1 /\ g[k].b = a.level /\ End(th, cs, g, k) = a.level
     /\ cs[k - 1].at = "cfun"
     /\ a.inc = IF a.why = "resume" THEN 1 ELSE 0
     /\ a.why = "resume" => cs[k - 1].t # a.t
     /\ cs[k - 1].t = a.t <=> a.level > 0
     /\ a.level > 0 => Protects(f) /\ ~f.ypcall
     /\ a.why # "resume" => a.slot = IF a.level = 0 THEN 1 ELSE f.base + 1
     /\ a.why = "pcall" => a.level > 0 /\ ~f.hit /\ cs[k - 1].ok
     /\ a.why = "closep" =>
          /\ a.level > 0 => f.hit /\ ErrorStatus(a.status)
          /\ ~Same(cs, k) => \A j \in 1 .. Len(T) : T[j].slot < a.slot

CloseOK(th, cs, g, k) ==
  LET F == Fr(th, cs, k)
      a == cs[k]
      b == g[k].b
  IN cs[k].at = "close" =>
     /\ k > 1 /\ End(th, cs, g, k) = b
     /\ a.why = "closep" => /\ cs[k - 1].at = "try" /\ cs[k - 1].why = "closep"
                            /\ a.slot = cs[k - 1].slot /\ ~a.yy
     /\ a.why = "return" => /\ cs[k - 1].at = "exec" /\ b > 0 /\ a.slot = F[b].base
     /\ a.why = "pcallk" => /\ cs[k - 1].at = "unroll" /\ a.yy /\ b > 0
                            /\ F[b].ypcall /\ F[b].hit /\ a.slot = F[b].base + 1

(* An error in a call that the C stack had no room for keeps its counts.   *)
MsgOK(th, cs, g, k) ==
  LET F == Fr(th, cs, k)
      b == g[k].b
      c == cs[k - 1]
  IN cs[k].at \in Msgs =>
     /\ k > 1 /\ End(th, cs, g, k) = b
     /\ \/ Called(F, b, c, cs[k])
        \/ /\ c.at = "exec" \/ (c.at = "cfun" /\ b > 0 /\ F[b].kind \in {"wrap", "close"})
           /\ cs[k].inc = 0 /\ cs[k].ny = 0
     /\ cs[k].at = "errormsg" => k = Len(cs)

UnrollOK(th, cs, g, k) ==
  cs[k].at = "unroll" => /\ k > 1 /\ g[k].b = 0
                         /\ cs[k - 1].at = "try" /\ cs[k - 1].why = "resume"

Serves(th, cs, g, k) ==
  /\ ExecOK(th, cs, g, k) /\ CFunOK(th, cs, g, k) /\ TryOK(th, cs, g, k)
  /\ CloseOK(th, cs, g, k) /\ MsgOK(th, cs, g, k) /\ UnrollOK(th, cs, g, k)

Local(th, cs, g, k) ==
  Counted(th, cs, g, k) /\ FirstOK(th, cs, g, k) /\ Serves(th, cs, g, k)

-----------------------------------------------------------------------------
(* Every thread t.                                                         *)

Nested(th, cs, g, t) ==
  /\ \A k \in Of(cs, t) : g[k].b <= Len(th[t].ci)
  /\ \A j, k \in Of(cs, t) : j < k =>
       /\ g[j].b <= g[k].b /\ g[j].q <= g[k].q
       /\ \A m \in j .. k : cs[m].t = t

(* Below a call that unroll may finish, unroll may finish every frame.     *)
FramesOK(F) ==
  /\ \A i \in 1 .. Len(F) :
       /\ F[i].base > 0
       /\ F[i].ypcall \/ F[i].hit => Protects(F[i])
       /\ F[i].ypcall => (ErrorStatus(F[i].recst) <=> F[i].hit)
       /\ F[i].fresh => F[i].kind = "ilya"
       /\ F[i].kind = "ilya" /\ ~F[i].fresh => i > 1 /\ F[i - 1].kind = "ilya"
  /\ \A i, j \in 1 .. Len(F) : i < j =>
       /\ F[i].base < F[j].base
       /\ F[j].ypcall => F[i].kind = "ilya" \/ F[i].ypcall

(* Every frame of a C function is on the C stack, or unroll finishes it.   *)
Backed(th, cs, g, t) ==
  ~ErrorStatus(th[t].status) =>
    \A i \in 1 .. Len(th[t].ci) : LET f == th[t].ci[i] IN
      /\ f.kind \in CKinds \ {"yield"} =>
           f.ypcall \/ \E k \in Of(cs, t) : cs[k].at = "cfun" /\ g[k].b + 1 = i
      /\ f.kind = "yield" =>
           \/ th[t].status = "yield" /\ i = Len(th[t].ci)
           \/ \E k \in Of(cs, t) : cs[k].at \in Msgs /\ g[k].b = i

(* A protected call that a C function made is inside those that a resume   *)
(* protects.                                                               *)
Ordered(th, cs, t) ==
  \A k \in Of(cs, t) : cs[k].at = "try" /\ cs[k].why # "resume" =>
    \A i \in 1 .. Len(th[t].ci) : th[t].ci[i].ypcall => i < cs[k].level

(* The variable is in frame i, or above all frames (i = 0) of a thread     *)
(* that is being closed.                                                   *)
OwnedBy(F, v, i) ==
  /\ i > 0 => F[i].base < v.slot /\ (F[i].hit \/ (F[i].kind = "ilya" /\ v.of = i))
  /\ i < Len(F) => F[i + 1].base >= v.slot
Closing(cs, t) ==
  \E k \in Of(cs, t) : cs[k].at = "close" /\ cs[k].why = "closep" /\ cs[k].slot = 1
Owned(th, cs, t) ==
  LET F == th[t].ci
      T == th[t].tbc
  IN /\ \A j \in 1 .. Len(T) : T[j].slot > 0
     /\ \A i, j \in 1 .. Len(T) : i < j => T[i].slot < T[j].slot
     /\ \A j \in 1 .. Len(T) : \E i \in 0 .. Len(F) :
          OwnedBy(F, T[j], i) /\ (i = 0 => Closing(cs, t))

StatusOK(th, cs, t) ==
  LET h == th[t] IN
  /\ Of(cs, t) # {} \/ t = Main => h.status = "ok" /\ ~h.fn
  /\ Of(cs, t) = {} /\ h.status = "ok" => h.ci = <<>> /\ h.tbc = <<>>
  /\ Of(cs, t) = {} /\ t = Main => h.ccalls = 0 /\ h.nny = 1
  /\ h.status = "yield" => ~h.fn /\ h.ci # <<>> /\ h.ci[Len(h.ci)].kind = "yield"

Global(th, cs, g, t) ==
  /\ Nested(th, cs, g, t) /\ FramesOK(th[t].ci) /\ Backed(th, cs, g, t)
  /\ Ordered(th, cs, t) /\ Owned(th, cs, t) /\ StatusOK(th, cs, t)

-----------------------------------------------------------------------------
Shape(th, cs, g) ==
  /\ \A k \in 1 .. Len(cs) : Local(th, cs, g, k)
  /\ \A t \in Thr : Global(th, cs, g, t)

Inv(u, g) ==
  /\ u \in State /\ ~u.wrong
  /\ g \in Seq(Ghost) /\ Len(g) = Len(u.cs) /\ Shape(u.th, u.cs, g)

IInv == \E g \in Seq(Ghost) : Inv(s, g)

(* What g is in a state: TLC computes it.                                  *)
GhostOf(th, cs) ==
  LET n == Len(cs)
      p[k \in 0 .. n] == IF k = 0 THEN 0 ELSE p[k - 1] + cs[k].inc
      q[k \in 0 .. n] ==
        IF k = 0 THEN 0
        ELSE cs[k].ny + IF k = 1 THEN 1 ELSE IF cs[k - 1].t # cs[k].t THEN 0 ELSE q[k - 1]
      b[k \in 1 .. n] ==
        LET F == Fr(th, cs, k)
            e == IF Same(cs, k) THEN b[k + 1] ELSE Len(F)
        IN CASE cs[k].at = "cfun" -> e - 1
             [] cs[k].at = "unroll" \/ (cs[k].at = "exec" /\ cs[k - 1].at = "unroll") -> 0
             [] cs[k].at = "exec" /\ cs[k - 1].at # "unroll" ->
                  Max({0} \cup {i \in 1 .. e : F[i].fresh}) - 1
             [] OTHER -> e
  IN [k \in 1 .. n |-> [p |-> p[k], q |-> q[k], b |-> b[k]]]

(* The C stack always mirrors the frames of the threads that run: every    *)
(* activation serves its own frames, with its counts, protections and      *)
(* variables, and every frame is served or can be finished (ldo.c).        *)
StackMirrorsFrames == Inv(s, GhostOf(s.th, s.cs))
=============================================================================
