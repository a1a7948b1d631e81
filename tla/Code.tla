-------------------------------- MODULE Code --------------------------------
(***************************************************************************)
(* The code generator (lcode.c).  The parser hands it expressions          *)
(* piecemeal; it delays code as long as it can, threads pending jumps      *)
(* through the instructions themselves, and rewrites instructions already  *)
(* emitted.                                                                *)
(*                                                                         *)
(* An operator takes the state s of the function being compiled (FuncState *)
(* and what it shares of LexState) and returns the next state; one that    *)
(* changes an expression leaves it in s.e.  s.sound is FALSE once an       *)
(* internal assertion failed, s.err the first error the compiler raised,   *)
(* s.meant the line and the variables in scope meant for each instruction  *)
(* (kept only to be compared with what the debug information tells).       *)
(* Positions of instructions start at 1, registers and constants at 0.     *)
(***************************************************************************)
EXTENDS Arith, SequencesExt

CONSTANTS Digits,       \* the characters of each name (a string is a number)
          MaxArgC,      \* largest B or C operand, and constant in one (bound)
          MaxArgVC,     \* largest C operand of NEWTABLE and SETLIST   (bound)
          MaxArgBx,     \* largest Bx operand of a load                (bound)
          LongStr,      \* strings from this number on are long        (bound)
          LimLineDiff, MaxIwthAbs  \* limits of relative line information
ASSUME CodeAssumption ==
  /\ {MaxArgC, MaxArgVC, MaxArgBx, LimLineDiff, MaxIwthAbs} \subseteq Nat \ {0}
  /\ LongStr \in Nat

MaxFStack == 255
NoReg     == 255
NoJump    == -1
MultRet   == -1
AbsLineInfo == -LimLineDiff

(* The arithmetic instructions are families: op tells where the operands   *)
(* are, o which operation (or metamethod event) it is.                     *)
Instr(op, o, a, b, c, k) ==
  [op |-> op, o |-> o, a |-> a, b |-> b, c |-> c, k |-> k]
TestOps == {"EQ", "ORDER", "EQK", "EQI", "ORDERI", "ORDERGI", "TEST", "TESTSET"}

Exp(k, info) == [k |-> k, info |-> info, aux |-> 0, v |-> Nil,
                 t |-> NoJump, f |-> NoJump]
Become(e, k, info) == [e EXCEPT !.k = k, !.info = info]
HasJumps(e)  == e.t # e.f
ToNumeral(e) == ~HasJumps(e) /\ e.k \in {"VKINT", "VKFLT"}

Gives(s, e)     == [s EXCEPT !.e = e]
Sound(s, cond) == [s EXCEPT !.sound = @ /\ cond]
SemError(s, what) == IF s.err = "" THEN [s EXCEPT !.err = what] ELSE s
CheckLimit(s, v, limit, what) == IF v > limit THEN SemError(s, what) ELSE s

(* Local variables of the function, from 0; compile-time constants have    *)
(* no register.                                                            *)
VarDesc(s, vidx) == s.actvar[s.firstlocal + vidx + 1]
RegLevel(s, nvar) ==
  LET inreg == {i \in 0 .. nvar - 1 : VarDesc(s, i).kind # "CTC"} IN
  IF inreg = {} THEN 0
  ELSE VarDesc(s, CHOOSE i \in inreg : \A j \in inreg : j <= i).ridx + 1
NVarStack(s) == RegLevel(s, s.nactvar)

-----------------------------------------------------------------------------
(* Instructions and their lines.                                           *)

Pc(s) == Len(s.code) + 1

(* The names of the variables in registers now, in order.                  *)
InScope(s) ==
  LET inreg == SelectSeq([i \in 1 .. s.nactvar |-> VarDesc(s, i - 1)], LAMBDA d : d.kind # "CTC") IN
  [i \in DOMAIN inreg |-> inreg[i].name]
SaveLineInfo(s, line) ==
  LET dif == line - s.previousline
      meant == Append(s.meant, [line |-> line, locals |-> InScope(s)]) IN
  IF Magnitude(dif) >= LimLineDiff \/ s.iwthabs >= MaxIwthAbs
  THEN [s EXCEPT !.meant = meant, !.previousline = line,
                 !.info = Append(@, AbsLineInfo), !.iwthabs = 1,
                 !.abs = Append(@, [pc |-> Len(s.code), line |-> line])]
  ELSE [s EXCEPT !.meant = meant, !.previousline = line,
                 !.info = Append(@, dif), !.iwthabs = @ + 1]
(* A mutant: the line after a removed absolute one may be relative.        *)
StaysRelative(s) ==
  LET old == [s EXCEPT !.meant = Front(@), !.info = Front(@)] IN
  IF Last(s.info) # AbsLineInfo
  THEN [old EXCEPT !.previousline = @ - Last(s.info), !.iwthabs = @ - 1]
  ELSE [old EXCEPT !.abs = Front(@), !.iwthabs = @ - 1]
RemoveLastLineInfo(s) ==
  LET old == [s EXCEPT !.meant = Front(@), !.info = Front(@)] IN
  IF Last(s.info) # AbsLineInfo
  THEN [old EXCEPT !.previousline = @ - Last(s.info), !.iwthabs = @ - 1]
  ELSE Sound([old EXCEPT !.abs = Front(@), !.iwthabs = MaxIwthAbs + 1],
              Last(s.abs).pc = Len(s.code))
RemoveLastInstruction(s) == [RemoveLastLineInfo(s) EXCEPT !.code = Front(@)]
FixLine(s, line) == SaveLineInfo(RemoveLastLineInfo(s), line)

Emit(s, i) == SaveLineInfo([s EXCEPT !.code = Append(@, i)], s.lastline)
CodeO(s, op, o, a, b, c, k) == Emit(s, Instr(op, o, a, b, c, k))
CodeABC(s, op, a, b, c)     == CodeO(s, op, "", a, b, c, 0)
ExtraArg(s, a)              == CodeABC(s, "EXTRAARG", a, 0, 0)

GetLabel(s) == [s EXCEPT !.lasttarget = Pc(s)]
PreviousIs(s, op) == Pc(s) > s.lasttarget /\ Last(s.code).op = op

CodeNil(s, from, n) ==
  LET l     == from + n - 1
      pfrom == Last(s.code).a
      pl    == pfrom + Last(s.code).b
      first == IF pfrom < from THEN pfrom ELSE from
      last  == IF pl > l THEN pl ELSE l IN
  IF PreviousIs(s, "LOADNIL")
     /\ (from \in pfrom .. pl + 1 \/ pfrom \in from .. l + 1)
  THEN [s EXCEPT !.code[Len(s.code)].a = first, !.code[Len(s.code)].b = last - first]
  ELSE CodeABC(s, "LOADNIL", from, n - 1, 0)

Ret(s, first, nret) ==
  CodeABC(CheckLimit(s, nret + 1, MaxArgC, "returns"),
          CASE nret = 0 -> "RETURN0" [] nret = 1 -> "RETURN1" [] OTHER -> "RETURN",
          first, nret + 1, 0)

-----------------------------------------------------------------------------
(* Jump lists: a jump not yet fixed holds the distance to the next one.    *)

Jump(s) == CodeABC(s, "JMP", 0, NoJump, 0)
CondJump(s, op, o, a, b, c, k) == Jump(CodeO(s, op, o, a, b, c, k))

FixJump(s, pc, dest) ==
  Sound([s EXCEPT !.code[pc].b = dest - (pc + 1)],
         dest # NoJump /\ s.code[pc].op = "JMP")
GetJump(s, pc) ==
  IF s.code[pc].b = NoJump THEN NoJump ELSE pc + 1 + s.code[pc].b
RECURSIVE JumpList(_, _)
JumpList(s, list) ==
  IF list = NoJump THEN << >> ELSE <<list>> \o JumpList(s, GetJump(s, list))

(* The list l1 followed by l2 starts at Joined(l1, l2) once they are linked. *)
Joined(l1, l2)  == IF l1 = NoJump THEN l2 ELSE l1
Link(s, l1, l2) == IF NoJump \in {l1, l2} THEN s
                   ELSE FixJump(s, Last(JumpList(s, l1)), l2)

Control(s, pc) == IF pc > 1 /\ s.code[pc - 1].op \in TestOps THEN pc - 1 ELSE pc
GivesValue(s, node) == s.code[Control(s, node)].op = "TESTSET"
(* A mutant: the value is stored though none is wanted.                    *)
KeepsTestSet(s, node, reg) ==
  LET pc == Control(s, node) IN
  IF s.code[pc].op = "TESTSET" THEN [s EXCEPT !.code[pc].a = reg] ELSE s
PatchTestReg(s, node, reg) ==
  LET pc == Control(s, node)
      i  == s.code[pc] IN
  IF i.op # "TESTSET" THEN s
  ELSE IF reg # NoReg /\ reg # i.b THEN [s EXCEPT !.code[pc].a = reg]
  ELSE [s EXCEPT !.code[pc] = Instr("TEST", "", i.b, 0, 0, i.k)]
RemoveValues(s, list) ==
  FoldLeft(LAMBDA r, p : PatchTestReg(r, p, NoReg), s, JumpList(s, list))
NeedValue(s, list) ==
  \E j \in 1 .. Len(JumpList(s, list)) : ~GivesValue(s, JumpList(s, list)[j])

PatchListAux(s, list, vtarget, reg, dtarget) ==
  FoldLeft(LAMBDA r, p : FixJump(PatchTestReg(r, p, reg), p,
                                 IF GivesValue(r, p) THEN vtarget ELSE dtarget),
           s, JumpList(s, list))
PatchList(s, list, target) ==
  PatchListAux(Sound(s, target <= Pc(s)), list, target, NoReg, target)
PatchToHere(s, list) == PatchList(GetLabel(s), list, Pc(s))

-----------------------------------------------------------------------------
(* Registers and constants.                                                *)

CheckStack(s, n) ==
  IF s.freereg + n > s.maxstack
  THEN [CheckLimit(s, s.freereg + n, MaxFStack, "registers")
        EXCEPT !.maxstack = s.freereg + n]
  ELSE s
ReserveRegs(s, n) == [CheckStack(s, n) EXCEPT !.freereg = @ + n]

FreeReg(s, reg) ==
  IF reg >= NVarStack(s)
  THEN Sound([s EXCEPT !.freereg = @ - 1], reg = s.freereg - 1)
  ELSE s
FreeRegs(s, r1, r2) ==
  IF r1 > r2 THEN FreeReg(FreeReg(s, r1), r2) ELSE FreeReg(FreeReg(s, r2), r1)
RegOf(e) == IF e.k = "VNONRELOC" THEN e.info ELSE -1
FreeExp(s, e) == IF e.k = "VNONRELOC" THEN FreeReg(s, e.info) ELSE s
FreeExps(s, e1, e2) == FreeRegs(s, RegOf(e1), RegOf(e2))

(* A value is kept once among the constants of a function, its kind of     *)
(* number apart (k2proto and the keys its callers choose).                 *)
KIndex(s, v) == IF v \in ToSet(s.k)
                THEN (CHOOSE i \in 1 .. Len(s.k) : s.k[i] = v) - 1
                ELSE Len(s.k)
AddK(s, v)   == IF v \in ToSet(s.k) THEN s ELSE [s EXCEPT !.k = Append(@, v)]
CodeK(s, reg, k) ==
  IF k <= MaxArgBx THEN CodeABC(s, "LOADK", reg, k, 0)
  ELSE ExtraArg(CodeABC(s, "LOADKX", reg, 0, 0), k)

FitsC(i)  == i + MaxArgC \div 2 \in 0 .. MaxArgC
FitsBx(i) == i + MaxArgBx \div 2 \in 0 .. MaxArgBx
LoadNumber(s, reg, v) ==
  IF Integral(v) /\ FitsBx(Rounded(v, FALSE))
  THEN CodeABC(s, IF v.t = "int" THEN "LOADI" ELSE "LOADF", reg, Rounded(v, FALSE), 0)
  ELSE CodeK(AddK(s, v), reg, KIndex(s, v))

KindOf(v) == CASE v = Nil -> "VNIL" [] v = Bool(TRUE) -> "VTRUE"
               [] v = Bool(FALSE) -> "VFALSE" [] v.t = "int" -> "VKINT"
               [] v.t = "flt" -> "VKFLT" [] v.t = "str" -> "VKSTR"
Const(v)  == [Exp(KindOf(v), 0) EXCEPT !.v = v]
Key(name) == Const(Val("str", Digits[name]))
ValueKinds == {"VNIL", "VTRUE", "VFALSE", "VKINT", "VKFLT", "VKSTR"}
Str2K(s, e) == Gives(AddK(s, e.v), Become(e, "VK", KIndex(s, e.v)))

-----------------------------------------------------------------------------
(* Expressions become values in registers.                                 *)

SetReturns(s, e, n) ==
  LET r == [CheckLimit(s, n + 1, MaxArgC, "multiple results")
            EXCEPT !.code[e.info].c = n + 1] IN
  IF e.k = "VCALL" THEN r
  ELSE Sound(ReserveRegs([r EXCEPT !.code[e.info].a = s.freereg], 1), e.k = "VVARARG")
SetOneRet(s, e) ==
  CASE e.k = "VCALL"   -> Gives(Sound(s, s.code[e.info].c = 2),
                                Become(e, "VNONRELOC", s.code[e.info].a))
    [] e.k = "VVARARG" -> Gives([s EXCEPT !.code[e.info].c = 2], Become(e, "VRELOC", e.info))
    [] OTHER -> Gives(s, e)

Get(s, e, op, b, c) ==
  LET r == CodeABC(s, op, 0, b, c) IN Gives(r, Become(e, "VRELOC", Len(r.code)))
DischargeVars(s, e) ==
  CASE e.k = "VCONST"    -> Gives(s, [e EXCEPT !.k = KindOf(s.actvar[e.info].val),
                                               !.v = s.actvar[e.info].val])
    [] e.k = "VLOCAL"    -> Gives(s, Become(e, "VNONRELOC", e.info))
    [] e.k = "VUPVAL"    -> Get(s, e, "GETUPVAL", e.info, 0)
    [] e.k = "VINDEXUP"  -> Get(s, e, "GETTABUP", e.info, e.aux)
    [] e.k = "VINDEXI"   -> Get(FreeReg(s, e.info), e, "GETI", e.info, e.aux)
    [] e.k = "VINDEXSTR" -> Get(FreeReg(s, e.info), e, "GETFIELD", e.info, e.aux)
    [] e.k = "VINDEXED"  -> Get(FreeRegs(s, e.info, e.aux), e, "GETTABLE", e.info, e.aux)
    [] OTHER -> SetOneRet(s, e)

Discharge2Reg(s0, e0, reg) ==
  LET s == DischargeVars(s0, e0)
      e == s.e
      r == CASE e.k = "VNIL"   -> CodeNil(s, reg, 1)
             [] e.k = "VFALSE" -> CodeABC(s, "LOADFALSE", reg, 0, 0)
             [] e.k = "VTRUE"  -> CodeABC(s, "LOADTRUE", reg, 0, 0)
             [] e.k = "VKSTR"  -> LET k == Str2K(s, e) IN CodeK(k, reg, k.e.info)
             [] e.k = "VK"     -> CodeK(s, reg, e.info)
             [] e.k \in {"VKINT", "VKFLT"} -> LoadNumber(s, reg, e.v)
             [] e.k = "VRELOC" -> [s EXCEPT !.code[e.info].a = reg]
             [] e.k = "VNONRELOC" -> IF reg = e.info THEN s
                                     ELSE CodeABC(s, "MOVE", reg, e.info, 0) IN
  IF e.k = "VJMP" THEN s ELSE Gives(r, Become(e, "VNONRELOC", reg))
Discharge2AnyReg(s, e) ==
  IF e.k = "VNONRELOC" THEN Gives(s, e)
  ELSE Discharge2Reg(ReserveRegs(s, 1), e, s.freereg)

LoadBool(s, reg, op) == CodeABC(GetLabel(s), op, reg, 0, 0)
Exp2Reg(s0, e0, reg) ==
  LET d     == Discharge2Reg(s0, e0, reg)
      isjmp == d.e.k = "VJMP"
      s     == IF isjmp THEN Link(d, d.e.t, d.e.info) ELSE d
      e     == IF isjmp THEN [d.e EXCEPT !.t = Joined(@, d.e.info)] ELSE d.e
      load  == NeedValue(s, e.t) \/ NeedValue(s, e.f)
      fj    == IF isjmp THEN NoJump ELSE Pc(s)
      s1    == IF isjmp THEN s ELSE Jump(s)
      s2    == LoadBool(LoadBool(s1, reg, "LFALSESKIP"), reg, "LOADTRUE")
      s3    == IF load THEN PatchToHere(s2, fj) ELSE s
      s4    == GetLabel(s3)
      s5    == PatchListAux(s4, e.f, Pc(s3), reg, IF load THEN Pc(s1) ELSE NoJump)
      s6    == PatchListAux(s5, e.t, Pc(s3), reg, IF load THEN Pc(s1) + 1 ELSE NoJump) IN
  Gives(IF HasJumps(e) THEN s6 ELSE s, Exp("VNONRELOC", reg))

Exp2NextReg(s0, e0) ==
  LET s == DischargeVars(s0, e0)
      r == ReserveRegs(FreeExp(s, s.e), 1) IN
  Exp2Reg(r, s.e, r.freereg - 1)
Exp2AnyReg(s0, e0) ==
  LET s == DischargeVars(s0, e0)
      e == s.e IN
  IF e.k = "VNONRELOC" /\ ~HasJumps(e) THEN s
  ELSE IF e.k = "VNONRELOC" /\ e.info >= NVarStack(s) THEN Exp2Reg(s, e, e.info)
  ELSE Exp2NextReg(s, e)
Exp2AnyRegUp(s, e) == IF e.k # "VUPVAL" \/ HasJumps(e) THEN Exp2AnyReg(s, e) ELSE Gives(s, e)
Exp2Val(s, e) == IF e.k = "VJMP" \/ HasJumps(e) THEN Exp2AnyReg(s, e) ELSE DischargeVars(s, e)

(* A constant goes to the table of constants even when its index there     *)
(* turns out too large for an operand.                                     *)
AddedK(s, e) == IF ~HasJumps(e) /\ e.k \in ValueKinds THEN AddK(s, e.v) ELSE s
IsK(s, e) == /\ ~HasJumps(e)
             /\ \/ e.k \in ValueKinds /\ KIndex(s, e.v) <= MaxArgC
                \/ e.k = "VK" /\ e.info <= MaxArgC
AsK(s, e) == Gives(AddedK(s, e), IF e.k = "VK" THEN e ELSE Become(e, "VK", KIndex(s, e.v)))
Exp2RK(s, e) == IF IsK(s, e) THEN AsK(s, e) ELSE Exp2AnyReg(AddedK(s, e), e)

Set(s, op, var, ex) ==
  LET r == Exp2RK(s, ex) IN
  FreeExp(CodeO(r, op, "", var.info, var.aux, r.e.info, IF IsK(s, ex) THEN 1 ELSE 0), r.e)
StoreVar(s, var, ex) ==
  CASE var.k = "VLOCAL"    -> Exp2Reg(FreeExp(s, ex), ex, var.info)
    [] var.k = "VUPVAL"    -> LET r == Exp2AnyReg(s, ex) IN
                              FreeExp(CodeABC(r, "SETUPVAL", r.e.info, var.info, 0), r.e)
    [] var.k = "VINDEXUP"  -> Set(s, "SETTABUP", var, ex)
    [] var.k = "VINDEXI"   -> Set(s, "SETI", var, ex)
    [] var.k = "VINDEXSTR" -> Set(s, "SETFIELD", var, ex)
    [] var.k = "VINDEXED"  -> Set(s, "SETTABLE", var, ex)

-----------------------------------------------------------------------------
(* Conditions.                                                             *)

NegateCondition(s, e) ==
  LET pc == Control(s, e.info) IN
  Sound([s EXCEPT !.code[pc].k = 1 - @],
         s.code[pc].op \in TestOps \ {"TEST", "TESTSET"})

(* Jumps when e is cond; the jump is the last instruction.                 *)
JumpOnCond(s, e, cond) ==
  LET d == Discharge2AnyReg(s, e) IN
  IF e.k = "VRELOC" /\ s.code[e.info].op = "NOT"
  THEN CondJump(RemoveLastInstruction(Sound(s, e.info = Len(s.code))),
                "TEST", "", s.code[e.info].b, 0, 0, 1 - cond)
  ELSE CondJump(FreeExp(d, d.e), "TESTSET", "", NoReg, d.e.info, 0, cond)

GoIfTrue(s0, e0) ==
  LET s == DischargeVars(s0, e0)
      e == s.e
      always == e.k \in {"VK", "VKFLT", "VKINT", "VKSTR", "VTRUE"}
      j  == IF e.k = "VJMP" THEN NegateCondition(s, e)
            ELSE IF always THEN s ELSE JumpOnCond(s, e, 0)
      pc == IF e.k = "VJMP" THEN e.info ELSE IF always THEN NoJump ELSE Len(j.code) IN
  Gives(PatchToHere(Link(j, e.f, pc), e.t), [e EXCEPT !.f = Joined(@, pc), !.t = NoJump])
GoIfFalse(s0, e0) ==
  LET s == DischargeVars(s0, e0)
      e == s.e
      never == e.k \in {"VNIL", "VFALSE"}
      j  == IF e.k = "VJMP" \/ never THEN s ELSE JumpOnCond(s, e, 1)
      pc == IF e.k = "VJMP" THEN e.info ELSE IF never THEN NoJump ELSE Len(j.code) IN
  Gives(PatchToHere(Link(j, e.t, pc), e.f), [e EXCEPT !.t = Joined(@, pc), !.f = NoJump])

CodeNot(s, e) ==
  LET d == Discharge2AnyReg(s, e)
      r == CASE e.k \in {"VNIL", "VFALSE"} -> Gives(s, [e EXCEPT !.k = "VTRUE", !.v = Bool(TRUE)])
             [] e.k \in {"VK", "VKFLT", "VKINT", "VKSTR", "VTRUE"} ->
                  Gives(s, [e EXCEPT !.k = "VFALSE", !.v = Bool(FALSE)])
             [] e.k = "VJMP" -> Gives(NegateCondition(s, e), e)
             [] OTHER -> Get(FreeExp(d, d.e), d.e, "NOT", d.e.info, 0)
      n == [r.e EXCEPT !.t = r.e.f, !.f = r.e.t] IN
  Gives(RemoveValues(RemoveValues(r, n.f), n.t), n)

-----------------------------------------------------------------------------
(* Indexing.                                                               *)

IsKStr(s, e) == /\ e.k = "VK" /\ ~HasJumps(e) /\ e.info <= MaxArgC
                /\ s.k[e.info + 1].t = "str" /\ s.k[e.info + 1].v < LongStr
IsKInt(e)  == e.k = "VKINT" /\ ~HasJumps(e)
IsCInt(e)  == IsKInt(e) /\ e.v.v \in 0 .. MaxArgC
IsSCInt(e) == IsKInt(e) /\ FitsC(e.v.v)
SawFloat(e)   == e.k = "VKFLT" /\ Integral(e.v)
IsSCNumber(e) == /\ e.k = "VKINT" \/ SawFloat(e)
                 /\ ~HasJumps(e) /\ FitsC(Rounded(e.v, FALSE))
SCNumber(e)   == Rounded(e.v, FALSE)

Self(s0, e0, key) ==
  LET s    == Exp2AnyReg(s0, e0)
      ereg == s.e.info
      f    == FreeExp(s, s.e)
      base == f.freereg
      r    == ReserveRegs(f, 2)
      m    == Exp2AnyReg(AddedK(r, key), key)
      long == CodeABC(CodeABC(m, "MOVE", base + 1, ereg, 0), "GETTABLE", base, ereg, m.e.info)
      self == Become(s.e, "VNONRELOC", base) IN
  IF key.v.v < LongStr /\ IsK(r, key)
  THEN Gives(CodeABC(AsK(r, key), "SELF", base, ereg, KIndex(r, key.v)), self)
  ELSE Gives(FreeExp(long, m.e), self)

Indexed(s0, t0, k0) ==
  LET s1 == IF k0.k = "VKSTR" THEN Str2K(s0, k0) ELSE Gives(s0, k0)
      k  == s1.e
      s  == IF t0.k = "VUPVAL" /\ ~IsKStr(s1, k) THEN Exp2AnyReg(s1, t0) ELSE Gives(s1, t0)
      t  == s.e
      r  == Exp2AnyReg(s, k)
      At(kind, idx) == [Become(t, kind, t.info) EXCEPT !.aux = idx] IN
  CASE t.k = "VUPVAL" -> Gives(s, At("VINDEXUP", k.info))
    [] t.k # "VUPVAL" /\ IsKStr(s, k) -> Gives(s, At("VINDEXSTR", k.info))
    [] t.k # "VUPVAL" /\ IsCInt(k)    -> Gives(s, At("VINDEXI", k.v.v))
    [] OTHER -> Gives(Sound(r, ~HasJumps(t)), At("VINDEXED", r.e.info))

-----------------------------------------------------------------------------
(* Operators.                                                              *)

ValidOp(op, x, y) ==
  CASE op \in BitOps -> Integral(x) /\ Integral(y)
    [] op \in {"//", "%"} -> Halves(y) # 0
    [] OTHER -> TRUE
(* Neither a NaN nor a zero float is folded.                               *)
Folds(op, e1, e2) == /\ ToNumeral(e1) /\ ToNumeral(e2) /\ ValidOp(op, e1.v, e2.v)
                     /\ RawArith(op, e1.v, e2.v) # Flt(0)
Folded(op, e1, e2) ==
  LET v == RawArith(op, e1.v, e2.v) IN [e1 EXCEPT !.k = KindOf(v), !.v = v]

CodeUnExpVal(s0, op, e0, line) ==
  LET s == Exp2AnyReg(s0, e0)
      r == CodeO(FreeExp(s, s.e), "UNARY", op, 0, s.e.info, 0, 0) IN
  Gives(FixLine(r, line), Become(s.e, "VRELOC", Len(r.code)))

FinishBinExpVal(s0, e1, e2, op, o, v2, flip, line, mmop, event) ==
  LET s  == Exp2AnyReg(s0, e1)
      v1 == s.e.info
      c  == CodeO(s, op, o, 0, v1, v2, 0)
      f  == FixLine(FreeExps(c, s.e, e2), line)
      m  == FixLine(CodeO(f, mmop, event, v1, v2, 0, flip), line) IN
  Gives(m, Become(s.e, "VRELOC", Len(c.code)))
CodeBinExpVal(s0, o, e1, e2, line) ==
  LET s == Exp2AnyReg(s0, e2) IN
  FinishBinExpVal(s, e1, s.e, "ARITH", o, s.e.info, 0, line, "MMBIN", o)
CodeBinI(s, o, e1, e2, flip, line) ==
  FinishBinExpVal(s, e1, e2, "ARITHI", o, e2.v.v, flip, line, "MMBINI", o)
CodeBinK(s0, o, e1, e2, flip, line) ==
  LET s == AsK(s0, e2) IN
  FinishBinExpVal(s, e1, s.e, "ARITHK", o, s.e.info, flip, line, "MMBINK", o)
(* x - I is coded as x + (-I), and x << I as x >> (-I); the metamethod     *)
(* keeps the original operation and operand.                               *)
CanNegate(e) == IsKInt(e) /\ FitsC(e.v.v) /\ FitsC(-e.v.v)
FinishBinExpNeg(s, e1, e2, o, line, event) ==
  LET r == FinishBinExpVal(s, e1, e2, "ARITHI", o, -e2.v.v, 0, line, "MMBINI", event) IN
  [r EXCEPT !.code[Len(r.code)].b = e2.v.v]

CodeBinNoK(s, o, e1, e2, flip, line) ==
  IF flip = 1 THEN CodeBinExpVal(s, o, e2, e1, line) ELSE CodeBinExpVal(s, o, e1, e2, line)
CodeArith(s, o, e1, e2, flip, line) ==
  IF ToNumeral(e2) /\ IsK(s, e2) THEN CodeBinK(s, o, e1, e2, flip, line)
  ELSE CodeBinNoK(IF ToNumeral(e2) THEN AddedK(s, e2) ELSE s, o, e1, e2, flip, line)
CodeCommutative(s, o, x1, x2, line) ==
  LET flip == IF ToNumeral(x1) THEN 1 ELSE 0
      e1 == IF flip = 1 THEN x2 ELSE x1
      e2 == IF flip = 1 THEN x1 ELSE x2 IN
  IF o = "+" /\ IsSCInt(e2) THEN CodeBinI(s, o, e1, e2, flip, line)
  ELSE CodeArith(s, o, e1, e2, flip, line)
CodeBitwise(s, o, x1, x2, line) ==
  LET flip == IF x1.k = "VKINT" THEN 1 ELSE 0
      e1 == IF flip = 1 THEN x2 ELSE x1
      e2 == IF flip = 1 THEN x1 ELSE x2
      added == IF e2.k = "VKINT" THEN AddedK(s, e2) ELSE s IN
  IF e2.k = "VKINT" /\ IsK(s, e2) THEN CodeBinK(s, o, e1, e2, flip, line)
  ELSE CodeBinNoK(added, o, e1, e2, flip, line)

Compares(s, op, o, a, b, c, k) ==
  LET r == CondJump(s, op, o, a, b, c, k) IN Gives(r, Exp("VJMP", Len(r.code)))
CodeOrder(s, o, e1, e2) ==
  LET c1 == Exp2AnyReg(s, e1)
      c2 == Exp2AnyReg(s, e2)
      cc == Exp2AnyReg(c1, e2)
      flt == IF SawFloat(e2) \/ (~IsSCNumber(e2) /\ SawFloat(e1)) THEN 1 ELSE 0 IN
  IF IsSCNumber(e2)
  THEN Compares(FreeExps(c1, c1.e, e2), "ORDERI", o, c1.e.info, SCNumber(e2), flt, 1)
  ELSE IF IsSCNumber(e1)
  THEN Compares(FreeExps(c2, e1, c2.e), "ORDERGI", o, c2.e.info, SCNumber(e1), flt, 1)
  ELSE Compares(FreeExps(cc, c1.e, cc.e), "ORDER", o, c1.e.info, cc.e.info, flt, 1)
CodeEq(s0, o, x1, x2) ==
  LET e1 == IF x1.k = "VNONRELOC" THEN x1 ELSE x2
      e2 == IF x1.k = "VNONRELOC" THEN x2 ELSE x1
      s  == Exp2AnyReg(s0, e1)
      r  == Exp2RK(s, e2)
      flt == IF SawFloat(e2) THEN 1 ELSE 0
      k  == IF o = "==" THEN 1 ELSE 0 IN
  IF IsSCNumber(e2)
  THEN Compares(FreeExps(s, s.e, e2), "EQI", "", s.e.info, SCNumber(e2), flt, k)
  ELSE Compares(FreeExps(r, s.e, r.e), IF IsK(s, e2) THEN "EQK" ELSE "EQ", "",
                s.e.info, r.e.info, flt, k)

Prefix(s0, op, e0, line) ==
  LET s == DischargeVars(s0, e0)
      fake == Const(IntVal(0)) IN
  IF op \in {"unm", "bnot"} /\ Folds(op, s.e, fake) THEN Gives(s, Folded(op, s.e, fake))
  ELSE IF op = "not" THEN CodeNot(s, s.e)
  ELSE CodeUnExpVal(s, op, s.e, line)

ArithOps == {"+", "-", "*", "//", "%", "&", "|", "~", "<<", ">>"}
Infix(s0, o, v) ==
  LET s == DischargeVars(s0, v) IN
  CASE o = "and" -> GoIfTrue(s, s.e)
    [] o = "or"  -> GoIfFalse(s, s.e)
    [] o = ".."  -> Exp2NextReg(s, s.e)
    [] o \in ArithOps     -> IF ToNumeral(s.e) THEN s ELSE Exp2AnyReg(s, s.e)
    [] o \in {"==", "~="} -> IF ToNumeral(s.e) THEN s ELSE Exp2RK(s, s.e)
    [] OTHER -> IF IsSCNumber(s.e) THEN s ELSE Exp2AnyReg(s, s.e)

CodeConcat(s, e1, e2, line) ==
  LET n == Len(s.code) IN
  IF PreviousIs(s, "CONCAT")
  THEN Gives([FreeExp(Sound(s, e1.info + 1 = s.code[n].a), e2)
              EXCEPT !.code[n].a = e1.info, !.code[n].b = @ + 1], e1)
  ELSE Gives(FixLine(FreeExp(CodeABC(s, "CONCAT", e1.info, 2, 0), e2), line), e1)

Posfix(s0, o, e1, x2, line) ==
  LET s  == DischargeVars(s0, x2)
      e2 == s.e
      cc == Exp2NextReg(s, e2) IN
  IF o \in ArithOps /\ Folds(o, e1, e2) THEN Gives(s, Folded(o, e1, e2))
  ELSE
  CASE o = "and" -> Gives(Link(Sound(s, e1.t = NoJump), e2.f, e1.f),
                          [e2 EXCEPT !.f = Joined(@, e1.f)])
    [] o = "or"  -> Gives(Link(Sound(s, e1.f = NoJump), e2.t, e1.t),
                          [e2 EXCEPT !.t = Joined(@, e1.t)])
    [] o = ".."  -> CodeConcat(cc, e1, cc.e, line)
    [] o \in {"+", "*"} -> CodeCommutative(s, o, e1, e2, line)
    [] o = "-" -> IF CanNegate(e2) THEN FinishBinExpNeg(s, e1, e2, "+", line, "-")
                  ELSE CodeArith(s, o, e1, e2, 0, line)
    [] o \in {"//", "%"} -> CodeArith(s, o, e1, e2, 0, line)
    [] o \in {"&", "|", "~"} -> CodeBitwise(s, o, e1, e2, line)
    [] o = "<<" -> IF IsSCInt(e1) THEN CodeBinI(s, o, e2, e1, 1, line)
                   ELSE IF CanNegate(e2) THEN FinishBinExpNeg(s, e1, e2, ">>", line, "<<")
                   ELSE CodeBinExpVal(s, o, e1, e2, line)
    [] o = ">>" -> IF IsSCInt(e2) THEN CodeBinI(s, o, e1, e2, 0, line)
                   ELSE CodeBinExpVal(s, o, e1, e2, line)
    [] o \in {"==", "~="} -> CodeEq(s, o, e1, e2)
    [] o = ">"  -> CodeOrder(s, "<", e2, e1)
    [] o = ">=" -> CodeOrder(s, "<=", e2, e1)
    [] OTHER    -> CodeOrder(s, o, e1, e2)

-----------------------------------------------------------------------------
(* Tables, and the last pass over a function.                              *)

(* NEWTABLE was emitted with an extra argument of its own.                 *)
SetTableSize(s, pc, ra, asize, hsize) ==
  LET extra == asize \div (MaxArgVC + 1) IN
  [s EXCEPT !.code[pc] = Instr("NEWTABLE", "", ra, hsize, asize % (MaxArgVC + 1),
                               IF extra > 0 THEN 1 ELSE 0),
            !.code[pc + 1] = Instr("EXTRAARG", "", extra, 0, 0, 0)]
SetList(s0, base, nelems, tostore) ==
  LET n == IF tostore = MultRet THEN 0 ELSE tostore
      s == Sound(s0, tostore # 0)
      r == IF nelems <= MaxArgVC THEN CodeABC(s, "SETLIST", base, n, nelems)
           ELSE ExtraArg(CodeO(s, "SETLIST", "", base, n, nelems % (MaxArgVC + 1), 1),
                         nelems \div (MaxArgVC + 1)) IN
  [r EXCEPT !.freereg = base + 1]

RECURSIVE FinalTarget(_, _, _)
FinalTarget(code, i, count) ==
  IF count = 100 \/ code[i].op # "JMP" THEN i
  ELSE FinalTarget(code, i + code[i].b + 1, count + 1)

FinishInstr(s, i) ==
  LET op   == s.code[i].op
      full == op \in {"RETURN", "TAILCALL"}
              \/ (op \in {"RETURN0", "RETURN1"} /\ (s.needclose \/ s.vararg)) IN
  IF op = "JMP" THEN FixJump(s, i, FinalTarget(s.code, i, 0))
  ELSE IF full
  THEN [s EXCEPT !.code[i].op = IF op = "TAILCALL" THEN op ELSE "RETURN",
                 !.code[i].k  = IF s.needclose THEN 1 ELSE @,
                 !.code[i].c  = IF s.vararg THEN s.numparams + 1 ELSE @]
  ELSE s
Finish(s) ==
  FoldLeft(FinishInstr, s,
           SelectSeq([i \in DOMAIN s.code |-> i], LAMBDA i :
             s.code[i].op \in {"JMP", "RETURN0", "RETURN1", "RETURN", "TAILCALL"}))

=============================================================================
