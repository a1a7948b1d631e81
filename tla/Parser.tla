------------------------------- MODULE Parser -------------------------------
(***************************************************************************)
(* The parser (lparser.c), which compiles in one pass: scopes, upvalues,   *)
(* gotos and labels, and the code of each construct.  Its input is the     *)
(* sequence of tokens grouped by construct: a tuple holds a name of the    *)
(* construct and its parts.  An expression with operators stays flat,      *)
(*   <<"ops", <<operand or <<"un", op>> or <<"op", op, newlines>>, ...>>>>  *)
(* A statement starts on a new line, as do "end", "until" and "else".      *)
(***************************************************************************)
EXTENDS Code

MaxVars  == 200
MaxUpval == 255

Source    == Val("str", 87)   \* the name of the chunk
HasMultRet(e) == e.k \in {"VCALL", "VVARARG"}
IsIndexed(e)  == e.k \in {"VINDEXED", "VINDEXUP", "VINDEXI", "VINDEXSTR"}
IsVar(e)      == IsIndexed(e) \/ e.k \in {"VLOCAL", "VUPVAL", "VCONST"}
NewLine(s)    == [s EXCEPT !.lastline = @ + 1]

-----------------------------------------------------------------------------
(* Variables.                                                              *)

NewLocalVar(s0, name, kind) ==
  LET s == CheckLimit(s0, s0.nact + 1 - s0.firstlocal, MaxVars, "local variables") IN
  [s EXCEPT !.nact = @ + 1,
            !.actvar = Append(SubSeq(@, 1, s.nact),
                              [name |-> name, kind |-> kind, ridx |-> 0, pidx |-> 0, val |-> Nil])]
NewLocalVars(s, names, kind) ==
  FoldLeft(LAMBDA r, n : NewLocalVar(r, n, kind), s, names)

(* The last n variables created get their registers and enter scope, and   *)
(* the debug information notes the instructions it has.                    *)
LocVar(s, name) == [name |-> name, startpc |-> Pc(s), endpc |-> 0]
AdjustLocalVars(s, n) ==
  LET first == s.firstlocal + s.nactvar IN
  [s EXCEPT !.nactvar = @ + n,
            !.locvars = @ \o [i \in 1 .. n |-> LocVar(s, s.actvar[first + i].name)],
            !.actvar = [i \in DOMAIN @ |->
                          IF i \in first + 1 .. first + n
                          THEN [@[i] EXCEPT !.ridx = NVarStack(s) + i - first - 1,
                                            !.pidx = Len(s.locvars) + i - first]
                          ELSE @[i]]]
LocalDebugInfo(s, vidx) == IF VarDesc(s, vidx).kind = "CTC" THEN 0 ELSE VarDesc(s, vidx).pidx
RemoveVars(s, tolevel) ==
  LET left == {LocalDebugInfo(s, i) : i \in tolevel .. s.nactvar - 1} IN
  [s EXCEPT !.nact = @ - (s.nactvar - tolevel), !.nactvar = tolevel,
            !.locvars = [i \in DOMAIN @ |-> IF i \in left THEN [@[i] EXCEPT !.endpc = Pc(s)] ELSE @[i]]]

CheckReadOnly(s, e) ==
  LET readonly == \/ e.k = "VCONST"
                  \/ e.k = "VLOCAL" /\ VarDesc(s, e.aux).kind # "REG"
                  \/ e.k = "VUPVAL" /\ s.ups[e.info + 1].kind # "REG" IN
  IF readonly THEN SemError(s, "const") ELSE s

SearchVar(s, n) == {i \in 0 .. s.nactvar - 1 : VarDesc(s, i).name = n}
SearchUpvalue(s, n) == {i \in 1 .. Len(s.ups) : s.ups[i].name = n}
MarkUpval(s, level) ==
  LET i == CHOOSE j \in DOMAIN s.bl :
             s.bl[j].nactvar <= level /\ \A h \in DOMAIN s.bl : h > j => s.bl[h].nactvar > level IN
  [s EXCEPT !.bl[i].upval = TRUE, !.needclose = TRUE]
MarkToBeClosed(s) ==
  [s EXCEPT !.bl[Len(s.bl)].upval = TRUE, !.bl[Len(s.bl)].insidetbc = TRUE,
            !.needclose = TRUE]
NewUpvalue(s0, name, v) ==
  LET s == CheckLimit(s0, Len(s0.ups) + 1, MaxUpval, "upvalues") IN
  [s EXCEPT !.ups = Append(@,
     [name |-> name, instack |-> v.k = "VLOCAL", idx |-> v.info,
      kind |-> IF v.k = "VLOCAL" THEN VarDesc(s.prev, v.aux).kind
               ELSE s.prev.ups[v.info + 1].kind])]

(* A local of an enclosing function becomes an upvalue of all functions    *)
(* between; neither a global nor a compile-time constant does.             *)
RECURSIVE SingleVarAux(_, _, _)
SingleVarAux(s, n, base) ==
  LET here  == SearchVar(s, n)
      i     == CHOOSE x \in here : \A y \in here : y <= x
      d     == VarDesc(s, i)
      local == [Exp("VLOCAL", d.ridx) EXCEPT !.aux = i]
      up    == SearchUpvalue(s, n)
      outer == SingleVarAux(s.prev, n, FALSE)
      out   == [s EXCEPT !.prev = outer] IN
  CASE here # {} /\ d.kind = "CTC" -> Gives(s, Exp("VCONST", s.firstlocal + i + 1))
    [] here # {} /\ d.kind # "CTC" -> Gives(IF base THEN s ELSE MarkUpval(s, i), local)
    [] here = {} /\ up # {} -> Gives(s, Exp("VUPVAL", (CHOOSE u \in up : TRUE) - 1))
    [] here = {} /\ up = {} /\ s.depth = 0 -> Gives(s, Exp("VVOID", 0))
    [] OTHER -> IF outer.e.k \in {"VLOCAL", "VUPVAL"}
                THEN Gives(NewUpvalue(out, n, outer.e), Exp("VUPVAL", Len(s.ups)))
                ELSE Gives(out, outer.e)
SingleVar(s0, n) ==
  LET s   == SingleVarAux(s0, n, TRUE)
      env == SingleVarAux(s, "ENV", TRUE)
      r   == Exp2AnyRegUp(Sound(env, env.e.k # "VVOID"), env.e) IN
  IF s.e.k = "VVOID" THEN Indexed(r, r.e, Key(n)) ELSE s

AdjustAssign(s0, nvars, nexps, e) ==
  LET needed == nvars - nexps
      extra  == IF needed + 1 < 0 THEN 0 ELSE needed + 1
      close  == IF e.k = "VVOID" THEN s0 ELSE Exp2NextReg(s0, e)
      s == IF HasMultRet(e) THEN SetReturns(s0, e, extra)
           ELSE IF needed > 0 THEN CodeNil(close, close.freereg, needed) ELSE close IN
  IF needed > 0 THEN ReserveRegs(s, needed) ELSE [s EXCEPT !.freereg = @ + needed]

-----------------------------------------------------------------------------
(* Blocks, gotos and labels.  A goto is a jump followed by a dead CLOSE,   *)
(* which trade places when the goto turns out to leave a scope to close.   *)

NewEntry(s, name, pc) == [name |-> name, pc |-> pc, nactvar |-> s.nactvar, close |-> FALSE]
NewGoto(s0, name) ==
  LET s == CodeABC(Jump(s0), "CLOSE", 0, 1, 0) IN
  [s EXCEPT !.gt = Append(@, NewEntry(s, name, Pc(s0)))]
(* A mutant: no exemption for the end of a block.                         *)
NeverLast(s0, name, last) ==
  LET s == GetLabel(s0) IN [s EXCEPT !.label = Append(@, NewEntry(s, name, Pc(s)))]
CreateLabel(s0, name, last) ==
  LET s == GetLabel(s0)
      entry == NewEntry(s, name, Pc(s)) IN
  [s EXCEPT !.label = Append(@, IF last THEN [entry EXCEPT !.nactvar = Last(s.bl).nactvar]
                                ELSE entry)]
FindLabel(s, name, first) == {i \in first .. Len(s.label) : s.label[i].name = name}

(* A mutant: a goto leaves captured variables open.                       *)
NeverCloses(s0, g, label, bup) ==
  LET s == IF s0.gt[g].nactvar < label.nactvar THEN SemError(s0, "scope") ELSE s0 IN
  [PatchList(s, s0.gt[g].pc, label.pc) EXCEPT !.gt = RemoveAt(@, g)]
CloseGoto(s0, g, label, bup) ==
  LET gt == s0.gt[g]
      s  == IF gt.nactvar < label.nactvar THEN SemError(s0, "scope") ELSE s0
      needs == gt.close \/ (label.nactvar < gt.nactvar /\ bup)
      swapped == [s EXCEPT !.code[gt.pc + 1] = s.code[gt.pc],
                           !.code[gt.pc] = Instr("CLOSE", "", RegLevel(s, label.nactvar), 0, 0, 0)]
      r == IF needs THEN PatchList(swapped, gt.pc + 1, label.pc)
           ELSE PatchList(s, gt.pc, label.pc) IN
  [r EXCEPT !.gt = RemoveAt(@, g)]

RECURSIVE SolveGotosFrom(_, _, _)
SolveGotosFrom(s, bl, igt) ==
  LET gt     == s.gt[igt]
      match  == FindLabel(s, gt.name, bl.firstlabel)
      lb     == s.label[CHOOSE i \in match : \A j \in match : i <= j]
      leaves == bl.upval /\ RegLevel(s, gt.nactvar) > RegLevel(s, bl.nactvar) IN
  IF s.err # "" \/ igt > Len(s.gt) THEN s
  ELSE IF match # {} THEN SolveGotosFrom(CloseGoto(s, igt, lb, bl.upval), bl, igt)
  ELSE SolveGotosFrom([s EXCEPT !.gt[igt].close = @ \/ leaves,
                                !.gt[igt].nactvar = bl.nactvar], bl, igt + 1)
SolveGotos(s, bl) ==
  [SolveGotosFrom(s, bl, bl.firstgoto) EXCEPT !.label = SubSeq(@, 1, bl.firstlabel - 1)]

EnterBlock(s, isloop) ==
  Sound([s EXCEPT !.bl = Append(@,
            [isloop |-> isloop, pending |-> FALSE, nactvar |-> s.nactvar,
             firstlabel |-> Len(s.label) + 1, firstgoto |-> Len(s.gt) + 1, upval |-> FALSE,
             insidetbc |-> s.bl # << >> /\ Last(s.bl).insidetbc])],
         s.freereg = NVarStack(s))
LeaveBlock(s0) ==
  LET bl       == Last(s0.bl)
      stklevel == RegLevel(s0, bl.nactvar)
      inner    == Len(s0.bl) > 1
      closed   == IF inner /\ bl.upval THEN CodeABC(s0, "CLOSE", stklevel, 0, 0) ELSE s0
      out      == RemoveVars([closed EXCEPT !.freereg = stklevel], bl.nactvar)
      labelled == IF bl.pending THEN CreateLabel(out, "break", FALSE) ELSE out
      solved   == SolveGotos(labelled, bl)
      s        == IF ~inner /\ bl.firstgoto <= Len(solved.gt) THEN SemError(solved, "goto")
                  ELSE solved IN
  [s EXCEPT !.bl = Front(@)]

-----------------------------------------------------------------------------
(* Functions.                                                              *)

(* What a function shares with the one that encloses it (LexState).        *)
Share(s, from) ==
  [s EXCEPT !.lastline = from.lastline, !.actvar = from.actvar, !.nact = from.nact,
            !.gt = from.gt, !.label = from.label, !.err = from.err, !.sound = from.sound]
Open(prev, depth, line) ==
  [code |-> << >>, info |-> << >>, abs |-> << >>, meant |-> << >>, k |-> << >>,
   locvars |-> << >>,
   protos |-> << >>, ups |-> << >>, bl |-> << >>, prev |-> prev, depth |-> depth,
   linedefined |-> line, previousline |-> line, iwthabs |-> 0, lasttarget |-> 1,
   freereg |-> 0, maxstack |-> 2, nactvar |-> 0, numparams |-> 0, vararg |-> FALSE,
   needclose |-> FALSE, firstlocal |-> 0, firstlabel |-> 1, e |-> Exp("VVOID", 0),
   lastline |-> 0, actvar |-> << >>, nact |-> 0, gt |-> << >>, label |-> << >>,
   err |-> "", sound |-> TRUE]
OpenFunc(fs, line) ==
  EnterBlock([Share(Open(fs, fs.depth + 1, line), fs)
              EXCEPT !.firstlocal = fs.nact, !.firstlabel = Len(fs.label) + 1], FALSE)
Closed(s0) ==
  LET s == LeaveBlock(Ret(s0, NVarStack(s0), 0)) IN Finish(Sound(s, s.bl = << >>))
Proto(s) ==
  [code |-> s.code, k |-> s.k, protos |-> s.protos, info |-> s.info, abs |-> s.abs,
   meant |-> s.meant, ups |-> [i \in DOMAIN s.ups |-> [s.ups[i] EXCEPT !.name = Key(@).v]],
   locvars |-> [i \in DOMAIN s.locvars |-> [s.locvars[i] EXCEPT !.name = Key(@).v]],
   maxstack |-> s.maxstack, numparams |-> s.numparams, vararg |-> s.vararg, source |-> Source,
   linedefined |-> s.linedefined, lastlinedefined |-> IF s.depth = 0 THEN 0 ELSE s.lastline]
AddPrototype(s, proto) == [s EXCEPT !.protos = Append(@, proto)]
CloseFunc(s0) ==
  LET s == Closed(s0) IN AddPrototype(Share(s.prev, s), Proto(s))

SetVararg(s, nparams) == CodeABC([s EXCEPT !.vararg = TRUE], "VARARGPREP", nparams, 0, 0)
ParList(s0, params, isvararg) ==
  LET a == AdjustLocalVars(NewLocalVars(s0, params, "REG"), Len(params))
      s == [a EXCEPT !.numparams = a.nactvar] IN
  ReserveRegs(IF isvararg THEN SetVararg(s, s.numparams) ELSE s, s.nactvar)

-----------------------------------------------------------------------------
(* Expressions.                                                            *)

RECURSIVE Expr(_, _)
RECURSIVE StatList(_, _, _)

ExpList(s, exps) ==
  FoldLeft(LAMBDA r, i : IF r.err # "" THEN r
                         ELSE Expr(IF i = 1 THEN r ELSE Exp2NextReg(r, r.e), exps[i]),
           s, [i \in DOMAIN exps |-> i])

(* The last of the prototypes added so far is instantiated.                *)
CodeClosure(s0) ==
  LET s == CodeABC(s0, "CLOSURE", 0, Len(s0.protos) - 1, 0) IN
  Exp2NextReg(s, Exp("VRELOC", Len(s.code)))
Body(s0, fn, ismethod) ==
  LET open == OpenFunc(s0, s0.lastline)
      self == IF ismethod THEN AdjustLocalVars(NewLocalVar(open, "self", "REG"), 1) ELSE open
      done == NewLine(StatList(ParList(self, fn[2], fn[3]), fn[4], FALSE)) IN
  CodeClosure(CloseFunc(done))

FieldSel(s0, v, name) == LET s == Exp2AnyRegUp(s0, v) IN Indexed(s, s.e, Key(name))
YIndex(s0, key) == LET s == Expr(s0, key) IN Exp2Val(s, s.e)

(* A constructor: its list items wait in registers until enough are there. *)
MaxToStore(s) ==
  LET free == MaxFStack - s.freereg IN
  IF free >= 160 THEN free \div 5 ELSE IF free >= 80 THEN 10 ELSE 1
RecField(s0, cc, key, val) ==
  LET k == IF key[1] = "k" THEN Gives(s0, Const(key[2])) ELSE YIndex(s0, key)
      t == Indexed(k, Exp("VNONRELOC", cc.t), k.e)
      v == Expr(t, val)
      s == StoreVar(v, t.e, v.e) IN
  [s |-> [s EXCEPT !.freereg = s0.freereg], cc |-> [cc EXCEPT !.nh = @ + 1]]
CloseListField(s0, cc) ==
  LET s == Exp2NextReg(s0, cc.v)
      none == [cc EXCEPT !.v = Exp("VVOID", 0)] IN
  IF cc.v.k = "VVOID" THEN [s |-> s0, cc |-> cc]
  ELSE IF cc.tostore < cc.max THEN [s |-> s, cc |-> none]
  ELSE [s |-> SetList(s, cc.t, cc.na, cc.tostore),
        cc |-> [none EXCEPT !.na = @ + cc.tostore, !.tostore = 0]]
LastListField(s, cc) ==
  LET last == IF cc.v.k = "VVOID" THEN s ELSE Exp2NextReg(s, cc.v) IN
  IF cc.tostore = 0 THEN s
  ELSE IF HasMultRet(cc.v) THEN SetList(SetReturns(s, cc.v, MultRet), cc.t, cc.na, MultRet)
  ELSE SetList(last, cc.t, cc.na, cc.tostore)
Field(x, field) ==
  LET c == CloseListField(x.s, x.cc)
      r == Expr(c.s, field[2]) IN
  IF x.s.err # "" THEN x
  ELSE IF field[1] = "rec" THEN RecField(c.s, c.cc, field[2], field[3])
  ELSE [s |-> r, cc |-> [c.cc EXCEPT !.tostore = @ + 1, !.v = r.e]]
Constructor(s0, fields) ==
  LET new == ExtraArg(CodeABC(s0, "NEWTABLE", 0, 0, 0), 0)
      t   == s0.freereg
      s1  == ReserveRegs(new, 1)
      x   == FoldLeft(Field, [s |-> s1, cc |-> [v |-> Exp("VVOID", 0), t |-> t, nh |-> 0,
                                                 na |-> 0, tostore |-> 0, max |-> MaxToStore(s1)]],
                      fields)
      na  == x.cc.na + x.cc.tostore - IF HasMultRet(x.cc.v) THEN 1 ELSE 0 IN
  Gives(SetTableSize(LastListField(x.s, x.cc), Pc(s0), t, na, x.cc.nh), Exp("VNONRELOC", t))

FuncArgs(s0, f, exps) ==
  LET line == s0.lastline
      args == ExpList(s0, exps)
      multi == exps # << >> /\ HasMultRet(args.e)
      s == CASE exps = << >> -> s0
             [] exps # << >> /\ multi -> SetReturns(args, args.e, MultRet)
             [] OTHER -> Exp2NextReg(args, args.e)
      nparams == IF multi THEN MultRet ELSE s.freereg - (f.info + 1)
      r == CodeABC(Sound(s, f.k = "VNONRELOC"), "CALL", f.info, nparams + 1, 2) IN
  Gives([FixLine(r, line) EXCEPT !.freereg = f.info + 1], Exp("VCALL", Len(r.code)))

SuffixedExp(s, x) ==
  CASE x[1] = "name"  -> SingleVar(s, x[2])
    [] x[1] = "paren" -> LET e == Expr(s, x[2]) IN DischargeVars(e, e.e)
    [] x[1] = "dot"   -> LET v == Expr(s, x[2]) IN FieldSel(v, v.e, x[3])
    [] x[1] = "index" -> LET v == Expr(s, x[2])
                             t == Exp2AnyRegUp(v, v.e)
                             k == YIndex(t, x[3]) IN Indexed(k, t.e, k.e)
    [] x[1] = "method" -> LET v == Expr(s, x[2])
                              f == Self(v, v.e, Key(x[3])) IN FuncArgs(f, f.e, x[4])
    [] x[1] = "call"  -> LET v == Expr(s, x[2])
                             f == Exp2NextReg(v, v.e) IN FuncArgs(f, f.e, x[3])
SimpleExp(s, x) ==
  CASE x[1] = "k"     -> Gives(s, Const(x[2]))
    [] x[1] = "..."   -> LET r == CodeABC(IF s.vararg THEN s ELSE SemError(s, "vararg"),
                                          "VARARG", 0, 0, 1) IN
                         Gives(r, Exp("VVARARG", Len(r.code)))
    [] x[1] = "table" -> Constructor(s, x[2])
    [] x[1] = "fn"    -> Body(s, x, FALSE)
    [] OTHER -> SuffixedExp(s, x)

Priority(op) ==
  CASE op \in {"*", "%", "//"} -> [left |-> 11, right |-> 11]
    [] op \in {"+", "-"}       -> [left |-> 10, right |-> 10]
    [] op = ".."               -> [left |-> 9, right |-> 8]
    [] op \in {"<<", ">>"}     -> [left |-> 7, right |-> 7]
    [] op = "&"                -> [left |-> 6, right |-> 6]
    [] op = "~"                -> [left |-> 5, right |-> 5]
    [] op = "|"                -> [left |-> 4, right |-> 4]
    [] op \in {"==", "~=", "<", "<=", ">", ">="} -> [left |-> 3, right |-> 3]
    [] op = "and"              -> [left |-> 2, right |-> 2]
    [] op = "or"               -> [left |-> 1, right |-> 1]
UnaryPriority == 12

(* Both return the state and the position of the first token not used.     *)
RECURSIVE SubExpr(_, _, _, _)
RECURSIVE BinaryFrom(_, _, _, _)
SubExpr(s, toks, i, limit) ==
  LET un == SubExpr(s, toks, i + 1, UnaryPriority) IN
  IF toks[i][1] = "un"
  THEN BinaryFrom(Prefix(un.s, toks[i][2], un.s.e, s.lastline), toks, un.i, limit)
  ELSE BinaryFrom(SimpleExp(s, toks[i]), toks, i + 1, limit)
BinaryFrom(s, toks, i, limit) ==
  LET op   == toks[i][2]
      line == s.lastline + toks[i][3]
      v    == Infix([s EXCEPT !.lastline = line], op, s.e)
      v2   == SubExpr(v, toks, i + 1, Priority(op).right) IN
  IF s.err # "" \/ i > Len(toks) THEN [s |-> s, i |-> i]
  ELSE IF Priority(op).left <= limit THEN [s |-> s, i |-> i]
  ELSE BinaryFrom(Posfix(v2.s, op, v.e, v2.s.e, line), toks, v2.i, limit)
Expr(s, x) == IF x[1] = "ops" THEN SubExpr(s, x[2], 1, 0).s ELSE SimpleExp(s, x)

-----------------------------------------------------------------------------
(* Statements.                                                             *)

Block(s, stmts) == LeaveBlock(StatList(EnterBlock(s, FALSE), stmts, FALSE))

(* An assignment to a local or an upvalue that an earlier target uses as   *)
(* table or index leaves that target a copy.                               *)
Conflicts(v, l) ==
  IF l.k = "VINDEXUP" THEN v.k = "VUPVAL" /\ l.info = v.info
  ELSE v.k = "VLOCAL" /\ (l.info = v.info \/ (l.k = "VINDEXED" /\ l.aux = v.info))
SafeCopy(v, l, extra) ==
  IF ~(IsIndexed(l) /\ Conflicts(v, l)) THEN l
  ELSE IF l.k = "VINDEXUP" THEN Become(l, "VINDEXSTR", extra)
  ELSE [l EXCEPT !.info = IF @ = v.info THEN extra ELSE @,
                 !.aux  = IF l.k = "VINDEXED" /\ @ = v.info THEN extra ELSE @]
CheckConflict(s, lhs, v) ==
  IF \E i \in DOMAIN lhs : IsIndexed(lhs[i]) /\ Conflicts(v, lhs[i])
  THEN ReserveRegs(CodeABC(s, IF v.k = "VLOCAL" THEN "MOVE" ELSE "GETUPVAL",
                           s.freereg, v.info, 0), 1)
  ELSE s
Target(x, exp) ==
  LET s == SuffixedExp(x.s, exp)
      v == s.e
      copy == ~IsIndexed(v)
      r == IF IsVar(v) THEN CheckReadOnly(IF copy THEN CheckConflict(s, x.lhs, v) ELSE s, v)
           ELSE SemError(s, "syntax") IN
  IF x.s.err # "" THEN x
  ELSE
  [s |-> r, lhs |-> Append(IF copy THEN [i \in DOMAIN x.lhs |-> SafeCopy(v, x.lhs[i], s.freereg)]
                           ELSE x.lhs, v)]
DefaultStore(s, v) == StoreVar(s, v, Exp("VNONRELOC", s.freereg - 1))
Assignment(s0, targets, exps) ==
  LET x    == FoldLeft(Target, [s |-> s0, lhs |-> << >>], targets)
      n    == Len(targets)
      list == ExpList(x.s, exps)
      one  == SetOneRet(list, list.e)
      same == Len(exps) = n
      s    == IF same THEN StoreVar(one, x.lhs[n], one.e)
              ELSE AdjustAssign(list, n, Len(exps), list.e) IN
  IF x.s.err # "" THEN x.s
  ELSE FoldLeft(DefaultStore, s, Reverse(IF same THEN Front(x.lhs) ELSE x.lhs))

(* Leaves the list of the jumps taken when the condition is false.         *)
Cond(s0, exp) ==
  LET s == Expr(s0, exp) IN
  GoIfTrue(s, IF s.e.k = "VNIL" THEN [s.e EXCEPT !.k = "VFALSE", !.v = Bool(FALSE)] ELSE s.e)

BreakStat(s, loops) ==
  LET i == CHOOSE j \in loops : \A h \in loops : h <= j IN
  IF loops = {} THEN SemError(s, "break")
  ELSE NewGoto([s EXCEPT !.bl[i].pending = TRUE], "break")
LabelStat(s, name, last) ==
  CreateLabel(IF FindLabel(s, name, s.firstlabel) # {} THEN SemError(s, "label") ELSE s,
              name, last)

WhileStat(s0, exp, body) ==
  LET c == Cond(GetLabel(s0), exp)
      b == Block(EnterBlock(c, TRUE), body)
      j == Jump(b)
      s == LeaveBlock(NewLine(PatchList(j, Len(j.code), Pc(s0)))) IN
  PatchToHere(s, c.e.f)

RepeatStat(s0, body, exp) ==
  LET in   == EnterBlock(EnterBlock(GetLabel(s0), TRUE), FALSE)
      c    == Cond(NewLine(StatList(in, body, TRUE)), exp)
      bl2  == Last(c.bl)
      out  == LeaveBlock(c)
      exit == Jump(out)
      fix  == Jump(CodeABC(PatchToHere(exit, c.e.f), "CLOSE", RegLevel(exit, bl2.nactvar), 0, 0))
      s    == IF bl2.upval THEN PatchList(PatchToHere(fix, Len(exit.code)), Len(fix.code), Pc(s0))
              ELSE PatchList(out, c.e.f, Pc(s0)) IN
  LeaveBlock(s)

Exp1(s0, exp) == LET s == Expr(s0, exp) IN Exp2NextReg(s, s.e)
FixForJump(s, pc, dest, back) ==
  [s EXCEPT !.code[pc].b = IF back THEN pc + 1 - dest ELSE dest - (pc + 1)]
ForBody(s0, base, line, nvars, isgen, body) ==
  LET prep == [CodeABC(s0, IF isgen THEN "TFORPREP" ELSE "FORPREP", base, 0, 0)
               EXCEPT !.freereg = @ - 1]
      in   == ReserveRegs(AdjustLocalVars(EnterBlock(prep, FALSE), nvars), nvars)
      out  == GetLabel(LeaveBlock(Block(in, body)))
      skip == FixForJump(out, Len(prep.code), Pc(out), FALSE)
      call == IF isgen THEN FixLine(CodeABC(skip, "TFORCALL", base, 0, nvars), line) ELSE skip
      loop == CodeABC(call, IF isgen THEN "TFORLOOP" ELSE "FORLOOP", base, 0, 0) IN
  FixLine(FixForJump(loop, Len(loop.code), Pc(prep), TRUE), line)
ForNum(s0, name, exps, body) ==
  LET vars == NewLocalVar(NewLocalVars(s0, <<"(for state)", "(for state)">>, "REG"), name, "CONST")
      two  == Exp1(Exp1(vars, exps[1]), exps[2])
      all  == IF Len(exps) = 3 THEN Exp1(two, exps[3])
              ELSE ReserveRegs(LoadNumber(two, two.freereg, IntVal(1)), 1) IN
  ForBody(AdjustLocalVars(all, 2), s0.freereg, s0.lastline, 1, FALSE, body)
ForList(s0, names, exps, body) ==
  LET st   == NewLocalVars(s0, <<"(for state)", "(for state)", "(for state)">>, "REG")
      vars == NewLocalVars(NewLocalVar(st, names[1], "CONST"), Tail(names), "REG")
      list == ExpList(vars, exps)
      adj  == AdjustLocalVars(AdjustAssign(list, 4, Len(exps), list.e), 3) IN
  ForBody(CheckStack(MarkToBeClosed(adj), 2), s0.freereg, s0.lastline, Len(names), TRUE, body)
ForStat(s0, loop) == LeaveBlock(NewLine(loop))

(* Each part of an "if" jumps over the ones after it.                      *)
RECURSIVE TestThenBlocks(_, _, _, _)
TestThenBlocks(s0, parts, else, escape) ==
  LET c    == Cond(s0, parts[1][1])
      b    == Block(c, parts[1][2])
      last == Len(parts) = 1 /\ else = << >>
      j    == Jump(b)
      s    == NewLine(PatchToHere(IF last THEN b ELSE Link(j, escape, Len(j.code)), c.e.f))
      list == IF last THEN escape ELSE Joined(escape, Len(j.code)) IN
  IF Len(parts) > 1 THEN TestThenBlocks(s, Tail(parts), else, list)
  ELSE PatchToHere(IF last THEN s ELSE NewLine(Block(s, else[1])), list)

(* The body of a local function sees the variable, but the variable has no *)
(* value before the instruction that creates the function: it is not meant *)
(* to be told there, and the debug information sees it only after it.      *)
LocalBody(s0, name, fn) ==
  LET s == Body(AdjustLocalVars(NewLocalVar(s0, name, "REG"), 1), fn, FALSE) IN
  [s EXCEPT !.meant[Len(s.meant)].locals = Front(@)]
(* A mutant: the debug information sees it from where its scope begins.    *)
SeenInBody(s0, name, fn) == LocalBody(s0, name, fn)
LocalFunc(s0, name, fn) ==
  LET s == LocalBody(s0, name, fn) IN
  [s EXCEPT !.locvars[LocalDebugInfo(s, s0.nactvar)].startpc = Pc(s)]
LocalStat(s0, vars, exps) ==
  LET n     == Len(vars)
      tbc   == {i \in 1 .. n : vars[i][2] = "CLOSE"}
      new   == FoldLeft(LAMBDA r, v : NewLocalVar(r, v[1], v[2]), s0, vars)
      many  == IF Cardinality(tbc) > 1 THEN SemError(new, "close") ELSE new
      s     == IF exps = << >> THEN Gives(many, Exp("VVOID", 0)) ELSE ExpList(many, exps)
      e     == s.e
      val   == IF e.k = "VCONST" THEN s.actvar[e.info].val ELSE e.v
      ctc   == /\ n = Len(exps) /\ vars[n][2] = "CONST"
               /\ ~HasJumps(e) /\ e.k \in ValueKinds \cup {"VCONST"}
      const == [s EXCEPT !.actvar[s.nact].kind = "CTC", !.actvar[s.nact].val = val]
      r     == IF ctc THEN [AdjustLocalVars(const, n - 1) EXCEPT !.nactvar = @ + 1]
               ELSE AdjustLocalVars(AdjustAssign(s, n, Len(exps), e), n)
      level == s0.nactvar + (CHOOSE i \in tbc : TRUE) - 1 IN
  IF tbc = {} THEN r ELSE CodeABC(MarkToBeClosed(r), "TBC", RegLevel(r, level), 0, 0)

FuncStat(s0, target, ismethod, fn) ==
  LET v == SuffixedExp(s0, target)
      b == Body(v, fn, ismethod)
      s == CheckReadOnly(b, v.e) IN
  IF s.err # "" THEN s ELSE FixLine(StoreVar(s, v.e, b.e), s0.lastline)
CallStat(s0, exp) == LET s == SuffixedExp(s0, exp) IN [s EXCEPT !.code[s.e.info].c = 1]

RetStat(s0, exps) ==
  LET first == NVarStack(s0)
      list  == ExpList(s0, exps)
      nret  == Len(exps)
      multi == SetReturns(list, list.e, MultRet)
      tail  == list.e.k = "VCALL" /\ nret = 1 /\ ~Last(s0.bl).insidetbc
      any   == Exp2AnyReg(list, list.e)
      next  == Exp2NextReg(list, list.e) IN
  CASE nret = 0 -> Ret(s0, first, 0)
    [] nret > 0 /\ HasMultRet(list.e) ->
         Ret(IF tail THEN [Sound(multi, multi.code[list.e.info].a = first)
                           EXCEPT !.code[list.e.info].op = "TAILCALL"]
             ELSE multi, first, MultRet)
    [] nret = 1 /\ ~HasMultRet(list.e) -> Ret(any, any.e.info, 1)
    [] OTHER -> Ret(Sound(next, nret = next.freereg - first), first, nret)

Statement(s0, x) ==
  LET s == NewLine(s0)
      r == CASE x[1] = "if"     -> TestThenBlocks(s, x[2], x[3], NoJump)
             [] x[1] = "while"  -> WhileStat(s, x[2], x[3])
             [] x[1] = "do"     -> NewLine(Block(s, x[2]))
             [] x[1] = "fornum" -> ForStat(s, ForNum(EnterBlock(s, TRUE), x[2], x[3], x[4]))
             [] x[1] = "forin"  -> ForStat(s, ForList(EnterBlock(s, TRUE), x[2], x[3], x[4]))
             [] x[1] = "repeat" -> RepeatStat(s, x[2], x[3])
             [] x[1] = "function" -> FuncStat(s, x[2], x[3], x[4])
             [] x[1] = "local"  -> LocalStat(s, x[2], x[3])
             [] x[1] = "localfn" -> LocalFunc(s, x[2], x[3])
             [] x[1] = "return" -> RetStat(s, x[2])
             [] x[1] = "break"  -> BreakStat(s, {i \in DOMAIN s.bl : s.bl[i].isloop})
             [] x[1] = "goto"   -> NewGoto(s, x[2])
             [] x[1] = "blank"  -> [s EXCEPT !.lastline = @ + x[2]]
             [] x[1] = "assign" -> Assignment(s, x[2], x[3])
             [] x[1] \in {"call", "method"} -> CallStat(s, x) IN
  [Sound(r, r.maxstack >= r.freereg /\ r.freereg >= NVarStack(r)) EXCEPT !.freereg = NVarStack(r)]

(* A run of labels is one statement: the first is created last, and they   *)
(* end the block if nothing follows ("until" does not end the scope).      *)
StatList(s0, stmts, untilnext) ==
  LET IsLabel(i) == stmts[i][1] = "label"
      EndOfRun(i) == CHOOSE j \in i .. Len(stmts) :
                       /\ \A h \in i .. j : IsLabel(h)
                       /\ j = Len(stmts) \/ ~IsLabel(j + 1)
      Labels(s, i, j) ==
        FoldRight(LAMBDA h, r : LabelStat(r, stmts[h][2], j = Len(stmts) /\ ~untilnext),
                  [h \in 1 .. j - i + 1 |-> i + h - 1], [s EXCEPT !.lastline = @ + j - i + 1]) IN
  FoldLeft(LAMBDA s, i : IF s.err # "" THEN s
                         ELSE IF ~IsLabel(i) THEN Statement(s, stmts[i])
                         ELSE IF i > 1 /\ IsLabel(i - 1) THEN s
                         ELSE Labels(s, i, EndOfRun(i)),
           s0, [i \in DOMAIN stmts |-> i])

(* The main function: vararg, with the environment as its only upvalue.    *)
MainFunc(block) ==
  LET open == SetVararg(EnterBlock(Open([depth |-> -1], 0, 0), FALSE), 0)
      env  == [name |-> "ENV", instack |-> TRUE, idx |-> 0, kind |-> "REG"] IN
  Closed(StatList([open EXCEPT !.ups = <<env>>], block, FALSE))
Compile(block) ==
  LET s == MainFunc(block) IN
  [proto |-> Proto(s), err |-> s.err,
   sound |-> s.sound /\ Len(s.ups) = 1 /\ s.nact = 0 /\ s.gt = << >> /\ s.label = << >>]
=============================================================================
