-------------------------------- MODULE Debug --------------------------------
(***************************************************************************)
(* What the debug interface (ldebug.c) tells from the code of a function   *)
(* p: the line of an instruction, its local variables, and a name for the  *)
(* value in a register, which it finds by going through the code that set  *)
(* the register.  A name is a pair of a kind and a string, or None.        *)
(***************************************************************************)
EXTENDS Code

None    == <<"none", Nil>>
Unknown == Val("word", 0)      \* "?"
AnInteger == Val("word", 1)    \* "integer index"

-----------------------------------------------------------------------------
(* Lines are read back from the last absolute line, found from an estimate *)
(* that must not be past it.                                               *)

Estimate(pc)   == (pc - 1) \div MaxIwthAbs
BaseLine(p, pc) ==
  LET i == CHOOSE j \in DOMAIN p.abs :
             /\ j >= Estimate(pc) /\ (p.abs[j].pc <= pc \/ j = Estimate(pc))
             /\ j = Len(p.abs) \/ p.abs[j + 1].pc > pc IN
  IF p.abs = << >> \/ pc < p.abs[1].pc THEN [pc |-> 0, line |-> p.linedefined] ELSE p.abs[i]
FuncLine(p, pc) ==
  LET base == BaseLine(p, pc) IN
  IF p.info = << >> THEN -1 ELSE FoldLeft(+, base.line, SubSeq(p.info, base.pc + 1, pc))

NextLine(p, line, pc) == IF p.info[pc] # AbsLineInfo THEN line + p.info[pc] ELSE FuncLine(p, pc)
(* The lines of a function that have code.                                 *)
ValidLines(p) ==
  LET Step(acc, pc) == LET line == NextLine(p, acc.line, pc) IN
                       [line |-> line, all |-> IF pc = 1 /\ p.vararg THEN {} ELSE acc.all \cup {line}] IN
  FoldLeft(Step, [line |-> p.linedefined, all |-> {}], [pc \in DOMAIN p.info |-> pc]).all
(* Is newpc on another line than oldpc, before it?  The differences tell,  *)
(* if they are few and none of them is an absolute line.                   *)
ChangedLine(p, oldpc, newpc) ==
  LET between == SubSeq(p.info, oldpc + 1, newpc) IN
  /\ p.info # << >>
  /\ IF newpc - oldpc < MaxIwthAbs \div 2 /\ AbsLineInfo \notin ToSet(between)
     THEN FoldLeft(+, 0, between) # 0
     ELSE FuncLine(p, oldpc) # FuncLine(p, newpc)

-----------------------------------------------------------------------------
(* Names.                                                                  *)

(* The variables begin in the order in which they are listed: the search   *)
(* ends at the first one that begins later.                                *)
LocalNames(p, pc) ==
  LET later == {i \in DOMAIN p.locvars : p.locvars[i].startpc > pc} IN
  SelectSeq(SubSeq(p.locvars, 1, Min(later \cup {Len(p.locvars) + 1}) - 1), LAMBDA v : pc < v.endpc)
LocalName(p, n, pc) == IF n \in DOMAIN LocalNames(p, pc) THEN LocalNames(p, pc)[n].name ELSE Nil
UpvalName(p, uv) == LET n == p.ups[uv + 1].name IN IF n = Nil THEN Unknown ELSE n

SetsA == {"MOVE", "LOADI", "LOADF", "LOADK", "LOADKX", "LOADFALSE", "LFALSESKIP", "LOADTRUE",
          "GETUPVAL", "GETTABUP", "GETTABLE", "GETI", "GETFIELD", "NEWTABLE", "SELF", "ARITH",
          "ARITHK", "ARITHI", "UNARY", "NOT", "CONCAT", "TESTSET", "FORLOOP", "FORPREP",
          "TFORLOOP", "CLOSURE", "VARARG", "VARARGPREP"}
SetsReg(i, reg) ==
  CASE i.op = "LOADNIL"  -> reg \in i.a .. i.a + i.b
    [] i.op = "TFORCALL" -> reg >= i.a + 2
    [] i.op \in {"CALL", "TAILCALL"} -> reg >= i.a
    [] OTHER -> i.op \in SetsA /\ reg = i.a
(* The last instruction before lastpc that set the register, 0 if there is *)
(* none or a jump to lastpc or before it may have skipped that one.        *)
Setter(p, lastpc, reg) ==
  LET pcs == {0} \cup {pc \in 1 .. lastpc - 1 : SetsReg(p.code[pc], reg)} IN
  CHOOSE pc \in pcs : \A other \in pcs : other <= pc
(* A mutant: code under a condition is believed.                           *)
FindSetRegAnyway(p, lastpc, reg) ==
  IF p.code[lastpc].op \in {"MMBIN", "MMBINI", "MMBINK"} THEN Setter(p, lastpc - 1, reg)
  ELSE Setter(p, lastpc, reg)
FindSetReg(p, lastpc, reg) ==
  LET last == IF p.code[lastpc].op \in {"MMBIN", "MMBINI", "MMBINK"} THEN lastpc - 1 ELSE lastpc
      set  == Setter(p, last, reg) IN
  IF \E pc \in 1 .. set - 1 : p.code[pc].op = "JMP" /\ pc + 1 + p.code[pc].b \in set + 1 .. last
  THEN 0 ELSE set

KName(p, k) == IF p.k[k + 1].t = "str" THEN <<"constant", p.k[k + 1]>> ELSE None
(* A name, and the instruction the search for it arrived at.               *)
RECURSIVE BasicGetObjName(_, _, _)
BasicGetObjName(p, lastpc, reg) ==
  LET lock == LocalName(p, reg + 1, lastpc)
      pc   == FindSetReg(p, lastpc, reg)
      i    == p.code[pc]
      Found(name) == [pc |-> pc, name |-> name] IN
  IF lock # Nil THEN [pc |-> lastpc, name |-> <<"lock", lock>>]
  ELSE IF pc = 0 THEN Found(None)
  ELSE CASE i.op = "MOVE" /\ i.b < i.a -> BasicGetObjName(p, pc, i.b)
         [] i.op = "GETUPVAL" -> Found(<<"upvalue", UpvalName(p, i.b)>>)
         [] i.op = "LOADK"    -> Found(KName(p, i.b))
         [] i.op = "LOADKX"   -> Found(KName(p, p.code[pc + 1].a))
         [] OTHER -> Found(None)
(* The field of a table named ENV is a global variable.                    *)
IsEnv(table) == IF table = Key("ENV").v THEN "global" ELSE "field"
GetObjName(p, lastpc, reg) ==
  LET found == BasicGetObjName(p, lastpc, reg)
      i     == p.code[found.pc]
      RegName(r) == BasicGetObjName(p, found.pc, r).name IN
  IF found.name # None \/ found.pc = 0 THEN found.name
  ELSE CASE i.op = "GETTABUP" -> <<IsEnv(UpvalName(p, i.b)), KName(p, i.c)[2]>>
         [] i.op = "GETTABLE" -> <<IsEnv(RegName(i.b)[2]),
                                   IF RegName(i.c)[1] = "constant" THEN RegName(i.c)[2] ELSE Unknown>>
         [] i.op = "GETI"     -> <<"field", AnInteger>>
         [] i.op = "GETFIELD" -> <<IsEnv(RegName(i.b)[2]), KName(p, i.c)[2]>>
         [] i.op = "SELF"     -> <<"method", KName(p, i.c)[2]>>
         [] OTHER -> None

(* The name of what an instruction calls.                                  *)
FuncNameFromCode(p, pc) ==
  LET i == p.code[pc] IN
  CASE i.op \in {"CALL", "TAILCALL"} -> GetObjName(p, pc, i.a)
    [] i.op = "TFORCALL" -> <<"for iterator", Unknown>>
    [] i.op \in {"SELF", "GETTABUP", "GETTABLE", "GETI", "GETFIELD"} -> <<"metamethod", "index">>
    [] i.op \in {"SETTABUP", "SETTABLE", "SETI", "SETFIELD"} -> <<"metamethod", "newindex">>
    [] i.op = "CONCAT" -> <<"metamethod", "..">>
    [] i.op = "EQ"     -> <<"metamethod", "==">>
    [] i.op \in {"CLOSE", "RETURN"} -> <<"metamethod", "close">>
    [] OTHER -> <<"metamethod", i.o>>
=============================================================================
