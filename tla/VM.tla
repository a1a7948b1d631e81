--------------------------------- MODULE VM ---------------------------------
(***************************************************************************)
(* The virtual machine (lvm.c) running what the compiler produced, one     *)
(* instruction a step.  A program is a block and the answers its external  *)
(* objects may give, first, second, ... and then always the last: those    *)
(* objects have every metamethod, and each call of one or operation on one *)
(* is an event of the trace, answered with some sequence of values.  In    *)
(* some programs each such call yields, in the middle of its instruction,  *)
(* and FinishOp has to complete that when it is resumed.                   *)
(* Tables and strings have no metamethods, and the programs neither do     *)
(* arithmetic on strings nor concatenate numbers.                          *)
(*                                                                         *)
(* An open upvalue is a register of a frame; a free register holds Undef,  *)
(* the garbage a called function leaves there.                             *)
(*                                                                         *)
(* A line hook is set from the start: before each instruction it is called *)
(* or not (Traces), on the evidence of the instruction traced last.        *)
(***************************************************************************)
EXTENDS Debug

CONSTANTS Programs,    \* [body, answers (a sequence of sets), yields, dump, mode, cut, block]
          Load(_),     \* a program as compiled, and as loaded then
          FuncName(_, _), ObjName(_, _, _),
                       \* the names Debug finds for what an instruction calls
                       \* and for what a register holds
          Externals,   \* the names of the global variables that hold objects
          MaxEvents    \* length of a trace                            (bound)

VARIABLES prog,     \* the program
          unit,     \* what Load gave, until the main function is called
          frames,   \* its active functions
          heap,     \* tables, closures and upvalues
          trace,    \* the events so far
          answers,  \* and what the objects answered
          status,   \* "loaded", "run", "yield", "done", "error", "cut" (a full trace)
                    \* or "rejected"
          results,  \* what the main function returned; for an error, the name it gives
          oldpc     \* the instruction that was traced last
vars == <<prog, unit, frames, heap, trace, answers, status, results, oldpc>>

StrConcat(x, y) == Val("str", x.v * 10 ^ StrLen(y.v) + y.v)
Object(n) == Val("obj", Digits[n])
Globals   == [key \in {Val("str", Digits[n]) : n \in Externals} |-> Val("obj", key.v)]

(* A call completes the parameters with nil, and keeps the other arguments *)
(* of a vararg function aside.  (last is the instruction executed before   *)
(* pc in this frame, for the properties.)                                  *)
Frame(p, ups, args, to, want) ==
  [p |-> p, ups |-> ups, pc |-> 1, last |-> 0, to |-> to, want |-> want,
   top |-> 0, pend |-> 0, nres |-> 0, tbc |-> << >>,
   va |-> IF p.vararg THEN SubSeq(args, p.numparams + 1, Len(args)) ELSE << >>,
   regs |-> [i \in 1 .. p.maxstack |->
               IF i > p.numparams THEN Undef ELSE IF i <= Len(args) THEN args[i] ELSE Nil]]

Init ==
  /\ prog \in DOMAIN Programs
  /\ unit = Load(Programs[prog])
  /\ heap = [tabs  |-> <<[asize |-> 0, map |-> Globals]>>, clos |-> << >>,
             cells |-> <<[open |-> FALSE, depth |-> 0, reg |-> 0, v |-> Val("tab", 1)]>>]
  /\ status = IF unit.loaded.err = "" THEN "loaded" ELSE "rejected"
  /\ frames = << >>
  /\ trace = << >> /\ answers = << >> /\ results = << >>
  /\ oldpc = 1

(* The main function is called with the table of globals as its upvalue;   *)
(* only closures hold the functions then.                                  *)
Start ==
  /\ status = "loaded" /\ status' = "run"
  /\ frames' = <<Frame(unit.loaded.proto, <<1>>, << >>, 0, MultRet)>>
  /\ unit' = << >>
  /\ UNCHANGED <<prog, heap, trace, answers, results, oldpc>>

-----------------------------------------------------------------------------
(* The current instruction and its operands.                               *)

D  == Len(frames)
Fr == frames[D]
P  == Fr.p
I  == P.code[Fr.pc]
R(n)  == Fr.regs[n + 1]
K(n)  == P.k[n + 1]
RK(n) == IF I.k = 1 THEN K(n) ELSE R(n)
Regs(from, to) == SubSeq(Fr.regs, from + 1, to)
Up(n) == LET c == heap.cells[Fr.ups[n + 1]] IN
         IF c.open THEN frames[c.depth].regs[c.reg + 1] ELSE c.v
Running(ops) == status = "run" /\ I.op \in ops

Put(f, a, v) == [f EXCEPT !.regs[a + 1] = v, !.pc = @ + 1]
Skip(f, n)   == [f EXCEPT !.pc = @ + n]
With(f)      == [frames EXCEPT ![D] = [f EXCEPT !.last = Fr.pc]]
Traced       == oldpc' = Fr.pc
Continue(f)  == /\ frames' = With(f) /\ Traced
                /\ UNCHANGED <<prog, unit, heap, trace, answers, status, results>>
(* An error, which names the value at fault, if it can.                    *)
Fail(name) == /\ status' = "error" /\ results' = <<name>> /\ Traced
              /\ UNCHANGED <<prog, unit, frames, heap, trace, answers>>
FailAt(reg) == Fail(ObjName(P, Fr.pc, reg))

(* Values fill registers from a; want = MultRet takes all and sets the top.*)
Fill(f, a, vals, want) ==
  LET n == IF want = MultRet THEN Len(vals) ELSE want
      size == IF a + n > Len(f.regs) THEN a + n ELSE Len(f.regs) IN
  [f EXCEPT !.top  = IF want = MultRet THEN a + n ELSE @,
            !.regs = [i \in 1 .. size |->
                        IF i \in a + 1 .. a + n
                        THEN IF i - a <= Len(vals) THEN vals[i - a] ELSE Nil
                        ELSE IF i <= Len(f.regs) THEN f.regs[i] ELSE Undef]]
(* After a call the registers above its results are garbage.               *)
Results(f, a, vals, want) ==
  LET r == Fill(f, a, vals, want)
      n == IF want = MultRet THEN Len(vals) ELSE want IN
  [r EXCEPT !.regs = [i \in DOMAIN @ |-> IF i > a + n THEN Undef ELSE @[i]]]

(* An event, and the name the called function would find for itself; After *)
(* tells the frames that each answer leads to.  It may yield, after what   *)
(* the instruction did before (SELF moved the object).                     *)
Possible(n) == LET a == Programs[prog].answers IN IF n < Len(a) THEN a[n + 1] ELSE Last(a)
Yields == Programs[prog].yields
Begun  == IF I.op = "SELF" THEN With([Fr EXCEPT !.regs[I.a + 2] = R(I.b)]) ELSE frames
Asked(kind, args) == [kind |-> kind, args |-> args, name |-> FuncName(P, Fr.pc)]
Ask(kind, args, After(_)) ==
  /\ Traced
  /\ IF Len(trace) >= MaxEvents
     THEN status' = "cut" /\ UNCHANGED <<prog, unit, frames, heap, trace, answers, results>>
     ELSE IF Yields
     THEN /\ trace' = Append(trace, Asked(kind, args))
          /\ status' = "yield" /\ frames' = Begun
          /\ UNCHANGED <<prog, unit, heap, answers, results>>
     ELSE \E ans \in Possible(Len(answers)) :
            /\ trace' = Append(trace, Asked(kind, args))
            /\ answers' = Append(answers, ans)
            /\ frames' = After(ans)
            /\ UNCHANGED <<prog, unit, heap, status, results>>
First(ans) == IF ans = << >> THEN Nil ELSE ans[1]
HasObject(x, y) == x.t = "obj" \/ y.t = "obj"
AskInto(kind, args, a) == Ask(kind, args, LAMBDA ans : With(Put(Fr, a, First(ans))))

-----------------------------------------------------------------------------
(* Loads, upvalues and tables.                                             *)

LoadValue ==
  /\ Running({"MOVE", "LOADI", "LOADF", "LOADK", "LOADKX", "LOADFALSE", "LFALSESKIP",
              "LOADTRUE", "GETUPVAL", "NOT"})
  /\ LET v == CASE I.op = "MOVE"     -> R(I.b)
                [] I.op = "LOADI"    -> IntVal(I.b)
                [] I.op = "LOADF"    -> Flt(2 * I.b)
                [] I.op = "LOADK"    -> K(I.b)
                [] I.op = "LOADKX"   -> K(P.code[Fr.pc + 1].a)
                [] I.op = "LOADTRUE" -> Bool(TRUE)
                [] I.op = "GETUPVAL" -> Up(I.b)
                [] I.op = "NOT"      -> Bool(IsFalse(R(I.b)))
                [] OTHER -> Bool(FALSE) IN
     Continue(Skip(Put(Fr, I.a, v), IF I.op \in {"LFALSESKIP", "LOADKX"} THEN 1 ELSE 0))
LoadNil ==
  /\ Running({"LOADNIL"})
  /\ Continue(Skip(Fill(Fr, I.a, << >>, I.b + 1), 1))
SetUpval ==
  LET cell == Fr.ups[I.b + 1]
      c    == heap.cells[cell] IN
  /\ Running({"SETUPVAL"})
  /\ frames' = IF c.open THEN [With(Skip(Fr, 1)) EXCEPT ![c.depth].regs[c.reg + 1] = R(I.a)]
               ELSE With(Skip(Fr, 1))
  /\ heap' = IF c.open THEN heap ELSE [heap EXCEPT !.cells[cell].v = R(I.a)]
  /\ Traced
  /\ UNCHANGED <<prog, unit, trace, answers, status, results>>

(* A float key that is an integer is that integer.                         *)
NormKey(k)    == IF Integral(k) THEN IntVal(Rounded(k, FALSE)) ELSE k
Lookup(t, k)  == LET m == heap.tabs[t.v].map IN
                 IF NormKey(k) \in DOMAIN m THEN m[NormKey(k)] ELSE Nil
Stored(m, k, v) == [x \in DOMAIN m \cup {NormKey(k)} |-> IF x = NormKey(k) THEN v ELSE m[x]]

GetTable ==
  LET t == CASE I.op = "GETTABUP" -> Up(I.b) [] OTHER -> R(I.b)
      k == CASE I.op = "GETTABLE" -> R(I.c) [] I.op = "GETI" -> IntVal(I.c) [] OTHER -> K(I.c)
      f == IF I.op = "SELF" THEN [Fr EXCEPT !.regs[I.a + 2] = t] ELSE Fr IN
  /\ Running({"GETTABUP", "GETTABLE", "GETI", "GETFIELD", "SELF"})
  /\ CASE t.t = "tab" -> Continue(Put(f, I.a, Lookup(t, k)))
       [] t.t = "obj" -> Ask("index", <<t, k>>, LAMBDA ans : With(Put(f, I.a, First(ans))))
       [] t.t \notin {"tab", "obj"} /\ I.op = "GETTABUP" -> Fail(<<"upvalue", UpvalName(P, I.b)>>)
       [] OTHER -> FailAt(I.b)
SetTable ==
  LET t == CASE I.op = "SETTABUP" -> Up(I.a) [] OTHER -> R(I.a)
      k == CASE I.op = "SETTABLE" -> R(I.b) [] I.op = "SETI" -> IntVal(I.b) [] OTHER -> K(I.b) IN
  /\ Running({"SETTABUP", "SETTABLE", "SETI", "SETFIELD"})
  /\ CASE t.t = "tab" /\ k # Nil ->
            /\ heap' = [heap EXCEPT !.tabs[t.v].map = Stored(@, k, RK(I.c))]
            /\ frames' = With(Skip(Fr, 1)) /\ Traced
            /\ UNCHANGED <<prog, unit, trace, answers, status, results>>
       [] t.t = "obj" -> Ask("newindex", <<t, k, RK(I.c)>>, LAMBDA ans : With(Skip(Fr, 1)))
       [] t.t = "tab" /\ k = Nil -> Fail(None)
       [] t.t \notin {"tab", "obj"} /\ I.op = "SETTABUP" -> Fail(<<"upvalue", UpvalName(P, I.a)>>)
       [] OTHER -> FailAt(I.a)

Extra(pc) == P.code[pc].a * (MaxArgVC + 1)
NewTable ==
  /\ Running({"NEWTABLE"})
  /\ heap' = [heap EXCEPT !.tabs = Append(@, [map |-> [x \in {} |-> Nil],
                asize |-> I.c + IF I.k = 1 THEN Extra(Fr.pc + 1) ELSE 0])]
  /\ frames' = With(Skip(Put(Fr, I.a, Val("tab", Len(heap.tabs) + 1)), 1))
  /\ Traced
  /\ UNCHANGED <<prog, unit, trace, answers, status, results>>
ListCount == IF I.b = 0 THEN Fr.top - I.a - 1 ELSE I.b
ListLast  == I.c + ListCount + IF I.k = 1 THEN Extra(Fr.pc + 1) ELSE 0
StoreList ==
  LET t    == R(I.a).v
      keys == {IntVal(i) : i \in ListLast - ListCount + 1 .. ListLast}
      m    == heap.tabs[t].map IN
  /\ Running({"SETLIST"})
  /\ heap' = [heap EXCEPT !.tabs[t].map =
                [x \in DOMAIN m \cup keys |->
                   IF x \in keys THEN R(I.a + x.v - (ListLast - ListCount)) ELSE m[x]]]
  /\ frames' = With(Skip(Fr, 1 + I.k))
  /\ Traced
  /\ UNCHANGED <<prog, unit, trace, answers, status, results>>

-----------------------------------------------------------------------------
(* Operators.  An arithmetic instruction that succeeds skips the call of   *)
(* the metamethod that follows it.                                         *)

Arithmetic ==
  LET x == IF I.op = "ARITHI" /\ I.o = "<<" THEN IntVal(I.c) ELSE R(I.b)
      y == CASE I.op = "ARITH" -> R(I.c) [] I.op = "ARITHK" -> K(I.c)
             [] OTHER -> IF I.o = "<<" THEN R(I.b) ELSE IntVal(I.c) IN
  /\ Running({"ARITH", "ARITHK", "ARITHI"})
  /\ IF ~CanArith(I.o, x, y) THEN Continue(Skip(Fr, 1))
     ELSE IF I.o \in {"//", "%"} /\ y = IntVal(0) THEN Fail(None)
     ELSE Continue(Skip(Put(Fr, I.a, RawArith(I.o, x, y)), 1))
(* Without a metamethod the first operand of the wrong kind is at fault.   *)
Faulty(op, args) ==
  IF op \in BitOps /\ IsNumber(args[1]) /\ IsNumber(args[2])
  THEN IF Integral(args[1]) THEN 2 ELSE 1
  ELSE IF IsNumber(args[1]) THEN 2 ELSE 1
TryBinTM(x, y, res) ==
  LET args == IF I.k = 1 THEN <<y, x>> ELSE <<x, y>> IN
  IF HasObject(x, y) THEN AskInto(I.o, args, res)
  ELSE IF Faulty(I.o, args) = 1 + I.k THEN FailAt(I.a)
  ELSE IF I.op = "MMBIN" THEN FailAt(I.b) ELSE Fail(None)
(* The result goes to the register of the arithmetic instruction before.   *)
ArithMeta ==
  LET y == CASE I.op = "MMBIN" -> R(I.b) [] I.op = "MMBINK" -> K(I.b) [] OTHER -> IntVal(I.b) IN
  /\ Running({"MMBIN", "MMBINI", "MMBINK"})
  /\ TryBinTM(R(I.a), y, P.code[Fr.pc - 1].a)
Unary ==
  LET x == R(I.b) IN
  /\ Running({"UNARY"})
  /\ CASE I.o = "len" /\ x.t = "str" -> Continue(Put(Fr, I.a, IntVal(StrLen(x.v))))
       [] I.o = "len" /\ x.t = "tab" ->
            Continue(Put(Fr, I.a, IntVal(CHOOSE n \in 0 .. Cardinality(DOMAIN heap.tabs[x.v].map) :
                       /\ Lookup(x, IntVal(n + 1)) = Nil
                       /\ \A i \in 1 .. n : Lookup(x, IntVal(i)) # Nil)))
       [] I.o # "len" /\ CanArith(I.o, x, x) -> Continue(Put(Fr, I.a, RawArith(I.o, x, x)))
       [] x.t = "obj" -> AskInto(I.o, <<x, x>>, I.a)
       [] OTHER -> FailAt(I.b)
(* The last two operands of those left, until one is.                      *)
Pending == IF Fr.pend = 0 THEN I.b ELSE Fr.pend
Concatenated(v) ==
  [Put(Fr, I.a + Pending - 2, v) EXCEPT !.pend = IF Pending = 2 THEN 0 ELSE Pending - 1,
                                        !.pc = IF Pending = 2 THEN @ ELSE Fr.pc]
ConcatError(x) == FailAt(I.a + Pending - IF x.t = "str" THEN 1 ELSE 2)
Concat ==
  LET x == R(I.a + Pending - 2)
      y == R(I.a + Pending - 1) IN
  /\ Running({"CONCAT"})
  /\ CASE x.t = "str" /\ y.t = "str" -> Continue(Concatenated(StrConcat(x, y)))
       [] HasObject(x, y) -> Ask("..", <<x, y>>, LAMBDA ans : With(Concatenated(First(ans))))
       [] OTHER -> ConcatError(x)

(* A test either skips the jump that follows it or takes it.               *)
Jumped(f, pc) == [f EXCEPT !.pc = pc + 1 + P.code[pc].b]
Tested(cond)  == IF cond = (I.k = 1) THEN Jumped(Fr, Fr.pc + 1) ELSE Skip(Fr, 2)
Jmp == Running({"JMP"}) /\ Continue(Jumped(Fr, Fr.pc))
Test ==
  /\ Running({"TEST", "EQK", "EQI"})
  /\ Continue(Tested(CASE I.op = "TEST" -> ~IsFalse(R(I.a))
                       [] I.op = "EQK"  -> RawEqual(R(I.a), K(I.b))
                       [] I.op = "EQI"  -> RawEqual(R(I.a), IntVal(I.b))))
TestSet ==
  /\ Running({"TESTSET"})
  /\ Continue(IF IsFalse(R(I.b)) = (I.k = 1) THEN Skip(Fr, 2)
              ELSE Jumped([Fr EXCEPT !.regs[I.a + 1] = R(I.b)], Fr.pc + 1))
AskTest(kind, args) == Ask(kind, args, LAMBDA ans : With(Tested(~IsFalse(First(ans)))))
Equal ==
  LET x == R(I.a)
      y == R(I.b) IN
  /\ Running({"EQ"})
  /\ IF x.t = "obj" /\ y.t = "obj" /\ x # y THEN AskTest("==", <<x, y>>)
     ELSE Continue(Tested(RawEqual(x, y)))
TypeName(x)      == IF IsNumber(x) THEN "number" ELSE x.t
OrderError(x, y) == Fail(<<"compare", TypeName(x), TypeName(y)>>)
OrderOthers(x, y) == IF HasObject(x, y) THEN AskTest(I.o, <<x, y>>) ELSE OrderError(x, y)
OpOrder(x, y) ==
  IF IsNumber(x) /\ IsNumber(y) THEN Continue(Tested(Less(I.o, x, y))) ELSE OrderOthers(x, y)
Order == Running({"ORDER"}) /\ OpOrder(R(I.a), R(I.b))
(* With an immediate operand, the second one or (flipped) the first.       *)
OrderImmediate ==
  LET im == IF I.c = 1 THEN Flt(2 * I.b) ELSE IntVal(I.b) IN
  \/ Running({"ORDERI"})  /\ OpOrder(R(I.a), im)
  \/ Running({"ORDERGI"}) /\ OpOrder(im, R(I.a))

-----------------------------------------------------------------------------
(* Functions.                                                              *)

(* Leaving the registers from level of the current frame: its upvalues are *)
(* closed and its variables to be closed, last first, have their say.      *)
ClosedCells(level) ==
  [c \in DOMAIN heap.cells |->
     LET x == heap.cells[c] IN
     IF x.open /\ x.depth = D /\ x.reg >= level
     THEN [x EXCEPT !.open = FALSE, !.v = R(x.reg)] ELSE x]
ToClose(level)     == SelectSeq(Fr.tbc, LAMBDA r : r >= level)
CloseEvents(level) ==
  LET regs == Reverse(ToClose(level)) IN
  [i \in DOMAIN regs |-> Asked("close", <<R(regs[i]), Nil>>)]
CloseLevel == IF I.op = "CLOSE" THEN I.a ELSE 0
Suspends   == Yields /\ ToClose(CloseLevel) # << >>
Close ==
  /\ Running({"CLOSE"}) /\ I.b = 0 /\ ~Suspends
  /\ heap' = [heap EXCEPT !.cells = ClosedCells(I.a)]
  /\ trace' = trace \o CloseEvents(I.a)
  /\ frames' = With([Skip(Fr, 1) EXCEPT !.tbc = SelectSeq(@, LAMBDA r : r < I.a)])
  /\ Traced
  /\ UNCHANGED <<prog, unit, answers, status, results>>
(* A closing method that yields: the instruction is repeated for the other *)
(* variables; a return has saved the number of its results, as the top is  *)
(* moved above the frame.                                                  *)
ReturnCount == IF I.b = 0 THEN Fr.top - I.a ELSE I.b - 1
CloseYields ==
  /\ Running({"CLOSE", "RETURN"}) /\ Suspends /\ (I.op = "RETURN" => I.k = 1)
  /\ heap' = [heap EXCEPT !.cells = ClosedCells(CloseLevel)]
  /\ trace' = Append(trace, CloseEvents(CloseLevel)[1])
  /\ frames' = With([Fr EXCEPT !.tbc = Front(@), !.nres = ReturnCount,
                               !.top = IF I.op = "RETURN" THEN P.maxstack ELSE @])
  /\ status' = "yield"
  /\ Traced
  /\ UNCHANGED <<prog, unit, answers, results>>
MarkTbc(f, a) == IF IsFalse(f.regs[a + 1]) THEN f ELSE [f EXCEPT !.tbc = Append(@, a)]
CanClose(v)   == IsFalse(v) \/ v.t = "obj"
FailToClose(a) == Fail(<<"variable", LocalName(P, a + 1, Fr.pc)>>)
Tbc ==
  /\ Running({"TBC"})
  /\ IF CanClose(R(I.a)) THEN Continue(Skip(MarkTbc(Fr, I.a), 1)) ELSE FailToClose(I.a)

Args == Regs(I.a + 1, IF I.b = 0 THEN Fr.top ELSE I.a + I.b)
Called(f, args, to, want) ==
  LET c == heap.clos[f.v] IN Frame(c.p, c.ups, args, to, want)
(* A function that is entered is traced from its first instruction, which  *)
(* counts as a new line; a vararg function only after VARARGPREP.          *)
HookCall == 1
TraceCall(p) == oldpc' = IF p.vararg THEN Fr.pc ELSE HookCall
(* Back in the caller, the call itself was the last one (fs are the frames *)
(* then).                                                                  *)
StaysInCallee(fs) == Fr.pc                                      \* a mutant
RetHook(fs) == IF fs = << >> THEN Fr.pc ELSE Last(fs).pc - 1
(* A tail call of an object leaves its results to the RETURN after it.     *)
AfterCall(ans) ==
  CASE I.op = "CALL"     -> Results(Fr, I.a, ans, I.c - 1)
    [] I.op = "TAILCALL" -> Results(Fr, I.a, ans, MultRet)
    [] I.op = "TFORCALL" -> Results(Fr, I.a + 3, ans, I.c)
CallError == Fail(FuncName(P, Fr.pc))
TryFuncTM(f, args) ==
  IF f.t = "obj" THEN Ask("call", <<f>> \o args, LAMBDA ans : With(Skip(AfterCall(ans), 1)))
  ELSE CallError
Call ==
  /\ Running({"CALL", "TAILCALL"}) /\ R(I.a).t # "fn"
  /\ TryFuncTM(R(I.a), Args)
CallFunction ==
  /\ Running({"CALL"}) /\ R(I.a).t = "fn"
  /\ frames' = Append(With(Skip(Fr, 1)), Called(R(I.a), Args, I.a, I.c - 1))
  /\ TraceCall(Last(frames').p)
  /\ UNCHANGED <<prog, unit, heap, trace, answers, status, results>>
TailCallFunction ==
  /\ Running({"TAILCALL"}) /\ R(I.a).t = "fn"
  /\ heap' = IF I.k = 1 THEN [heap EXCEPT !.cells = ClosedCells(0)] ELSE heap
  /\ frames' = [frames EXCEPT ![D] = Called(R(I.a), Args, Fr.to, Fr.want)]
  /\ TraceCall(Last(frames').p)
  /\ UNCHANGED <<prog, unit, trace, answers, status, results>>
Return ==
  LET vals == CASE I.op = "RETURN0" -> << >> [] I.op = "RETURN1" -> <<R(I.a)>>
                [] OTHER -> Regs(I.a, I.a + ReturnCount)
      closes == I.op = "RETURN" /\ I.k = 1 IN
  /\ Running({"RETURN", "RETURN0", "RETURN1"}) /\ ~(closes /\ Suspends)
  /\ heap' = IF closes THEN [heap EXCEPT !.cells = ClosedCells(0)] ELSE heap
  /\ trace' = IF closes THEN trace \o CloseEvents(0) ELSE trace
  /\ frames' = IF D = 1 THEN << >>
               ELSE [Front(frames) EXCEPT ![D - 1] = Results(@, Fr.to, vals, Fr.want)]
  /\ oldpc' = RetHook(frames')
  /\ status' = IF D = 1 THEN "done" ELSE status
  /\ results' = IF D = 1 THEN vals ELSE results
  /\ UNCHANGED <<prog, unit, answers>>

(* An upvalue still open on a register is shared.                          *)
Closure ==
  LET descs == P.protos[I.b + 1].ups
      OpenAt(r) == {c \in DOMAIN heap.cells :
                      heap.cells[c].open /\ heap.cells[c].depth = D /\ heap.cells[c].reg = r}
      fresh == SelectSeq(descs, LAMBDA d : d.instack /\ OpenAt(d.idx) = {})
      NewAt(r) == Len(heap.cells) + CHOOSE i \in DOMAIN fresh : fresh[i].idx = r
      ups == [i \in DOMAIN descs |->
                LET d == descs[i] IN
                IF ~d.instack THEN Fr.ups[d.idx + 1]
                ELSE IF OpenAt(d.idx) # {} THEN CHOOSE c \in OpenAt(d.idx) : TRUE
                ELSE NewAt(d.idx)] IN
  /\ Running({"CLOSURE"})
  /\ heap' = [heap EXCEPT
       !.cells = @ \o [i \in DOMAIN fresh |-> [open |-> TRUE, depth |-> D, reg |-> fresh[i].idx,
                                               v |-> Nil]],
       !.clos = Append(@, [p |-> P.protos[I.b + 1], ups |-> ups])]
  /\ frames' = With(Put(Fr, I.a, Val("fn", Len(heap.clos) + 1)))
  /\ Traced
  /\ UNCHANGED <<prog, unit, trace, answers, status, results>>
GetVarargs(where, wanted) == Continue(Skip(Fill(Fr, where, Fr.va, wanted), 1))
Vararg == Running({"VARARG"}) /\ GetVarargs(I.a, I.c - 1)
VarargPrep ==
  /\ Running({"VARARGPREP"}) /\ frames' = With(Skip(Fr, 1))
  /\ oldpc' = HookCall + 1
  /\ UNCHANGED <<prog, unit, heap, trace, answers, status, results>>

-----------------------------------------------------------------------------
(* Loops.  Before an integer loop starts its number of iterations is known.*)

ForLimit(lim, step) ==
  IF Integral(lim) \/ FitsInt(Rounded(lim, step < 0)) THEN Rounded(lim, step < 0)
  ELSE IF Halves(lim) > 0 THEN MaxInt ELSE MinInt
NoRun(init, lim, step) ==
  \/ ~FitsInt(Rounded(lim, step < 0)) /\ (Halves(lim) > 0) = (step < 0)
  \/ IF step > 0 THEN init > ForLimit(lim, step) ELSE init < ForLimit(lim, step)
ForCount(init, limit, step) ==
  IF step > 0 THEN Unsigned(Unsigned(limit) - Unsigned(init)) \div Unsigned(step)
  ELSE Unsigned(Unsigned(init) - Unsigned(limit)) \div (Unsigned(-(step + 1)) + 1)
ForError(what, x) == Fail(<<"for", what, TypeName(x)>>)
ForPrep ==
  LET init == R(I.a)
      lim  == R(I.a + 1)
      step == R(I.a + 2)
      int  == init.t = "int" /\ step.t = "int"
      skip == IF int THEN NoRun(init.v, lim, step.v)
              ELSE IF Halves(step) > 0 THEN Halves(lim) < Halves(init)
              ELSE Halves(init) < Halves(lim)
      prepared == IF int THEN <<IntVal(Wrap(ForCount(init.v, ForLimit(lim, step.v), step.v))),
                                step, init>>
                  ELSE <<Flt(Halves(lim)), Flt(Halves(step)), Flt(Halves(init))>> IN
  /\ Running({"FORPREP"})
  /\ IF int /\ step.v = 0 THEN Fail(None)
     ELSE IF ~IsNumber(lim)  THEN ForError("limit", lim)
     ELSE IF ~IsNumber(step) THEN ForError("step", step)
     ELSE IF ~IsNumber(init) THEN ForError("initial value", init)
     ELSE IF Halves(step) = 0 THEN Fail(None)
     ELSE IF skip THEN Continue(Skip(Fr, I.b + 2))
     ELSE Continue(Skip(Fill(Fr, I.a, prepared, 3), 1))
(* The values of the loop for its next iteration, none after the last.     *)
IntForLoop(count, step, idx) ==
  IF count = IntVal(0) THEN << >>
  ELSE <<IntVal(Wrap(count.v - 1)), step, IntVal(Wrap(idx.v + step.v))>>
FloatForLoop(limit, step, idx) ==
  LET next == idx.v + step.v IN
  IF IF step.v > 0 THEN next <= limit.v ELSE limit.v <= next
  THEN <<limit, step, Flt(next)>> ELSE << >>
ForLoop ==
  LET step == R(I.a + 1)
      vals == IF step.t = "int" THEN IntForLoop(R(I.a), step, R(I.a + 2))
              ELSE FloatForLoop(R(I.a), step, R(I.a + 2)) IN
  /\ Running({"FORLOOP"})
  /\ Continue(IF vals = << >> THEN Skip(Fr, 1) ELSE Skip(Fill(Fr, I.a, vals, 3), 1 - I.b))

(* The closing value and the control variable trade places.                *)
TForPrep ==
  LET f == Fill(Fr, I.a + 2, <<R(I.a + 3), R(I.a + 2)>>, 2) IN
  /\ Running({"TFORPREP"})
  /\ IF CanClose(R(I.a + 3)) THEN Continue(Skip(MarkTbc(f, I.a + 2), I.b + 1))
     ELSE FailToClose(I.a + 2)
TForCall ==
  LET f    == R(I.a)
      args == <<R(I.a + 1), R(I.a + 3)>> IN
  /\ Running({"TFORCALL"})
  /\ IF f.t # "fn" THEN TryFuncTM(f, args)
     ELSE /\ frames' = Append(With(Skip(Fr, 1)), Called(f, args, I.a + 3, I.c))
          /\ TraceCall(Last(frames').p)
          /\ UNCHANGED <<prog, unit, heap, trace, answers, status, results>>
TForLoop ==
  /\ Running({"TFORLOOP"})
  /\ Continue(Skip(Fr, IF R(I.a + 3) = Nil THEN 1 ELSE 1 - I.b))

-----------------------------------------------------------------------------
(* Resuming what yielded in the middle of an instruction.                  *)

FinishOp(ans) ==
  LET res == ~IsFalse(First(ans)) IN
  CASE I.op \in {"MMBIN", "MMBINI", "MMBINK"} -> Put(Fr, P.code[Fr.pc - 1].a, First(ans))
    [] I.op \in {"UNARY", "GETTABUP", "GETTABLE", "GETI", "GETFIELD", "SELF"} ->
         Put(Fr, I.a, First(ans))
    [] I.op \in {"ORDER", "ORDERI", "ORDERGI", "EQ"} ->
         Skip(Fr, IF res = (I.k = 1) THEN 1 ELSE 2)
    [] I.op = "CONCAT" -> Concatenated(First(ans))
    [] I.op = "CLOSE"  -> Fr
    [] I.op = "RETURN" -> [Fr EXCEPT !.top = I.a + Fr.nres]
    [] I.op \in {"CALL", "TAILCALL", "TFORCALL"} -> Skip(AfterCall(ans), 1)
    [] I.op \in {"SETTABUP", "SETTABLE", "SETI", "SETFIELD"} -> Skip(Fr, 1)
Resume ==
  /\ status = "yield" /\ status' = "run"
  /\ IF I.op \in {"CLOSE", "RETURN"} THEN frames' = With(FinishOp(<< >>)) /\ UNCHANGED answers
     ELSE \E ans \in Possible(Len(answers)) :
            frames' = With(FinishOp(ans)) /\ answers' = Append(answers, ans)
  /\ UNCHANGED <<prog, unit, heap, trace, results, oldpc>>

(* A program that ended stays so; any other machine that cannot step is    *)
(* stuck.                                                                  *)
Halt == status \notin {"loaded", "run", "yield"} /\ UNCHANGED vars

Next ==
  \/ Start \/ LoadValue \/ LoadNil \/ SetUpval \/ GetTable \/ SetTable \/ NewTable \/ StoreList
  \/ Arithmetic \/ ArithMeta \/ Unary \/ Concat
  \/ Jmp \/ Test \/ TestSet \/ Equal \/ Order \/ OrderImmediate
  \/ Close \/ CloseYields \/ Resume \/ Tbc \/ Call \/ CallFunction \/ TailCallFunction \/ Return \/ Closure
  \/ Vararg \/ VarargPrep \/ ForPrep \/ ForLoop \/ TForPrep \/ TForCall \/ TForLoop
  \/ Halt
Spec == Init /\ [][Next]_vars

-----------------------------------------------------------------------------
(* Properties of the compiled code.                                        *)

(* The functions of a program, each as it was compiled and as it was loaded.*)
RECURSIVE AsLoaded(_, _)
AsLoaded(c, l) == {<<c, l>>} \cup UNION {AsLoaded(c.protos[i], l.protos[i]) : i \in DOMAIN c.protos}
Functions == AsLoaded(unit.compiled.proto, unit.loaded.proto)

Follows == [EQ |-> {"JMP"}, ORDER |-> {"JMP"}, EQK |-> {"JMP"}, EQI |-> {"JMP"},
            ORDERI |-> {"JMP"}, ORDERGI |-> {"JMP"}, TEST |-> {"JMP"}, TESTSET |-> {"JMP"},
            ARITH |-> {"MMBIN"}, ARITHK |-> {"MMBINK"}, ARITHI |-> {"MMBINI"},
            LOADKX |-> {"EXTRAARG"}, NEWTABLE |-> {"EXTRAARG"},
            TFORCALL |-> {"TFORLOOP"}, TAILCALL |-> {"RETURN"}]
Attached(p, pc) == pc > 1 /\ p.code[pc - 1].op \in DOMAIN Follows
                   /\ ~(p.code[pc - 1].op = "TAILCALL")
WellFormed(p, pc) ==
  LET i == p.code[pc]
      Lands(dest) == dest \in DOMAIN p.code /\ ~Attached(p, dest) IN
  /\ i.op \in DOMAIN Follows => pc < Len(p.code) /\ p.code[pc + 1].op \in Follows[i.op]
  /\ i.op = "JMP" => Lands(pc + 1 + i.b)
  /\ i.op = "TESTSET" => i.a < p.maxstack
  /\ i.op = "FORPREP" => /\ p.code[pc + 1 + i.b].op = "FORLOOP"
                         /\ p.code[pc + 1 + i.b].b = i.b + 1 /\ Lands(pc + 1)
  /\ i.op = "TFORPREP" => /\ p.code[pc + 1 + i.b].op = "TFORCALL"
                          /\ p.code[pc + 2 + i.b].b = i.b + 2 /\ Lands(pc + 1)
  /\ i.op \in {"LOADK", "LOADI", "LOADF", "LOADTRUE", "LOADFALSE", "MOVE", "GETUPVAL",
               "GETTABUP", "GETTABLE", "GETFIELD", "GETI", "ARITH", "ARITHK", "ARITHI",
               "UNARY", "NOT", "CLOSURE", "NEWTABLE"} => i.a < p.maxstack

LeavesTop(i) == i.op = "TAILCALL" \/ (i.op \in {"CALL", "VARARG"} /\ i.c = 0)
TakesTop(i)  == i.op \in {"CALL", "TAILCALL", "RETURN", "SETLIST"} /\ i.b = 0

(* A constructor stores its items into an array part NEWTABLE made large   *)
(* enough, except for the values of an open call at its end.               *)
ArrayPresized ==
  Running({"SETLIST"}) /\ I.b # 0 => ListLast <= heap.tabs[R(I.a).v].asize

(* No internal assertion of the compiler fails, and its code is well       *)
(* formed: every test is followed by its jump, every arithmetic            *)
(* instruction by the call of its metamethod, no jump lands between such   *)
(* two, loops jump to each other, results fit the frame, and an            *)
(* instruction takes the values up to the top of the stack only right      *)
(* after one that leaves the top there (lopcodes.c: isOT, isIT) --         *)
(* whatever lists of jumps were joined, patched and rewritten in between.  *)
CodeSound ==
  /\ ArrayPresized
  /\ status = "loaded" =>
      /\ unit.compiled.sound /\ unit.loaded.sound
      /\ \A f \in Functions :
           /\ Last(f[2].code).op \in {"RETURN", "RETURN0"}
           /\ \A pc \in DOMAIN f[2].code : WellFormed(f[2], pc)
           /\ \A pc \in 1 .. Len(f[2].code) - 1 :
                LeavesTop(f[2].code[pc]) <=> TakesTop(f[2].code[pc + 1])

(* What the debug information tells of an instruction is what it was       *)
(* compiled for, although lines are kept as differences, some absolute,    *)
(* and instructions are removed and moved to other lines after they were   *)
(* emitted: its line, read back from an estimate never past its base; if   *)
(* the line changed since an instruction a little before it; the local     *)
(* variables in scope there, but not a local function where it is yet to   *)
(* be created; and the lines that have code (ldebug.c: getbaseline,        *)
(* changedline, collectvalidlines; lfunc.c: getlocalname).                 *)
(* It all survives a dump, and a stripped chunk has none.                  *)
Tells(p, meant, pc) ==
  /\ FuncLine(p, pc) = meant[pc].line
  /\ Estimate(pc) = 0 \/ p.abs[Estimate(pc)].pc <= pc
  /\ \A old \in pc - MaxIwthAbs .. pc - 1 :
       old > 0 => (ChangedLine(p, old, pc) <=> meant[old].line # meant[pc].line)
  /\ LET names == meant[pc].locals IN
     \A n \in 1 .. Len(names) + 1 :
       LocalName(p, n, pc) = IF n <= Len(names) THEN Key(names[n]).v ELSE Nil
DebugInfoExact ==
  status = "loaded" =>
    \A f \in Functions :
      IF Programs[prog].dump = "strip"
      THEN \A pc \in DOMAIN f[2].code : FuncLine(f[2], pc) = -1 /\ LocalName(f[2], 1, pc) = Nil
      ELSE LET meant == f[1].meant
               first == IF f[2].vararg THEN 2 ELSE 1 IN
           /\ \A pc \in DOMAIN f[2].code : Tells(f[2], meant, pc)
           /\ ValidLines(f[2]) = {meant[pc].line : pc \in first .. Len(f[2].code)}

(* A line hook is called exactly when the function was just entered,       *)
(* control goes back (or stays, when a closing method yielded), or the     *)
(* line is not the one of the instruction executed before in this call     *)
(* of the function: although oldpc is one for all functions of a thread,   *)
(* calls and returns must not make the hook miss lines or repeat them      *)
(* (ldebug.c: ilyaG_tracecall, ilyaG_traceexec; ldo.c: rethook).           *)
Traces ==
  LET old == IF oldpc <= Len(P.code) THEN oldpc ELSE HookCall IN
  Fr.pc <= old \/ ChangedLine(P, old, Fr.pc)
LinesTraced ==
  status = "run" /\ Fr.pend = 0 /\ I.op # "VARARGPREP" =>
    (Traces <=> \/ Fr.last = IF P.vararg THEN 1 ELSE 0
                \/ Fr.pc <= Fr.last
                \/ FuncLine(P, Fr.pc) # FuncLine(P, Fr.last))
=============================================================================
