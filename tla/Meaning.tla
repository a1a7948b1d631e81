------------------------------- MODULE Meaning -------------------------------
(***************************************************************************)
(* What a program means, by the rules of the language alone: which         *)
(* programs are legal, and what events, results and outcome a legal one    *)
(* has when its objects give certain answers.  Nothing here knows of       *)
(* registers, jumps, upvalues or instructions.                             *)
(*                                                                         *)
(* A variable is a cell of its own; m is the state of the evaluation:      *)
(* cells, tables and functions, the trace, the answers not used yet, the   *)
(* values of the last expression and the names it may be given (from), and *)
(* why control leaves a statement, if it does (sig; blame for an error).   *)
(* c is the context: the cell of each name, what the current function may  *)
(* call the variable (as), and "...".                                      *)
(***************************************************************************)
EXTENDS VM, TLC

CONSTANT Means(_, _)   \* what a program means with certain answers: Meaning, below

Ended == {"error", "cut"}
Raise(m, sig)  == [m EXCEPT !.sig = sig]
Blamed(m, names) == [m EXCEPT !.sig = "error", !.blame = names]
Values(m, vs)  == [m EXCEPT !.vals = vs, !.from = {None}]
Named(m, names) == [m EXCEPT !.from = names]
Metamethod(event) == {<<"metamethod", event>>}
One(m)         == IF m.vals = << >> THEN Nil ELSE m.vals[1]
Adjusted(vs, n) == [i \in 1 .. n |-> IF i <= Len(vs) THEN vs[i] ELSE Nil]

(* An event and its answer; what is called may find one of the names.      *)
Event(m, kind, args, names) ==
  IF Len(m.trace) >= MaxEvents THEN Raise(m, "cut")
  ELSE IF m.answers = << >> THEN Raise(m, "unexpected event")
  ELSE Values([m EXCEPT !.trace = Append(@, [kind |-> kind, args |-> args]),
                        !.names = Append(@, names), !.answers = Tail(@)], Head(m.answers))
EventOne(m, kind, args) ==
  LET r == Event(m, kind, args, Metamethod(kind)) IN Values(r, <<One(r)>>)
EventTest(m, kind, args, flip) ==
  LET r == EventOne(m, kind, args) IN Values(r, <<Bool(IsFalse(One(r)) = flip)>>)
Closing(m, v) ==
  IF m.sig \in Ended \/ IsFalse(v) THEN m
  ELSE [m EXCEPT !.trace = Append(@, [kind |-> "close", args |-> <<v, Nil>>]),
                 !.names = Append(@, Metamethod("close"))]

(* Arithmetic on integers modulo 2^Bits, with the quotient rounded down.   *)
FloorDiv(a, b) == IF b > 0 THEN a \div b ELSE (-a) \div (-b)
Bit(n, i)      == (n \div 2 ^ i) % 2
Bitwise2(f(_, _), a, b) ==
  FoldLeft(LAMBDA acc, i : acc + 2 ^ (i - 1) * f(Bit(a, i - 1), Bit(b, i - 1)), 0,
           [i \in 1 .. Bits |-> i])
RECURSIVE Shifted(_, _)
Shifted(a, n) == CASE n = 0 -> a
                   [] n > 0 -> IF n > Bits THEN 0 ELSE Shifted((2 * a) % 2 ^ Bits, n - 1)
                   [] n < 0 -> IF n < -Bits THEN 0 ELSE Shifted((a % 2 ^ Bits) \div 2, n + 1)
Math(op, a, b) ==
  CASE op = "+" -> a + b [] op = "-" -> a - b [] op = "*" -> a * b
    [] op = "//" -> FloorDiv(a, b) [] op = "%" -> a - b * FloorDiv(a, b)
    [] op = "&" -> Bitwise2(LAMBDA p, q : p * q, a, b)
    [] op = "|" -> Bitwise2(LAMBDA p, q : p + q - p * q, a, b)
    [] op = "~" -> Bitwise2(LAMBDA p, q : (p + q) % 2, a, b)
    [] op = "<<" -> Shifted(a, b) [] op = ">>" -> Shifted(a, -b)
    [] op = "unm" -> -a [] op = "bnot" -> -1 - a
IntegerOf(x) == CHOOSE n \in MinInt .. MaxInt : 2 * n = Halves(x)
IsInteger(x) == IsNumber(x) /\ \E n \in MinInt .. MaxInt : 2 * n = Halves(x)
OnIntegers == {"&", "|", "~", "<<", ">>", "bnot"}

(* The first operand of the wrong kind is to blame.                        *)
FirstWrong(op, x, y, names) ==
  LET Wrong(v) == IF op \in OnIntegers /\ IsNumber(x) /\ IsNumber(y) THEN ~IsInteger(v)
                  ELSE ~IsNumber(v) IN
  IF Wrong(x) THEN names[1] ELSE names[2]
Calculate(m, op, x, y, names) ==
  CASE op \in OnIntegers /\ IsInteger(x) /\ IsInteger(y) ->
         Values(m, <<IntVal(Wrap(Math(op, IntegerOf(x), IntegerOf(y))))>>)
    [] op \notin OnIntegers /\ x.t = "int" /\ y.t = "int" ->
         IF op \in {"//", "%"} /\ y.v = 0 THEN Blamed(m, {None})
         ELSE Values(m, <<IntVal(Wrap(Math(op, x.v, y.v)))>>)
    [] op \notin OnIntegers /\ IsNumber(x) /\ IsNumber(y) /\ "flt" \in {x.t, y.t} ->
         Values(m, <<Flt(Math(op, Halves(x), Halves(y)))>>)
    [] HasObject(x, y) -> EventOne(m, op, <<x, y>>)
    [] OTHER -> Blamed(m, FirstWrong(op, x, y, names))
TypeOf(x) == IF IsNumber(x) THEN "number" ELSE x.t
SameValue(x, y) == IF IsNumber(x) /\ IsNumber(y) THEN Halves(x) = Halves(y) ELSE x = y

RECURSIVE Binary(_, _, _, _, _)
Binary(m, op, x, y, names) ==
  CASE op = ">"  -> Binary(m, "<", y, x, names)
    [] op = ">=" -> Binary(m, "<=", y, x, names)
    [] op \in {"==", "~="} ->
         IF x.t = "obj" /\ y.t = "obj" /\ x # y THEN EventTest(m, "==", <<x, y>>, op = "~=")
         ELSE Values(m, <<Bool(SameValue(x, y) = (op = "=="))>>)
    [] op \in {"<", "<="} ->
         IF IsNumber(x) /\ IsNumber(y)
         THEN Values(m, <<Bool(Halves(x) < Halves(y) \/ (op = "<=" /\ Halves(x) = Halves(y)))>>)
         ELSE IF HasObject(x, y) THEN EventTest(m, op, <<x, y>>, FALSE)
         ELSE Blamed(m, {<<"compare", TypeOf(x), TypeOf(y)>>})
    [] op = ".." ->
         IF x.t = "str" /\ y.t = "str" THEN Values(m, <<StrConcat(x, y)>>)
         ELSE IF HasObject(x, y) THEN EventOne(m, op, <<x, y>>)
         ELSE Blamed(m, names[IF x.t = "str" THEN 2 ELSE 1])
    [] OTHER -> Calculate(m, op, x, y, names)

Border(map) == CHOOSE n \in 0 .. Cardinality(DOMAIN map) :
                 /\ IntVal(n + 1) \notin DOMAIN map
                 /\ \A i \in 1 .. n : IntVal(i) \in DOMAIN map
UnaryOp(m, op, x) ==
  CASE op = "not" -> Values(m, <<Bool(IsFalse(x))>>)
    [] op = "len" -> CASE x.t = "str" -> Values(m, <<IntVal(StrLen(x.v))>>)
                       [] x.t = "tab" -> Values(m, <<IntVal(Border(m.tabs[x.v]))>>)
                       [] x.t = "obj" -> EventOne(m, op, <<x, x>>)
                       [] OTHER -> Blamed(m, m.from)
    [] OTHER -> Calculate(m, op, x, x, <<m.from, m.from>>)

(* A table has the keys whose values are not nil, its float keys that are  *)
(* integers as integers.                                                   *)
KeyOf(k) == IF IsInteger(k) THEN IntVal(IntegerOf(k)) ELSE k
GetIndex(m, t, k, names) ==
  CASE t.t = "tab" -> Values(m, <<IF KeyOf(k) \in DOMAIN m.tabs[t.v] THEN m.tabs[t.v][KeyOf(k)]
                                  ELSE Nil>>)
    [] t.t = "obj" -> EventOne(m, "index", <<t, k>>)
    [] OTHER -> Blamed(m, names)
PutIndex(m, t, k, v, names) ==
  CASE m.sig # "" -> m
    [] m.sig = "" /\ t.t = "tab" /\ k # Nil ->
         LET rest == [x \in DOMAIN m.tabs[t.v] \ {KeyOf(k)} |-> m.tabs[t.v][x]] IN
         [m EXCEPT !.tabs[t.v] = IF v = Nil THEN rest ELSE (KeyOf(k) :> v) @@ rest]
    [] m.sig = "" /\ t.t = "obj" -> Event(m, "newindex", <<t, k, v>>, Metamethod("newindex"))
    [] OTHER -> Blamed(m, IF t.t = "tab" THEN {None} ELSE names)

(* New variables.                                                          *)
Bind(m, names, vs) == [m EXCEPT !.cells = @ \o Adjusted(vs, Len(names))]
Scope(m, c, names) ==
  [c EXCEPT !.as  = [n \in ToSet(names) |-> {"lock"}] @@ @,
            !.env = [n \in ToSet(names) |->
     Len(m.cells) + CHOOSE i \in DOMAIN names : names[i] = n /\ \A j \in DOMAIN names :
                                                  j > i => names[j] # n] @@ @]

(* Names.  A constant may have been put in the place of a variable, and a  *)
(* field of the variable ENV is a global variable.                         *)
VarNames(m, c, name) ==
  LET v == m.cells[c.env[name]] IN
  {IF as = "none" THEN IF v.t = "str" THEN <<"constant", v>> ELSE None
   ELSE <<as, Key(name).v>> : as \in c.as[name]}
FieldNames(table, keys) ==
  {<<IF n[1] \in {"lock", "upvalue"} /\ n[2] = Key("ENV").v THEN "global" ELSE "field", key>> :
     n \in table, key \in keys}
KeyNames(k) == {Unknown} \cup (IF k.t = "str" THEN {k} ELSE IF k.t = "int" THEN {AnInteger} ELSE {})

-----------------------------------------------------------------------------
(* Expressions.                                                            *)

RECURSIVE Eval(_, _, _)
RECURSIVE EvalOps(_, _, _)
RECURSIVE Exec(_, _, _, _, _)
EvalOne(m, c, x) == LET r == Eval(m, c, x) IN [r EXCEPT !.vals = <<One(r)>>]

RECURSIVE EvalList(_, _, _)
EvalList(m, c, exps) ==
  LET one  == EvalOne(m, c, exps[1])
      rest == EvalList(one, c, Tail(exps)) IN
  CASE exps = << >>   -> Values(m, << >>)
    [] Len(exps) = 1  -> Eval(m, c, exps[1])
    [] OTHER -> Values(rest, one.vals \o rest.vals)

(* The operator applied last splits the operands.                          *)
Levels == <<{"or"}, {"and"}, {"==", "~=", "<", "<=", ">", ">="}, {"|"}, {"~"}, {"&"},
            {"<<", ">>"}, {".."}, {"+", "-"}, {"*", "//", "%"}>>
LevelOf(op) == CHOOSE l \in DOMAIN Levels : op \in Levels[l]
SplitAt(toks) ==
  LET ops   == {i \in DOMAIN toks : toks[i][1] = "op"}
      level == CHOOSE l \in {LevelOf(toks[i][2]) : i \in ops} :
                 \A i \in ops : l <= LevelOf(toks[i][2])
      split == {i \in ops : LevelOf(toks[i][2]) = level} IN
  IF level = 8 THEN CHOOSE i \in split : \A j \in split : i <= j
  ELSE CHOOSE i \in split : \A j \in split : j <= i
(* The value of a condition may have no name.  That of a concatenation may *)
(* keep the name of the first operand, whose register it takes.            *)
MayHide(m) == Named(m, m.from \cup {None})
EvalOps(m, c, toks) ==
  LET i    == SplitAt(toks)
      op   == toks[i][2]
      left == EvalOps(m, c, SubSeq(toks, 1, i - 1))
      both == EvalOps(left, c, SubSeq(toks, i + 1, Len(toks)))
      arg  == EvalOps(m, c, Tail(toks)) IN
  CASE m.sig # "" -> m
    [] m.sig = "" /\ \A j \in DOMAIN toks : toks[j][1] # "op" ->
         IF toks[1][1] # "un" THEN EvalOne(m, c, toks[1])
         ELSE IF arg.sig # "" THEN arg ELSE UnaryOp(arg, toks[1][2], One(arg))
    [] OTHER ->
         IF left.sig # "" THEN left
         ELSE IF op \in {"and", "or"} /\ IsFalse(One(left)) = (op = "and") THEN MayHide(left)
         ELSE IF both.sig # "" THEN both
         ELSE IF op \in {"and", "or"} THEN MayHide(both)
         ELSE IF op = ".."
         THEN Named(Binary(both, op, One(left), One(both), <<left.from, both.from>>),
                    {None} \cup left.from)
         ELSE Binary(both, op, One(left), One(both), <<left.from, both.from>>)

CallValue(m, f, args, names) ==
  LET fn     == m.clos[f.v].fn
      params == (IF m.clos[f.v].method THEN <<"self">> ELSE << >>) \o fn[2]
      c      == [env |-> m.clos[f.v].env, as |-> m.clos[f.v].as,
                 va |-> IF fn[3] THEN SubSeq(args, Len(params) + 1, Len(args)) ELSE << >>]
      r      == Exec(Bind(m, params, args), Scope(m, c, params), fn[4], 1, 1) IN
  CASE m.sig # "" -> m
    [] m.sig = "" /\ f.t = "obj" -> Event(m, "call", <<f>> \o args, names)
    [] m.sig = "" /\ f.t = "fn"  ->
         IF r.sig = "return" THEN Raise(Named(r, {None}), "") ELSE Values(r, << >>)
    [] OTHER -> Blamed(m, names)
NewFunction(m, c, fn, method) ==
  Values([m EXCEPT !.clos = Append(@, [fn |-> fn, env |-> c.env, method |-> method,
                              as |-> [n \in DOMAIN c.as |-> {IF a = "lock" THEN "upvalue" ELSE a :
                                                               a \in c.as[n]}]])],
         <<Val("fn", Len(m.clos) + 1)>>)

RECURSIVE FillTable(_, _, _, _, _)
FillTable(m, c, t, fields, n) ==
  LET f == fields[1]
      k == EvalOne(m, c, f[2])
      v == EvalOne(k, c, f[3])
      item == IF Len(fields) = 1 THEN Eval(m, c, f[2]) ELSE EvalOne(m, c, f[2])
      put  == FoldLeft(LAMBDA r, i : PutIndex(r, t, IntVal(n + i - 1), item.vals[i], {}),
                       item, [i \in DOMAIN item.vals |-> i]) IN
  IF m.sig # "" \/ fields = << >> THEN Values(m, <<t>>)
  ELSE IF f[1] = "rec" THEN FillTable(PutIndex(v, t, One(k), One(v), {}), c, t, Tail(fields), n)
  ELSE FillTable(put, c, t, Tail(fields), n + 1)

NameIndex(m, c, name) ==
  LET env == VarNames(m, c, "ENV") IN
  Named(GetIndex(m, m.cells[c.env["ENV"]], Key(name).v, env), FieldNames(env, {Key(name).v}))
Eval(m, c, x) ==
  LET e == EvalOne(m, c, x[2])
      k == EvalOne(e, c, x[3])
      f == GetIndex(e, One(e), Key(x[3]).v, e.from)
      args == EvalList(e, c, x[3])
      margs == EvalList(f, c, x[4]) IN
  IF m.sig # "" THEN m
  ELSE
  CASE x[1] = "k"     -> Named(Values(m, <<x[2]>>),
                               {IF x[2].t = "str" THEN <<"constant", x[2]>> ELSE None})
    [] x[1] = "..."   -> Values(m, c.va)
    [] x[1] = "ops"   -> EvalOps(m, c, x[2])
    [] x[1] = "name"  -> IF x[2] \in DOMAIN c.env
                         THEN Named(Values(m, <<m.cells[c.env[x[2]]]>>), VarNames(m, c, x[2]))
                         ELSE NameIndex(m, c, x[2])
    [] x[1] = "paren" -> e
    [] x[1] = "fn"    -> NewFunction(m, c, x, FALSE)
    [] x[1] = "table" -> FillTable([m EXCEPT !.tabs = Append(@, << >>)], c,
                                   Val("tab", Len(m.tabs) + 1), x[2], 1)
    [] x[1] = "dot"   -> IF e.sig # "" THEN e ELSE Named(f, FieldNames(e.from, {Key(x[3]).v}))
    [] x[1] = "index" -> IF k.sig # "" THEN k
                         ELSE Named(GetIndex(k, One(e), One(k), e.from),
                                    FieldNames(e.from, KeyNames(One(k))))
    [] x[1] = "call"  -> CallValue(args, One(e), args.vals, e.from)
    [] x[1] = "method" ->
         IF e.sig # "" THEN e
         ELSE CallValue(margs, One(f), e.vals \o margs.vals,
                        {<<"method", Key(x[3]).v>>} \cup FieldNames(e.from, {Key(x[3]).v}))

-----------------------------------------------------------------------------
(* Statements.                                                             *)

(* A target's table and key are known before anything is assigned.         *)
RECURSIVE Targets(_, _, _, _)
Targets(m, c, targets, places) ==
  LET x == targets[1]
      e == EvalOne(m, c, x[2])
      k == EvalOne(e, c, x[3])
      Place(r, t, key, names) == Targets(r, c, Tail(targets), Append(places, <<t, key, names>>)) IN
  IF targets = << >> THEN [m |-> m, places |-> places]
  ELSE CASE x[1] = "name" /\ x[2] \in DOMAIN c.env -> Place(m, Val("cell", c.env[x[2]]), Nil, {})
         [] x[1] = "name" /\ x[2] \notin DOMAIN c.env ->
              Place(m, m.cells[c.env["ENV"]], Key(x[2]).v, VarNames(m, c, "ENV"))
         [] x[1] = "dot"   -> Place(e, One(e), Key(x[3]).v, e.from)
         [] x[1] = "index" -> Place(k, One(e), One(k), e.from)
Store(m, place, v) ==
  IF m.sig # "" THEN m
  ELSE IF place[1].t = "cell" THEN [m EXCEPT !.cells[place[1].v] = v]
  ELSE PutIndex(m, place[1], place[2], v, place[3])
AssignTo(m, c, targets, exps) ==
  LET t == Targets(m, c, targets, << >>)
      r == EvalList(t.m, c, exps)
      vs == Adjusted(r.vals, Len(targets)) IN
  FoldRight(LAMBDA i, acc : Store(acc, t.places[i], vs[i]), [i \in DOMAIN targets |-> i], r)

RECURSIVE WhileLoop(_, _, _, _)
WhileLoop(m, c, cond, body) ==
  LET e == EvalOne(m, c, cond)
      r == Exec(e, c, body, 1, 1) IN
  IF e.sig # "" \/ IsFalse(One(e)) THEN e
  ELSE IF r.sig = "" THEN WhileLoop(r, c, cond, body) ELSE r
RECURSIVE RepeatLoop(_, _, _)
RepeatLoop(m, c, body) ==
  LET r == Exec(m, c, body, 1, 1) IN IF r.sig = "" THEN RepeatLoop(r, c, body) ELSE r

RECURSIVE ForEach(_, _, _, _, _)
ForEach(m, c, name, vs, body) ==
  LET r == Exec(Bind(m, <<name>>, <<vs[1]>>), Scope(m, c, <<name>>), body, 1, 1) IN
  IF vs = << >> \/ m.sig # "" THEN m ELSE ForEach(r, c, name, Tail(vs), body)
(* From init by step up (or down) to the limit; integers do not wrap.      *)
Progression(init, lim, step) ==
  LET h == Halves(step)
      Reached(n) == IF h > 0 THEN Halves(init) + n * h > Halves(lim)
                    ELSE Halves(init) + n * h < Halves(lim)
      integers == init.t = "int" /\ step.t = "int"
      Outside(n) == integers /\ ~FitsInt(init.v + n * step.v)
      n == CHOOSE n \in 0 .. 2 ^ (Bits + 1) :
             /\ Reached(n) \/ Outside(n)
             /\ \A i \in 0 .. n - 1 : ~(Reached(i) \/ Outside(i)) IN
  [i \in 1 .. n |-> IF integers THEN IntVal(init.v + (i - 1) * step.v)
                    ELSE Flt(Halves(init) + (i - 1) * h)]
RECURSIVE ForIn(_, _, _, _, _)
ForIn(m, c, names, st, body) ==
  LET call == CallValue(m, st[1], <<st[2], st[3]>>, {<<"for iterator", Unknown>>})
      vs   == Adjusted(call.vals, Len(names))
      r    == Exec(Bind(call, names, vs), Scope(call, c, names), body, 1, 1) IN
  IF call.sig # "" \/ vs[1] = Nil THEN call
  ELSE IF r.sig = "" THEN ForIn(r, c, names, <<st[1], st[2], vs[1]>>, body) ELSE r
ForValues == <<"initial value", "limit", "step">>
AfterLoop(m) == IF m.sig \in {"break", "until"} THEN Raise(m, "") ELSE m

RECURSIVE IfParts(_, _, _, _)
IfParts(m, c, parts, else) ==
  LET e == EvalOne(m, c, parts[1][1]) IN
  IF parts = << >> THEN IF else = << >> THEN m ELSE Exec(m, c, else[1], 1, 1)
  ELSE IF e.sig # "" THEN e
  ELSE IF ~IsFalse(One(e)) THEN Exec(e, c, parts[1][2], 1, 1)
  ELSE IfParts(e, c, Tail(parts), else)

Stat(m, c, x) ==
  LET exps == EvalList(m, c, x[2])
      nums == EvalList(m, c, x[3])
      vs   == SubSeq(Adjusted(nums.vals, Len(x[3])) \o <<IntVal(1)>>, 1, 3)
      st   == Adjusted(nums.vals, 4)
      until == EvalOne(m, c, x[2])
      fn == NewFunction(Targets(m, c, <<x[2]>>, << >>).m, c, x[4], x[3])
      loop == ForIn(nums, c, x[2], <<st[1], st[2], st[3]>>, x[4]) IN
  CASE x[1] \in {"call", "method"} -> Eval(m, c, x)
    [] x[1] = "do"     -> Exec(m, c, x[2], 1, 1)
    [] x[1] = "if"     -> IfParts(m, c, x[2], x[3])
    [] x[1] = "while"  -> AfterLoop(WhileLoop(m, c, x[2], x[3]))
    [] x[1] = "repeat" -> AfterLoop(RepeatLoop(m, c, Append(x[2], <<"until", x[3]>>)))
    [] x[1] = "until"  -> IF until.sig = "" /\ ~IsFalse(One(until)) THEN Raise(until, "until")
                          ELSE until
    [] x[1] = "fornum" ->
         IF nums.sig # "" THEN nums
         ELSE IF (\E i \in 1 .. 3 : ~IsNumber(vs[i])) \/ Halves(vs[3]) = 0
         THEN Blamed(nums, {<<"for", ForValues[i], TypeOf(vs[i])>> : i \in {j \in 1 .. 3 : ~IsNumber(vs[j])}}
                           \cup IF IsNumber(vs[3]) /\ Halves(vs[3]) = 0 THEN {None} ELSE {})
         ELSE AfterLoop(ForEach(nums, c, x[2], Progression(vs[1], vs[2], vs[3]), x[4]))
    [] x[1] = "forin"  ->
         IF nums.sig # "" THEN nums
         ELSE IF ~CanClose(st[4]) THEN Blamed(nums, {<<"variable", Key("(for state)").v>>})
         ELSE AfterLoop(Closing(loop, st[4]))
    [] x[1] = "assign" -> AssignTo(m, c, x[2], x[3])
    [] x[1] = "function" ->
         Store(fn, Targets(m, c, <<x[2]>>, << >>).places[1], One(fn))
    [] x[1] = "return" -> IF exps.sig = "" THEN Raise(exps, "return") ELSE exps
    [] x[1] = "break"  -> Raise(m, "break")
    [] x[1] = "goto"   -> [m EXCEPT !.sig = "goto", !.label = x[2]]
    [] x[1] \in {"label", "blank"} -> m

(* The statements of a block from i on, the variables before statement lo  *)
(* being those of enclosing scopes: a local statement opens a scope that   *)
(* the rest of the block is, and is left by ending it, by a goto to a      *)
(* label before the statement, or with the whole block.                    *)
Exec(m, c, b, i, lo) ==
  LET x == b[i]
      names == IF x[1] = "localfn" THEN <<x[2]>> ELSE [j \in DOMAIN x[2] |-> x[2][j][1]]
      tbc   == IF x[1] = "localfn" THEN {} ELSE {j \in DOMAIN names : x[2][j][2] = "CLOSE"}
      vals  == EvalList(m, c, x[3])
      in    == Scope(m, c, names)
      consts == {names[j] : j \in {h \in DOMAIN names : x[2][h][2] = "CONST"}}
      scope == Scope(vals, c, names)
      inner == [scope EXCEPT !.as = [n \in consts |-> {"lock", "none"}] @@ @]
      fn    == NewFunction(Bind(m, names, << >>), in, x[3], FALSE)
      made  == [fn EXCEPT !.cells[Len(m.cells) + 1] = One(fn)]
      toclose == Adjusted(vals.vals, Len(names))[CHOOSE j \in tbc : TRUE]
      rest  == Exec(Bind(vals, names, vals.vals), inner, b, i + 1, i + 1)
      r == CASE x[1] = "localfn" -> Exec(made, in, b, i + 1, i + 1)
             [] x[1] = "local" -> IF vals.sig # "" THEN vals
                                  ELSE IF tbc = {} THEN rest
                                  ELSE IF ~CanClose(toclose)
                                  THEN Blamed(vals, {<<"variable", Key(names[CHOOSE j \in tbc : TRUE]).v>>})
                                  ELSE Closing(rest, toclose)
             [] OTHER -> Stat(m, c, x)
      target == {j \in lo .. Len(b) : b[j][1] = "label" /\ b[j][2] = r.label} IN
  IF m.sig # "" \/ i > Len(b) THEN m
  ELSE IF r.sig = "goto" /\ target # {}
  THEN Exec(Raise(r, ""), c, b, CHOOSE j \in target : TRUE, lo)
  ELSE IF x[1] \in {"local", "localfn"} THEN r
  ELSE Exec(r, c, b, i + 1, lo)

(* The whole program.                                                      *)
Meaning(body, given) ==
  LET m == Exec([cells |-> <<Val("tab", 1)>>, tabs |-> <<Globals>>, clos |-> << >>,
                 trace |-> << >>, names |-> << >>, answers |-> given, sig |-> "", label |-> "",
                 vals |-> << >>, from |-> {None}, blame |-> {}],
                [env |-> [n \in {"ENV"} |-> 1], as |-> [n \in {"ENV"} |-> {"upvalue"}],
                 va |-> << >>], body, 1, 1) IN
  [status  |-> IF m.sig \in {"", "return"} THEN "done" ELSE m.sig,
   trace   |-> m.trace,
   names   |-> m.names,
   blame   |-> m.blame,
   results |-> IF m.sig = "return" THEN m.vals ELSE << >>,
   unused  |-> m.answers,
   tables  |-> m.tabs]

-----------------------------------------------------------------------------
(* Legality.  k is the context: the kind of each variable in scope, if the *)
(* function has "...", if a loop is open, the labels already seen in the   *)
(* blocks open, and those blocks with the statement reached in each.       *)

RECURSIVE ExpOK(_, _)
RECURSIVE BlockOK(_, _, _)
ExpsOK(exps, k) == \A i \in DOMAIN exps : ExpOK(exps[i], k)
FnOK(fn, k, method) ==
  LET params == ToSet(fn[2]) \cup (IF method THEN {"self"} ELSE {}) IN
  BlockOK(fn[4], FALSE, [kinds |-> [n \in params |-> "REG"] @@ k.kinds, va |-> fn[3],
                         loop |-> FALSE, seen |-> {}, open |-> << >>])
ExpOK(x, k) ==
  CASE x[1] = "..." -> k.va
    [] x[1] \in {"k", "name", "op", "un"} -> TRUE
    [] x[1] \in {"paren", "dot"} -> ExpOK(x[2], k)
    [] x[1] = "ops"    -> ExpsOK(x[2], k)
    [] x[1] = "index"  -> ExpOK(x[2], k) /\ ExpOK(x[3], k)
    [] x[1] = "call"   -> ExpOK(x[2], k) /\ ExpsOK(x[3], k)
    [] x[1] = "method" -> ExpOK(x[2], k) /\ ExpsOK(x[4], k)
    [] x[1] = "fn"     -> FnOK(x, k, FALSE)
    [] x[1] = "table"  -> \A i \in DOMAIN x[2] : ExpsOK(Tail(x[2][i]), k)
CanAssign(x, k) ==
  x[1] = "name" => IF x[2] \in DOMAIN k.kinds THEN k.kinds[x[2]] = "REG" ELSE TRUE

IsLocal(x) == x[1] \in {"local", "localfn"}
LabelsOf(b, name) == {i \in DOMAIN b : b[i][1] = "label" /\ b[i][2] = name}
(* The innermost block open that has the label has it before the goto, or  *)
(* with no variable declared between them, or at its end.                  *)
GotoOK(name, open) ==
  LET with == {i \in DOMAIN open : LabelsOf(open[i].b, name) # {}}
      o == open[CHOOSE i \in with : \A j \in with : j <= i]
      l == CHOOSE i \in LabelsOf(o.b, name) : TRUE IN
  /\ with # {}
  /\ \/ \A i \in o.at + 1 .. l - 1 : ~IsLocal(o.b[i])
     \/ ~o.until /\ \A i \in l .. Len(o.b) : o.b[i][1] = "label"
InLoop(k, names) == [k EXCEPT !.loop = TRUE,
  !.kinds = [n \in ToSet(names) |-> IF n = names[1] THEN "CONST" ELSE "REG"] @@ @]
StatOK(x, k) ==
  CASE x[1] \in {"call", "method"} -> ExpOK(x, k)
    [] x[1] = "do"     -> BlockOK(x[2], FALSE, k)
    [] x[1] = "if"     -> /\ \A i \in DOMAIN x[2] : /\ ExpOK(x[2][i][1], k)
                                                    /\ BlockOK(x[2][i][2], FALSE, k)
                          /\ \A i \in DOMAIN x[3] : BlockOK(x[3][i], FALSE, k)
    [] x[1] = "while"  -> ExpOK(x[2], k) /\ BlockOK(x[3], FALSE, InLoop(k, << >>))
    [] x[1] = "repeat" -> BlockOK(Append(x[2], <<"until", x[3]>>), TRUE, InLoop(k, << >>))
    [] x[1] = "until"  -> ExpOK(x[2], k)
    [] x[1] = "fornum" -> ExpsOK(x[3], k) /\ BlockOK(x[4], FALSE, InLoop(k, <<x[2]>>))
    [] x[1] = "forin"  -> ExpsOK(x[3], k) /\ BlockOK(x[4], FALSE, InLoop(k, x[2]))
    [] x[1] = "assign" -> /\ ExpsOK(x[2], k) /\ ExpsOK(x[3], k)
                          /\ \A i \in DOMAIN x[2] : CanAssign(x[2][i], k)
    [] x[1] = "function" -> ExpOK(x[2], k) /\ FnOK(x[4], k, x[3]) /\ CanAssign(x[2], k)
    [] x[1] = "return" -> ExpsOK(x[2], k)
    [] x[1] = "break"  -> k.loop
    [] x[1] = "goto"   -> GotoOK(x[2], k.open)
    [] x[1] = "label"  -> x[2] \notin k.seen
    [] x[1] = "blank"  -> TRUE
    [] x[1] = "local"  -> /\ ExpsOK(x[3], k)
                          /\ Cardinality({i \in DOMAIN x[2] : x[2][i][2] = "CLOSE"}) <= 1
    [] x[1] = "localfn" -> FnOK(x[3], [k EXCEPT !.kinds = (x[2] :> "REG") @@ @], FALSE)
BlockOK(b, until, k0) ==
  LET Declared(x) == IF x[1] = "localfn" THEN (x[2] :> "REG")
                     ELSE [n \in {x[2][j][1] : j \in DOMAIN x[2]} |->
                             (CHOOSE v \in ToSet(x[2]) : v[1] = n)[2]]
      Kinds(i) == FoldLeft(LAMBDA kinds, x : IF IsLocal(x) THEN Declared(x) @@ kinds ELSE kinds,
                           k0.kinds, SubSeq(b, 1, i - 1))
      At(i) == [k0 EXCEPT !.kinds = Kinds(i),
                          !.seen = @ \cup {b[j][2] : j \in {h \in 1 .. i - 1 : b[h][1] = "label"}},
                          !.open = Append(@, [b |-> b, at |-> i, until |-> until])] IN
  \A i \in DOMAIN b : StatOK(b[i], At(i))
LegalProgram(body) ==
  BlockOK(body, FALSE, [kinds |-> [n \in {"ENV"} |-> "REG"], va |-> TRUE, loop |-> FALSE,
                        seen |-> {}, open |-> << >>])

-----------------------------------------------------------------------------
(* Properties.                                                             *)

(* Running the code the compiler produced shows what the program means:    *)
(* with the answers its objects gave, the same events with the same values *)
(* in the same order, the same outcome, results and tables, whatever       *)
(* registers, jumps, constants and upvalues the compiler chose.            *)
NotNil(map) == [k \in {x \in DOMAIN map : map[x] # Nil} |-> map[k]]
SourceMeaning ==
  status \in {"done", "error", "cut"} =>
    LET m == Means(Programs[prog].body, answers) IN
    /\ m.status = status /\ m.unused = << >>
    /\ m.trace = [i \in DOMAIN trace |-> [kind |-> trace[i].kind, args |-> trace[i].args]]
    /\ status = "done" =>
         /\ m.results = results
         /\ Len(m.tables) = Len(heap.tabs)
         /\ \A t \in DOMAIN m.tables : m.tables[t] = NotNil(heap.tabs[t].map)

(* What the debug interface says of a value is true: an error tells the    *)
(* variable, field or method whose value is really at fault, and a called  *)
(* function finds the name or the event it was really called by; it always *)
(* finds one if there is one and no condition hides it -- though all that  *)
(* is left is the code, and it takes the last instruction that set a       *)
(* register for the one that ran (ldebug.c: findsetreg, getobjname).       *)
BlamesTruly ==
  status \in {"done", "error", "cut"} /\ Programs[prog].dump # "strip" =>
    LET m == Means(Programs[prog].body, answers) IN
    /\ \A i \in DOMAIN trace : trace[i].name \in m.names[i]
    /\ status = "error" => results[1] \in m.blame

(* The compiler rejects exactly the illegal programs: no goto into the     *)
(* scope of a variable, out of a function or to nowhere, no repeated       *)
(* label, no break outside loops, no assignment to a constant in whatever  *)
(* function, no "..." outside vararg functions -- although it learns of    *)
(* labels and variables after code for the gotos is out.                   *)
Loadable(p) == IF p.dump = "no" THEN "t" \in p.mode
               ELSE p.cut = 0 /\ {"b", "B"} \cap p.mode # {}
Limits == {"registers", "returns", "multiple results", "upvalues", "local variables"}
RejectsExactly ==
  status \in {"loaded", "rejected"} /\ unit.compiled.err \notin Limits =>
    (status = "rejected" <=> \/ ~LegalProgram(Programs[prog].body)
                             \/ ~Loadable(Programs[prog]))
=============================================================================
