------------------------------ MODULE MCCompile ------------------------------
(***************************************************************************)
(* Programs for the compiler, in families; f, g and h are objects.         *)
(***************************************************************************)
EXTENDS Meaning, Chunk

(* The machine runs what the compiler of Parser made and Chunk loaded, and *)
(* is compared with Meaning.                                               *)
MCLoad(p) == LET c == Compile(p.body) IN [compiled |-> c, loaded |-> FParser(p, c)]
MCFuncName(p, pc) == LET n == FuncNameFromCode(p, pc) IN n
MCObjName(p, pc, reg) == LET n == GetObjName(p, pc, reg) IN n
MCMeans(body, given) == LET m == Meaning(body, given) IN m

MCExternals == {"f", "g", "h"}
MCDigits == [ENV |-> 1, f |-> 2, g |-> 3, h |-> 4, a |-> 5, b |-> 6, i |-> 7, j |-> 8,
             t |-> 9, x |-> 11, y |-> 12, z |-> 13, self |-> 14, c |-> 15, n |-> 16,
             verylong |-> 12345] @@ ("(for state)" :> 88)

(* Shorthands.                                                             *)
N(name)   == <<"name", name>>
K_(v)     == <<"k", v>>
Num(n)    == <<"k", IntVal(n)>>
Half(h)   == <<"k", Flt(h)>>
Text(s)   == <<"k", Val("str", s)>>
NilE      == <<"k", Nil>>
TrueE     == <<"k", Bool(TRUE)>>
FalseE    == <<"k", Bool(FALSE)>>
Dots      == <<"...">>
O(op)     == <<"op", op, 0>>
U(op)     == <<"un", op>>
Toks(x)   == IF x[1] = "ops" THEN x[2] ELSE <<x>>
Bin(x, op, y) == <<"ops", Toks(x) \o <<O(op)>> \o Toks(y)>>
Neg(x)    == <<"ops", <<U("not"), x>>>>
Dot(t, n)    == <<"dot", N(t), n>>
Idx(t, k)    == <<"index", N(t), k>>
Fn(params, body)  == <<"fn", params, FALSE, body>>
VFn(params, body) == <<"fn", params, TRUE, body>>
Call_(f, args)    == <<"call", N(f), args>>
Ask_(f)           == <<"call", N(f), << >>>>
Loc(name, e)      == <<"local", <<<<name, "REG">>>>, <<e>>>>
Locs(names, es)   == <<"local", [i \in DOMAIN names |-> <<names[i], "REG">>], es>>
Const_(name, e)   == <<"local", <<<<name, "CONST">>>>, <<e>>>>
Tbc_(name, e)     == <<"local", <<<<name, "CLOSE">>>>, <<e>>>>
Set1(x, e)        == <<"assign", <<x>>, <<e>>>>
Ret_(exps)        == <<"return", exps>>
If1(cond, body)   == <<"if", <<<<cond, body>>>>, << >>>>
IfElse(cond, b1, b2) == <<"if", <<<<cond, b1>>>>, <<b2>>>>
Items(es)         == <<"table", [i \in DOMAIN es |-> <<"item", es[i]>>]>>

Prog(given, body) == [body |-> body, answers |-> given]
Text_    == [dump |-> "no", mode |-> {"b", "t"}, cut |-> 0, block |-> 7]
Binary_  == [Text_ EXCEPT !.dump = "yes"]
Stripped_ == [Text_ EXCEPT !.dump = "strip"]
Fixed_   == [Binary_ EXCEPT !.mode = {"B"}, !.block = 10000]
Each(s, F(_))       == [i \in DOMAIN s |-> F(s[i])]
Pairs(s, t, F(_, _)) ==
  [i \in 1 .. Len(s) * Len(t) |-> F(s[(i - 1) \div Len(t) + 1], t[((i - 1) % Len(t)) + 1])]
Bools == <<{<<Bool(TRUE)>>, <<Bool(FALSE)>>}>>
Quiet == <<{<< >>}>>

(* Conditions: three operands under "and" and "or", in every place a       *)
(* condition or its value may stand.                                       *)
Leaves == <<N("a"), TrueE, NilE, Bin(N("a"), "<", Num(1)), Neg(N("b")), Ask_("g")>>
Flat(x, o1, y, o2, z) == Bin(Bin(x, o1, y), o2, z)
Use(n, e) ==
  CASE n = 0 -> <<If1(e, <<Set1(N("c"), Num(1))>>)>>
    [] n = 1 -> <<<<"while", e, <<Set1(N("c"), Num(1)), <<"break">>>>>>>>
    [] n = 2 -> <<<<"repeat", <<Set1(N("c"), Num(1))>>, Bin(<<"paren", e>>, "or", TrueE)>>>>
    [] n = 3 -> <<Loc("x", e), Set1(N("c"), N("x"))>>
    [] n = 4 -> <<Call_("h", <<Neg(<<"paren", e>>), e>>)>>
    [] n = 5 -> <<Ret_(<<Neg(<<"paren", e>>)>>)>>
    [] n = 6 -> <<IfElse(Neg(<<"paren", e>>), <<Set1(N("c"), Num(1))>>, <<Set1(N("c"), Num(2))>>)>>
    [] n = 7 -> <<Ret_(<<Bin(<<"paren", e>>, "==", N("b"))>>)>>
    [] n = 8 -> <<Set1(N("b"), e), Ret_(<<N("b")>>)>>
    [] n = 9 -> <<Loc("t", Items(<< >>)), Set1(Idx("t", e), e)>>
    [] n = 10 -> <<Ret_(<<Items(<<e, Bin(NilE, "~=", <<"paren", e>>)>>), e>>)>>
CondProg(i, e) ==
  Prog(Bools, <<Loc("a", Ask_("f")), Loc("b", Ask_("f"))>> \o Use(i % 11, e))
Conditions ==
  LET AndOr == <<"and", "or">>
      First_(x, o) == [x |-> x, o |-> o]
      Both(p, q) == [x |-> p.x, o |-> p.o, y |-> q.x, p |-> q.o]
      Of(b, z) == Flat(b.x, b.o, b.y, b.p, z)
      Halved == Pairs(Leaves, AndOr, First_)
      All == Pairs(Pairs(Halved, Halved, Both), Leaves, Of) IN
  [i \in 1 .. 3 * Len(All) |-> CondProg(i + i \div 11, All[((i - 1) % Len(All)) + 1])]

(* Arithmetic and comparison: each operator with constants on either side, *)
(* inside and outside the range of immediate operands, with two variables, *)
(* and folded; the variables take the values at the edges.                 *)
Edges  == {IntVal(n) : n \in {-8, -7, -1, 0, 1, 2, 3, 7}}
Given(vs) == {<<v>> : v \in vs}
Obj    == Object("h")
IntOps == <<"*", "//", "%">>
AnyOps == <<"+", "-", "&", "|", "~", "<<", ">>">>
IntKs  == Each(<<-8, -5, -4, -3, -1, 0, 1, 3, 4, 5, 7>>, Num)
AnyKs  == IntKs \o Each(<<-1, 2, 4, 16, 7>>, Half)
Compare == <<"==", "~=", "<", "<=", ">", ">=">>
WithK(op, k) ==
  Prog(<<Given(Edges \cup (IF op \in ToSet(IntOps) THEN {} ELSE {Flt(1), Flt(2), Flt(-4)})
               \cup {Obj, Nil}), {<<IntVal(1)>>, << >>}>>,
       <<Loc("a", Ask_("f")), Ret_(<<Bin(N("a"), op, k)>>)>>)
KWith(op, k) ==
  Prog(WithK(op, k).answers, <<Loc("a", Ask_("f")), Ret_(<<Bin(k, op, N("a"))>>)>>)
Two(op) ==
  LET vs == Given(Edges \cup {Obj} \cup IF op \in ToSet(IntOps) THEN {} ELSE {Flt(2), Flt(-1)}) IN
  Prog(<<vs, vs, {<<IntVal(1)>>, << >>}>>,
       <<Loc("a", Ask_("f")), Ret_(<<Bin(N("a"), op, Ask_("g"))>>)>>)
FoldedProg(op, k) ==
  Prog(Quiet, <<Loc("t", Items(Each(IF op \in ToSet(IntOps) THEN SelectSeq(IntKs, LAMBDA x : x # Num(0))
                                    ELSE IF op \in {"+", "-"} THEN AnyKs ELSE IntKs,
                                    LAMBDA x : Bin(k, op, x))))>>)
(* More than one operator, of every pair of levels, and unary ones.        *)
Levelled(o1, o2) ==
  Prog(<<{<<IntVal(3)>>}, {<<IntVal(2)>>}, {<<IntVal(7)>>}, {<<IntVal(1)>>}>>,
       <<Locs(<<"a", "b", "c">>, <<<<"paren", Ask_("f")>>, <<"paren", Ask_("f")>>, Ask_("f")>>),
         Ret_(<<Bin(Bin(N("a"), o1, N("b")), o2, N("c"))>>)>>)
UnaryProg(op) ==
  Prog(<<Given(Edges \cup {Flt(3), Obj, Nil}), {<<IntVal(5)>>}>>,
       <<Loc("a", Ask_("f")), Ret_(<<<<"ops", <<U(op), N("a")>>>>, <<"ops", <<U(op), U("not"), N("a")>>>>>>)>>)
UnaryK(op, k) == Prog(Quiet, <<Ret_(<<<<"ops", <<U(op), k>>>>, <<"ops", <<U(op), U("unm"), k>>>>>>)>>)
Arithmetics ==
  Pairs(IntOps, IntKs, WithK) \o Pairs(IntOps, IntKs, KWith)
  \o Pairs(AnyOps \o Compare, AnyKs, WithK) \o Pairs(AnyOps \o Compare, AnyKs, KWith)
  \o Each(IntOps \o AnyOps \o Compare, Two)
  \o Pairs(IntOps, IntKs, FoldedProg) \o Pairs(AnyOps, IntKs, FoldedProg)
  \o Pairs(<<"+", "-">>, AnyKs, FoldedProg)
  \o Pairs(IntOps \o AnyOps \o <<"<", "==", "and", "or">>,
           IntOps \o AnyOps \o <<"<=", "~=", "and", "or">>, Levelled)
  \o Each(<<"unm", "bnot", "not", "len">>, UnaryProg)
  \o Pairs(<<"unm", "bnot">>, AnyKs, UnaryK)

(* Numeric loops from, to and by the values at the edges: a table receives *)
(* the values of the control variable.                                     *)
Starts == Given(Edges \cup {Flt(-16), Flt(1)})
LimitsOf == Given(Edges \cup {Flt(40), Flt(-40), Flt(15), Flt(-15), Flt(3), Nil})
Steps  == Given({IntVal(n) : n \in {-8, -3, -1, 1, 2, 7}} \cup {IntVal(0), Flt(8), Flt(-9), Obj})
Count_ == <<Set1(N("n"), Bin(N("n"), "+", Num(1))), Set1(Idx("t", N("n")), N("i"))>>
Loop(exps) == <<Loc("t", Items(<< >>)), Loc("n", Num(-8)),
                <<"fornum", "i", exps, Count_>>, Ret_(<<N("n")>>)>>
ForLoops ==
  <<Prog(<<Starts, LimitsOf, Steps>>,
         Loop(<<<<"paren", Ask_("f")>>, <<"paren", Ask_("f")>>, <<"paren", Ask_("f")>>>>)),
    Prog(<<Starts, LimitsOf>>, Loop(<<Ask_("f"), Ask_("f")>>)),
    Prog(<<Starts>>, Loop(<<Ask_("f"), Num(7), Num(3)>>)),
    Prog(<<Starts>>, Loop(<<Ask_("f"), Half(40), Num(-8)>>)),
    Prog(<<LimitsOf>>, Loop(<<Num(-8), Ask_("f"), Num(5)>>))>>

(* Jumps: loops of every form, left or continued in every way from a       *)
(* nested block, with plain, captured and to-be-closed variables.          *)
Capture(key, x) == Set1(Idx("t", key), Fn(<< >>, <<Set1(N(x), Bin(N(x), "+", Num(2))), Ret_(<<N(x)>>)>>))
Declares(v) ==
  CASE v = "none"     -> << >>
    [] v = "plain"    -> <<Loc("x", N("n")), Set1(N("b"), N("x"))>>
    [] v = "captured" -> <<Loc("x", N("n")), Capture(N("n"), "x"), Set1(N("x"), Bin(N("x"), "+", Num(1)))>>
    [] v = "close"    -> <<Tbc_("x", N("h")), Loc("y", N("n")), Capture(N("n"), "y")>>
Leaves_(e) ==
  CASE e = "break"  -> <<"break">>
    [] e = "out"    -> <<"goto", "out">>
    [] e = "next"   -> <<"goto", "next">>
    [] e = "return" -> Ret_(<<N("n"), Call_("g", <<N("n")>>)>>)
    [] e = "tail"   -> Ret_(<<Call_("g", <<N("n")>>)>>)
    [] e = "fall"   -> Set1(N("c"), N("n"))
Inner(v, e) == If1(Bin(N("n"), "==", Num(2)),
                   (IF v = "captured" THEN <<Loc("y", Num(5)), Capture(Num(4), "y")>>
                    ELSE IF v = "close" THEN <<Tbc_("y", N("g"))>> ELSE << >>) \o <<Leaves_(e)>>)
LoopBody(v, w, e) ==
  <<Set1(N("n"), Bin(N("n"), "+", Num(1)))>> \o Declares(v) \o <<Inner(w, e)>>
  \o <<Set1(N("c"), N("n"))>> \o (IF e = "next" THEN <<<<"label", "next">>>> ELSE << >>)
Again == Bin(N("n"), "<", Num(3))
LoopOf(kind, body) ==
  CASE kind = "while"  -> <<<<"while", Again, body>>>>
    [] kind = "repeat" -> <<<<"repeat", body, Neg(<<"paren", Again>>)>>>>
    [] kind = "until"  -> <<<<"repeat", <<Loc("z", NilE)>> \o body, Bin(N("z"), "or", Neg(<<"paren", Again>>))>>>>
    [] kind = "for"    -> <<<<"fornum", "i", <<Num(1), Num(3)>>, body>>>>
    [] kind = "in"     -> <<<<"forin", <<"i", "j">>,
                             <<Fn(<<"a", "b">>, <<If1(Again, <<Ret_(<<N("n")>>)>>)>>), NilE, NilE, N("h")>>, body>>>>
    [] kind = "goto"   -> <<<<"label", "top">>>> \o body \o <<If1(Again, <<<<"goto", "top">>>>)>>
Called_(k) == Bin(Idx("t", Num(k)), "and", <<"call", Idx("t", Num(k)), << >>>>)
JumpProg(kind, v, w, e) ==
  Prog(Quiet, <<Locs(<<"t", "n">>, <<Items(<< >>), Num(0)>>), <<"do", LoopOf(kind, LoopBody(v, w, e))>>>>
              \o (IF e = "out" THEN <<<<"label", "out">>>> ELSE << >>)
              \o <<Ret_(<<N("n"), Called_(1), Called_(2), Called_(3), Called_(4)>>)>>)
Kinds_ == <<"while", "repeat", "until", "for", "in", "goto">>
Jumps ==
  LET Of(kind, e) == Each(<<<<"none", "none">>, <<"plain", "captured">>, <<"captured", "none">>,
                            <<"captured", "captured">>, <<"close", "none">>, <<"captured", "close">>,
                            <<"close", "close">>>>, LAMBDA d : JumpProg(kind, d[1], d[2], e)) IN
  FlattenSeq(Pairs(Kinds_, <<"break", "out", "next", "return", "tail", "fall">>, Of))

(* Labels and scopes, legal and not.                                       *)
Lb(l) == <<"label", l>>
Gt(l) == <<"goto", l>>
Do(b) == <<"do", b>>
F1 == Loc("b", Fn(<< >>, << >>))
Scopes == Each(<<
  <<Gt("x")>>, <<Lb("x"), Set1(N("a"), Num(1)), If1(N("t"), <<Gt("x")>>)>>,
  <<Gt("x"), Loc("a", Num(1)), Lb("x")>>, <<Gt("x"), Loc("a", Num(1)), Lb("x"), Lb("y")>>,
  <<Gt("x"), Loc("a", Num(1)), Lb("x"), Set1(N("a"), Num(2))>>,
  <<Gt("x"), <<"localfn", "a", Fn(<< >>, << >>)>>, Lb("x"), Ask_("f")>>,
  <<Gt("x"), Do(<<Lb("x")>>)>>, <<Do(<<Gt("x"), Lb("x")>>), Do(<<Lb("x")>>)>>,
  <<Lb("x"), Lb("x")>>, <<Lb("x"), Do(<<Lb("x")>>)>>, <<Do(<<Lb("x")>>), Lb("x")>>,
  <<Do(<<Gt("x"), Lb("x")>>), Lb("x"), Set1(N("a"), Num(1))>>,
  <<Do(<<Gt("x")>>), Loc("a", Num(1)), Lb("x"), Ask_("f")>>,
  <<Lb("x"), Loc("a", Fn(<< >>, <<Gt("x")>>))>>,
  <<Lb("x"), Loc("a", Fn(<< >>, <<Lb("x"), If1(FalseE, <<Gt("x")>>)>>))>>,
  <<Gt("x"), F1, Gt("y"), Lb("x"), Lb("y")>>, <<Gt("y"), Do(<<F1, Gt("x"), Lb("x")>>), Lb("y")>>,
  << <<"repeat", <<If1(N("f"), <<Gt("x")>>), Loc("a", Num(1)), Lb("x")>>, TrueE>> >>,
  << <<"repeat", <<Do(<<Loc("a", Num(1)), Gt("x")>>), Lb("x")>>, TrueE>> >>,
  << <<"while", TrueE, <<Do(<<Loc("a", Num(1)), <<"break">>>>)>>>> >>,
  <<<<"break">>>>, <<Do(<<<<"break">>>>)>>, <<If1(TrueE, <<<<"break">>>>)>>,
  << <<"while", TrueE, <<Loc("a", Fn(<< >>, <<<<"break">>>>))>>>> >>,
  << <<"fornum", "i", <<Num(1), Num(2)>>, <<Set1(N("i"), Num(1))>>>> >>,
  << <<"forin", <<"i", "j">>, <<N("f")>>, <<Set1(N("j"), Num(1)), <<"break">>>>>> >>,
  << <<"forin", <<"i", "j">>, <<N("f")>>, <<Set1(N("i"), Num(1)), <<"break">>>>>> >>,
  << <<"fornum", "i", <<Num(1), Num(2)>>, <<Loc("a", Fn(<< >>, <<Set1(N("i"), Num(1))>>))>>>> >>,
  <<Const_("a", Num(1)), Set1(N("a"), Num(2))>>, <<Const_("a", N("f")), Set1(N("a"), Num(2))>>,
  <<Const_("a", Num(1)), Loc("b", Fn(<< >>, <<Set1(N("a"), Num(2))>>))>>,
  <<Const_("a", N("f")), Loc("b", Fn(<< >>, <<Loc("c", Fn(<< >>, <<Set1(N("a"), Num(2))>>))>>))>>,
  <<Const_("a", Num(1)), Do(<<Loc("a", Num(2)), Set1(N("a"), Num(3))>>), Ret_(<<N("a")>>)>>,
  <<Tbc_("a", N("f")), Set1(N("a"), Num(2))>>,
  <<<<"local", <<<<"a", "CLOSE">>, <<"b", "CLOSE">>>>, <<NilE, NilE>>>>>>,
  <<<<"local", <<<<"a", "CLOSE">>, <<"b", "CONST">>>>, <<N("g"), Num(4)>>>>, Ret_(<<N("b")>>)>>,
  <<<<"local", <<<<"a", "CONST">>, <<"b", "CLOSE">>>>, <<Num(4), Num(3)>>>>, Ret_(<<N("b")>>)>>,
  <<<<"local", <<<<"a", "REG">>, <<"b", "CLOSE">>, <<"c", "REG">>>>, <<Ask_("f")>>>>, Ret_(<<N("b")>>)>>,
  <<Const_("a", Num(1)), <<"function", N("a"), FALSE, Fn(<< >>, << >>)>>>>,
  <<Loc("a", Fn(<<"b">>, <<Ret_(<<Dots>>)>>))>>, <<Ret_(<<Dots>>)>>,
  <<Loc("a", VFn(<<"b">>, <<Loc("c", Fn(<< >>, <<Call_("f", <<Dots>>)>>))>>))>>>>,
  LAMBDA b : Prog(Bools, b))

(* Assignments to several targets that use one another.                    *)
AB == Locs(<<"a", "b", "i">>, <<Items(<< >>), Items(<< >>), Num(1)>>)
Two_(targets, exps) == <<"assign", targets, exps>>
Assigns == Each(<<
  <<AB, Two_(<<N("i"), Idx("a", N("i"))>>, <<Num(2), Num(3)>>)>>,
  <<AB, Two_(<<Idx("a", N("i")), N("i")>>, <<Num(2), Num(3)>>)>>,
  <<AB, Two_(<<Idx("a", N("i")), N("i"), N("a")>>, <<Num(2), Num(3), N("b")>>), Set1(Dot("a", "x"), N("i"))>>,
  <<AB, Two_(<<Dot("a", "x"), N("a")>>, <<Num(2), N("b")>>), Set1(Dot("a", "y"), Num(1))>>,
  <<AB, Two_(<<Idx("a", Num(1)), N("a"), Idx("a", N("a"))>>, <<Ask_("f")>>)>>,
  <<AB, Two_(<<N("a"), N("b")>>, <<N("b"), N("a")>>), Set1(Dot("a", "x"), Num(1))>>,
  <<AB, Two_(<<N("a"), N("b"), N("i")>>, <<Ask_("f")>>), Ret_(<<N("a"), N("b"), N("i")>>)>>,
  <<AB, Two_(<<N("a"), N("b")>>, <<Num(1), Num(2), Call_("f", << >>)>>), Ret_(<<N("a"), N("b")>>)>>,
  <<AB, Loc("c", Fn(<< >>, <<Two_(<<Dot("a", "x"), N("a"), Idx("a", N("i")), N("i")>>,
                                 <<Num(1), N("b"), Num(3), Num(4)>>), Set1(Dot("a", "y"), N("i"))>>)),
    <<"call", N("c"), << >>>>, Ret_(<<N("a"), N("i")>>)>>,
  <<AB, Two_(<<N("x"), N("ENV"), N("y")>>, <<Num(1), N("a"), Num(2)>>), Set1(N("z"), Num(3))>>,
  <<AB, Do(<<Loc("ENV", N("b")), Two_(<<N("x"), N("ENV"), N("y")>>, <<Num(1), N("a"), Num(2)>>),
             Set1(N("z"), Num(3))>>), Set1(N("z"), Num(4))>>,
  <<Loc("ENV", Items(<< >>)), Loc("c", Fn(<< >>, <<Set1(N("x"), Num(1)), Ret_(<<N("x"), N("y")>>)>>)),
    Ret_(<<<<"call", N("c"), << >>>>>>)>>,
  <<Const_("ENV", Num(1)), Set1(N("x"), Num(1))>>,
  <<AB, Two_(<<Dot("f", "x"), Idx("g", N("i")), Dot("a", "verylong")>>, <<Ask_("h"), Num(7)>>),
    Ret_(<<<<"dot", <<"dot", N("f"), "y">>, "verylong">>>>)>>,
  <<Locs(<<"a", "b">>, <<Num(1)>>), Loc("b", N("a")), Two_(<<N("a"), N("b")>>, <<N("b"), N("a")>>),
    <<"local", <<<<"c", "REG">>, <<"i", "REG">>>>, << >>>>, Ret_(<<N("a"), N("b"), N("c"), N("i")>>)>>,
  <<Loc("a", Text(12345)), Loc("b", Items(<<N("a")>>)), Set1(Idx("b", N("a")), Text(123)),
    Set1(Idx("b", Text(12345)), Bin(Idx("b", Text(12345)), "..", Text(4))),
    Ret_(<<Dot("b", "verylong"), <<"ops", <<U("len"), Idx("b", Num(1))>>>>>>)>> >>,
  LAMBDA b : Prog(<<{<<Val("obj", 4), IntVal(5)>>, <<Bool(TRUE)>>, << >>}>>, b))

(* Constructors, calls, methods, "..." and results.                        *)
Many(n) == [i \in 1 .. n |-> Num(i % 7)]
Mixed(n) == [i \in 1 .. n |-> IF i % 3 = 0 THEN <<"rec", Num(-(i % 4) - 1), Num(i % 5)>>
                              ELSE IF i % 7 = 0 THEN <<"rec", <<"k", Val("str", 5)>>, Num(1)>>
                              ELSE <<"item", Num(i % 6)>>]
Constructors == Each(
  Each(<<0, 1, 15, 16, 17, 33, 50, 51, 101>>, LAMBDA n : <<Loc("t", Items(Many(n))), Ret_(<<<<"ops", <<U("len"), N("t")>>>>>>)>>)
  \o Each(<<0, 1, 15, 16, 49, 50, 51>>, LAMBDA n : <<Loc("t", Items(Many(n) \o <<Ask_("f")>>))>>)
  \o Each(<<0, 15, 50>>, LAMBDA n : <<Loc("a", Ask_("f")), Loc("t", Items(Many(n) \o <<Ask_("f"), N("a")>>))>>)
  \o Each(<<1, 6, 7, 30>>, LAMBDA n : <<Loc("t", <<"table", Mixed(n)>>), Ret_(<<N("t")>>)>>)
  \o <<<<<<"call", Fn(<<"a">>, <<Ret_(<<N("a")>>)>>), Many(40)>>>>>>,
  LAMBDA b : Prog(<<{<<IntVal(1), IntVal(2)>>, << >>, <<Nil>>}>>, b))
Id == <<"localfn", "a", VFn(<<"x">>, <<Ret_(<<Dots>>)>>)>>
CallA(args) == <<"call", N("a"), args>>
Calls == Each(<<
  <<Id, Ret_(<<CallA(<<Num(1), Num(2), Ask_("f")>>)>>)>>,
  <<Id, Ret_(<<Num(0), CallA(<<Ask_("f"), Ask_("g")>>)>>)>>,
  <<Id, Ret_(<<CallA(<<Num(1), Num(2), Num(3)>>), <<"paren", CallA(<<Num(1), Num(2), Num(3)>>)>>>>)>>,
  <<Id, Locs(<<"b", "c">>, <<CallA(<<Num(1), Num(2)>>)>>), Call_("f", <<N("b"), N("c")>>)>>,
  <<Id, Call_("f", <<CallA(<<N("f"), CallA(<<N("g"), Ask_("h")>>)>>)>>)>>,
  <<Id, Loc("t", Items(<<CallA(<<Num(1), Num(2)>>), CallA(<<Num(1), Num(2), Num(3)>>)>>)), Ret_(<<N("t")>>)>>,
  <<<<"localfn", "a", VFn(<<"x", "y">>, <<Locs(<<"b", "c">>, <<Dots>>),
      Ret_(<<N("y"), N("b"), N("c"), Items(<<Dots>>)>>)>>)>>, Ret_(<<CallA(<<Num(1), Ask_("f")>>)>>)>>,
  <<<<"localfn", "a", Fn(<<"x">>, <<If1(Bin(N("x"), "==", Num(0)), <<Ret_(<<Ask_("f")>>)>>),
      Ret_(<<CallA(<<Bin(N("x"), "-", Num(1))>>)>>)>>)>>, Ret_(<<CallA(<<Num(3)>>)>>)>>,
  <<<<"localfn", "a", Fn(<<"x">>, <<Tbc_("y", N("g")), Ret_(<<Call_("f", <<N("x")>>)>>)>>)>>,
    Ret_(<<CallA(<<Num(3)>>)>>)>>,
  <<<<"localfn", "a", Fn(<<"x">>, <<Loc("y", N("x")), Loc("z", Fn(<< >>, <<Ret_(<<N("y")>>)>>)),
      Ret_(<<Call_("z", << >>)>>)>>)>>, Ret_(<<CallA(<<Num(3)>>)>>)>>,
  <<Loc("t", Items(<< >>)), <<"function", Dot("t", "x"), TRUE, Fn(<<"y">>, <<Set1(Dot("self", "c"), N("y")), Ret_(<<N("self"), N("y")>>)>>)>>,
    Ret_(<<<<"method", N("t"), "x", <<Num(3)>>>>>>)>>,
  <<Loc("t", Items(<< >>)), <<"function", <<"dot", N("t"), "verylong">>, TRUE, Fn(<< >>, <<Ret_(<<N("self")>>)>>)>>,
    Ret_(<<<<"method", <<"method", N("t"), "verylong", << >>>>, "verylong", << >>>>>>)>>,
  <<<<"method", N("f"), "x", <<Num(1), <<"method", N("g"), "y", <<Ask_("h")>>>>>>>>>>,
  <<Loc("a", Num(1)), Loc("b", Fn(<< >>, <<Loc("c", Fn(<< >>, <<Set1(N("a"), Bin(N("a"), "+", Num(1))), Ret_(<<N("a")>>)>>)),
      Ret_(<<N("c")>>)>>)), Locs(<<"x", "y">>, <<Ask_("b"), Ask_("b")>>),
    Ret_(<<Ask_("x"), Ask_("y"), N("a")>>)>>,
  <<Const_("a", Num(4)), Const_("b", Half(3)), Const_("c", Bin(N("a"), "+", Num(1))), Const_("i", NilE),
    Loc("x", Fn(<< >>, <<Ret_(<<N("a"), N("b"), N("c"), Bin(N("i"), "or", N("a"))>>)>>)), Ret_(<<Ask_("x")>>)>>,
  <<<<"localfn", "a", Fn(<< >>, <<Ret_(<<N("a")>>)>>)>>, Ret_(<<Bin(CallA(<< >>), "==", N("a"))>>)>>,
  <<Loc("a", Bin(Text(2), "..", Bin(Text(3), "..", Bin(N("f"), "..", Bin(Text(4), "..", Text(5)))))), Ret_(<<N("a")>>)>>,
  <<Ret_(<<Bin(Bin(Text(2), "..", Text(3)), "==", Text(23)), Bin(Text(2), "..", Text(0)),
           Bin(Bin(N("f"), "..", N("g")), "..", Bin(N("h"), "..", Ask_("f")))>>)>>,
  <<<<"forin", <<"i", "j">>, <<N("f"), Num(1), Num(2), N("g")>>, <<Call_("h", <<N("i"), N("j")>>)>>>>>>,
  <<<<"forin", <<"i">>, <<Ask_("f")>>, <<Capture(N("i"), "i")>>>>>>,
  <<<<"forin", <<"i", "j", "x">>, <<N("f")>>, <<<<"break">>>>>>, Ret_(Many(6))>>,
  <<Ret_(Many(7))>>, <<Locs(<<"a", "b", "c", "i", "j", "x", "y">>, <<Ask_("f")>>)>>,
  <<Call_("f", Many(20)), Call_("g", <<Num(-8), Half(-16), Num(-8), Half(3)>>)>> >>,
  LAMBDA b : Prog(<<{<<IntVal(1), Val("obj", 3), Bool(FALSE)>>, << >>}>>, b))

(* Values of the wrong kind, used in every way, that came from every place *)
(* a name may be found for, of the same function or an enclosing one.      *)
F0 == Ask_("f")
Table_(x, v) == <<Loc("t", Items(<< >>)), Set1(x, v)>>
Origins == <<
  [set |-> <<Loc("a", F0)>>, e |-> N("a")],
  [set |-> <<Const_("a", F0)>>, e |-> N("a")],
  [set |-> <<Const_("a", Half(3))>>, e |-> N("a")],
  [set |-> <<Set1(N("x"), F0)>>, e |-> N("x")],
  [set |-> <<Set1(N("verylong"), F0)>>, e |-> N("verylong")],
  [set |-> Table_(Dot("t", "x"), F0), e |-> Dot("t", "x")],
  [set |-> Table_(Dot("t", "verylong"), F0), e |-> Dot("t", "verylong")],
  [set |-> Table_(Idx("t", N("b")), F0), e |-> Idx("t", N("b"))],
  [set |-> Table_(Idx("t", Num(2)), F0), e |-> Idx("t", Num(2))],
  [set |-> <<Set1(Dot("ENV", "t"), Items(<< >>)), Set1(<<"dot", Dot("ENV", "t"), "x">>, F0)>>,
   e |-> <<"dot", <<"dot", N("ENV"), "t">>, "x">>],
  [set |-> <<Loc("a", F0), Loc("f", N("f")), Loc("ENV", Items(<< >>)), Set1(N("x"), N("a"))>>, e |-> N("x")],
  [set |-> <<Loc("a", F0)>>, e |-> <<"paren", Bin(N("a"), "or", N("b"))>>],
  [set |-> <<Loc("a", F0)>>, e |-> <<"paren", Bin(N("b"), "and", N("a"))>>],
  [set |-> Table_(Dot("t", "x"), F0), e |-> <<"paren", Bin(Dot("t", "y"), "or", Dot("t", "x"))>>],
  [set |-> << >>, e |-> F0],
  [set |-> <<Loc("a", F0)>>, e |-> <<"paren", Neg(N("a"))>>] >>
Wrongly(e) ==
  LET Value(x) == <<Set1(N("c"), x)>>
      Op1(op) == Value(<<"ops", <<U(op), e>>>>) IN <<
  << <<"call", e, << >>>> >>,
  <<Ret_(<<<<"call", e, <<Bin(N("b"), "and", Num(2))>>>>>>)>>,
  Value(<<"call", e, <<Bin(N("b"), "or", Ask_("g"))>>>>),
  Value(Bin(N("b"), "and", <<"call", e, <<N("b")>>>>)),
  <<If1(Neg(N("b")), Value(Num(1))), <<"call", e, << >>>>>>,
  << <<"method", e, "y", << >>>> >>, << <<"method", e, "verylong", <<N("b")>>>> >>,
  Value(<<"dot", e, "y">>), Value(<<"index", e, N("b")>>),
  <<Set1(<<"dot", e, "y">>, N("b"))>>, <<Set1(<<"index", e, Num(1)>>, e)>>,
  Value(Bin(e, "+", Num(1))), Value(Bin(Num(1), "-", e)), Value(Bin(e, "-", N("b"))),
  Value(Bin(N("b"), "+", e)), Value(Bin(N("b"), "&", e)), Value(Bin(e, "|", Half(3))),
  Value(Bin(Num(1), "&", e)), Value(Bin(e, "<<", Num(1))), Value(Bin(Num(1), "<<", e)),
  Value(Bin(e, ">>", <<"paren", Bin(N("b"), "and", N("b"))>>)),
  Op1("unm"), Op1("bnot"), Op1("len"), Value(Bin(e, "<", N("b"))),
  << <<"forin", <<"i", "j">>, <<e>>, <<<<"break">>>>>> >>,
  << <<"forin", <<"i", "j">>, <<N("g"), NilE, NilE, e>>, <<<<"break">>>>>> >>,
  << <<"fornum", "i", <<Num(1), e>>, <<<<"break">>>>>> >>,
  <<Tbc_("x", e)>> >>
WronglyJoined(e) ==
  Each(<<Bin(e, "..", Text(2)), Bin(Text(2), "..", e), Bin(Text(2), "..", Bin(e, "..", Text(3))),
         Bin(e, "..", <<"paren", Bin(N("g"), "..", Text(2))>>)>>, LAMBDA x : <<Set1(N("c"), x)>>)
Misuse(values, set, use, inner) ==
  Prog(<<values, {<<IntVal(1)>>}>>,
       <<Loc("b", Num(1))>> \o set
       \o IF inner THEN <<Loc("z", Fn(<< >>, use)), Ret_(<<Ask_("z")>>)>> ELSE use)
Misuses ==
  LET Wrong  == {<<Nil>>, <<Flt(3)>>, <<Obj>>, << >>}
      Joined_ == {<<Nil>>, <<Bool(TRUE)>>, <<Obj>>}
      Of(o, inner) ==
        Each(Wrongly(o.e), LAMBDA use : Misuse(Wrong, o.set, use, inner))
        \o (IF o.set = << >> \/ o.e # N("a") \/ o.set[1][3] = <<F0>>
            THEN Each(WronglyJoined(o.e), LAMBDA use : Misuse(Joined_, o.set, use, inner)) ELSE << >>) IN
  FlattenSeq(Pairs(Origins, <<FALSE, TRUE>>, Of))

(* Functions larger than an operand, a register or a line number difference*)
(* can tell.                                                               *)
LongStats(n) == [i \in 1 .. n |-> Set1(Dot("t", "x"), Text(30 + i))]
Spread == <<Loc("t", Items(<< >>)), <<"blank", 7>>, Set1(N("a"), <<"ops", <<N("t"), <<"op", "==", 9>>, N("t")>>>>),
            <<"blank", 12>>, Call_("f", <<Fn(<< >>, <<<<"blank", 9>>, Ask_("g"), <<"blank", 8>>>>), Ask_("h")>>),
            Set1(N("b"), <<"ops", <<U("len"), N("t"), <<"op", "+", 3>>, Ask_("f"), <<"op", "*", 9>>, Ask_("g")>>>>)>>
Large == Each(<<
  <<Call_("f", Many(150))>>, <<Call_("f", Many(256))>>,
  <<Loc("t", Items(<< >>))>> \o LongStats(17),
  <<Locs(<<"t", "a">>, <<Items(<< >>), Ask_("f")>>)>> \o LongStats(16)
    \o <<Ret_(<<Bin(N("a"), "==", Text(77)), Dot("t", "b"), Bin(N("a"), "+", Half(3))>>)>>,
  Spread, Spread \o Spread,
  Spread \o <<<<"while", Neg(N("c")), Spread \o <<Set1(N("c"), Num(1))>>>>, Ask_("h")>> >>,
  LAMBDA b : Prog(<<{<<IntVal(1)>>}>>, b))

(* Chunks cut short by any number of bytes but all, in blocks of any size, *)
(* and loads that accept one kind of chunk only.                           *)
Rich == <<
  <<Loc("a", Text(12345)), Call_("f", <<N("a"), Text(123), Half(3), Bin(N("a"), "==", NilE),
                                        Dot("f", "verylong")>>)>>,
  <<Loc("a", NilE), Ret_(<<VFn(<<"c">>, <<Ret_(<<Fn(<< >>, <<Ret_(<<N("c"), N("a")>>)>>), Dots>>)>>)>>)>> >>
Given_(body, how) == Prog(<<{<<IntVal(1)>>}>>, body) @@ how
Cuts(body, how) ==
  LET n == Len(Dump(Compile(body).proto, how.dump = "strip")) IN
  [c \in 1 .. n - 1 |-> Given_(body, [how EXCEPT !.cut = c])]
Chunks ==
  FlattenSeq(Pairs(Rich, <<Binary_, Stripped_, Fixed_>>, Cuts))
  \o Pairs(Rich, Each(<<1, 2, 3, 11>>, LAMBDA n : [Binary_ EXCEPT !.block = n]), Given_)
Modes ==
  LET In_(how, mode) == Given_(Rich[1], [how EXCEPT !.mode = mode, !.block = Fixed_.block]) IN
  Pairs(<<Text_, Binary_>>, <<{"b"}, {"t"}, {"t", "B"}, {"B"}, {}>>, In_)
  \o Each(<<{"b"}, {"t"}, {}>>, LAMBDA mode : In_(Stripped_, mode))

Families == Conditions \o Arithmetics \o ForLoops \o Jumps \o Scopes \o Assigns
            \o Constructors \o Calls \o Misuses \o Large \o Chunks \o Modes
MCPrograms ==
  LET all == Families IN
  [p \in DOMAIN all |-> all[p] @@ <<Text_, Binary_, Stripped_, Fixed_>>[((p + p \div 5) % 4) + 1]
                              @@ [yields |-> (p \div 3) % 2 = 1]]
=============================================================================
