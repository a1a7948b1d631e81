-------------------------------- MODULE Chunk --------------------------------
(***************************************************************************)
(* Precompiled chunks (ldump.c, lundump.c, lzio.c) and the choice between  *)
(* them and source text (ldo.c: f_parser).  A chunk is a sequence of       *)
(* bytes; the first byte of a datum carries it, the others are Rest.       *)
(* Each string is written once and afterwards named by its position among  *)
(* those already written; code and absolute lines are aligned.             *)
(*                                                                         *)
(* D is the state of a dump (DumpState): the bytes so far and the strings  *)
(* already in them.  S is the state of a load (LoadState and ZIO): the     *)
(* chunk, what of it was taken, how many bytes the buffer has left, the    *)
(* strings, the first error and the datum read last (got).                 *)
(***************************************************************************)
EXTENDS Parser

CONSTANT VarBase   \* what a byte of a size holds: 2^7 in the code     (bound)
ASSUME VarBaseAssumption == VarBase \in Nat /\ VarBase >= 2

INT_MAX   == 2147483647
SizeInstr == 4
SizeInt   == 4
SizeNum   == 8      \* integers and floats of the language
MaxShort  == StrLen(LongStr) - 1
Rest      == <<"rest", 0>>
Byte(x)   == <<"byte", x>>
Datum(x, size) == [i \in 1 .. size |-> IF i = 1 THEN <<"datum", x>> ELSE Rest]
(* Signature, version, format, check data, sizes and two check numbers.    *)
Header == [i \in 1 .. 15 |-> Byte(i)] \o Datum("int", SizeNum) \o Datum("num", SizeNum)

-----------------------------------------------------------------------------
(* Dumping.                                                                *)

DumpBlock(D, bytes) == [D EXCEPT !.out = @ \o bytes]
DumpByte(D, x)      == DumpBlock(D, <<Byte(x)>>)
DumpVector(D, xs, size) ==
  DumpBlock(D, [i \in 1 .. Len(xs) * size |->
                  IF (i - 1) % size = 0 THEN <<"datum", xs[(i - 1) \div size + 1]>> ELSE Rest])
DumpAlign(D, align) ==
  LET padding == align - (Len(D.out) % align) IN
  IF padding < align THEN DumpBlock(D, [i \in 1 .. padding |-> Rest]) ELSE D

RECURSIVE Varint(_, _)
Varint(x, mark) == (IF x < VarBase THEN << >> ELSE Varint(x \div VarBase, VarBase))
                   \o <<Byte(mark + (x % VarBase))>>
DumpInt(D, x) == DumpBlock(D, Varint(x, 0))

DumpString(D, str) ==
  IF str = Nil THEN DumpInt(D, 0)
  ELSE IF str \in DOMAIN D.saved THEN DumpInt(DumpInt(D, 1), D.saved[str])
  ELSE LET size == StrLen(str.v) IN
       [DumpBlock(DumpInt(D, size + 2), Datum(str, size + 1))
        EXCEPT !.saved = [x \in DOMAIN @ \cup {str} |->
                            IF x = str THEN Cardinality(DOMAIN @) + 1 ELSE @[x]]]

DumpCode(D, f) == DumpVector(DumpAlign(DumpInt(D, Len(f.code)), SizeInstr), f.code, SizeInstr)
DumpConstants(D, f) ==
  LET One(d, v) ==
        LET t == DumpByte(d, KindOf(v)) IN
        CASE v.t \in {"int", "flt"} -> DumpBlock(t, Datum(v, SizeNum))
          [] v.t = "str" -> DumpString(t, v)
          [] OTHER -> t IN
  FoldLeft(One, DumpInt(D, Len(f.k)), f.k)
DumpUpvalues(D, f) ==
  FoldLeft(LAMBDA d, u : DumpByte(DumpByte(DumpByte(d, u.instack), u.idx), u.kind),
           DumpInt(D, Len(f.ups)), f.ups)
DumpDebug(D, f, strip) ==
  LET Kept(xs) == IF strip THEN << >> ELSE xs
      info == DumpVector(DumpInt(D, Len(Kept(f.info))), Kept(f.info), 1)
      n    == DumpInt(info, Len(Kept(f.abs)))
      abs  == IF Kept(f.abs) = << >> THEN n
              ELSE DumpVector(DumpAlign(n, SizeInt), f.abs, 2 * SizeInt)
      vars == FoldLeft(LAMBDA d, v : DumpInt(DumpInt(DumpString(d, v.name), v.startpc), v.endpc),
                       DumpInt(abs, Len(Kept(f.locvars))), Kept(f.locvars)) IN
  FoldLeft(LAMBDA d, u : DumpString(d, u.name), DumpInt(vars, Len(Kept(f.ups))), Kept(f.ups))
RECURSIVE DumpFunction(_, _, _)
DumpFunction(D, f, strip) ==
  LET lines  == DumpInt(DumpInt(D, f.linedefined), f.lastlinedefined)
      sizes  == DumpByte(DumpByte(DumpByte(lines, f.numparams), IF f.vararg THEN 1 ELSE 0),
                         f.maxstack)
      ups    == DumpUpvalues(DumpConstants(DumpCode(sizes, f), f), f)
      protos == FoldLeft(LAMBDA d, p : DumpFunction(d, p, strip),
                         DumpInt(ups, Len(f.protos)), f.protos) IN
  DumpDebug(DumpString(protos, IF strip THEN Nil ELSE f.source), f, strip)
Dump(f, strip) ==
  DumpFunction(DumpByte([out |-> Header, saved |-> [x \in {} |-> 0]], Len(f.ups)), f, strip).out

-----------------------------------------------------------------------------
(* Loading.  The reader supplies the chunk in blocks of the given size.    *)

Got(S, x)    == [S EXCEPT !.got = x]
Error(S, why) == IF S.err = "" THEN [S EXCEPT !.err = why] ELSE S
CheckBuffer(S) ==
  LET left == Len(S.in) - S.at + 1 IN
  IF S.n > 0 THEN S ELSE [S EXCEPT !.n = IF left < S.block THEN left ELSE S.block]
RECURSIVE Read(_, _)
Read(S0, n) ==
  LET S == CheckBuffer(S0)
      m == IF n <= S.n THEN n ELSE S.n IN
  IF n = 0 THEN S0
  ELSE IF S.n = 0 THEN Error(S, "truncated chunk")
  ELSE Read([S EXCEPT !.at = @ + m, !.n = @ - m, !.got = @ \o SubSeq(S.in, S.at, S.at + m - 1)],
            n - m)
LoadBlock(S, size) ==
  LET r == Read(Got(S, << >>), size) IN
  IF S.err # "" \/ r.err # "" THEN Got([r EXCEPT !.err = IF S.err = "" THEN @ ELSE S.err], << >>)
  ELSE [r EXCEPT !.offset = @ + size]
(* In a fixed buffer data are used where they are, so each must be whole.  *)
(* (A vector of no bytes has an address there; the line information of a   *)
(* stripped chunk is not NULL then, and such chunks are not modelled.)     *)
GetAddr(S0, size) ==
  LET S == CheckBuffer(S0) IN
  IF S.err # "" THEN Got(S, << >>)
  ELSE IF S.n = 0 \/ S.n < size THEN Got(Error(S, "truncated fixed buffer"), << >>)
  ELSE [S EXCEPT !.at = @ + size, !.n = @ - size, !.offset = @ + size,
                 !.got = SubSeq(S.in, S.at, S.at + size - 1)]
LoadByte(S) ==
  LET r == LoadBlock(S, 1) IN Got(r, IF r.got = << >> THEN 0 ELSE r.got[1][2])
LoadAlign(S, align) ==
  LET padding == align - (S.offset % align) IN
  IF padding < align THEN LoadBlock(S, padding) ELSE S
LoadVector(S, n, size, inplace) ==
  LET r == IF inplace THEN GetAddr(S, n * size) ELSE LoadBlock(S, n * size) IN
  Got(r, [i \in 1 .. Len(r.got) \div size |-> r.got[(i - 1) * size + 1][2]])

RECURSIVE LoadVarint(_, _)
LoadVarint(S, x) ==
  LET b == LoadByte(S)
      y == x * VarBase + (b.got % VarBase) IN
  IF x > INT_MAX \div VarBase THEN Got(Error(b, "integer overflow"), 0)
  ELSE IF b.got >= VarBase THEN LoadVarint(b, y) ELSE Got(b, y)
LoadInt(S) == LoadVarint(S, 0)

LoadString(S) ==
  LET size  == LoadInt(S)
      index == LoadInt(size)
      chars == LoadVector(size, 1, size.got - 1, S.fixed /\ size.got - 2 > MaxShort) IN
  CASE size.got = 0 -> Got(size, Nil)
    [] size.got = 1 -> Got(index, IF index.err = "" THEN S.strs[index.got] ELSE Nil)
    [] OTHER -> IF chars.err # "" THEN Got(chars, Nil)
                ELSE [Got(chars, chars.got[1]) EXCEPT !.strs = Append(@, chars.got[1])]

(* n data, each read by One.                                               *)
LoadMany(S, n, One(_)) ==
  FoldLeft(LAMBDA s, i : LET r == One(s) IN Got(r, Append(s.got, r.got)),
           Got(S, << >>), [i \in 1 .. n |-> i])
LoadCode(S) ==
  LET n == LoadInt(S) IN LoadVector(LoadAlign(n, SizeInstr), n.got, SizeInstr, S.fixed)
LoadConstant(S) ==
  LET kind == LoadByte(S)
      num  == LoadVector(kind, 1, SizeNum, FALSE)
      str  == LoadString(kind) IN
  CASE kind.err # "" -> kind
    [] kind.got = "VNIL"   -> Got(kind, Nil)
    [] kind.got = "VTRUE"  -> Got(kind, Bool(TRUE))
    [] kind.got = "VFALSE" -> Got(kind, Bool(FALSE))
    [] kind.got \in {"VKINT", "VKFLT"} -> IF num.err = "" THEN Got(num, num.got[1]) ELSE num
    [] OTHER -> IF str.got = Nil THEN Error(str, "bad format for constant string") ELSE str
LoadConstants(S) == LET n == LoadInt(S) IN LoadMany(n, n.got, LoadConstant)
LoadUpvalue(S) ==
  LET instack == LoadByte(S)
      idx     == LoadByte(instack)
      kind    == LoadByte(idx) IN
  Got(kind, [name |-> Nil, instack |-> instack.got, idx |-> idx.got, kind |-> kind.got])
LoadUpvalues(S) == LET n == LoadInt(S) IN LoadMany(n, n.got, LoadUpvalue)
LoadLocVar(S) ==
  LET name  == LoadString(S)
      start == LoadInt(name)
      end   == LoadInt(start) IN
  Got(end, [name |-> name.got, startpc |-> start.got, endpc |-> end.got])
(* There are as many names of upvalues as upvalues, or none.               *)
LoadDebug(S, ups) ==
  LET n     == LoadInt(S)
      info  == LoadVector(n, n.got, 1, S.fixed)
      m     == LoadInt(info)
      abs   == IF m.got = 0 THEN Got(m, << >>)
               ELSE LoadVector(LoadAlign(m, SizeInt), m.got, 2 * SizeInt, S.fixed)
      size  == LoadInt(abs)
      vars  == LoadMany(size, size.got, LoadLocVar)
      k     == LoadInt(vars)
      names == LoadMany(k, IF k.got = 0 THEN 0 ELSE Len(ups), LoadString) IN
  Got(names, [info |-> info.got, abs |-> abs.got, vars |-> vars.got,
              ups  |-> [i \in DOMAIN ups |->
                          IF names.got = << >> THEN ups[i] ELSE [ups[i] EXCEPT !.name = names.got[i]]]])
RECURSIVE LoadFunction(_)
LoadFunction(S) ==
  LET first  == LoadInt(S)
      last   == LoadInt(first)
      params == LoadByte(last)
      flag   == LoadByte(params)
      stack  == LoadByte(flag)
      code   == LoadCode(stack)
      k      == LoadConstants(code)
      ups    == LoadUpvalues(k)
      n      == LoadInt(ups)
      protos == LoadMany(n, n.got, LoadFunction)
      source == LoadString(protos)
      debug  == LoadDebug(source, ups.got) IN
  Got(debug, [code |-> code.got, k |-> k.got, protos |-> protos.got, ups |-> debug.got.ups,
              info |-> debug.got.info, abs |-> debug.got.abs,
              locvars |-> debug.got.vars, meant |-> << >>,
              maxstack |-> stack.got, numparams |-> params.got, vararg |-> flag.got = 1,
              linedefined |-> first.got, lastlinedefined |-> last.got, source |-> source.got])
(* The first byte was read to tell a chunk from text.                      *)
CheckHeader(S) ==
  LET r == LoadBlock(S, Len(Header) - 1) IN
  IF r.err = "" /\ r.got # Tail(Header) THEN Error(r, "bad header") ELSE r
Undump(chunk, block, fixed) ==
  LET first == CheckBuffer([in |-> chunk, at |-> 1, n |-> 0, block |-> block, offset |-> 1,
                            fixed |-> fixed, strs |-> << >>, err |-> "", got |-> 0])
      nups  == LoadByte(CheckHeader([first EXCEPT !.at = 2, !.n = @ - 1]))
      f     == LoadFunction(nups) IN
  [proto |-> f.got, err |-> f.err, sound |-> f.err = "" => Len(f.got.ups) = nups.got]

(* A program is given as text or as a chunk (dump), perhaps without its    *)
(* debug information and its last bytes (cut), to a load that accepts      *)
(* certain kinds of chunks (mode); c is what the compiler made of it.      *)
Refused == [err |-> "mode", sound |-> TRUE]
FParser(p, c) ==
  LET chunk == Dump(c.proto, p.dump = "strip") IN
  IF c.err # "" THEN c
  ELSE IF p.dump = "no" THEN IF "t" \in p.mode THEN c ELSE Refused
  ELSE IF {"b", "B"} \cap p.mode = {} THEN Refused
  ELSE [Undump(SubSeq(chunk, 1, Len(chunk) - p.cut), p.block, "B" \in p.mode)
        EXCEPT !.sound = @ /\ c.sound]
=============================================================================
