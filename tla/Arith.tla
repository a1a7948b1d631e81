------------------------------- MODULE Arith --------------------------------
(***************************************************************************)
(* Values of the language and its arithmetic (lobject.c, lvm.c), for       *)
(* integers of Bits bits.  A value is a record of a type and a number: an  *)
(* integer itself, a boolean as 0 or 1, a reference, or a string as the    *)
(* decimal digits of its characters ("" is 0).  A float is the number of   *)
(* its halves; its magnitude is not limited, as 2^1023 is not when it is   *)
(* compared with integers.  "obj" is an external object with all           *)
(* metamethods, "undef" the garbage of an unused register.                 *)
(***************************************************************************)
EXTENDS Integers, Bitwise

CONSTANT Bits   \* the width of an integer                         (bound)
ASSUME BitsAssumption == Bits \in Nat /\ Bits >= 2

Val(type, n) == [t |-> type, v |-> n]
IntVal(n) == Val("int", n)
Flt(h)  == Val("flt", h)
Bool(b) == Val("bool", IF b THEN 1 ELSE 0)
Nil     == Val("nil", 0)
Undef   == Val("undef", 0)

IsFalse(x)  == x \in {Nil, Bool(FALSE)}
IsNumber(x) == x.t \in {"int", "flt"}

MinInt == -(2 ^ (Bits - 1))
MaxInt == 2 ^ (Bits - 1) - 1
Wrap(n)     == ((n - MinInt) % 2 ^ Bits) + MinInt
Unsigned(n) == n % 2 ^ Bits

(* C division truncates, and so its remainder has the sign of m.           *)
Magnitude(n) == IF n < 0 THEN -n ELSE n
CDiv(m, n) == (IF (m < 0) = (n < 0) THEN 1 ELSE -1) * (Magnitude(m) \div Magnitude(n))
CMod(m, n) == m - n * CDiv(m, n)

(* n is neither 0 nor, for these two, checked before.                      *)
IDiv(m, n) == IF n = -1 THEN Wrap(-m)
              ELSE CDiv(m, n) - IF (m < 0) # (n < 0) /\ CMod(m, n) # 0 THEN 1 ELSE 0
Mod(m, n)  == IF n = -1 THEN 0
              ELSE LET r == CMod(m, n) IN
                   r + IF r # 0 /\ (r < 0) # (n < 0) THEN n ELSE 0

ShiftL(x, y) ==
  IF y < 0 THEN IF y <= -Bits THEN 0 ELSE Wrap(Unsigned(x) \div 2 ^ (-y))
  ELSE IF y >= Bits THEN 0 ELSE Wrap(Unsigned(x) * 2 ^ y)
(* ilyaV_shiftr negates the count, as an integer.                          *)
ShiftR(x, y) == ShiftL(x, Wrap(-y))

BitOps == {"&", "|", "~", "<<", ">>", "bnot"}

IntArith(op, m, n) ==
  CASE op = "+"  -> Wrap(m + n)
    [] op = "-"  -> Wrap(m - n)
    [] op = "*"  -> Wrap(m * n)
    [] op = "%"  -> Mod(m, n)
    [] op = "//" -> IDiv(m, n)
    [] op = "&"  -> Wrap(Unsigned(m) & Unsigned(n))
    [] op = "|"  -> Wrap(Unsigned(m) | Unsigned(n))
    [] op = "~"  -> Wrap(Unsigned(m) ^^ Unsigned(n))
    [] op = "<<" -> ShiftL(m, n)
    [] op = ">>" -> ShiftR(m, n)
    [] op = "unm"  -> Wrap(-m)
    [] op = "bnot" -> Wrap(-m - 1)

(* A float as an integer, rounded down or up; an integer stays itself.     *)
Rounded(x, up) == IF x.t = "int" THEN x.v ELSE IF up THEN -((-x.v) \div 2) ELSE x.v \div 2
FitsInt(n)   == n \in MinInt .. MaxInt
Integral(x)  == x.t = "int" \/ (x.t = "flt" /\ x.v % 2 = 0 /\ FitsInt(x.v \div 2))
Halves(x)    == IF x.t = "int" THEN 2 * x.v ELSE x.v

(* Of the operations on floats only these have results in halves.          *)
FltArith(op, h, i) == CASE op = "+" -> h + i [] op = "-" -> h - i [] op = "unm" -> -h

CanArith(op, x, y) ==
  IF op \in BitOps THEN Integral(x) /\ Integral(y)
  ELSE IsNumber(x) /\ IsNumber(y)
RawArith(op, x, y) ==
  IF op \in BitOps THEN IntVal(IntArith(op, Rounded(x, FALSE), Rounded(y, FALSE)))
  ELSE IF x.t = "int" /\ y.t = "int" THEN IntVal(IntArith(op, x.v, y.v))
  ELSE Flt(FltArith(op, Halves(x), Halves(y)))

(* The number of characters of a string.                                   *)
StrLen(n) == CHOOSE d \in 0 .. 9 : n < 10 ^ d /\ \A e \in 0 .. d - 1 : n >= 10 ^ e

(* Raw equality and order of values.                                       *)
RawEqual(x, y) ==
  IF IsNumber(x) /\ IsNumber(y) THEN Halves(x) = Halves(y) ELSE x = y
Less(op, x, y) == IF op = "<" THEN Halves(x) < Halves(y) ELSE Halves(x) <= Halves(y)
=============================================================================
