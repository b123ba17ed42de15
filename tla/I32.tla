-------------------------------- MODULE I32 --------------------------------
(***************************************************************************)
(* The integer numeric instructions of Interpreter::execute for            *)
(* UnaryNumericInstruction and BinaryNumericInstruction                    *)
(* (src/lib/interpreter/engine/engine.cpp).  Each case of the dispatch     *)
(* calls a run*Op template with a C++ type: I32Cases and I64Cases are      *)
(* those template arguments, as the cases write them.  The template bodies *)
(* (engine_num.ipp) are not under src/, so what runAddOp<T> ... runRotrOp *)
(* <T>, runWrapOp and runExtendOp do with a T follows C++ and the spec     *)
(* (section 4.4.2): the slot is read as a T, unsigned arithmetic wraps,    *)
(* / and % truncate, div/rem by zero traps with DivideByZero, the least    *)
(* signed T divided by -1 traps with ExecutionFailed, shift counts are     *)
(* taken modulo the width, and the result is written back as a T.  A       *)
(* uint32_t is n bits (32 in the code) and a uint64_t 2n.  An instruction  *)
(* is named "<type>.<name>" as in the opcodes.                             *)
(*                                                                         *)
(* The second part is the reference: what WebAssembly gives each           *)
(* instruction by its name alone, by the set of bits a number has and by  *)
(* the defining property of a truncating quotient.                         *)
(***************************************************************************)
LOCAL INSTANCE Integers
LOCAL INSTANCE Sequences
LOCAL INSTANCE FiniteSets
LOCAL INSTANCE FiniteSetsExt
LOCAL INSTANCE Bitwise

IntTypes == {"i32", "i64"}
\* The instructions of both widths with the given names.
OfBothTypes(names) == {t \o "." \o o : t \in IntTypes, o \in names}

\* i32.wrap_i64
WrapOps == {"i32.wrap_i64"}
\* i64.extend_i32_s, i64.extend_i32_u
ExtendOps == {"i64.extend_i32_s", "i64.extend_i32_u"}
UnaryOps == OfBothTypes({"eqz", "clz", "ctz", "popcnt"}) \cup WrapOps \cup ExtendOps
TestOps == OfBothTypes({"eq", "ne", "lt_s", "lt_u", "gt_s", "gt_u",
                        "le_s", "le_u", "ge_s", "ge_u"})
BinaryOps == OfBothTypes({"add", "sub", "mul", "div_s", "div_u", "rem_s", "rem_u",
                          "and", "or", "xor", "shl", "shr_s", "shr_u", "rotl", "rotr"})

\* The name of op after its type.
Name(op) == SubSeq(op, 5, Len(op))

Wrap(x, n) == x % 2^n
\* The int32_t an uint32_t stands for.
Signed(x, n) == IF x >= 2^(n - 1) THEN x - 2^n ELSE x
Bool(b) == IF b THEN 1 ELSE 0
AbsI(x) == IF x < 0 THEN -x ELSE x

\* C++ / and % on int32_t: the quotient is truncated toward zero.
TruncDiv(a, b) ==
    LET q == AbsI(a) \div AbsI(b) IN IF (a < 0) = (b < 0) THEN q ELSE -q
TruncRem(a, b) == a - b * TruncDiv(a, b)

RECURSIVE Clz(_, _), Ctz(_, _), Popcnt(_)
Clz(x, n) == IF x = 0 THEN n ELSE IF x >= 2^(n - 1) THEN 0 ELSE 1 + Clz(2 * x, n)
Ctz(x, n) == IF x = 0 THEN n ELSE IF x % 2 = 1 THEN 0 ELSE 1 + Ctz(x \div 2, n)
Popcnt(x) == IF x = 0 THEN 0 ELSE (x % 2) + Popcnt(x \div 2)

\* Mutant: the shift count is not taken modulo the bit width.
ShiftCountUnmasked(k, n) == k

\* The shift count of shl, shr and rot: Val2 % (sizeof(T) * 8).
ShiftCount(k, n) == k % n

Rotl(x, k, n) ==
    LET s == ShiftCount(k, n) IN Wrap(x * 2^s, n) + x \div 2^(n - s)

\* The C++ integer types the templates are instantiated with: sizeof(T) * 8
\* in the code, and in the model, where n is the width of a uint32_t.
CBits(t) == IF t \in {"uint64_t", "int64_t"} THEN 64 ELSE 32
TypeBits(t, n) == IF CBits(t) = 64 THEN 2 * n ELSE n
IsSignedType(t) == t \in {"int32_t", "int64_t"}

\* A ValVariant slot holding x read as a T: its low sizeof(T) * 8 bits, as
\* two's complement for a signed T.
AsType(x, t, n) ==
    LET v == x % 2^TypeBits(t, n) IN IF IsSignedType(t) THEN Signed(v, TypeBits(t, n)) ELSE v
\* The bits a T holding v is written back as.
Pattern(v, t, n) == v % 2^TypeBits(t, n)

\* The template argument of each i32 case of the unary and binary dispatch
\* (engine.cpp 262-269, 302-303, 363-382, 427-456); for wrap_i64 the source
\* type of runWrapOp<uint64_t, uint32_t>.
I32Cases ==
    [eqz |-> "uint32_t", clz |-> "uint32_t", ctz |-> "uint32_t", popcnt |-> "uint32_t",
     wrap_i64 |-> "uint64_t",
     eq |-> "uint32_t", ne |-> "uint32_t", lt_s |-> "int32_t", lt_u |-> "uint32_t",
     gt_s |-> "int32_t", gt_u |-> "uint32_t", le_s |-> "int32_t", le_u |-> "uint32_t",
     ge_s |-> "int32_t", ge_u |-> "uint32_t",
     add |-> "uint32_t", sub |-> "uint32_t", mul |-> "uint32_t", div_s |-> "int32_t",
     div_u |-> "uint32_t", rem_s |-> "int32_t", rem_u |-> "uint32_t", and |-> "uint32_t",
     or |-> "uint32_t", xor |-> "uint32_t", shl |-> "uint32_t", shr_s |-> "int32_t",
     shr_u |-> "uint32_t", rotl |-> "uint32_t", rotr |-> "uint32_t"]
\* The i64 cases (engine.cpp 264-277, 312-315, 383-402, 457-486); for the
\* extends the source type of runExtendOp<int32_t | uint32_t, uint64_t>.
I64Cases ==
    [eqz |-> "uint64_t", clz |-> "uint64_t", ctz |-> "uint64_t", popcnt |-> "uint64_t",
     extend_i32_s |-> "int32_t", extend_i32_u |-> "uint32_t",
     eq |-> "uint64_t", ne |-> "uint64_t", lt_s |-> "int64_t", lt_u |-> "uint64_t",
     gt_s |-> "int64_t", gt_u |-> "uint64_t", le_s |-> "int64_t", le_u |-> "uint64_t",
     ge_s |-> "int64_t", ge_u |-> "uint64_t",
     add |-> "uint64_t", sub |-> "uint64_t", mul |-> "uint64_t", div_s |-> "int64_t",
     div_u |-> "uint64_t", rem_s |-> "int64_t", rem_u |-> "uint64_t", and |-> "uint64_t",
     or |-> "uint64_t", xor |-> "uint64_t", shl |-> "uint64_t", shr_s |-> "int64_t",
     shr_u |-> "uint64_t", rotl |-> "uint64_t", rotr |-> "uint64_t"]
\* The target type of the conversions.
ConvTo == [wrap_i64 |-> "uint32_t", extend_i32_s |-> "uint64_t", extend_i32_u |-> "uint64_t"]

\* Mutant: i32.div_s dispatched to runDivOp<uint32_t>.
TemplateArgDivUnsigned(op) ==
    IF op = "i32.div_s" THEN "uint32_t"
    ELSE IF SubSeq(op, 1, 3) = "i64" THEN I64Cases[Name(op)] ELSE I32Cases[Name(op)]

\* The template argument the case of op instantiates.
TemplateArg(op) == IF SubSeq(op, 1, 3) = "i64" THEN I64Cases[Name(op)] ELSE I32Cases[Name(op)]
ResultType(op) == IF Name(op) \in DOMAIN ConvTo THEN ConvTo[Name(op)] ELSE TemplateArg(op)
\* The run*Op template a case calls: its name without the _s or _u that the
\* template argument stands for.
Fn(op) ==
    LET o == Name(op) IN
    IF Len(o) > 2 /\ SubSeq(o, Len(o) - 1, Len(o)) \in {"_s", "_u"}
    THEN SubSeq(o, 1, Len(o) - 2) ELSE o

\* runEqzOp, runClzOp, runCtzOp, runPopcntOp on the slot read as T, and
\* runWrapOp / runExtendOp: the source read as From, converted to To.
UnaryI32(op, x, n) ==
    LET t == TemplateArg(op)  a == AsType(x, t, n)  u == Pattern(a, t, n) IN
    CASE Fn(op) = "eqz" -> Bool(a = 0)
      [] Fn(op) = "clz" -> Clz(u, TypeBits(t, n))
      [] Fn(op) = "ctz" -> Ctz(u, TypeBits(t, n))
      [] Fn(op) = "popcnt" -> Popcnt(u)
      [] Fn(op) \in {"wrap_i64", "extend_i32"} -> Pattern(a, ResultType(op), n)

\* runEqOp ... runGeOp on Val1 and Val2 read as T.
TestI32(op, x, y, n) ==
    LET t == TemplateArg(op)  a == AsType(x, t, n)  b == AsType(y, t, n)  f == Fn(op) IN
    Bool(CASE f = "eq" -> a = b  [] f = "ne" -> a # b
           [] f = "lt" -> a < b  [] f = "gt" -> a > b
           [] f = "le" -> a <= b [] f = "ge" -> a >= b)

\* The error runDivOp / runRemOp trap with, or "none": a zero divisor, and
\* the quotient of the least T by -1, which does not fit a T.
BinaryTrap(op, x, y, n) ==
    LET t == TemplateArg(op)  a == AsType(x, t, n)  b == AsType(y, t, n) IN
    CASE Fn(op) \in {"div", "rem"} /\ b = 0 -> "DivideByZero"
      [] Fn(op) = "div" /\ a = -(2^(TypeBits(t, n) - 1)) /\ b = -1 -> "ExecutionFailed"
      [] OTHER -> "none"

\* runAddOp ... runRotrOp on Val1 and Val2 read as T, on operands that do
\* not trap; the result is written back as a T.  runShrOp on a signed T
\* shifts the sign in: TLA+'s \div rounds down.
BinaryI32(op, x, y, n) ==
    LET t == TemplateArg(op)  w == TypeBits(t, n)
        a == AsType(x, t, n)  b == AsType(y, t, n)
        u == Pattern(a, t, n)  v == Pattern(b, t, n)
        s == ShiftCount(v, w)  f == Fn(op)
        R(r) == Pattern(r, t, n)
    IN
    CASE f = "add" -> R(a + b)
      [] f = "sub" -> R(a - b)
      [] f = "mul" -> R(a * b)
      [] f = "div" -> R(TruncDiv(a, b))
      [] f = "rem" -> R(TruncRem(a, b))
      [] f = "and" -> u & v
      [] f = "or" -> u | v
      [] f = "xor" -> u ^^ v
      [] f = "shl" -> R(a * 2^s)
      [] f = "shr" -> R(a \div 2^s)
      [] f = "rotl" -> Rotl(u, s, w)
      [] f = "rotr" -> Rotl(u, w - s, w)

-----------------------------------------------------------------------------
(* Reference definitions.                                                  *)

\* The positions of the 1 bits of x, and the number with bits S.
BitsOf(x, n) == {i \in 0..(n - 1) : (x \div 2^i) % 2 = 1}
FromBits(S) == MapThenSumSet(LAMBDA i : 2^i, S)

\* The width WebAssembly gives the result and the operand of op by its name.
Width(op, n) == IF SubSeq(op, 1, 3) = "i64" THEN 2 * n ELSE n
ArgWidth(op, n) ==
    CASE op \in WrapOps -> 2 * n
      [] op \in ExtendOps -> n
      [] OTHER -> Width(op, n)

Sign(x) == IF x > 0 THEN 1 ELSE IF x < 0 THEN -1 ELSE 0

\* The instruction op applied to args, as [ok, v] or [ok, err]; n is the
\* width of an i32.
RefI32(op, args, n) ==
    LET o == Name(op)
        w == Width(op, n)
        a == args[1]
        b == IF op \in UnaryOps THEN 0 ELSE args[2]
        A == BitsOf(a, ArgWidth(op, n))
        B == BitsOf(b, w)
        sa == Signed(a, w)
        sb == Signed(b, w)
        s == b % w
        Val(v) == [ok |-> TRUE, v |-> v]
        Err(e) == [ok |-> FALSE, err |-> e]
        \* the quotient rounded toward zero and the remainder that goes with it
        Quot(x, y) == CHOOSE q \in -(2^w)..(2^w) :
                        /\ AbsI(q) * AbsI(y) <= AbsI(x)
                        /\ AbsI(x) < (AbsI(q) + 1) * AbsI(y)
                        /\ Sign(q) \in {0, Sign(x) * Sign(y)}
        Rem(x, y) == CHOOSE r \in -(2^w)..(2^w) :
                       /\ AbsI(r) < AbsI(y)
                       /\ Sign(r) \in {0, Sign(x)}
                       /\ (x - r) % AbsI(y) = 0
        Fits(x) == -(2^(w - 1)) <= x /\ x < 2^(w - 1)
    IN
    CASE o \in {"div_s", "div_u", "rem_s", "rem_u"} /\ b = 0 -> Err("DivideByZero")
      [] o = "div_s" /\ ~Fits(Quot(sa, sb)) -> Err("ExecutionFailed")
      [] o = "eqz" -> Val(IF A = {} THEN 1 ELSE 0)
      [] o = "clz" -> Val(CHOOSE c \in 0..w : (\A i \in A : i < w - c) /\ (c = w \/ w - 1 - c \in A))
      [] o = "ctz" -> Val(CHOOSE c \in 0..w : (\A i \in A : i >= c) /\ (c = w \/ c \in A))
      [] o = "popcnt" -> Val(Cardinality(A))
      [] o = "wrap_i64" -> Val(FromBits(A \cap 0..(n - 1)))
      [] o = "extend_i32_s" -> Val(FromBits(A \cup (IF n - 1 \in A THEN n..(2 * n - 1) ELSE {})))
      [] o = "extend_i32_u" -> Val(FromBits(A))
      [] op \in TestOps ->
           Val(IF \/ o = "eq" /\ A = B
                  \/ o = "ne" /\ A # B
                  \/ o \in {"lt_s", "le_s"} /\ sa < sb
                  \/ o \in {"gt_s", "ge_s"} /\ sa > sb
                  \/ o \in {"lt_u", "le_u"} /\ a < b
                  \/ o \in {"gt_u", "ge_u"} /\ a > b
                  \/ o \in {"le_s", "le_u", "ge_s", "ge_u"} /\ a = b
               THEN 1 ELSE 0)
      [] o = "add" -> Val((sa + sb + 2^w) % 2^w)
      [] o = "sub" -> Val((sa - sb + 2^w) % 2^w)
      [] o = "mul" -> Val((sa * sb) % 2^w)
      [] o = "div_s" -> Val((Quot(sa, sb) + 2^w) % 2^w)
      [] o = "div_u" -> Val(Quot(a, b))
      [] o = "rem_s" -> Val((Rem(sa, sb) + 2^w) % 2^w)
      [] o = "rem_u" -> Val(Rem(a, b))
      [] o = "and" -> Val(FromBits(A \cap B))
      [] o = "or" -> Val(FromBits(A \cup B))
      [] o = "xor" -> Val(FromBits(SymDiff(A, B)))
      [] o = "shl" -> Val(FromBits({i \in 0..(w - 1) : i >= s /\ i - s \in A}))
      [] o = "shr_u" -> Val(FromBits({i \in 0..(w - 1) : i + s \in A}))
      [] o = "shr_s" ->
           Val(FromBits({i \in 0..(w - 1) : IF i + s < w THEN i + s \in A ELSE w - 1 \in A}))
      [] o = "rotl" -> Val(FromBits({i \in 0..(w - 1) : (i - s + w) % w \in A}))
      [] o = "rotr" -> Val(FromBits({i \in 0..(w - 1) : (i + s) % w \in A}))

=============================================================================
