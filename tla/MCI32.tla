------------------------------- MODULE MCI32 -------------------------------
(***************************************************************************)
(* Every integer numeric instruction, i32 ones on every pair of 3-bit      *)
(* operands and i64 ones (6 bits) on pairs of the boundary values of       *)
(* I64Samples: one function per instruction, f(x) == local.get 0; op for   *)
(* the unary ones and f(x, y) == local.get 0; local.get 1; op for the      *)
(* others.  With 3 bits, INT_MIN is 4 and -1 is 7, and every shift count   *)
(* from 0 to 7 is at least once past the bit width.                        *)
(***************************************************************************)
EXTENDS Interpreter

NumOps == UnaryOps \cup TestOps \cup BinaryOps

Arity(op) == IF op \in UnaryOps THEN 1 ELSE 2

OpFunc(op) ==
    [host |-> FALSE, mod |-> 0, params |-> Arity(op), results |-> 1, locals |-> 0,
     body |-> IF Arity(op) = 1 THEN << [op |-> "local.get", i |-> 0], [op |-> op] >>
              ELSE << [op |-> "local.get", i |-> 0], [op |-> "local.get", i |-> 1],
                      [op |-> op] >>,
     cost |-> 0]

\* Function addresses are the instructions' names.
MCFuncs == [op \in NumOps |-> OpFunc(op)]

MCTable == <<>>

MCCostTab == [o \in NumOps \cup {"local.get", "i32.const"} |-> 1]

\* The operands of 6-bit i64 instructions: 0, 1, INT_MIN (32), -1 (63) and
\* their neighbours, and shift counts below, at and past 6 and 2 * 6.
I64Samples == {0, 1, 5, 6, 7, 12, 31, 32, 33, 62, 63}

Operands(op) ==
    IF ArgWidth(op, ValueBits) = ValueBits THEN 0..(2^ValueBits - 1) ELSE I64Samples

MCInvocations ==
    UNION {{[f |-> op, args |-> a] : a \in [1..Arity(op) -> Operands(op)]} : op \in NumOps}

MCInitExprs == { << [op |-> "i32.const", v |-> 0] >> }

=============================================================================
