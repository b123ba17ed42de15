-------------------------- MODULE InstrProvider --------------------------
(***************************************************************************)
(* The instruction provider InstrPdr of the interpreter: a stack of       *)
(* scopes, each an instruction sequence with a read position and a type   *)
(* Expression, Block or FunctionCall.  Its source is not under src/; the  *)
(* operators are modelled from spec.md section 4.4.                        *)
(***************************************************************************)
LOCAL INSTANCE Naturals
LOCAL INSTANCE Sequences

SeqTypes == {"Expression", "Block", "FunctionCall"}

\* pushInstrs(Type, Instrs); a FunctionCall scope carries no instructions.
PushInstrs(sc, type, instrs) ==
    Append(sc, [type |-> type, instrs |-> instrs, pc |-> 1])

\* popInstrs().
PopInstrs(sc) == SubSeq(sc, 1, Len(sc) - 1)
PopInstrsN(sc, n) == SubSeq(sc, 1, Len(sc) - n)

TopScope(sc) == sc[Len(sc)]

\* getNextInstr() returns nullptr exactly when the top scope is exhausted.
HasNextInstr(sc) == TopScope(sc).pc <= Len(TopScope(sc).instrs)
NextInstr(sc) == TopScope(sc).instrs[TopScope(sc).pc]
\* The scopes after getNextInstr() has advanced the read position.
Advance(sc) == [sc EXCEPT ![Len(sc)].pc = @ + 1]

=============================================================================
