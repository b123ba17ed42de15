---------------------------- MODULE Interpreter ----------------------------
(***************************************************************************)
(* The interpreter's run loop, Interpreter::execute in                     *)
(* src/lib/interpreter/engine/engine.cpp, with the control instructions,   *)
(* function entry and exit, branching, and metering by a Measure (the VM   *)
(* facade always gives the interpreter one).  One invocation is modelled:  *)
(* runFunction (or runExpression) starts from an empty stack, and the run  *)
(* loop then takes one instruction, or one scope exit, per step.           *)
(*                                                                         *)
(* Memory instructions act on memory 0 of the module, a Memory record.    *)
(*                                                                         *)
(* Values are i32 numbers of ValueBits bits; the program is a constant:    *)
(* Funcs maps a function address to its instance, Table is table 0 of the  *)
(* module, an instruction is a record whose op is its opcode.              *)
(***************************************************************************)
EXTENDS Naturals, Sequences, TLC, StackManager, InstrProvider, Memory, I32

CONSTANTS
    Funcs,        \* address -> [host, mod, params, results, locals, body, cost]
    Table,        \* table 0: sequence of function addresses, 0 = empty slot
    ValueBits,    \* width of an i32 in the model
    CostTab,      \* opcode -> cost (the Measure's cost table)
    CostLimits,   \* cost limits the caller may set before the invocation
    HostStatuses, \* ErrCodes a host function's run may return
    HostRet,      \* the value a successful host function pushes
    Invocations,  \* set of [f |-> address, args |-> sequence of values]
    InitExprs,    \* instruction sequences run by runExpression
    PageBytes,    \* bytes of a page (65536 in the code)
    MinPage,      \* memory 0's initial pages
    MaxPage       \* memory 0's maximum pages

\* A ValVariant slot holds an i32 or an i64.
Vals == 0..(2^(2 * ValueBits) - 1)

ASSUME /\ ValueBits \in Nat \ {0}
       /\ "Success" \in HostStatuses
       /\ HostRet \in Vals
       /\ \A inv \in Invocations : /\ inv.f \in DOMAIN Funcs
                                   /\ Len(inv.args) = Funcs[inv.f].params

VARIABLES
    stack,     \* StackMgr
    scopes,    \* InstrPdr
    costSum,   \* Measure: CostSum
    instrCnt,  \* Measure: InstrCnt
    costLimit, \* Measure: CostLimit
    status,    \* "idle", "running", or the ErrCode the run loop stopped with
    result,    \* what runFunction / runExpression returned ("none" before)
    invoked,   \* what was invoked: [kind, results]
    memory,    \* memory 0: [pages, max, data]
    stored,    \* the last store: [op, ea, v, before], or NoStore
    lastLoad,  \* the last load: [op, ea, data, v], or NoLoad
    lastArith  \* the last numeric instruction: [op, args, r], or NoArith

vars == <<stack, scopes, costSum, instrCnt, costLimit, status, result, invoked,
          memory, stored, lastLoad, lastArith>>

NoStore == [op |-> "none", ea |-> 0, v |-> 0, before |-> <<>>]
NoLoad == [op |-> "none", ea |-> 0, data |-> <<>>, v |-> 0]
NoArith == [op |-> "none", args |-> <<>>, r |-> [ok |-> TRUE, v |-> 0]]

ErrCodes == {"Success", "Unreachable", "ExecutionFailed", "CostLimitExceeded",
             "WrongInstanceAddress", "TypeNotMatch", "DivideByZero",
             "Revert", "Terminated", "AccessForbidMemory"} \cup HostStatuses

-----------------------------------------------------------------------------
(* Function entry and exit, blocks and branches.                           *)

\* enterBlock(Arity, Instr, Seq): push the label, then the Block scope.
EnterBlock(arity, cont, body, s, sc) ==
    /\ stack' = PushLabel(s, arity, cont)
    /\ scopes' = PushInstrs(sc, "Block", body)

\* runLoopOp: a loop's label has arity 0 and the loop as its target.
RunLoopOp(ins, s, sc) == EnterBlock(0, <<ins>>, ins.body, s, sc)

\* enterFunction(Func) from stack s and scopes sc, with cost0 already
\* charged.  A host function is charged its cost, then run: it pops its
\* arguments and, on success, pushes its results.  A native function gets a
\* frame, its declared locals, a FunctionCall scope and its body's block.
EnterFunction(fa, s, sc, cost0) ==
    LET F == Funcs[fa] IN
    IF F.host
    THEN \/ /\ cost0 + F.cost > costLimit
            /\ costSum' = cost0
            /\ status' = "CostLimitExceeded"
            /\ stack' = s
            /\ scopes' = sc
         \/ /\ cost0 + F.cost <= costLimit
            /\ costSum' = cost0 + F.cost
            /\ scopes' = sc
            /\ \E st \in HostStatuses :
                 /\ stack' = IF st = "Success"
                             THEN PopN(s, F.params) \o [i \in 1..F.results |-> Val(HostRet)]
                             ELSE PopN(s, F.params)
                 /\ status' = IF st = "Success" THEN "running" ELSE st
    ELSE LET framed == PushFrame(s, F.mod, F.params, F.results)
                       \o [i \in 1..F.locals |-> Val(0)]
         IN /\ EnterBlock(F.results, <<>>, F.body, framed,
                          PushInstrs(sc, "FunctionCall", <<>>))
            /\ costSum' = cost0
            /\ status' = "running"

\* leaveFunction: popFrame, then one scope per label it unwound plus the
\* FunctionCall scope.
LeaveFunction(s, sc) ==
    /\ stack' = PopFrame(s)
    /\ scopes' = PopInstrsN(sc, LabelsInFrame(s) + 1)

\* Mutation: pop one scope fewer than the labels popped.
BranchToLabelKeepScope(cnt, s, sc) ==
    LET L == s[LabelPos(s, cnt)]
    IN IF L.cont = <<>>
       THEN stack' = PopLabel(s, cnt + 1) /\ scopes' = PopInstrsN(sc, cnt)
       ELSE RunLoopOp(L.cont[1], PopLabel(s, cnt + 1), PopInstrsN(sc, cnt))

\* branchToLabel(Cnt).
BranchToLabel(cnt, s, sc) ==
    LET L == s[LabelPos(s, cnt)]
        s1 == PopLabel(s, cnt + 1)
        sc1 == PopInstrsN(sc, cnt + 1)
    IN IF L.cont = <<>>
       THEN stack' = s1 /\ scopes' = sc1
       ELSE RunLoopOp(L.cont[1], s1, sc1)

-----------------------------------------------------------------------------
(* One iteration of the run loop that fetches an instruction.              *)

Ins == NextInstr(scopes)
Fetched == Advance(scopes)

\* Mutation: no Measure, so nothing is counted or charged.
NoMeasure(op) == UNCHANGED <<instrCnt, costSum>>

\* Mutation: the instruction is charged but not counted.
AddInstrCostUncounted(op) ==
    /\ UNCHANGED instrCnt
    /\ costSum' = costSum + CostTab[op]

\* Measure->incInstrCnt() and Measure->addInstrCost(Code).
AddInstrCost(op) ==
    /\ instrCnt' = instrCnt + 1
    /\ costSum' = costSum + CostTab[op]

\* Mutation: the instruction's cost is charged without checking the limit.
FetchNoLimit(op) ==
    /\ status = "running"
    /\ scopes # <<>>
    /\ HasNextInstr(scopes)
    /\ Ins.op = op

\* getNextInstr() returned an instruction with opcode op and its cost fits.
Fetch(op) ==
    /\ status = "running"
    /\ scopes # <<>>
    /\ HasNextInstr(scopes)
    /\ Ins.op = op
    /\ costSum + CostTab[op] <= costLimit

\* addInstrCost fails: the run loop returns CostLimitExceeded.
MeterFail ==
    /\ status = "running"
    /\ scopes # <<>>
    /\ HasNextInstr(scopes)
    /\ costSum + CostTab[Ins.op] > costLimit
    /\ instrCnt' = instrCnt + 1
    /\ status' = "CostLimitExceeded"
    /\ scopes' = Fetched
    /\ UNCHANGED <<stack, costSum>>

\* An instruction that only changes the operand stack.
Straight(op, s) ==
    /\ Fetch(op)
    /\ AddInstrCost(op)
    /\ stack' = s
    /\ scopes' = Fetched
    /\ UNCHANGED status

\* An instruction that traps with error code err.
Trap(op, err) ==
    /\ AddInstrCost(op)
    /\ status' = err
    /\ scopes' = Fetched
    /\ UNCHANGED stack

RunUnreachable == Fetch("unreachable") /\ Trap("unreachable", "Unreachable")

RunNop == Straight("nop", stack)

\* return: pop the frame and every label above it, with their scopes.
RunReturnOp ==
    /\ Fetch("return")
    /\ AddInstrCost("return")
    /\ LeaveFunction(stack, Fetched)
    /\ UNCHANGED status

RunBlockOp ==
    /\ Fetch("block")
    /\ AddInstrCost("block")
    /\ EnterBlock(Ins.arity, <<>>, Ins.body, stack, Fetched)
    /\ UNCHANGED status

RunLoop ==
    /\ Fetch("loop")
    /\ AddInstrCost("loop")
    /\ RunLoopOp(Ins, stack, Fetched)
    /\ UNCHANGED status

\* if: pop the i32 condition and enter the then- or the else-arm.
RunIfElseOp ==
    /\ Fetch("if")
    /\ AddInstrCost("if")
    /\ EnterBlock(Ins.arity, <<>>, IF Top(stack) # 0 THEN Ins.then ELSE Ins.else,
                  Pop(stack), Fetched)
    /\ UNCHANGED status

RunBrOp ==
    /\ Fetch("br")
    /\ AddInstrCost("br")
    /\ BranchToLabel(Ins.n, stack, Fetched)
    /\ UNCHANGED status

RunBrIfOp ==
    /\ Fetch("br_if")
    /\ AddInstrCost("br_if")
    /\ \/ Top(stack) # 0 /\ BranchToLabel(Ins.n, Pop(stack), Fetched)
       \/ Top(stack) = 0 /\ stack' = Pop(stack) /\ scopes' = Fetched
    /\ UNCHANGED status

\* br_table: label v[i] if i < len(v), else the default.
RunBrTableOp ==
    /\ Fetch("br_table")
    /\ AddInstrCost("br_table")
    /\ LET i == Top(stack)
       IN BranchToLabel(IF i < Len(Ins.labels) THEN Ins.labels[i + 1] ELSE Ins.default,
                        Pop(stack), Fetched)
    /\ UNCHANGED status

RunCallOp ==
    /\ Fetch("call")
    /\ instrCnt' = instrCnt + 1
    /\ EnterFunction(Ins.f, stack, Fetched, costSum + CostTab["call"])

\* call_indirect: pop the table index and check the slot and its type.
RunCallIndirectOp ==
    /\ Fetch("call_indirect")
    /\ LET i == Top(stack)
           fa == IF i < Len(Table) THEN Table[i + 1] ELSE 0
       IN \/ /\ fa = 0
             /\ Trap("call_indirect", "WrongInstanceAddress")
          \/ /\ fa # 0
             /\ <<Funcs[fa].params, Funcs[fa].results>> # <<Ins.params, Ins.results>>
             /\ Trap("call_indirect", "TypeNotMatch")
          \/ /\ fa # 0
             /\ <<Funcs[fa].params, Funcs[fa].results>> = <<Ins.params, Ins.results>>
             /\ instrCnt' = instrCnt + 1
             /\ EnterFunction(fa, Pop(stack), Fetched, costSum + CostTab["call_indirect"])

RunDrop == Straight("drop", Pop(stack))

\* select: push Val2 if the condition is 0, else Val1.
RunSelect ==
    LET s == stack IN
    Straight("select", Push(PopN(s, 3), IF Top(s) = 0 THEN s[Len(s) - 1].v
                                                      ELSE s[Len(s) - 2].v))

RunLocalGetOp == Straight("local.get", Push(stack, stack[LocalPos(stack, Ins.i)].v))

RunLocalSetOp ==
    Straight("local.set", [Pop(stack) EXCEPT ![LocalPos(stack, Ins.i)] = Val(Top(stack))])

RunLocalTeeOp ==
    Straight("local.tee", [stack EXCEPT ![LocalPos(stack, Ins.i)] = Val(Top(stack))])

\* i32.const and i64.const push the instruction's value.
ConstOps == {"i32.const", "i64.const"}
RunConst(op) == Straight(op, Push(stack, Ins.v))

\* Unary numeric instructions work on the top of the stack in place.
RunUnaryOp(op) ==
    LET v == UnaryI32(op, Top(stack), ValueBits) IN
    /\ Straight(op, Push(Pop(stack), v))
    /\ lastArith' = [op |-> op, args |-> <<Top(stack)>>, r |-> [ok |-> TRUE, v |-> v]]

\* Binary numeric instructions: Val2 is popped, Val1 is the new top.
BinArgs == <<stack[Len(stack) - 1].v, Top(stack)>>

\* The comparisons push 1 or 0.
RunTestOp(op) ==
    LET v == TestI32(op, BinArgs[1], BinArgs[2], ValueBits) IN
    /\ Straight(op, Push(PopN(stack, 2), v))
    /\ lastArith' = [op |-> op, args |-> BinArgs, r |-> [ok |-> TRUE, v |-> v]]

\* The arithmetic, bitwise, shift and rotate instructions; div and rem trap.
RunBinaryOp(op) ==
    /\ Fetch(op)
    /\ LET e == BinaryTrap(op, BinArgs[1], BinArgs[2], ValueBits)
           v == BinaryI32(op, BinArgs[1], BinArgs[2], ValueBits)
       IN \/ /\ e # "none"
             /\ Trap(op, e)
             /\ lastArith' = [op |-> op, args |-> BinArgs, r |-> [ok |-> FALSE, err |-> e]]
          \/ /\ e = "none"
             /\ Straight(op, Push(PopN(stack, 2), v))
             /\ lastArith' = [op |-> op, args |-> BinArgs, r |-> [ok |-> TRUE, v |-> v]]

-----------------------------------------------------------------------------
(* Memory instructions on memory 0: the effective address is the popped    *)
(* i32 base plus the instruction's static offset.                          *)

\* The bytes of an access of BitWidth bits; a byte is one bit, an i32 is
\* ValueBits bytes and an i64 twice that.
AccessBytes(bits) ==
    CASE bits = 8 -> 1 [] bits = 16 -> 2 [] bits = 32 -> ValueBits [] bits = 64 -> 2 * ValueBits

\* The template argument and BitWidth of each integer load case, as the
\* case writes them: <<T>> where it passes no BitWidth.
LoadCasesI32 ==
    ("i32.load" :> <<"uint32_t">>) @@
    ("i32.load8_s" :> <<"int32_t", 8>>) @@ ("i32.load8_u" :> <<"uint32_t", 8>>) @@
    ("i32.load16_s" :> <<"int32_t", 16>>) @@ ("i32.load16_u" :> <<"uint32_t", 16>>)
LoadCasesI64 ==
    ("i64.load" :> <<"uint64_t">>) @@
    ("i64.load8_s" :> <<"int64_t", 8>>) @@ ("i64.load8_u" :> <<"uint64_t", 8>>) @@
    ("i64.load16_s" :> <<"int64_t", 16>>) @@ ("i64.load16_u" :> <<"uint64_t", 16>>) @@
    ("i64.load32_s" :> <<"int64_t", 32>>) @@ ("i64.load32_u" :> <<"uint64_t", 32>>)

\* Mutant: i32.load8_s dispatched to runLoadOp<uint32_t>.
LoadCaseLoad8Unsigned == ("i32.load8_s" :> <<"uint32_t", 8>>) @@ LoadCasesI32 @@ LoadCasesI64

LoadCase == LoadCasesI32 @@ LoadCasesI64

\* The integer store cases.
StoreCasesI32 ==
    ("i32.store" :> <<"uint32_t">>) @@
    ("i32.store8" :> <<"uint32_t", 8>>) @@ ("i32.store16" :> <<"uint32_t", 16>>)
StoreCasesI64 ==
    ("i64.store" :> <<"uint64_t">>) @@ ("i64.store8" :> <<"uint64_t", 8>>) @@
    ("i64.store16" :> <<"uint64_t", 16>>) @@ ("i64.store32" :> <<"uint64_t", 32>>)

\* Mutant: i64.store16 dispatched with BitWidth 32.
StoreCaseStore16Wide == ("i64.store16" :> <<"uint64_t", 32>>) @@ StoreCasesI32 @@ StoreCasesI64

StoreCase == StoreCasesI32 @@ StoreCasesI64

\* The BitWidth of a case: sizeof(T) * 8 when it passes none.
CaseBits(c) == IF Len(c) = 2 THEN c[2] ELSE CBits(c[1])

\* runLoadOp<T>(MemInst, Instr, BitWidth): BitWidth / 8 bytes, widened to a
\* T: sign-extended for a signed T.
RunLoadOp(op) ==
    /\ Fetch(op)
    /\ LET t == LoadCase[op][1]
           w == AccessBytes(CaseBits(LoadCase[op]))
           ea == Top(stack) + Ins.offset
           raw == Decode(LoadBytes(memory, ea, w))
           r == IF IsSignedType(t) THEN SignExtend(raw, w, TypeBits(t, ValueBits)) ELSE raw
       IN \/ /\ ~InBounds(memory, ea, w)
             /\ Trap(op, "AccessForbidMemory")
             /\ UNCHANGED lastLoad
          \/ /\ InBounds(memory, ea, w)
             /\ Straight(op, Push(Pop(stack), r))
             /\ lastLoad' = [op |-> op, ea |-> ea, data |-> memory.data, v |-> r]
    /\ UNCHANGED <<memory, stored>>

\* runStoreOp<T>(MemInst, Instr, BitWidth): pop the value, read as a T, then
\* the base; write the BitWidth / 8 low bytes.
RunStoreOp(op) ==
    /\ Fetch(op)
    /\ LET t == StoreCase[op][1]
           w == AccessBytes(CaseBits(StoreCase[op]))
           ea == stack[Len(stack) - 1].v + Ins.offset
           v == Pattern(AsType(Top(stack), t, ValueBits), t, ValueBits)
       IN \/ /\ ~InBounds(memory, ea, w)
             /\ Trap(op, "AccessForbidMemory")
             /\ UNCHANGED <<memory, stored>>
          \/ /\ InBounds(memory, ea, w)
             /\ Straight(op, PopN(stack, 2))
             /\ memory' = StoreBytes(memory, ea, Encode(v, w))
             /\ stored' = [op |-> op, ea |-> ea, v |-> Top(stack), before |-> memory.data]
    /\ UNCHANGED lastLoad

\* memory.grow: push the old page count, or -1 when the memory cannot grow.
RunMemoryGrowOp ==
    /\ Fetch("memory.grow")
    /\ LET n == Top(stack) IN
       \/ /\ CanGrow(memory, n)
          /\ Straight("memory.grow", Push(Pop(stack), memory.pages))
          /\ memory' = GrowPage(memory, n, PageBytes)
       \/ /\ ~CanGrow(memory, n)
          /\ Straight("memory.grow", Push(Pop(stack), 2^ValueBits - 1))
          /\ UNCHANGED memory
    /\ UNCHANGED <<stored, lastLoad>>

RunMemorySizeOp ==
    /\ Straight("memory.size", Push(stack, memory.pages))
    /\ UNCHANGED <<memory, stored, lastLoad>>

-----------------------------------------------------------------------------
(* The iterations of the run loop that find the top scope exhausted.       *)

Exhausted(type) ==
    /\ status = "running"
    /\ scopes # <<>>
    /\ ~HasNextInstr(scopes)
    /\ TopScope(scopes).type = type
    /\ UNCHANGED <<costSum, instrCnt, status>>

LeaveFunctionScope == Exhausted("FunctionCall") /\ LeaveFunction(stack, scopes)

\* leaveBlock: popLabel(1), then popInstrs.
LeaveBlock ==
    /\ Exhausted("Block")
    /\ stack' = PopLabel(stack, 1)
    /\ scopes' = PopInstrs(scopes)

LeaveExpression ==
    /\ Exhausted("Expression")
    /\ scopes' = PopInstrs(scopes)
    /\ UNCHANGED stack

\* No scope is left: the run loop returns success.
RunOut ==
    /\ status = "running"
    /\ scopes = <<>>
    /\ status' = "Success"
    /\ UNCHANGED <<stack, scopes, costSum, instrCnt>>

-----------------------------------------------------------------------------
(* The entry points.                                                       *)

\* runFunction: the arguments are on the stack, the function is entered and
\* an error of enterFunction is returned as it is.
RunFunction ==
    /\ status = "idle"
    /\ \E inv \in Invocations :
         /\ EnterFunction(inv.f, [i \in 1..Len(inv.args) |-> Val(inv.args[i])], <<>>, 0)
         /\ invoked' = [kind |-> "function", results |-> Funcs[inv.f].results]
    /\ result' = IF status' = "running" THEN "none" ELSE status'
    /\ UNCHANGED <<instrCnt, costLimit, memory, stored, lastLoad, lastArith>>

\* runExpression: an Expression scope on an empty stack.
RunExpression ==
    /\ status = "idle"
    /\ \E e \in InitExprs : scopes' = PushInstrs(<<>>, "Expression", e)
    /\ status' = "running"
    /\ invoked' = [kind |-> "expression", results |-> 1]
    /\ UNCHANGED <<stack, costSum, instrCnt, costLimit, result, memory, stored,
                   lastLoad, lastArith>>

\* What runFunction returns once the run loop stopped with st: Terminated
\* counts as success; runExpression returns st unchanged.
Returned(st) ==
    IF st = "running" THEN "none"
    ELSE IF st = "Terminated" /\ invoked.kind = "function" THEN "Success"
    ELSE st

\* One iteration of the run loop, with what runFunction returns if it ends;
\* MemStep for a memory instruction, NumStep for a numeric one, Step for any
\* other.
Iteration(A) ==
    /\ A
    /\ result' = Returned(status')
    /\ UNCHANGED <<costLimit, invoked>>
MemStep(A) == Iteration(A) /\ UNCHANGED lastArith
NumStep(A) == Iteration(A) /\ UNCHANGED <<memory, stored, lastLoad>>
Step(A) == Iteration(A) /\ UNCHANGED <<memory, stored, lastLoad, lastArith>>

Execute ==
    \/ Step(MeterFail)
    \/ Step(RunUnreachable) \/ Step(RunNop) \/ Step(RunReturnOp)
    \/ Step(RunBlockOp) \/ Step(RunLoop) \/ Step(RunIfElseOp)
    \/ Step(RunBrOp) \/ Step(RunBrIfOp) \/ Step(RunBrTableOp)
    \/ Step(RunCallOp) \/ Step(RunCallIndirectOp)
    \/ Step(RunDrop) \/ Step(RunSelect)
    \/ Step(RunLocalGetOp) \/ Step(RunLocalSetOp) \/ Step(RunLocalTeeOp)
    \/ \E op \in ConstOps : Step(RunConst(op))
    \/ \E op \in UnaryOps : NumStep(RunUnaryOp(op))
    \/ \E op \in TestOps : NumStep(RunTestOp(op))
    \/ \E op \in BinaryOps : NumStep(RunBinaryOp(op))
    \/ \E op \in DOMAIN LoadCase : MemStep(RunLoadOp(op))
    \/ \E op \in DOMAIN StoreCase : MemStep(RunStoreOp(op))
    \/ MemStep(RunMemoryGrowOp) \/ MemStep(RunMemorySizeOp)
    \/ Step(LeaveFunctionScope) \/ Step(LeaveBlock) \/ Step(LeaveExpression)
    \/ Step(RunOut)

\* The invocation has returned; nothing more happens.
Done == status \notin {"idle", "running"} /\ UNCHANGED vars

Init ==
    /\ stack = <<>>
    /\ scopes = <<>>
    /\ costSum = 0
    /\ instrCnt = 0
    /\ costLimit \in CostLimits   \* setCostLimit before the invocation
    /\ status = "idle"
    /\ result = "none"
    /\ invoked = [kind |-> "none", results |-> 0]
    /\ memory = NewMemory(MinPage, MaxPage, PageBytes)
    /\ stored = NoStore
    /\ lastLoad = NoLoad
    /\ lastArith = NoArith

Next == RunFunction \/ RunExpression \/ Execute \/ Done

\* The run loop is a plain loop on one thread: while it can step, it does.
Spec == Init /\ [][Next]_vars /\ WF_vars(Execute)

-----------------------------------------------------------------------------
(* Properties.                                                             *)

TypeOK ==
    /\ \A i \in 1..Len(stack) : stack[i].t \in {"val", "label", "frame"}
    /\ \A i \in 1..Len(stack) : stack[i].t = "val" => stack[i].v \in Vals
    /\ \A i \in 1..Len(scopes) : /\ scopes[i].type \in SeqTypes
                                /\ scopes[i].pc \in 1..(Len(scopes[i].instrs) + 1)
    /\ costSum \in 0..costLimit
    /\ instrCnt \in Nat
    /\ status \in {"idle", "running"} \cup ErrCodes
    /\ result \in {"none"} \cup ErrCodes
    /\ memory.pages \in MinPage..MaxPage
    /\ Len(memory.data) = memory.pages * PageBytes

\* The kind of scope each label and frame of the stack stands for.
ControlOf(s) ==
    LET c == SelectSeq(s, LAMBDA e : e.t # "val")
    IN [i \in 1..Len(c) |-> IF c[i].t = "frame" THEN "FunctionCall" ELSE "Block"]
ScopeKinds(sc) ==
    LET c == SelectSeq(sc, LAMBDA x : x.type # "Expression")
    IN [i \in 1..Len(c) |-> c[i].type]

(***************************************************************************)
(* While the run loop runs, the labels and frames of the stack and the     *)
(* Block and FunctionCall scopes of the instruction provider stand in one  *)
(* to one correspondence, in order.  enterFunction, enterBlock, leaveBlock,*)
(* leaveFunction, return and branchToLabel each pop or push both sides;    *)
(* a miscount in any of them (the labels unwound by popFrame, the Cnt + 1  *)
(* scopes of a branch) breaks it, usually several calls later.             *)
(***************************************************************************)
ScopesMatchStack ==
    status = "running" => ControlOf(stack) = ScopeKinds(scopes)

(***************************************************************************)
(* Stack discipline (spec section 8.1): when the run loop of an invocation *)
(* runs out of scopes with success, the stack holds exactly the invoked    *)
(* function's results: no argument, local, label or frame is left over.    *)
(***************************************************************************)
SuccessLeavesResults ==
    status = "Success" =>
        /\ Len(stack) = invoked.results
        /\ \A i \in 1..Len(stack) : stack[i].t = "val"

(***************************************************************************)
(* The same for what runFunction returns: when it reports success, the     *)
(* stack holds exactly the results.  runFunction also reports success when *)
(* the run loop stopped with Terminated (engine.cpp line 70).              *)
(***************************************************************************)
ReturnedSuccessLeavesResults ==
    result = "Success" =>
        /\ Len(stack) = invoked.results
        /\ \A i \in 1..Len(stack) : stack[i].t = "val"

(***************************************************************************)
(* Spec section 5: a host function's Terminated is reported as success at  *)
(* the top level, whether it came from the run loop or from entering the   *)
(* invoked function itself.                                                *)
(***************************************************************************)
TerminatedIsSuccess ==
    status = "Terminated" => result = "Success"

(***************************************************************************)
(* Branch semantics (spec section 8.7): a br, a taken br_if or a br_table  *)
(* to label depth n leaves the stack as it was below that label, plus the  *)
(* label's arity topmost values (and, for a loop, the loop's label pushed  *)
(* again).                                                                 *)
(***************************************************************************)
BranchStep(n, s) ==
    LET p == LabelPos(s, n)
        L == s[p]
        kept == SubSeq(s, 1, p - 1) \o TopN(s, L.arity)
    IN stack' = IF L.cont = <<>> THEN kept ELSE PushLabel(kept, 0, L.cont)

BranchKeepsArity ==
    [][ /\ status = "running" /\ status' = "running"
        /\ scopes # <<>> /\ HasNextInstr(scopes)
        /\ instrCnt' = instrCnt + 1
        => CASE Ins.op = "br" -> BranchStep(Ins.n, stack)
             [] Ins.op = "br_if" /\ Top(stack) # 0 -> BranchStep(Ins.n, Pop(stack))
             [] Ins.op = "br_table" ->
                  BranchStep(IF Top(stack) < Len(Ins.labels) THEN Ins.labels[Top(stack) + 1]
                                                             ELSE Ins.default, Pop(stack))
             [] OTHER -> TRUE ]_vars

(***************************************************************************)
(* The run loop implements the metering contract of an invocation         *)
(* (Invocation): Measure counts every instruction it fetches once and     *)
(* charges its cost, plus the cost of a host function a call enters;      *)
(* leaving scopes is free; CostLimitExceeded is returned only when the    *)
(* charge does not fit.  The refinement mapping is the identity on the    *)
(* status, the cost sum, the instruction count and the limit.             *)
(***************************************************************************)
HostFuncs == {f \in DOMAIN Funcs : Funcs[f].host}

Abstract == INSTANCE Invocation
    WITH aStatus <- status, aCost <- costSum, aCnt <- instrCnt,
         aLimit <- costLimit,
         OpCosts <- {CostTab[o] : o \in DOMAIN CostTab},
         HostCosts <- {Funcs[f].cost : f \in HostFuncs},
         Limits <- CostLimits, Codes <- ErrCodes

RefinesInvocation == Abstract!Spec

\* Reference: the bits WebAssembly gives a memory instruction by its name,
\* "<type>.load<N>_s", "<type>.store<N>" or the type's width without an N,
\* and whether it sign-extends.
SpecAccessBits(op) ==
    LET base == Fn(op)
        digits == IF SubSeq(base, 1, 4) = "load" THEN SubSeq(base, 5, Len(base))
                  ELSE SubSeq(base, 6, Len(base))
    IN CASE digits = "8" -> 8 [] digits = "16" -> 16 [] digits = "32" -> 32
         [] digits = "" -> IF Width(op, 32) = 64 THEN 64 ELSE 32
SpecSigned(op) == SubSeq(op, Len(op) - 1, Len(op)) = "_s"
SpecBytes(op) == AccessBytes(SpecAccessBits(op))

(***************************************************************************)
(* The last store changed exactly the bytes WebAssembly says it writes:   *)
(* the low N bits of the popped value, little-endian, at the effective     *)
(* address, N taken from the instruction's name; every other byte of      *)
(* memory as it was before (memory.grow and loads since only append or    *)
(* read).  It is about the template argument and BitWidth each store case  *)
(* of Interpreter::execute(MemoryInstruction) passes to runStoreOp.        *)
(***************************************************************************)
StoreWritesItsBytes ==
    stored # NoStore =>
        /\ stored.ea + SpecBytes(stored.op) <= Len(stored.before)
        /\ \A i \in DOMAIN stored.before :
              memory.data[i] = IF stored.ea < i /\ i <= stored.ea + SpecBytes(stored.op)
                               THEN (stored.v \div 2^(i - stored.ea - 1)) % 2
                               ELSE stored.before[i]

\* Reference: the two's-complement number n bits b stand for, and an integer
\* as the number of n bits that holds it.
SignedOf(b) == Decode(b) - (IF b # <<>> /\ b[Len(b)] = 1 THEN 2^Len(b) ELSE 0)
AsBits(x, n) == (x + 2^n) % 2^n

(***************************************************************************)
(* The last load was in bounds for the bytes WebAssembly says it reads,    *)
(* and pushed the number they stand for: unsigned for the full-width and   *)
(* _u loads, two's complement widened to the instruction's i32 or i64 for  *)
(* the _s ones.  It is about the template argument and BitWidth each load  *)
(* case passes to runLoadOp, and runLoadOp's extension to a signed T.      *)
(***************************************************************************)
LoadMatchesBytes ==
    lastLoad # NoLoad =>
        LET op == lastLoad.op
            b == SubSeq(lastLoad.data, lastLoad.ea + 1, lastLoad.ea + SpecBytes(op))
        IN /\ lastLoad.ea + SpecBytes(op) <= Len(lastLoad.data)
           /\ lastLoad.v = IF SpecSigned(op) THEN AsBits(SignedOf(b), Width(op, ValueBits))
                           ELSE Decode(b)

(***************************************************************************)
(* Every integer numeric instruction, i32 or i64, and the wrap and extend *)
(* conversions, pushes or traps with what the reference definition RefI32  *)
(* gives for its operands: WebAssembly's wrapping, truncating,             *)
(* shift-count-masking semantics that the spec requires of runAddOp ...    *)
(* runRotrOp at both widths, including the DivideByZero and INT_MIN / -1   *)
(* traps.                                                                  *)
(***************************************************************************)
ArithMatchesReference ==
    lastArith # NoArith => lastArith.r = RefI32(lastArith.op, lastArith.args, ValueBits)

(***************************************************************************)
(* Every invocation ends (spec scenario S6): even a loop that branches to  *)
(* itself forever stops with CostLimitExceeded, because every dispatched   *)
(* instruction is metered against the cost limit.                          *)
(***************************************************************************)
InvocationEnds == (status = "running") ~> (status # "running")

=============================================================================
