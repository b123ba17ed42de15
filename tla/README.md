# TLA+ models of the SSVM interpreter core, VM facade and EEI gas accounting

This directory has TLA+ models of the parts of SSVM (a C++ WebAssembly VM)
whose source is under `src/`. The models cover:

- the interpreter's run loop with its stack and instruction provider;
- the stage machine of the `ExpVM::VM` facade;
- the gas accounting of the Ethereum host interface (EEI);
- memory 0 of a module instance, as used by the memory instructions;
- the host function manager;
- an abstract specification of an invocation's metering, which the run loop is shown to implement.

Each model has an MC module and `.cfg` files for TLC. `PROJECT.json` lists:

- the components;
- the runs and what each shows;
- the mutants that show each checked property can fail;
- the map from every modelling definition to the source lines it translates;
- the findings;
- the hazards.

## 1. The system (inventory)

| Part | Source | State it keeps | Operations |
|---|---|---|---|
| Interpreter run loop | `src/lib/interpreter/engine/engine.cpp` | none of its own beyond the stack, the instruction provider and the `Measure` (CostSum, CostLimit, instruction count) | `runFunction`, `runExpression`, `execute` (the loop), `enterFunction`, `leaveFunction`, `enterBlock`, `leaveBlock`, `branchToLabel`, one `execute` overload per instruction class |
| StackManager | not under `src/` (spec §3) | a stack of values, labels (arity, loop continuation) and frames (module, arity, coarity) | push, pop, pushLabel, popLabel(n), pushFrame, popFrame (returns the number of labels it dropped), getLocal |
| InstrProvider | not under `src/` | a stack of instruction sequences typed Expression, Block or FunctionCall, each with a position | pushInstrs, popInstrs, getNextInstr, getTopScopeType |
| `ExpVM::VM` facade | `src/lib/expvm/vm.cpp` | Stage (Inited < Loaded < Validated < Instantiated), the loaded module Mod, the store (registered modules, the active instance), the host import objects | `registerModule` (4 overloads), `runWasmFile`, `loadWasm`, `validate`, `instantiate`, `execute`, `cleanup` |
| EEI host functions | `src/include/vm/hostfunc/ethereum/eei.h` | the caller's EnvironmentManager (CostSum, CostLimit), the return data | `addCopyCost`, `getMaxCallGas`, `callContract`, memory load/store helpers |
| Host function manager | `src/include/executor/hostfuncmgr.h` | a vector of host functions | insert, get (bounds-checked), reset |
| Memory instance | `src/include/executor/instance/memory.h` (declarations; bodies in `memory.ipp`/`memory.cpp`, not under `src/`) | MinPage, MaxPage, CurrPage, Data | setLimit, growPage, get/setArray, load/storeValue, checkDataSize |
| Legacy VM, create/native modules | `vm/vm.h`, `create.h`, `ssvm_native_module.h` | declarations only under `src/` | — |

**How the parts interact.** The facade drives the loader, the validator and the interpreter.

- `runWasmFile` and `instantiate` make a module the store's active instance.
- `execute` invokes a function of that instance.
- `Interpreter::invoke` pushes the arguments and calls `runFunction`.
- `runFunction` enters the function and runs the loop until no scope is left.

The loop works like this:

1. It fetches the next instruction of the top scope.
2. It charges the instruction's cost.
3. It dispatches the instruction.
4. When a scope is exhausted, it leaves the function, the block or the expression.

Host functions run inside `enterFunction`. They are charged their declared cost first. The EEI host functions charge and refund the EnvironmentManager's gas around an EVMC call to another contract.

**Hard behaviours.**

- The label and frame structure of the stack must stay in step with the scope stack of the instruction provider. Two places depend on this:
  - `leaveFunction` pops as many scopes as `popFrame` reports labels, plus one.
  - `branchToLabel` pops `Cnt+1` labels and, separately, `Cnt+1` scopes.
- The cost limit is the only thing that makes a looping program stop. An instruction is counted before it is charged, and a host function a call enters is charged later, inside `enterFunction`.
- Memory accesses are bounds-checked against the current size, which `memory.grow` changes while stored bytes must survive it.
- Host functions can stop the loop with Terminated or Revert in the middle of a call chain.
- In the facade, the order of API calls decides which module instance `execute` runs.
- In the EEI, the order of the charges (9000, 25000, Msg.gas), the 2300 stipend and the refund decide whether the caller pays for the callee.

**Properties that make each part correct.**

- Interpreter:
  - the scopes match the labels and frames on the stack;
  - a branch leaves exactly its label's arity of values;
  - success leaves exactly the results;
  - every invocation ends;
  - the last store changed exactly the bytes its instruction names, and a load read the bytes its instruction names and pushed the number they stand for;
  - the run loop implements the abstract metering contract;
  - every integer instruction (i32, i64 and the conversions between them) gives the reference result or trap.
- Host function manager: an address handed out since the last reset resolves to its own function.
- Facade:
  - Instantiated means the loaded module is the active instance;
  - only validated code runs;
  - execute requires Instantiated;
  - the host modules stay registered.
- EEI:
  - a call never leaves the caller with more gas than it had before it;
  - a callee never runs on unpaid gas;
  - copies are charged per started word;
  - storeUInt then loadUInt gives back the word, and convToUInt128 keeps exactly the values that fit.

## 2. Modules

| Module | Models | Kind |
|---|---|---|
| `StackManager` | the StackManager, as operators on a sequence of entries `[t: "val"]`, `[t: "label", arity, cont]`, `[t: "frame", mod, arity, coarity, base]` | operators, modelled from the spec |
| `InstrProvider` | the InstrProvider, as operators on a sequence of `[type, instrs, pc]` | operators, modelled from the spec |
| `Interpreter` | the run loop; EXTENDS the two above | state machine |
| `Memory` | MemoryInstance, as operators on a record `[pages, max, data]` | operators, modelled from the spec |
| `Interpreter` (memory part) | the memory instructions on memory 0; EXTENDS `Memory` | state machine |
| `Invocation` | the metering contract of one invocation: status, cost, instruction count, limit | abstract state machine |
| `MCInterpreter` | nine functions and a table for TLC | MC module |
| `HostFuncMgr` | HostFunctionManager: insert, get, reset | state machine |
| `MCHostFuncMgr` | three host function objects | MC module |
| `ExpVM` | the facade's stage machine and its effect on the store | state machine |
| `MCExpVM` | three modules A (valid), B (valid, imports `wasi`), C (invalid) and garbage G | MC module |
| `EEI` | callContract, addCopyCost, getMaxCallGas over the caller's gas | state machine |
| `MCEEI` | two cost limits | MC module |
| `I32` | the integer numeric instructions of both widths (eqz … rotr on i32 and i64, wrap and extend), with reference definitions by bit sets and truncating quotients | operators, modelled from the spec |
| `MCI32` | one two-line function per integer instruction, on every 3-bit i32 operand and on boundary 6-bit i64 operands | MC module |
| `EEIMemory` | the EEI memory helpers loadUInt, loadAddress, loadBytes32, storeUInt, storeAddress, storeBytes32, convToUInt128 | state machine |
| `MCEEIMemory` | 4-byte words, a 5-byte memory | MC module |

### Interpreter

Its variables:

- `stack`: the StackManager.
- `scopes`: the InstrProvider.
- `costSum`, `instrCnt`, `costLimit`: the Measure.
- `status`: `"idle"`, `"running"` or the ErrCode the loop returned.
- `result`: what `runFunction` or `runExpression` returns.
- `invoked`: the invocation under way.
- `memory`: memory 0, a `Memory` record.
- `stored`, `lastLoad`: ghosts recording the last store (address, width, value) and the last load (bytes, signedness, value pushed).

Its actions:

- `RunFunction`: one invocation with its arguments, starting in `enterFunction`.
- `RunExpression`: an initialiser expression.
- One action per instruction, each including fetch and metering (`Fetch`) and dispatch (`Straight`, `Trap`).
- `MeterFail`: the CostLimitExceeded return.
- `LeaveFunctionScope`, `LeaveBlock`, `LeaveExpression`: the three scope exits.
- `RunOut`: the loop ending.
- `RunLoadOp(op)` for every integer load case of `LoadCase`, `RunStoreOp(op)` for every store case of `StoreCase`, `RunMemoryGrowOp`, `RunMemorySizeOp`: the memory instructions. `AccessBytes` turns the code's BitWidth (8, 16, 32, 64) into model bytes (1, 2, `ValueBits`, 2 × `ValueBits`). They are wrapped in `MemStep`, which is `Step` without keeping the memory unchanged.

Every loop step is a disjunct `Step(A)` of `Execute`. `Step(A)` also computes `result` the way `runFunction` does, mapping Terminated to success.

`enterFunction` is modelled whole:

- A host function has its arguments popped and its cost charged, then returns one of `HostStatuses`. On Success it pushes `HostRet`.
- A native function gets a frame, zeroed locals, a FunctionCall scope and the body block.

Values are `ValueBits = 3` bits wide, so wrap-around and zero are reached.

### I32 and the numeric instructions

Each integer case of `execute` for UnaryNumericInstruction and BinaryNumericInstruction calls a `run…Op<T>` template. `I32Cases` and `I64Cases` record the C++ type `T` that each case passes, exactly as the case writes it. `ConvTo` records the target type of `runWrapOp<From, To>` and `runExtendOp<From, To>`. `TemplateArg(op)` looks a case up, and `Fn(op)` is the template that case calls (`lt_s` and `lt_u` both call `runLtOp`).

The template bodies are in `engine_num.ipp`, which is not under `src/`. `UnaryI32`, `TestI32`, `BinaryTrap` and `BinaryI32` therefore do what C++ and the spec give a `T`:
- the slot is read as a `T` (`AsType`: its low `sizeof(T) * 8` bits, two's complement for a signed `T`);
- `/` and `%` truncate;
- a zero divisor traps with DivideByZero, and the least signed `T` divided by −1 traps with ExecutionFailed;
- shift counts are taken modulo the width;
- the result is written back as a `T` (`Pattern`).

Signedness and width therefore come from the dispatch table, never from the op name. A stack slot (`Vals`) holds any i64, as ValVariant does. In `Interpreter`, the three actions `RunUnaryOp(op)`, `RunTestOp(op)` and `RunBinaryOp(op)` pop the operands and push the result or trap. They also record the ghost `lastArith`: the op, its operands and the result.

The second half of `I32` is the reference, built from the op name alone, the way WebAssembly defines each instruction. `Width(op, n)` is n for i32 and 2n for i64. `RefI32` is defined by the set of 1 bits of a number and by the defining inequalities of a truncating quotient and its remainder. `ArithMatchesReference` compares every instruction the interpreter ran with it. It therefore checks each case's template argument: `i32.div_s` on `uint32_t` would miss the INT_MIN / −1 trap, and `i64.extend_i32_s` on `uint32_t` would zero-extend. The one table change it cannot see is `wrap_i64` reading its source as `uint32_t`, because that gives the same low bits.

### Memory

The member bodies of `MemoryInstance` are not under `src/`, so the operators follow the spec (§3, §4.4.3):

- memory is `pages` pages of `PageBytes` bytes;
- an access of `w` bytes at effective address `ea` (the popped base plus the static offset) is in bounds when `ea + w <= Len(data)`, and traps with AccessForbidMemory otherwise;
- `memory.grow n` fails, pushing −1 (the all-ones i32), past `max`; otherwise it pushes the old page count and appends zeroed pages.

A byte is one bit in the model, so an i32 of `ValueBits` bits is `ValueBits` bytes, an i64 twice that, a 16-bit access two bytes and an 8-bit access one byte. Values are stored little-endian (`Encode`) and read back by `Decode`.

Each integer load and store case of `execute(MemoryInstruction)` calls `runLoadOp<T>` or `runStoreOp<T>` with an optional BitWidth. `LoadCasesI32`, `LoadCasesI64`, `StoreCasesI32` and `StoreCasesI64` record both, as the cases write them. A case without a BitWidth uses `sizeof(T) * 8` (`CaseBits`). `RunLoadOp` reads BitWidth / 8 bytes and sign-extends them (`SignExtend`) when `T` is signed. `RunStoreOp` reads the value as a `T` and writes its low BitWidth / 8 bytes.

The ghosts hold what the last access did:
- `lastLoad` holds the op, the effective address, the memory it read and the value pushed;
- `stored` holds the op, the effective address, the popped value and the memory before the store.

The properties work out, from the op name alone, what WebAssembly says should have happened (`SpecAccessBits`, `SpecSigned`):
- `LoadMatchesBytes`: the load was in bounds for its width and pushed the number those bytes stand for;
- `StoreWritesItsBytes`: the store wrote the low N bits of the value and left every other byte as it was.

### Invocation and the refinement

`Invocation` says what one invocation promises about metering, with the instructions abstracted away:

- it starts idle with nothing charged, under a fixed limit;
- `Begin`: a function is entered (a host function is charged its cost, or CostLimitExceeded when that does not fit) or an expression starts;
- `Instr`: one instruction is counted and charged its opcode's cost, plus the cost of a host function it calls, within the limit;
- `Exceed`: CostLimitExceeded only when the next charge does not fit;
- `Leave`: leaving a scope counts and charges nothing.

`Interpreter` defines `Abstract == INSTANCE Invocation WITH ...`, mapping `status`, `costSum`, `instrCnt` and `costLimit` by identity. The opcode and host costs are taken from `CostTab` and `Funcs`. `RefinesInvocation == Abstract!Spec` is checked as a PROPERTY of `interp_core`.

### HostFuncMgr

- `hostFuncs`: the vector.
- `held`: a ghost giving, for each function object, the address `insertHostFunction` gave it and the number of resets before that.
- `epoch`: the number of resets so far, bounded by `MaxResets`.

The actions are `InsertHostFunction(f)` and `Reset`. `GetHostFunction(addr)` is an operator, because it changes nothing. Nothing under `src/` calls the manager yet, so its clients are any sequence of inserts and resets.

### ExpVM

Its variables:

- `stage`.
- `mod`: the last module `loadWasm` parsed.
- `registered`: the names registered in the store.
- `active`: the store's active instance.
- `ret`: the ErrCode of the last call.
- `ran`: the instance the last `execute` ran.

Its actions: one per API call. The file and byte-string overloads are the same action, because they differ only in how the loader reads input.

Two behaviours belong to the interpreter's store, which is not under `src/`, so they are modelled from the spec:

- Whether registering a module makes the store forget the active instance. Both outcomes are allowed.
- `instantiateModule` succeeds when the module's imports are registered.

### EEI

Its variables:

- `costSum`, `costLimit`: the EnvironmentManager.
- `ret`: the ErrCode.
- `retVal`: the `Ret` written (0/1/2).
- `ops`: host calls so far, bounded by `MaxOps`.
- `unpaid`: set once a callee has run on gas whose charge failed.
- `copied`: the length and the gas charged of the last successful copy.

`CallContract` is one action that follows the code step by step:

1. depth, input, static flag;
2. transfer and new-account charges;
3. balance;
4. `addCost(Msg.gas)` with its result ignored;
5. stipend;
6. call;
7. `gas_left < 0`, `subCost`, create address, status.

The environment's answers are chosen with `\E`. `Msg.gas` is 0 or `getMaxCallGas()`, which is what the calling host functions clamp it to. Two other actions move the gas left between calls:

- `Burn`: instructions metered between host calls.
- `CopyData`: a host function charging `addCopyCost`.

The EnvironmentManager is not under `src/`:

- `addCost` follows the spec: it refuses and leaves CostSum unchanged past the limit.
- `subCost` is not in the spec either. `SubCost` takes `g` off when `g <= CostSum`. For a larger `g` it may wrap around as a uint64 `CostSum -= g` would, stop at zero, or refuse; the model takes any of the three.

CostSum is an unbounded integer here. A negative value stands for the uint64 wrap-around, and `AtLeastAsUInt64` compares it as one. The ghost `lastCall` holds CostSum before and after the last `callContract`. `CallNeverPaysCaller` says the call never lowers it. Its counterexample lowers CostSum from 20000 to 17700 without any underflow, so it does not depend on what `subCost` does past zero.

### EEIMemory

The host functions move EVM words between wasm memory and the big-endian evmc types through seven helpers of `eei.h`. `EEIMemory` has the memory `mem`, the last ErrCode `ret`, the last word loaded `word`, and a ghost `roundTrip` holding the word the last successful `storeUInt` wrote and what `loadUInt` reads back at the same offset and width. Each action is one helper call with any word, any offset of `Offsets` and any width of `Widths`:

- `LoadUIntStep`: `loadUInt` clamps Bytes to the word size, zeroes Dst and copies Bytes bytes, reversed, to its end.
- `StoreUIntStep`: `storeUInt` fails with ExecutionFailed when a byte above the low Bytes is set, else writes the low Bytes bytes reversed.
- `LoadPlain(len)`, `StorePlain(len)`: loadAddress/loadBytes32 and storeAddress/storeBytes32, plain copies.
- `ConvToUInt128` is an operator: it fails when a byte of the high half is set, else gives the number the low half spells.

A word is `WordBytes` one-bit bytes (32 in the code) and an address `AddrBytes` (20).

## 3. Runs

| Run | Checks | Result |
|---|---|---|
| `interp_core` | TypeOK, ScopesMatchStack, SuccessLeavesResults, StoreWritesItsBytes, LoadMatchesBytes, BranchKeepsArity (action), InvocationEnds (liveness), RefinesInvocation (refinement) | pass |
| `interp_terminated_unwind` | ReturnedSuccessLeavesResults | violation: `main(0)` → `pick` → host returns Terminated; runFunction answers Success with two frames still on the stack |
| `interp_terminated_entry` | TerminatedIsSuccess | violation: a host function invoked directly returns Terminated; the invocation fails with Terminated |
| `expvm_stages` | TypeOK, InstantiatedRunsMod, ExecuteRunsValidated | pass |
| `expvm_execute_stage` | ExecuteRequiresInstantiated | violation: `runWasmFile(A)` then `execute` runs A in stage Inited |
| `expvm_cleanup_hosts` | HostModulesStayRegistered | violation: `cleanup` unregisters `wasi` |
| `eei_copy_cost` | CopyCostIsPerWord | pass |
| `eei_stipend_refund` | CallNeverPaysCaller | violation: after a 20000-gas burst, a DELEGATECALL carrying a value gets the 2300 stipend without the 9000 transfer charge, and the refund of its gas_left takes CostSum from 20000 to 17700 |
| `hostfuncmgr_addresses` | AddressResolvesToInserted | pass |
| `i32_reference` | ArithMatchesReference | pass |
| `eei_memory_helpers` | UIntRoundTrip, ConvKeepsValue | pass |
| `eei_callee_unpaid` | CalleeGasPaid | violation: CALL with value to a new account; 34000 is charged, `addCost(Msg.gas)` fails, and the callee runs anyway |

The findings in `PROJECT.json` explain what each violation means for the code.

**Bounds.** `MCInterpreter` runs nine functions:

- `main` loops, calling `dec` until it returns 0, then calls `pick`.
- `dec` uses nested blocks with `br_table` and `return`.
- `pick` uses `if`/`else`, `call_indirect` (with table entries that are missing or have the wrong type) and a host call.
- `spin` loops forever.
- `divide` uses `unreachable`, `select` and `div_u` by a value that can be zero.
- `mem(x)` grows memory by a page, stores 6 at `x`, loads its bytes at `x+1` (sign-extended; the byte is 1) and `x+2`, stores 1 into byte 3, fails to grow by two pages, and returns `load(x) + memory.size`. For `x = 1` the store8 overwrites the top byte of the stored i32; for `x = 2` the store ends one byte past memory and traps.
- `peek(x)` does load8_u at `x` in the initial page of two bytes; `x = 2` traps.
- `wide(x)` grows memory to 3 pages (6 bytes, one i64), stores the i64 45 (101101 in little-endian bits) at `x`, sums all seven i64 loads and the two i32.load16 ones widened by `i64.extend_i32_s/u`, then writes i64.store32, store16, store8 and i32.store16 over parts of it. For `x = 1` the i64.store ends past memory and traps.

Memory has pages of 2 bytes, 1 page to start and 3 at most. 6 is 011 in little-endian bits, which differs from its reversal, so a byte-order bug shows.

`main` is invoked with arguments 0..5 and `divide` with arguments that reach the zero divisor. The host function and `spin` are invoked on their own. The cost limits are 1, 15 and 150:

- 1 fails at the first instruction.
- 15 fails on the host charge inside `main(0)`.
- 150 lets every function finish.

Every action and every error path is reached. This is 1112 states.

`MCHostFuncMgr` inserts three function objects in any order with up to two resets, so addresses are reused after a reset (321 states). The manager is passive: once every object is inserted and the resets are spent, nothing more happens. Deadlock is not checked in this run.

`MCExpVM` enumerates every sequence of API calls. Its state space is finite (292 states), because the model keeps only the last call's effect.

`MCI32` invokes a function `local.get 0; local.get 1; op` for every integer instruction. The i32 ones, and the extends, get every pair of 3-bit arguments: 3 bits reach zero, INT_MIN (4), −1 (7), shift counts at and past the width, and every sign combination of div_s and rem_s. The i64 ones (6 bits), and wrap, get pairs of `I64Samples` = {0, 1, 5, 6, 7, 12, 31, 32, 33, 62, 63}: zero, one, INT_MIN (32) and −1 (63) with their neighbours, and shift counts below, at, and past 6 and 12. All pairs of 6-bit operands take five minutes and reach nothing these do not (32764 states).

`MCEEIMemory` uses 4-byte words, 2-byte addresses and a 5-byte memory. The offsets 0 and 2 put a full word in bounds and past the end. The widths 2, 4 and 5 are partial, full and clamped (12288 states).

`MCEEI` uses:

- cost limits 100000 and 1000000. With 100000, less than 64 × 9000 gas is left, so the transfer charge eats into the gas the caller promised the callee.
- a 20000-gas burst.
- copy lengths 0, 1, 31, 32, 33, 64 and 65, on both sides of the word boundaries.
- up to three operations.

**Fairness.** The interpreter runs one invocation at a time on one thread, and the loop always takes its next step. `Spec` therefore has weak fairness on `Execute`. `InvocationEnds` relies on it, together with the cost limit. The facade and the EEI are driven by their callers and have no fairness. Their stopping states are explicit: `Done` in `EEI`, and any API call in `ExpVM`. Deadlock checking stays on.

**Mutants.** Each property of a passing run has a mutant in `PROJECT.json`: a plausible bug in a mapped definition that TLC catches.

| Mutant | Caught by |
|---|---|
| metering without the limit | TypeOK |
| `branchToLabel` not popping scopes | ScopesMatchStack |
| `popFrame` keeping the arguments | SuccessLeavesResults |
| `popLabel` using the wrong label's arity | BranchKeepsArity |
| no metering | InvocationEnds |
| `loadWasm` storing Mod before the parse check | TypeOK |
| no stage drop | InstantiatedRunsMod |
| `instantiate` accepting a Loaded module | ExecuteRunsValidated |
| copy cost rounded down | CopyCostIsPerWord |
| i64.store16 dispatched with BitWidth 32 | StoreWritesItsBytes |
| i32.load8_s dispatched to `runLoadOp<uint32_t>` | LoadMatchesBytes |
| instruction charged but not counted | RefinesInvocation |
| `insertHostFunction` handing out the size after the push | AddressResolvesToInserted |
| i32.div_s dispatched to `runDivOp<uint32_t>` | ArithMatchesReference |
| `loadUInt` copying to the front of Dst | UIntRoundTrip |
| `convToUInt128` checking only 15 high bytes | ConvKeepsValue |

## 4. Not modelled, and the plan

Not modelled yet:

- **Global instructions, f32 and f64 arithmetic, comparisons, conversions and accesses.** Floating point is data, not control, and its IEEE semantics is out of TLC's reach at any useful width. Globals need the store's global instances, which are not under `src/`. The dispatch and memory path they share with the integer instructions are modelled.
- **The legacy `VM::VM` of `vm.h`, `create.h`, `common.h`.** `vm.h` and `create.h` are class declarations whose only bodies are one-line accessors (setHostFunction, appendArgument, getReturnValue, setCostLimit) with no behaviour to check; `common.h` is the ErrCode enum, present as the modules' error-code strings.
- **`getBytes`/`setBytes`/`getPointer` of the memory instance.** Host functions use them; `EEI` abstracts its memory helpers to success or AccessForbidMemory, and `EEIMemory` models the helpers themselves over `getArray`/`setArray`.
- **Lazy growth of `Data` in `checkDataSize`.** The model keeps `data` at its full `pages * PageBytes` length, which is what every access observes.
- **Clearing the stack after an error.** `runFunction` returns the run loop's error with the operands still on the stack (for example a host function under cost limit 1). Spec §5 says they are discarded; that happens, if at all, in `Interpreter::invoke`, which is not under `src/`.
- **Return data of an early-returning call.** `callContract` returns before the host call (depth, static flag, charges, balance) without touching `Env.getReturnData()`, so the previous call's output stays visible. Nothing in the repository says what it should be, so it is listed as a hazard without a property.
- **Composing the facade's `execute` with the interpreter.** `VM::execute` calls `Interpreter::invoke`, which is not under `src/`; the glue would be invented, not translated. The stage bug it would carry is already shown by `expvm_execute_stage`.
- **The loader and the validator.** They are not under `src/`; here they are sets of valid or parsable modules.

Every part of `src/` with behaviour is now modelled except the above.
