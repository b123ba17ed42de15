-------------------------------- MODULE EEI --------------------------------
(***************************************************************************)
(* The gas accounting of the Ethereum host functions, EEI<T> of            *)
(* src/include/vm/hostfunc/ethereum/eei.h: the copy-cost helper, the       *)
(* maximal call gas, and callContract, which charges the caller's          *)
(* EnvironmentManager for a call, runs the callee through the EVMC host    *)
(* and refunds the gas the callee left.                                    *)
(*                                                                         *)
(* The EnvironmentManager (addCost, subCost, getGasLeft) is not under src/ *)
(* addCost and getGasLeft follow the spec: addCost(c) adds c to CostSum    *)
(* unless that would exceed CostLimit, in which case it leaves CostSum     *)
(* alone and answers false; gas left is CostLimit - CostSum.  The spec     *)
(* does not define subCost either: subCost(g) of at most CostSum takes g   *)
(* off, and of more than CostSum it may do what a uint64 CostSum -= g does *)
(* (wrap around), stop at zero, or refuse; the model takes any of the      *)
(* three.  A negative CostSum stands for the wrapped-around uint64         *)
(* 2^64 + CostSum.                                                         *)
(*                                                                         *)
(* Besides calls, the caller spends gas on instructions and copies (Burn,  *)
(* CopyData), which is what makes the gas left at a call vary.            *)
(***************************************************************************)
EXTENDS Integers

CONSTANTS
    CostLimits,   \* the cost limits the VM may be configured with
    BurnCosts,    \* gas an instruction sequence between host calls may take
    CopyLengths,  \* byte lengths host functions copy
    MaxOps        \* bound on the number of host calls and bursts

Kinds == {"CALL", "CALLCODE", "DELEGATECALL", "CREATE"}
Statuses == {"EVMC_SUCCESS", "EVMC_REVERT", "EVMC_FAILURE"}
ErrCodes == {"Success", "Revert", "CostLimitExceeded", "ExecutionFailed",
             "AccessForbidMemory"}
NoRet == -1  \* no Ret written

VARIABLES
    costSum,    \* EnvMgr's CostSum
    costLimit,  \* EnvMgr's CostLimit
    ret,        \* the ErrCode the last host function returned
    retVal,     \* the Ret (0 success, 1 failure, 2 revert) callContract wrote
    ops,        \* host calls and bursts so far (bounded by MaxOps)
    unpaid,     \* a callee ran on gas addCost(Msg.gas) did not charge
    copied,     \* length and gas charged of the last successful copy
    lastCall    \* CostSum before and after the last callContract

vars == <<costSum, costLimit, ret, retVal, ops, unpaid, copied, lastCall>>

NoCopy == [len |-> -1, gas |-> 0]
NoCall == [before |-> 0, after |-> 0]

-----------------------------------------------------------------------------

\* EnvironmentManager::addCost, as the record of its answer and new CostSum.
AddCost(sum, c) ==
    IF sum + c > costLimit THEN [ok |-> FALSE, sum |-> sum]
                           ELSE [ok |-> TRUE, sum |-> sum + c]

GasLeft == costLimit - costSum

\* EnvironmentManager::subCost: the CostSums it may leave.
SubCost(sum, g) == IF g <= sum THEN {sum - g} ELSE {sum - g, 0, sum}

\* Mutant: the copy cost is not rounded up to whole words.
CopyCostFloor(len) == 3 * (len \div 32)

\* addCopyCost: 3 gas per started 32-byte word.
CopyCost(len) == 3 * ((len + 31) \div 32)

\* getMaxCallGas: all but one 64th of the gas left (EIP-150).
MaxCallGas(gl) == gl - (gl \div 64)

Init ==
    /\ costLimit \in CostLimits
    /\ costSum = 0
    /\ ret = "Success"
    /\ retVal = NoRet
    /\ ops = 0
    /\ unpaid = FALSE
    /\ copied = NoCopy
    /\ lastCall = NoCall

\* The interpreter metering instructions between host calls.
Burn ==
    /\ ops < MaxOps
    /\ \E c \in BurnCosts :
         LET r == AddCost(costSum, c) IN
         /\ costSum' = r.sum
         /\ ret' = IF r.ok THEN "Success" ELSE "CostLimitExceeded"
    /\ ops' = ops + 1
    /\ UNCHANGED <<costLimit, retVal, unpaid, copied, lastCall>>

\* A copying host function charging addCopyCost; it reverts when out of gas.
CopyData ==
    /\ ops < MaxOps
    /\ \E len \in CopyLengths :
         LET r == AddCost(costSum, CopyCost(len)) IN
         /\ costSum' = r.sum
         /\ ret' = IF r.ok THEN "Success" ELSE "Revert"
         /\ copied' = IF r.ok THEN [len |-> len, gas |-> r.sum - costSum]
                               ELSE copied
    /\ ops' = ops + 1
    /\ UNCHANGED <<costLimit, retVal, unpaid, lastCall>>

(***************************************************************************)
(* callContract, step by step in the order of the code.  The message is    *)
(* chosen by the calling host function: its kind, whether it carries a     *)
(* value, and its gas, which the caller clamps to getMaxCallGas() before   *)
(* calling.  The environment answers whether the call is too deep, the     *)
(* input can be read, the frame is static, the destination exists, the     *)
(* sender's balance is enough or does not fit in 128 bits, the callee's    *)
(* status and gas left, and whether the created address can be stored.    *)
(***************************************************************************)
CallContract ==
    /\ ops < MaxOps
    /\ \E kind \in Kinds, value \in BOOLEAN, deep \in BOOLEAN,
          inputOK \in BOOLEAN, static \in BOOLEAN, exists \in BOOLEAN,
          balance \in {"enough", "low", "huge"},
          gas \in {0, MaxCallGas(GasLeft)},
          status \in Statuses, storeOK \in BOOLEAN :
       LET transfer == kind \in {"CALL", "CALLCODE"} /\ value
           t1 == AddCost(costSum, 9000)
           t2 == IF exists THEN t1 ELSE AddCost(t1.sum, 25000)
           charged == IF transfer THEN t2.sum ELSE costSum
           callee == AddCost(charged, gas)
           gasIn == IF value /\ kind # "CREATE" THEN gas + 2300 ELSE gas
       IN \E gasLeft \in {-1, 0, gasIn} : \E refunded \in SubCost(callee.sum, gasLeft) :
          LET Exit(e, r, s) == /\ ret' = e /\ retVal' = r /\ costSum' = s
                               /\ lastCall' = [before |-> costSum, after |-> s]
              Called == unpaid' = (unpaid \/ ~callee.ok)
          IN
          CASE deep -> Exit("Success", 1, costSum) /\ UNCHANGED unpaid
            [] ~inputOK -> Exit("AccessForbidMemory", NoRet, costSum)
                           /\ UNCHANGED unpaid
            [] (kind = "CREATE" \/ (kind = "CALL" /\ value)) /\ static ->
                 Exit("ExecutionFailed", NoRet, costSum) /\ UNCHANGED unpaid
            [] transfer /\ ~t1.ok ->
                 Exit("CostLimitExceeded", NoRet, t1.sum) /\ UNCHANGED unpaid
            [] transfer /\ ~t2.ok ->
                 Exit("CostLimitExceeded", NoRet, t2.sum) /\ UNCHANGED unpaid
            [] (transfer \/ kind = "CREATE") /\ balance = "huge" ->
                 Exit("ExecutionFailed", NoRet, charged) /\ UNCHANGED unpaid
            [] (transfer \/ kind = "CREATE") /\ balance = "low" ->
                 Exit("Success", 1, charged) /\ UNCHANGED unpaid
            [] gasLeft < 0 -> Exit("ExecutionFailed", NoRet, callee.sum) /\ Called
            [] kind = "CREATE" /\ status = "EVMC_SUCCESS" /\ ~storeOK ->
                 Exit("AccessForbidMemory", NoRet, refunded) /\ Called
            [] OTHER -> Exit("Success",
                             CASE status = "EVMC_SUCCESS" -> 0
                               [] status = "EVMC_REVERT" -> 2
                               [] OTHER -> 1,
                             refunded) /\ Called
    /\ ops' = ops + 1
    /\ UNCHANGED <<costLimit, copied>>

\* Once the host calls are spent the contract has returned.
Done == ops = MaxOps /\ UNCHANGED vars

Next == Burn \/ CopyData \/ CallContract \/ Done

Spec == Init /\ [][Next]_vars

-----------------------------------------------------------------------------
(* Properties.                                                             *)

\* Reference: the number of 32-byte words len bytes start, by search.
Words(len) == CHOOSE w \in 0..len : w * 32 >= len /\ (w = 0 \/ (w - 1) * 32 < len)

(***************************************************************************)
(* A copying host function that succeeded was charged by addCopyCost 3    *)
(* gas for every started 32-byte word, as the spec's 3 * ceil(length/32)   *)
(* says, whatever gas other host calls and instructions took before.       *)
(***************************************************************************)
CopyCostIsPerWord ==
    copied # NoCopy => copied.gas = 3 * Words(copied.len)

\* CostSum x at least y, as uint64s: a negative x is a wrapped-around one.
AtLeastAsUInt64(x, y) == x < 0 \/ x >= y

(***************************************************************************)
(* A call never gives the caller gas: callContract leaves CostSum at least *)
(* where it was before the call.  The 2300 stipend lines 168-170 add "for *)
(* value transfers" is free to the caller (spec section 9), and is paid    *)
(* for by the 9000 a transfer is charged; the refund of the callee's       *)
(* gas_left, stipend included, must then never take CostSum below where   *)
(* the call found it.                                                      *)
(***************************************************************************)
CallNeverPaysCaller ==
    lastCall # NoCall => AtLeastAsUInt64(lastCall.after, lastCall.before)

(***************************************************************************)
(* The comment at the addCost(Msg.gas) of callContract: Msg.gas is ensured *)
(* to be at most the caller's remaining gas, so the charge for the         *)
(* callee's gas succeeds and no callee runs on gas the caller did not pay. *)
(***************************************************************************)
CalleeGasPaid ==
    ~unpaid

=============================================================================
