CONSTANTS
    Funcs <- MCFuncs
    Table <- MCTable
    ValueBits = 3
    CostTab <- MCCostTab
    CostLimits = {1, 15, 150}
    HostStatuses = {"Success", "Terminated", "Revert", "ExecutionFailed"}
    HostRet = 1
    Invocations <- MCInvocations
    InitExprs <- MCInitExprs
    PageBytes = 2
    MinPage = 1
    MaxPage = 3

SPECIFICATION Spec

INVARIANT TypeOK
INVARIANT ScopesMatchStack
INVARIANT SuccessLeavesResults
INVARIANT StoreWritesItsBytes
INVARIANT LoadMatchesBytes

PROPERTY BranchKeepsArity
PROPERTY InvocationEnds
PROPERTY RefinesInvocation
