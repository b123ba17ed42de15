CONSTANTS
    Funcs <- MCFuncs
    Table <- MCTable
    ValueBits = 3
    CostTab <- MCCostTab
    CostLimits = {10}
    HostStatuses = {"Success"}
    HostRet = 0
    Invocations <- MCInvocations
    InitExprs <- MCInitExprs
    PageBytes = 1
    MinPage = 1
    MaxPage = 1

SPECIFICATION Spec

INVARIANT ArithMatchesReference
