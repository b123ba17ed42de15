CONSTANTS
    f1 = f1
    f2 = f2
    f3 = f3
    Fns <- MCFns
    MaxResets = 2

CHECK_DEADLOCK FALSE

SPECIFICATION Spec

INVARIANT AddressResolvesToInserted
