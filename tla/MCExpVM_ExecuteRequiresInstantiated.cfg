CONSTANTS
    A = A
    B = B
    C = C
    Modules = {A, B, C}
    Garbage = G
    NoModule = NoModule
    ValidModules = {A, B}
    Imports <- MCImports
    Names = {"wasi", "lib"}
    HostNames = {"wasi"}

SPECIFICATION Spec

INVARIANT ExecuteRequiresInstantiated
