---------------------------- MODULE HostFuncMgr ----------------------------
(***************************************************************************)
(* HostFunctionManager of src/include/executor/hostfuncmgr.h: a vector of  *)
(* host functions, indexed by the address insertHostFunction hands out.    *)
(* Its clients keep the addresses they were given; reset() clears the      *)
(* vector, so an address kept across a reset either fails or names the     *)
(* function inserted under it since.  The ghost held records, for each     *)
(* function, the address it was given and the reset epoch it was given in. *)
(***************************************************************************)
EXTENDS Naturals, Sequences, SequencesExt

CONSTANTS
    Fns,        \* host function objects (model values)
    MaxResets   \* bound on the number of resets

NoAddr == [addr |-> -1, epoch |-> -1]

VARIABLES
    hostFuncs,  \* HostFuncs: the sequence of inserted functions
    held,       \* ghost: [f -> the address insert gave f, and its epoch]
    epoch       \* ghost: resets so far

vars == <<hostFuncs, held, epoch>>

Init ==
    /\ hostFuncs = <<>>
    /\ held = [f \in Fns |-> NoAddr]
    /\ epoch = 0

\* Mutant: the address handed out is the new size, one past the function.
NewAddrAfterPush(s) == Len(s) + 1

\* NewAddr = HostFuncs.size(), read before the push_back.
NewAddr(s) == Len(s)

\* insertHostFunction(Func, NewAddr): a function object not in the vector.
InsertHostFunction(f) ==
    /\ ~(f \in ToSet(hostFuncs))
    /\ held' = [held EXCEPT ![f] = [addr |-> NewAddr(hostFuncs), epoch |-> epoch]]
    /\ hostFuncs' = Append(hostFuncs, f)
    /\ UNCHANGED epoch

\* getHostFunction(Addr, Func): WrongInstanceAddress past the end.
GetHostFunction(addr) ==
    IF addr >= Len(hostFuncs) THEN [ok |-> FALSE]
    ELSE [ok |-> TRUE, fn |-> hostFuncs[addr + 1]]

\* reset(): HostFuncs.clear().
Reset ==
    /\ epoch < MaxResets
    /\ hostFuncs' = <<>>
    /\ epoch' = epoch + 1
    /\ UNCHANGED held

Next == (\E f \in Fns : InsertHostFunction(f)) \/ Reset

Spec == Init /\ [][Next]_vars

-----------------------------------------------------------------------------
(***************************************************************************)
(* An address insertHostFunction handed out resolves, through              *)
(* getHostFunction, to the function it was handed out for, as long as no  *)
(* reset() came after the insert; whatever other inserts happened since.  *)
(***************************************************************************)
AddressResolvesToInserted ==
    \A f \in Fns :
        held[f] # NoAddr /\ held[f].epoch = epoch =>
            LET r == GetHostFunction(held[f].addr) IN r.ok /\ r.fn = f
====
