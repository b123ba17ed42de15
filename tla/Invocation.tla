----------------------------- MODULE Invocation -----------------------------
(***************************************************************************)
(* What one invocation of the interpreter promises about metering (spec    *)
(* section 5.6, cost and instruction accounting), with the instructions,   *)
(* stack and scopes abstracted away.  An invocation starts idle with       *)
(* nothing charged, under a cost limit fixed before it starts.  While it   *)
(* runs, every instruction the run loop fetches is counted once and        *)
(* charged its opcode's cost, plus a host function's cost when it calls    *)
(* one; nothing else is ever charged or counted, and the sum never goes    *)
(* past the limit.  The run stops with CostLimitExceeded only when the     *)
(* next charge would go past the limit, and once it has stopped with an    *)
(* error code nothing changes any more.                                    *)
(***************************************************************************)
EXTENDS Naturals

CONSTANTS
    OpCosts,     \* the costs the cost table gives opcodes
    HostCosts,   \* the costs of the host functions
    Limits,      \* the cost limits an invocation may run under
    Codes        \* the error codes an invocation may stop with

VARIABLES
    aStatus,     \* "idle", "running", or the code it stopped with
    aCost,       \* what has been charged
    aCnt,        \* how many instructions have been counted
    aLimit       \* the cost limit

avars == <<aStatus, aCost, aCnt, aLimit>>

Init ==
    /\ aStatus = "idle"
    /\ aCost = 0
    /\ aCnt = 0
    /\ aLimit \in Limits

\* Charge n instructions and cost c, within the limit, and go to status st.
Charge(n, c, st) ==
    /\ aCost + c <= aLimit
    /\ aCost' = aCost + c
    /\ aCnt' = aCnt + n
    /\ aStatus' = st
    /\ UNCHANGED aLimit

\* The invocation starts: a function is entered (a host function charged
\* its cost) or an expression scope is pushed.
Begin ==
    /\ aStatus = "idle"
    /\ \/ \E h \in {0} \cup HostCosts, st \in {"running"} \cup Codes : Charge(0, h, st)
       \/ \E h \in HostCosts :
            /\ aCost + h > aLimit
            /\ aStatus' = "CostLimitExceeded"
            /\ UNCHANGED <<aCost, aCnt, aLimit>>

\* One instruction is counted and charged, with the host function it calls.
Instr ==
    /\ aStatus = "running"
    /\ \E c \in OpCosts, h \in {0} \cup HostCosts, st \in {"running"} \cup Codes :
         Charge(1, c + h, st)

\* The next instruction, or the host function it calls, does not fit.
Exceed ==
    /\ aStatus = "running"
    /\ aStatus' = "CostLimitExceeded"
    /\ aCnt' = aCnt + 1
    /\ \E c \in OpCosts :
         \/ aCost + c > aLimit /\ aCost' = aCost
         \/ \E h \in HostCosts :
              aCost + c <= aLimit /\ aCost + c + h > aLimit /\ aCost' = aCost + c
    /\ UNCHANGED aLimit

\* A scope is left, or the last one is and the invocation succeeds: nothing
\* is counted or charged.
Leave ==
    /\ aStatus = "running"
    /\ aStatus' \in {"running", "Success"}
    /\ UNCHANGED <<aCost, aCnt, aLimit>>

Next == Begin \/ Instr \/ Exceed \/ Leave

Spec == Init /\ [][Next]_avars

=============================================================================
