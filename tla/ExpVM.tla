------------------------------- MODULE ExpVM -------------------------------
(***************************************************************************)
(* The VM facade ExpVM::VM of src/lib/expvm/vm.cpp: its stage machine      *)
(* Inited < Loaded < Validated < Instantiated, the loaded module Mod, and  *)
(* what it does to the store through the interpreter (registerModule,      *)
(* instantiateModule, invoke) and the validator.                           *)
(*                                                                         *)
(* A wasm file or byte string is one of Inputs: a module of Modules, or    *)
(* Garbage, which the loader fails to parse.  The validator accepts the    *)
(* modules of ValidModules.  A module instantiates when every module name  *)
(* it imports (Imports) is registered in the store.  The store keeps the   *)
(* registered module names and the active (anonymous) module instance.     *)
(***************************************************************************)
EXTENDS Naturals, FiniteSets

CONSTANTS
    Modules,       \* the parsable modules
    Garbage,       \* an input the loader rejects
    ValidModules,  \* the modules the validator accepts
    Imports,       \* module -> the set of module names it imports
    Names,         \* names modules may be registered under
    HostNames,     \* host modules initVM registers (wasi, ethereum)
    NoModule       \* no module / no active instance

ASSUME /\ ValidModules \subseteq Modules
       /\ Garbage \notin Modules
       /\ NoModule \notin Modules \cup {Garbage}
       /\ HostNames \subseteq Names

Inputs == Modules \cup {Garbage}

Stages == <<"Inited", "Loaded", "Validated", "Instantiated">>
\* The order of the VMStage enum.
Rank(st) == CHOOSE i \in 1..4 : Stages[i] = st

VARIABLES
    stage,       \* Stage
    mod,         \* Mod: the module loadWasm parsed last
    registered,  \* names of the modules registered in the store
    active,      \* the module instantiateModule made the active instance
    ret,         \* the ErrCode the last API call returned
    ran          \* the instance the last API call was execute() on, or NoModule

vars == <<stage, mod, registered, active, ret, ran>>

-----------------------------------------------------------------------------

\* Interpreter::instantiateModule: succeeds iff every import is registered;
\* the store keeps its previous active instance on failure.
InstantiateModule(m) ==
    IF Imports[m] \subseteq registered
    THEN active' = m /\ ret' = "Success"
    ELSE UNCHANGED active /\ ret' = "InstantiateFailed"

\* Mutant: the stage is not dropped.
NoDropStage == UNCHANGED stage

\* When the VM is Instantiated, registering or running another module
\* sends it back to Validated (the instance in the store will be reset).
DropStage == stage' = IF stage = "Instantiated" THEN "Validated" ELSE stage

\* initVM: the configured host modules are registered in the store.
Init ==
    /\ stage = "Inited"
    /\ mod = NoModule
    /\ registered = HostNames
    /\ active = NoModule
    /\ ret = "Success"
    /\ ran = NoModule

\* registerModule(Name, Path or Code): drop the stage, parse, validate, and
\* register under Name.  The comment in the code says registering resets the
\* instantiated module in the store; whether the store forgets the active
\* instance is up to the interpreter, so both outcomes are allowed.
RegisterModule ==
    /\ \E name \in Names, in \in Inputs :
         /\ DropStage
         /\ IF in \in ValidModules
            THEN /\ registered' = registered \cup {name}
                 /\ active' \in {active, NoModule}
                 /\ ret' = "Success"
            ELSE /\ ret' = IF in = Garbage THEN "ParseFailed" ELSE "ValidationFailed"
                 /\ UNCHANGED <<registered, active>>
    /\ ran' = NoModule
    /\ UNCHANGED mod

\* registerModule(ImportObject): drop the stage and register the object.
RegisterImportObject ==
    /\ \E name \in Names :
         /\ DropStage
         /\ registered' = registered \cup {name}
         /\ active' \in {active, NoModule}
         /\ ret' = "Success"
    /\ ran' = NoModule
    /\ UNCHANGED mod

\* runWasmFile(Path or Code, Func, Params): drop the stage, parse, validate,
\* instantiate the file's module as the active instance and invoke Func.
RunWasmFile ==
    /\ \E in \in Inputs :
         /\ DropStage
         /\ IF in \in ValidModules
            THEN InstantiateModule(in)
            ELSE /\ ret' = IF in = Garbage THEN "ParseFailed" ELSE "ValidationFailed"
                 /\ UNCHANGED active
    /\ ran' = NoModule
    /\ UNCHANGED <<mod, registered>>

\* Mutant: Mod is taken before the parse result is checked.
LoadWasmTakesGarbage ==
    /\ \E in \in Inputs :
         /\ mod' = in
         /\ IF in = Garbage
            THEN ret' = "ParseFailed" /\ UNCHANGED stage
            ELSE stage' = "Loaded" /\ ret' = "Success"
    /\ ran' = NoModule
    /\ UNCHANGED <<registered, active>>

\* loadWasm: on a parse error the previous status is kept.
LoadWasm ==
    /\ \E in \in Inputs :
         IF in = Garbage
         THEN ret' = "ParseFailed" /\ UNCHANGED <<stage, mod>>
         ELSE stage' = "Loaded" /\ mod' = in /\ ret' = "Success"
    /\ ran' = NoModule
    /\ UNCHANGED <<registered, active>>

Validate ==
    /\ \/ Rank(stage) < Rank("Loaded") /\ ret' = "WrongVMWorkflow" /\ UNCHANGED stage
       \/ /\ Rank(stage) >= Rank("Loaded")
          /\ IF mod \in ValidModules
             THEN stage' = "Validated" /\ ret' = "Success"
             ELSE ret' = "ValidationFailed" /\ UNCHANGED stage
    /\ ran' = NoModule
    /\ UNCHANGED <<mod, registered, active>>

\* Mutant: instantiate checks for Loaded instead of Validated.
InstantiateAfterLoad ==
    /\ \/ Rank(stage) < Rank("Loaded") /\ ret' = "ValidationFailed"
          /\ UNCHANGED <<stage, active>>
       \/ /\ Rank(stage) >= Rank("Loaded")
          /\ InstantiateModule(mod)
          /\ stage' = IF ret' = "Success" THEN "Instantiated" ELSE stage
    /\ ran' = NoModule
    /\ UNCHANGED <<mod, registered>>

\* instantiate: before Validated it answers ValidationFailed.
Instantiate ==
    /\ \/ Rank(stage) < Rank("Validated") /\ ret' = "ValidationFailed"
          /\ UNCHANGED <<stage, active>>
       \/ /\ Rank(stage) >= Rank("Validated")
          /\ InstantiateModule(mod)
          /\ stage' = IF ret' = "Success" THEN "Instantiated" ELSE stage
    /\ ran' = NoModule
    /\ UNCHANGED <<mod, registered>>

\* execute(Func, Params): straight to invoke, whatever the stage; invoke
\* finds Func among the exports of the active instance.
Execute ==
    /\ IF active = NoModule
       THEN ret' = "WrongInstanceAddress" /\ ran' = NoModule
       ELSE ret' = "Success" /\ ran' = active
    /\ UNCHANGED <<stage, mod, registered, active>>

\* cleanup: Mod, the store and the Measure are reset.
Cleanup ==
    /\ mod' = NoModule
    /\ registered' = {}
    /\ active' = NoModule
    /\ stage' = "Inited"
    /\ ret' = "Success"
    /\ ran' = NoModule

Next ==
    \/ RegisterModule \/ RegisterImportObject \/ RunWasmFile \/ LoadWasm \/ Validate
    \/ Instantiate \/ Execute \/ Cleanup

Spec == Init /\ [][Next]_vars

-----------------------------------------------------------------------------
(* Properties.                                                             *)

ErrCodes == {"Success", "ParseFailed", "ValidationFailed", "WrongVMWorkflow",
             "InstantiateFailed", "WrongInstanceAddress"}

TypeOK ==
    /\ stage \in {Stages[i] : i \in 1..4}
    /\ mod \in Modules \cup {NoModule}
    /\ registered \subseteq Names
    /\ active \in Modules \cup {NoModule}
    /\ ret \in ErrCodes
    /\ ran \in Modules \cup {NoModule}

(***************************************************************************)
(* While the VM is Instantiated, the active instance in the store is the   *)
(* module loadWasm loaded: runWasmFile and registerModule, which replace   *)
(* or reset the instance, send the stage back to Validated first.          *)
(***************************************************************************)
InstantiatedRunsMod ==
    stage = "Instantiated" => active = mod

(***************************************************************************)
(* Whatever sequence of API calls led there, execute() only ever runs an   *)
(* instance of a module the validator accepted: instantiate requires the   *)
(* Validated stage, which only a successful validate of Mod reaches, and   *)
(* runWasmFile validates its module itself.                                *)
(***************************************************************************)
ExecuteRunsValidated ==
    ran # NoModule => ran \in ValidModules

(***************************************************************************)
(* Spec section 6: execute requires the Instantiated stage, and so runs    *)
(* the instance of the module loaded and instantiated through the stage    *)
(* machine; from an earlier stage it fails with wrong-vm-workflow.         *)
(***************************************************************************)
ExecuteRequiresInstantiated ==
    ran # NoModule => stage = "Instantiated" /\ ran = mod

(***************************************************************************)
(* The host modules initVM registers (wasi, ethereum) stay registered, so  *)
(* a module that imports them can always be instantiated.                  *)
(***************************************************************************)
HostModulesStayRegistered ==
    HostNames \subseteq registered

=============================================================================
