------------------------------ MODULE MCExpVM ------------------------------
(***************************************************************************)
(* Three modules: A is valid and imports nothing, B is valid and imports   *)
(* the wasi host module, C fails validation; G does not parse.             *)
(***************************************************************************)
EXTENDS ExpVM, TLC

CONSTANTS A, B, C

MCImports == (A :> {} @@ B :> {"wasi"} @@ C :> {})

=============================================================================
