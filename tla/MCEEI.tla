-------------------------------- MODULE MCEEI --------------------------------
EXTENDS EEI

(***************************************************************************)
(* A limit of 100000 leaves the caller less than 64 * 9000 gas, so that    *)
(* the transfer charge can eat into the gas getMaxCallGas promised; a      *)
(* limit of 1000000 does not.  A burst of 20000 gas moves the gas left.    *)
(***************************************************************************)
MCCostLimits == {100000, 1000000}

=============================================================================
