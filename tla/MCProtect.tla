------------------------------ MODULE MCProtect ------------------------------
(* Instances of Protect for TLC. *)
EXTENDS Protect, TLC

CONSTANTS d1, d2, bad, a1

AnyFault == Fault
=============================================================================
