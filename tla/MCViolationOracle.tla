-------------------------- MODULE MCViolationOracle --------------------------
(* Instances of ViolationOracle small enough for TLC. *)
EXTENDS ViolationOracle, TLC
==============================================================================
