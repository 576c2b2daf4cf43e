----------------------------- MODULE MCPqcDevice -----------------------------
(* Instances of PqcDevice small enough for TLC. *)
EXTENDS PqcDevice, TLC
==============================================================================
