---------------------------- MODULE MCAppletBridge ----------------------------
(* Instances of AppletBridge small enough for TLC. *)
EXTENDS AppletBridge, TLC
==============================================================================
