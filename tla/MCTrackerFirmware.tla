--------------------------- MODULE MCTrackerFirmware ---------------------------
(* Instances of TrackerFirmware, with its server, small enough for TLC. *)
EXTENDS TrackerFirmware, TLC
===============================================================================
