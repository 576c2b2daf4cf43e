--------------------------- MODULE MCTrackerRegistry ---------------------------
(* Instances of TrackerRegistry small enough for TLC. *)
EXTENDS TrackerRegistry, TLC

\* No step tells one tracker, request, field or value from another.
Symmetric ==
    Permutations(Trackers) \union Permutations(Requests)
      \union Permutations(Fields) \union Permutations(Values)
===============================================================================
