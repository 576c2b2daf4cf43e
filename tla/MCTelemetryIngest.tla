-------------------------- MODULE MCTelemetryIngest --------------------------
(* Instances of TelemetryIngest, and of its readers, small enough for TLC. *)
EXTENDS HistoryReaders, TLC

\* Package limits, the permissive defaults, and one reading on each side of the defaults:
\* over the package limits only, by braking (a negative overload), and over both.
Strict == [maxTemp |-> 1, maxAccel |-> 1]
Permissive == [maxTemp |-> 2, maxAccel |-> 2]
SampleReadings == {[temp |-> 1, accel |-> -2], [temp |-> 3, accel |-> 0]}

StrictPackages == {Strict}

\* Kilometres along a meridian: the braking happens at 10; the other reading knows no
\* place.
SamplePlaces == [r \in SampleReadings |-> IF r.accel # 0 THEN {10} ELSE {}]

\* Past the place, twice near it, and three times.
SampleRoutes == {<<0, 20>>, <<11, 12>>, <<8, 10, 12>>}
==============================================================================
