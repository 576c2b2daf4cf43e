---------------------------- MODULE HistoryReaders ----------------------------
(***************************************************************************)
(* The readers of the telemetry chains: GET /packages/{id}/history         *)
(* (gigaservice/api/packages.py), GET /sensors/latest (api/sensors.py),    *)
(* GET /dashboard/devices and /devices/{id} (api/dashboard.py), GET        *)
(* /stats/hotspots and POST /stats/analyze-route (api/stats.py). Each      *)
(* reads the index once, under its lock, and then follows references,      *)
(* which never change what they refer to: whatever is written meanwhile,   *)
(* an answer is a function of the state at that one reading, and of the    *)
(* references that Bee does not answer.                                    *)
(***************************************************************************)
EXTENDS TelemetryIngest, SequencesExt

CONSTANTS
    Place,          \* Readings -> where it was taken, {} if lat or lon is None
    MaxDepth,       \* _MAX_DEPTH
    Limits,         \* the limit parameter of /dashboard/devices/{id}
    RiskRadius,     \* _RISK_RADIUS_KM
    Routes          \* sequences of waypoints to analyse

ASSUME ReadersAssumption ==
    /\ Place \in [Readings -> SUBSET Int]
    /\ MaxDepth \in Nat
    /\ Limits \subseteq Nat \ {0}
    /\ RiskRadius \in Nat
    /\ Routes \subseteq Seq(Int)

\* Where the record says it was taken.
PlaceOf(h) == Place[req[store[h].packet].reading]

\* The head of a device's chain.
ChainHead(d) == IF index[d].registered THEN index[d].latest ELSE None

-----------------------------------------------------------------------------
\* GET /packages/{id}/history.

\* The request fails as a whole.
Failed == [ok |-> FALSE, records |-> <<>>]

\* get_package_history follows the chain to its end, however long, and answers oldest
\* first; a download that raises fails the request.
PackageHistory(d, down) ==
    LET oldestFirst[h \in 0..Len(store)] ==
            IF h = None THEN <<>> ELSE Append(oldestFirst[store[h].prev], h)
        records == oldestFirst[ChainHead(d)]
    IN  IF Range(records) \intersect down # {} THEN Failed
        ELSE [ok |-> TRUE, records |-> records]

-----------------------------------------------------------------------------
\* GET /sensors/latest and GET /dashboard.

\* get_latest.
Latest(d, down) == IF ChainHead(d) \in down THEN None ELSE ChainHead(d)

\* list_devices and stream_devices: a row for each device of the index, from the index
\* alone.
DeviceList ==
    {[dev |-> d, head |-> index[d].latest, last |-> index[d].last] :
        d \in {e \in Devices : index[e].registered}}

\* current_hash once these rows are listed.
NextFrom(head, rows) == IF rows = <<>> THEN head ELSE store[rows[Len(rows)]].prev

\* One turn of get_device's loop: the next record is listed, and the loop is over when
\* there is none, or when its download failed (_fetch_latest answers None).
Turn(head, rows, down) ==
    LET next == NextFrom(head, rows)
    IN  IF next \in down \union {None} THEN rows ELSE Append(rows, next)

\* Fault: the loop goes on while depth <= limit.
DetailOneMore(head, limit, down) ==
    LET rows[depth \in 0..(limit + 1)] ==
            IF depth = 0 THEN <<>> ELSE Turn(head, rows[depth - 1], down)
    IN  rows[limit + 1]

\* The rows get_device lists from a head, newest first: at most limit of them.
DetailRows(head, limit, down) ==
    LET rows[depth \in 0..limit] ==
            IF depth = 0 THEN <<>> ELSE Turn(head, rows[depth - 1], down)
    IN  rows[limit]

DeviceDetail(d, limit, down) == DetailRows(ChainHead(d), limit, down)

-----------------------------------------------------------------------------
\* GET /stats/hotspots and POST /stats/analyze-route.

\* A record that _collect_hotspots keeps: a violation whose place is known.
Hotspot(h) == ~store[h].valid /\ PlaceOf(h) # {}

\* One turn of its loop over a device's records: a download that raises breaks it.
HotspotTurn(loop, down) ==
    IF loop.current \in down \union {None} THEN loop
    ELSE [current |-> store[loop.current].prev,
          spots |-> loop.spots \union {h \in {loop.current} : Hotspot(h)}]

\* Fault: the depth is counted after the test, not before.
HotspotsOneMore(head, down) ==
    LET loop[depth \in 0..(MaxDepth + 1)] ==
            IF depth = 0 THEN [current |-> head, spots |-> {}]
            ELSE HotspotTurn(loop[depth - 1], down)
    IN  loop[MaxDepth + 1].spots

\* The hotspots from a head, as far back as MaxDepth.
HotspotsFrom(head, down) ==
    LET loop[depth \in 0..MaxDepth] ==
            IF depth = 0 THEN [current |-> head, spots |-> {}]
            ELSE HotspotTurn(loop[depth - 1], down)
    IN  loop[MaxDepth].spots

\* _collect_hotspots: a failed download ends the part of its own device only.
DeviceHotspots(d, down) == HotspotsFrom(ChainHead(d), down)
Hotspots(down) == UNION {DeviceHotspots(d, down) : d \in Devices}

\* haversine_km between two places of one meridian.
Distance(a, b) == Abs(a - b)

Near(place, spots) ==
    \E h \in spots : \E at \in PlaceOf(h) : Distance(place, at) <= RiskRadius

\* analyze_route: one warning for each waypoint that has a hotspot near it.
Warnings(route, spots) == Cardinality({i \in DOMAIN route : Near(route[i], spots)})

RiskLevel(route, spots) ==
    CASE Warnings(route, spots) = 0 -> 0
      [] Warnings(route, spots) \in 1..2 -> 1
      [] OTHER -> 2

-----------------------------------------------------------------------------
\* Properties.

\* Any references that Bee may not answer.
Outages == SUBSET (1..Len(store))

\* The history of a device, newest first, when Bee answers everything.
NewestFirst(d) == Reverse(PackageHistory(d, {}).records)

\* The dashboard's loop, which counts and gives up, lists what the history's loop, which
\* does neither, answers: the end of it, newest first, as much as limit and Bee allow;
\* its first row is the latest reading and the one the list of devices points to. The
\* history itself is answered whole or not at all.
DashboardShowsHistory ==
    \A d \in Devices, limit \in Limits, down \in Outages :
        LET rows == DeviceDetail(d, limit, down)
            full == NewestFirst(d)
        IN  /\ IsPrefix(rows, full)
            /\ down = {} => Len(rows) = IF Len(full) < limit THEN Len(full) ELSE limit
            /\ rows # <<>> =>
                 /\ Latest(d, down) = rows[1]
                 /\ \E row \in DeviceList : row.dev = d /\ row.head = rows[1]
            /\ PackageHistory(d, down) \in {Failed, PackageHistory(d, {})}

\* The map's loop, which tests before it counts and keeps only some records, keeps the
\* placed violations among the newest MaxDepth records of the history, up to the first
\* that Bee withholds; so an outage may hide a danger, and never raises a route's risk.
\* (Violations from before the device's last registration are not in its history, and
\* so not on the map, whatever api/stats.py says of "all" of them.)
HotspotsAreHistory ==
    /\ \A d \in Devices, down \in Outages :
         LET full == NewestFirst(d)
             reached == {i \in DOMAIN full :
                           i <= MaxDepth /\ \A j \in 1..i : full[j] \notin down}
         IN  DeviceHotspots(d, down) =
               {h \in {full[i] : i \in reached} : ~store[h].valid /\ PlaceOf(h) # {}}
    /\ \A down \in Outages, route \in Routes :
         RiskLevel(route, Hotspots(down)) <= RiskLevel(route, Hotspots({}))
===============================================================================
