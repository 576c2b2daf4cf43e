--------------------------- MODULE TelemetryIngest ---------------------------
(***************************************************************************)
(* The backend's telemetry pipeline: POST /sensors/data, POST              *)
(* /sensors/encrypted-data and POST /packages/ (gigaservice/api/sensors.py,*)
(* api/packages.py) over the Swarm store and the JSON index file           *)
(* (storage/swarm.py). Handlers are asyncio tasks of one process: a step   *)
(* is the code between two awaits that touch shared state, and every index *)
(* operation is one step because it runs under _index_lock. Bee may refuse *)
(* any upload or download, the disk may fail any read or write of the index*)
(* file, and the process may stop between two steps or inside a write.     *)
(***************************************************************************)
EXTENDS Integers, Sequences, FiniteSets

CONSTANTS
    Devices,
    Packets,        \* the packets devices send, one request each
    Readings,       \* [temp, accel] values a packet may carry
    Packages,       \* conditions a provider registers: [maxTemp, maxAccel]
    Default,        \* _DEFAULT_CONDITIONS, the "__default__" sentinel
    MaxPackages,    \* bound: POST /packages/ calls
    MaxRestarts     \* bound: process restarts

ASSUME IngestAssumption ==
    /\ Default \notin Packages
    /\ 0 \notin Packets        \* Python's None is no packet
    /\ MaxPackages \in Nat
    /\ MaxRestarts \in Nat

VARIABLES
    index,      \* device -> Absent or its entry in the index file, when it last was JSON
    fileOK,     \* the index file holds valid JSON
    store,      \* Swarm: the telemetry records, a reference is a position
    cache,      \* CONDITIONS_CACHE: the conditions already downloaded
    req,        \* packet -> the handler's locals
    tasks,      \* packets whose _handle_violation is queued
    handled,    \* packets whose _handle_violation has run
    packages,   \* POST /packages/ calls so far
    restarts,   \* process restarts so far
    linked,     \* history: device -> references linked since its last registration
    raced,      \* history: devices two of whose requests ran at the same time
    missed      \* history: packets whose last_reading write failed

vars == <<index, fileOK, store, cache, req, tasks, handled, packages, restarts,
          linked, raced, missed>>

None == 0                               \* Python's None, for a reference
Absent == [registered |-> FALSE]        \* no entry under the device's key

Entry(conditions, latest, last) ==
    [registered |-> TRUE, conditions |-> conditions, latest |-> latest, last |-> last]

Fresh == [pc |-> "none"]

\* A handler's locals once the packet is in: entry is the snapshot it read.
Running(pc, d, r) ==
    [pc |-> pc, dev |-> d, reading |-> r, entry |-> Absent, valid |-> TRUE, hash |-> None]

Finished == {"none", "done", "rejected", "lost"}
InFlight(p) == req[p].pc \notin Finished
BusyOn(d) == {p \in Packets : InFlight(p) /\ req[p].dev = d}

Init ==
    /\ index = [d \in Devices |-> Absent]
    /\ fileOK = TRUE
    /\ store = <<>>
    /\ cache = {}
    /\ req = [p \in Packets |-> Fresh]
    /\ tasks = {} /\ handled = {}
    /\ packages = 0 /\ restarts = 0
    /\ linked = [d \in Devices |-> {}]
    /\ raced = {}
    /\ missed = {}

-----------------------------------------------------------------------------
\* Moving a handler on.

Goto(p, pc) == req' = [req EXCEPT ![p].pc = pc]

\* get_device_entry raises, as it does whenever the file is not JSON, and the handler
\* does not catch it: the request ends with an error.
ReadFails(p) ==
    /\ Goto(p, "rejected")
    /\ UNCHANGED <<index, fileOK, store, cache, tasks, handled, packages, restarts,
                   linked, raced, missed>>

\* set_device_entry raises: before its write, so the file is what it was, or inside
\* _raw_write, which truncates the file first, so it is no longer JSON.
WriteFails ==
    /\ fileOK' \in {fileOK, FALSE}
    /\ UNCHANGED <<index, linked>>

-----------------------------------------------------------------------------
\* The rules engine.

Abs(x) == IF x < 0 THEN -x ELSE x

\* The violation reasons of a reading under given conditions.
Violations(r, c) ==
    {m \in {"temp", "accel"} :
        IF m = "temp" THEN r.temp > c.maxTemp ELSE Abs(r.accel) > c.maxAccel}

-----------------------------------------------------------------------------
\* The handlers.

\* A packet reaches one of the two endpoints. On /data a bad signature is
\* answered 403 and an absent one is accepted; on /encrypted-data a packet that
\* does not decrypt or parse is answered 422. The accepted one goes on to the
\* index, through the registration check if it came encrypted.
Arrive(p, d, r) ==
    /\ req[p].pc = "none"
    /\ \E pc \in {"lookup", "register", "rejected"} : req' = [req EXCEPT ![p] = Running(pc, d, r)]
    /\ raced' = IF BusyOn(d) # {} /\ req'[p].pc # "rejected" THEN raced \union {d} ELSE raced
    /\ UNCHANGED <<index, fileOK, store, cache, tasks, handled, packages, restarts, linked, missed>>

\* Fault: a device without telemetry counts as unknown.
KnownByChain(d) == index[d].registered /\ index[d].latest # None

\* receive_encrypted_sensor_data: is the device known?
Known(d) == index[d].registered

CheckRegistered(p) ==
    /\ req[p].pc = "register"
    /\ \/ ReadFails(p)
       \/ /\ fileOK
          /\ Goto(p, IF Known(req[p].dev) THEN "lookup" ELSE "adopt")
          /\ UNCHANGED <<index, fileOK, store, cache, tasks, handled, packages, restarts,
                         linked, raced, missed>>

\* The auto-registration of an unknown device, decided on the earlier read.
Adopt(p) ==
    LET d == req[p].dev IN
    /\ req[p].pc = "adopt"
    /\ \/ WriteFails /\ Goto(p, "rejected")
       \/ /\ fileOK
          /\ index' = [index EXCEPT ![d] =
                         Entry(Default, None, IF @.registered THEN @.last ELSE None)]
          /\ linked' = [linked EXCEPT ![d] = {}]
          /\ Goto(p, "lookup")
          /\ UNCHANGED fileOK
    /\ UNCHANGED <<store, cache, tasks, handled, packages, restarts, raced, missed>>

\* receive_sensor_data reads the entry; 404 when there is none.
Lookup(p) ==
    LET d == req[p].dev IN
    /\ req[p].pc = "lookup"
    /\ \/ ReadFails(p)
       \/ /\ fileOK
          /\ req' = IF index[d].registered
                    THEN [req EXCEPT ![p].pc = "judge", ![p].entry = index[d]]
                    ELSE [req EXCEPT ![p].pc = "rejected"]
          /\ UNCHANGED <<index, fileOK, store, cache, tasks, handled, packages, restarts,
                         linked, raced, missed>>

\* _get_conditions and the rules: package conditions come from the cache or from
\* Bee; when Bee does not answer, the default conditions judge the reading.
Judge(p) ==
    LET wanted == req[p].entry.conditions IN
    /\ req[p].pc = "judge"
    /\ \E used \in {wanted, Default} :
         /\ used # wanted => wanted \notin cache
         /\ cache' = IF used \in Packages THEN cache \union {used} ELSE cache
         /\ req' = [req EXCEPT ![p].pc = "note",
                               ![p].valid = Violations(req[p].reading, used) = {}]
    /\ UNCHANGED <<index, fileOK, store, tasks, handled, packages, restarts, linked, raced, missed>>

\* Fault: the write replaces the entry instead of merging into it.
ReplacedReading(p) == [registered |-> TRUE, last |-> p]

\* Fault: only a valid reading reaches the dashboard.
ValidReadingOnly(p) ==
    IF req[p].valid THEN [index[req[p].dev] EXCEPT !.last = p] ELSE index[req[p].dev]

\* What set_device_entry(device, last_reading=...) makes of the entry on file.
MergedReading(p) == [index[req[p].dev] EXCEPT !.last = p]

\* The last_reading write. Its failure is swallowed ("dashboard may lag").
Note(p) ==
    /\ req[p].pc = "note"
    /\ \/ /\ fileOK
          /\ index' = [index EXCEPT ![req[p].dev] = MergedReading(p)]
          /\ UNCHANGED <<fileOK, missed>>
       \/ /\ WriteFails
          /\ missed' = missed \union {p}
    /\ Goto(p, "upload")
    /\ UNCHANGED <<store, cache, tasks, handled, packages, restarts, linked, raced>>

\* Fault: the key the link is written under is not the key it is read from.
PrevForgotten(p) == None

\* prev_hash: the head of the chain as the handler's first read saw it.
Prev(p) == req[p].entry.latest

Record(p) ==
    [dev |-> req[p].dev, packet |-> p, valid |-> req[p].valid, prev |-> Prev(p)]

\* upload_json: Bee stores the record and answers its reference; or the call fails,
\* before or after Bee stored it, and the handler swallows that and skips the link.
Upload(p) ==
    /\ req[p].pc = "upload"
    /\ \/ /\ store' = Append(store, Record(p))
          /\ req' = [req EXCEPT ![p].pc = "link", ![p].hash = Len(store) + 1]
       \/ /\ store' \in {store, Append(store, Record(p))}
          /\ Goto(p, "finish")
    /\ UNCHANGED <<index, fileOK, cache, tasks, handled, packages, restarts, linked, raced, missed>>

\* set_device_entry(latest_telemetry_hash=...). A failure is swallowed and the
\* reference is kept.
Link(p) ==
    LET d == req[p].dev IN
    /\ req[p].pc = "link"
    /\ \/ /\ fileOK
          /\ index' = [index EXCEPT ![d].latest = req[p].hash]
          /\ linked' = [linked EXCEPT ![d] = @ \union {req[p].hash}]
          /\ UNCHANGED fileOK
       \/ WriteFails
    /\ Goto(p, "finish")
    /\ UNCHANGED <<store, cache, tasks, handled, packages, restarts, raced, missed>>

\* Fault: the alarm is raised on the verdict alone.
AlarmOnVerdict(p) == ~req[p].valid

\* Fault: the alarm also waits for the link to be the head still.
AlarmIfHead(p) ==
    ~req[p].valid /\ req[p].hash # None /\ index[req[p].dev].latest = req[p].hash

\* The condition on which _handle_violation is queued.
Alarm(p) == ~req[p].valid /\ req[p].hash # None

\* The response, with the background task it carries.
Finish(p) ==
    /\ req[p].pc = "finish"
    /\ tasks' = IF Alarm(p) THEN tasks \union {p} ELSE tasks
    /\ Goto(p, "done")
    /\ UNCHANGED <<index, fileOK, store, cache, handled, packages, restarts, linked, raced, missed>>

\* The queued task runs (what it does is the oracle's business).
RunTask(p) ==
    /\ p \in tasks
    /\ tasks' = tasks \ {p}
    /\ handled' = handled \union {p}
    /\ UNCHANGED <<index, fileOK, store, cache, req, packages, restarts, linked, raced, missed>>

\* create_package: the conditions are uploaded, then the entry is written with an
\* empty chain. An upload that fails leaves nothing behind.
CreatePackage(d, c) ==
    /\ packages < MaxPackages
    /\ packages' = packages + 1
    /\ \/ /\ fileOK
          /\ index' = [index EXCEPT ![d] = Entry(c, None, IF @.registered THEN @.last ELSE None)]
          /\ linked' = [linked EXCEPT ![d] = {}]
          /\ raced' = IF BusyOn(d) # {} THEN raced \union {d} ELSE raced
          /\ UNCHANGED fileOK
       \/ WriteFails /\ UNCHANGED raced
    /\ UNCHANGED <<store, cache, req, tasks, handled, restarts, missed>>

-----------------------------------------------------------------------------
\* Failures.

\* Some handler may be inside _raw_write, which truncates the file first: one that
\* has a write to make, or a create_package.
Writing == packages < MaxPackages \/ \E p \in Packets : req[p].pc \in {"adopt", "note", "link"}

\* The process stops and is started again; its tasks and its cache were in memory.
\* Stopped inside _raw_write it leaves a file that is not JSON.
Restart ==
    /\ restarts < MaxRestarts
    /\ restarts' = restarts + 1
    /\ fileOK' \in (IF Writing THEN {fileOK, FALSE} ELSE {fileOK})
    /\ cache' = {}
    /\ tasks' = {}
    /\ req' = [p \in Packets |-> IF InFlight(p) THEN [req[p] EXCEPT !.pc = "lost"] ELSE req[p]]
    /\ UNCHANGED <<index, store, handled, packages, linked, raced, missed>>

-----------------------------------------------------------------------------
Step(p) ==
    \/ CheckRegistered(p) \/ Adopt(p) \/ Lookup(p) \/ Judge(p) \/ Note(p)
    \/ Upload(p) \/ Link(p) \/ Finish(p)

Next ==
    \/ \E p \in Packets, d \in Devices, r \in Readings : Arrive(p, d, r)
    \/ \E p \in Packets : Step(p) \/ RunTask(p)
    \/ \E d \in Devices, c \in Packages : CreatePackage(d, c)
    \/ Restart

\* The event loop runs every handler and every queued task; nothing makes packets
\* arrive, packages be registered, or the process stop.
Fairness == \A p \in Packets : WF_vars(Step(p)) /\ WF_vars(RunTask(p))

Spec == Init /\ [][Next]_vars /\ Fairness

-----------------------------------------------------------------------------
\* Properties.

Entries ==
    {Absent} \union
    [registered : {TRUE}, conditions : Packages \union {Default},
     latest : 0..Len(store), last : Packets \union {None}]

PCs == {"register", "adopt", "lookup", "judge", "note", "upload", "link", "finish",
        "done", "rejected", "lost"}

TypeOK ==
    /\ index \in [Devices -> Entries]
    /\ fileOK \in BOOLEAN
    /\ \A h \in 1..Len(store) :
         store[h] \in [dev : Devices, packet : Packets, valid : BOOLEAN, prev : 0..Len(store)]
    /\ cache \subseteq Packages
    /\ \A p \in Packets :
         \/ req[p] = Fresh
         \/ req[p] \in [pc : PCs, dev : Devices, reading : Readings, entry : Entries,
                        valid : BOOLEAN, hash : 0..Len(store)]
    /\ tasks \subseteq Packets /\ handled \subseteq Packets
    /\ packages \in 0..MaxPackages /\ restarts \in 0..MaxRestarts
    /\ linked \in [Devices -> SUBSET (1..Len(store))]
    /\ raced \subseteq Devices
    /\ missed \subseteq Packets

\* The references the history endpoint visits from a head.
ChainFrom(head) ==
    LET chain[h \in 0..Len(store)] ==
            IF h = None THEN {} ELSE {h} \union chain[store[h].prev]
    IN  chain[head]

\* A device whose requests never overlapped has exactly the records it linked since
\* its last registration in its history: nothing lost, nothing of an older package.
SerialChainExact ==
    \A d \in Devices \ raced :
        fileOK /\ index[d].registered => ChainFrom(index[d].latest) = linked[d]

\* Whatever is reported on chain is backed: the reference sent as telemetryProof is
\* a stored record of that packet and that device, and it says the reading is bad.
AlarmsAreBacked ==
    \A p \in tasks \union handled :
        /\ req[p].hash # None
        /\ LET r == store[req[p].hash] IN
           r.packet = p /\ r.dev = req[p].dev /\ ~r.valid

\* The reading a device's dashboard shows is the head of its history, unless it never got
\* into the history, or the head's own reading never got to the dashboard because that
\* write failed.
DashboardTracksChain ==
    \A d \in Devices \ raced :
        fileOK /\ index[d].registered /\ index[d].latest # None =>
            LET last == index[d].last
                head == store[index[d].latest].packet
            IN  \/ head = last
                \/ last # None /\ req[last].hash \notin linked[d]
                \/ head \in missed

\* Conditions a provider registered are not replaced by the permissive defaults, for
\* a device whose requests do not overlap.
PackageConditionsStick ==
    [][\A d \in Devices :
         d \notin raced' /\ index[d].registered /\ index[d].conditions # Default =>
            index'[d].conditions # Default]_vars

\* A violating reading that Bee stored ends up with the violation handler, unless
\* the process restarts first.
StoredViolationIsHandled ==
    \A p \in Packets, n \in 0..MaxRestarts :
        (req[p].pc = "link" /\ ~req[p].valid /\ restarts = n)
            ~> (p \in handled \/ restarts > n)

\* What ARCHITECTURE.md says of the history: an append-only list. Every record ever
\* linked since the device was registered is in it.
NothingLinkedIsLost ==
    \A d \in Devices :
        fileOK /\ index[d].registered => linked[d] \subseteq ChainFrom(index[d].latest)
==============================================================================
