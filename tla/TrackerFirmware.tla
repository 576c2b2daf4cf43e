---------------------------- MODULE TrackerFirmware ----------------------------
(***************************************************************************)
(* The ESP32 cargo tracker (firmware/main: main.c, client.c, sensor.c) and *)
(* the server it reports to. Two tasks on two cores: the sampling task     *)
(* keeps the peak acceleration, the report task reads it, resets it, seals *)
(* it under the server's Kyber key, which was fetched once at boot, and    *)
(* posts it. Temperature, the beacon's nonce and the KMS signature, which  *)
(* the server ignores on this route, are left out.                         *)
(***************************************************************************)
EXTENDS ServerKeys

CONSTANTS
    MaxG,           \* bound: levels of acceleration
    MaxPowerCycles  \* bound: power cycles of the tracker

ASSUME TrackerAssumption ==
    /\ MaxG \in Nat \ {0}
    /\ MaxPowerCycles \in Nat

VARIABLES
    pubkey,     \* s_server_pubkey, with the server's pair it belongs to
    peak,       \* peak_g
    sample,     \* the sampling task: a level it found above the peak, or 0
    report,     \* the report task: what it does next and the peak it took
    cycles,     \* power cycles so far
    owed,       \* history: the highest level stored whose report is still to end
    refused     \* history: pairs that packets were sealed under which got a 422, though
                \* the server had not failed to read them

deviceVars == <<pubkey, peak, sample, report, cycles, owed, refused>>
vars == <<keyVars, deviceVars>>

Waiting == [does |-> "wait", peak |-> 0]

Init ==
    /\ KeysInit
    /\ pubkey = NoKey
    /\ peak = 0 /\ sample = 0
    /\ report = [does |-> "boot", peak |-> 0]
    /\ cycles = 0
    /\ owed = 0
    /\ refused = {}

-----------------------------------------------------------------------------
\* app_main asks for the key, with a server or without: client_fetch_pubkey is not
\* tried again. The tasks are started after it.
FetchKey ==
    /\ report.does = "boot"
    /\ pubkey' \in Served \union {NoKey}
    /\ report' = Waiting
    /\ UNCHANGED <<keyVars, peak, sample, cycles, owed, refused>>

\* sensor_task: sensor_read_g compares a level with the peak ...
Measure(g) ==
    /\ report.does # "boot"
    /\ sample = 0 /\ g > peak
    /\ sample' = g
    /\ UNCHANGED <<keyVars, pubkey, peak, report, cycles, owed, refused>>

\* ... and stores it. Meanwhile the other core may have reset the peak.
StorePeak ==
    /\ sample # 0
    /\ peak' = sample
    /\ owed' = IF sample > owed THEN sample ELSE owed
    /\ sample' = 0
    /\ UNCHANGED <<keyVars, pubkey, report, cycles, refused>>

\* print_report: sensor_get_peak_g ...
TakePeak ==
    /\ report.does = "wait"
    /\ report' = [does |-> "reset", peak |-> peak]
    /\ UNCHANGED <<keyVars, pubkey, peak, sample, cycles, owed, refused>>

\* Fault: the report takes what the reset leaves.
TakenAfterReset == 0

\* The peak the report goes on with.
Taken == report.peak

\* History: what is owed once no more than level is left.
OwedUpTo(level) == IF owed <= level THEN owed ELSE level

\* ... and sensor_reset_peak_g. What was stored in between is overwritten.
ResetPeak ==
    /\ report.does = "reset"
    /\ peak' = 0
    /\ owed' = IF peak > report.peak THEN OwedUpTo(report.peak) ELSE owed
    /\ report' = [does |-> "seal", peak |-> Taken]
    /\ UNCHANGED <<keyVars, pubkey, sample, cycles, refused>>

\* client_encrypt: without a public key, or with one of the wrong length, the report
\* is skipped.
Seal ==
    /\ report.does = "seal"
    /\ \/ /\ pubkey.held /\ pubkey.part = "all"
          /\ report' = [report EXCEPT !.does = "post"]
          /\ UNCHANGED owed
       \/ /\ ~(pubkey.held /\ pubkey.part = "all")
          /\ report' = Waiting
          /\ owed' = OwedUpTo(peak)
    /\ UNCHANGED <<keyVars, pubkey, peak, sample, cycles, refused>>

\* client_post: the server accepts the packet, or answers 422, or the call fails.
\* The report is over in any case.
Post ==
    /\ report.does = "post"
    /\ report' = Waiting
    /\ owed' = OwedUpTo(peak)
    /\ \/ UNCHANGED refused
       \/ /\ boot = Up /\ ~Decrypts(pubkey.id)
          /\ refused' = refused \union ({pubkey.id} \ unread["kyber"])
    /\ UNCHANGED <<keyVars, pubkey, peak, sample, cycles>>

\* The power is cut: all of this was in RAM.
PowerCycle ==
    /\ cycles < MaxPowerCycles
    /\ cycles' = cycles + 1
    /\ pubkey' = NoKey
    /\ peak' = 0 /\ sample' = 0
    /\ report' = [does |-> "boot", peak |-> 0]
    /\ owed' = 0
    /\ UNCHANGED <<keyVars, refused>>

DeviceNext ==
    \/ FetchKey \/ StorePeak \/ TakePeak \/ ResetPeak \/ Seal \/ Post \/ PowerCycle
    \/ \E g \in 1..MaxG : Measure(g)

Next == DeviceNext \/ (KeysNext /\ UNCHANGED deviceVars)

Spec == Init /\ [][Next]_vars

-----------------------------------------------------------------------------
\* Properties.

\* A tracker whose packets the server refuses holds a key the server had to lose: no
\* packet sealed under the pair of the environment, or under one that ever was whole
\* on the volume, gets a 422, but from a server that failed to read that pair when it
\* last tried.
RefusedOnlyAfterKeyLoss ==
    \A id \in refused : id # 0 /\ id \notin saved["kyber"]

\* A shock that the sampling task has stored is not lost between the two tasks: until
\* its report is over, accepted or given up, it is in the report under way or still in
\* the sensor's peak, unless the power was cut or it was stored between the reading of
\* the peak and the reset, which overwrites it.
ShockIsAccountedFor == owed <= report.peak \/ owed <= peak
===============================================================================
