---------------------------- MODULE ShipmentProofs ----------------------------
(***************************************************************************)
(* Proofs about ColdChainShipment, for any number of wallets, shipments    *)
(* and blocks, and about ViolationOracle, for any number of jobs and       *)
(* failures. Every property of one shipment is the property of the record, *)
(* so the record operators are treated first (SoundRecord), and the steps  *)
(* of the contract are then a matter of which record they write. Whatever  *)
(* the backend and the node do, the contract only takes its own steps, so  *)
(* its theorems hold in the composition; on top of them come the nonces of *)
(* the server's wallet, the evidence behind a breach, and the reports that *)
(* get through.                                                            *)
(***************************************************************************)
EXTENDS ViolationOracle, FiniteSetTheorems, TLAPS

-----------------------------------------------------------------------------
\* The contract alone.

\* What a shipment's record satisfies in every reachable state, at time t.
SoundRecord(s, t) ==
    /\ (s.status = "DELIVERED") <=> (s.trackerState = "GOOD" /\ s.receiverConfirmed)
    /\ (s.telemetryProof = Empty) <=> (s.trackerState = "UNKNOWN")
    /\ (s.trackerState = "BAD") <=> (s.status = "BREACHED")
    /\ s.status = "CREATED" => s.trackerState = "UNKNOWN" /\ ~s.receiverConfirmed
    /\ s.createdAt <= t
    /\ IF s.status = "DELIVERED"
       THEN s.createdAt <= s.deliveredAt /\ s.deliveredAt <= t
       ELSE s.deliveredAt = 0

\* What a write to a shipment leaves alone: parties, cargo, creation time, and a
\* confirmation once it is given.
KeepsRecord(s, u) ==
    /\ u.sender = s.sender /\ u.receiver = s.receiver
    /\ u.trackerService = s.trackerService
    /\ u.packageRef = s.packageRef /\ u.createdAt = s.createdAt
    /\ s.receiverConfirmed => u.receiverConfirmed

\* A write the contract makes to a stored shipment.
GoodWrite(s, u) == u \in Shipment /\ SoundRecord(u, now) /\ KeepsRecord(s, u)

\* The inductive invariant. Beside the invariants TLC checks it only says that
\* no shipment was created in the future, which DeliveryIsDated needs.
ContractInv ==
    /\ ContractTypeOK
    /\ \A i \in Issued : SoundRecord(shipments[i], now)

\* The invariant contains the three state properties of the contract.
LEMMA ContractInvGivesProperties ==
    ContractInv => DeliveredExactlyWhenBoth /\ VerdictHasEvidence /\ DeliveryIsDated
BY DEF ContractInv, SoundRecord, DeliveredExactlyWhenBoth, VerdictHasEvidence, DeliveryIsDated

\* The operators that write a record keep it well typed and sound.
LEMMA GoodReportSound ==
    ASSUME NEW s \in Shipment, NEW p \in Proofs, now \in 1..MaxTime,
           Active(s), SoundRecord(s, now)
    PROVE  GoodWrite(s, GoodReport(s, p))
<1> DEFINE u == [s EXCEPT !.telemetryProof = p, !.trackerState = "GOOD", !.status = "IN_TRANSIT"]
<1>1. u \in Shipment /\ KeepsRecord(s, u) /\ u.status = "IN_TRANSIT" /\ u.trackerState = "GOOD"
      /\ u.telemetryProof = p /\ u.receiverConfirmed = s.receiverConfirmed
      /\ u.createdAt = s.createdAt /\ u.deliveredAt = s.deliveredAt
  BY DEF Shipment, TrackerState, ShipmentStatus, KeepsRecord
<1>2. s.deliveredAt = 0 /\ s.createdAt <= now /\ p # Empty
  BY ContractAssumption DEF Active, SoundRecord
<1>3. GoodReport(s, p) = TryCompleteShipment(u)
  BY DEF GoodReport
<1> HIDE DEF u
<1>4. CASE u.receiverConfirmed
  <2> DEFINE v == [u EXCEPT !.status = "DELIVERED", !.deliveredAt = now]
  <2>1. TryCompleteShipment(u) = v
    BY <1>1, <1>4 DEF TryCompleteShipment
  <2>2. v \in Shipment
    <3>1. now \in 0..MaxTime
      BY ContractAssumption
    <3>2. [u EXCEPT !.status = "DELIVERED"] \in Shipment
      BY <1>1 DEF Shipment, ShipmentStatus
    <3>3. QED BY <3>1, <3>2 DEF Shipment
  <2>3. v.status = "DELIVERED" /\ v.deliveredAt = now
        /\ v.trackerState = "GOOD" /\ v.telemetryProof = p
        /\ v.receiverConfirmed /\ v.createdAt = s.createdAt
    BY <1>1, <1>4 DEF Shipment
  <2>4. KeepsRecord(s, v)
    BY <1>1, <1>4 DEF Shipment, KeepsRecord
  <2> HIDE DEF v
  <2>5. QED BY <1>2, <1>3, <2>1, <2>2, <2>3, <2>4 DEF GoodWrite, SoundRecord, Shipment
<1>5. CASE ~u.receiverConfirmed
  <2>1. TryCompleteShipment(u) = u
    BY <1>5 DEF TryCompleteShipment
  <2>2. QED BY <1>1, <1>2, <1>3, <1>5, <2>1 DEF GoodWrite, SoundRecord
<1>6. QED BY <1>4, <1>5

\* The same for a bad report, which never completes the shipment.
LEMMA BadReportSound ==
    ASSUME NEW s \in Shipment, NEW p \in Proofs, Active(s), SoundRecord(s, now)
    PROVE  GoodWrite(s, BadReport(s, p))
<1> DEFINE u == BadReport(s, p)
<1>1. u \in Shipment /\ KeepsRecord(s, u) /\ u.status = "BREACHED" /\ u.trackerState = "BAD"
      /\ u.telemetryProof = p /\ u.receiverConfirmed = s.receiverConfirmed
      /\ u.createdAt = s.createdAt /\ u.deliveredAt = s.deliveredAt
  BY DEF BadReport, Shipment, TrackerState, ShipmentStatus, KeepsRecord
<1>2. s.deliveredAt = 0 /\ s.createdAt <= now /\ p # Empty
  BY ContractAssumption DEF Active, SoundRecord
<1> HIDE DEF u
<1>3. SoundRecord(u, now)
  BY <1>1, <1>2 DEF SoundRecord
<1>4. QED BY <1>1, <1>3 DEF u, GoodWrite

\* The same for a confirmation, which may complete it.
LEMMA ConfirmationSound ==
    ASSUME NEW s \in Shipment, now \in 1..MaxTime, Active(s), SoundRecord(s, now)
    PROVE  GoodWrite(s, Confirmation(s))
<1> DEFINE u == [s EXCEPT !.receiverConfirmed = TRUE, !.status = "IN_TRANSIT"]
<1>1. u \in Shipment /\ KeepsRecord(s, u) /\ u.status = "IN_TRANSIT" /\ u.trackerState = s.trackerState
      /\ u.telemetryProof = s.telemetryProof /\ u.receiverConfirmed
      /\ u.createdAt = s.createdAt /\ u.deliveredAt = s.deliveredAt
  BY DEF Shipment, ShipmentStatus, KeepsRecord
<1>2. /\ s.deliveredAt = 0 /\ s.createdAt <= now /\ s.trackerState # "BAD"
      /\ (s.telemetryProof = Empty) <=> (s.trackerState = "UNKNOWN")
  BY DEF Active, SoundRecord
<1>3. Confirmation(s) = TryCompleteShipment(u)
  BY DEF Confirmation
<1> HIDE DEF u
<1>4. CASE u.trackerState = "GOOD"
  <2> DEFINE v == [u EXCEPT !.status = "DELIVERED", !.deliveredAt = now]
  <2>1. TryCompleteShipment(u) = v
    BY <1>1, <1>4 DEF TryCompleteShipment
  <2>2. v \in Shipment
    <3>1. now \in 0..MaxTime
      BY ContractAssumption
    <3>2. [u EXCEPT !.status = "DELIVERED"] \in Shipment
      BY <1>1 DEF Shipment, ShipmentStatus
    <3>3. QED BY <3>1, <3>2 DEF Shipment
  <2>3. v.status = "DELIVERED" /\ v.deliveredAt = now
        /\ v.trackerState = "GOOD" /\ v.telemetryProof = s.telemetryProof
        /\ v.receiverConfirmed /\ v.createdAt = s.createdAt
    BY <1>1, <1>4 DEF Shipment
  <2>4. KeepsRecord(s, v)
    BY <1>1, <1>4 DEF Shipment, KeepsRecord
  <2> HIDE DEF v
  <2>5. QED BY <1>1, <1>2, <1>3, <1>4, <2>1, <2>2, <2>3, <2>4 DEF GoodWrite, SoundRecord, Shipment
<1>5. CASE u.trackerState # "GOOD"
  <2>1. TryCompleteShipment(u) = u
    BY <1>5 DEF TryCompleteShipment
  <2>2. QED BY <1>1, <1>2, <1>3, <1>5, <2>1 DEF GoodWrite, SoundRecord
<1>6. QED BY <1>4, <1>5

\* A change of status alone, on an open shipment, to one of the two statuses that
\* startShipment and cancelShipment write.
LEMMA StatusChangeSound ==
    ASSUME NEW s \in Shipment, Active(s), SoundRecord(s, now),
           NEW st \in {"IN_TRANSIT", "CANCELLED"}
    PROVE  GoodWrite(s, [s EXCEPT !.status = st])
<1> DEFINE u == [s EXCEPT !.status = st]
<1>1. u \in Shipment /\ KeepsRecord(s, u) /\ u.status = st /\ u.trackerState = s.trackerState
      /\ u.telemetryProof = s.telemetryProof /\ u.receiverConfirmed = s.receiverConfirmed
      /\ u.createdAt = s.createdAt /\ u.deliveredAt = s.deliveredAt
  BY DEF Shipment, ShipmentStatus, KeepsRecord
<1> HIDE DEF u
<1>2. SoundRecord(u, now)
  BY <1>1 DEF SoundRecord, Active
<1>3. QED BY <1>1, <1>2 DEF u, GoodWrite

-----------------------------------------------------------------------------
\* One open shipment is written, and nothing else changes.
WritesOpenShipment ==
    \E id \in Issued, u \in Shipment :
        /\ Active(shipments[id])
        /\ GoodWrite(shipments[id], u)
        /\ shipments' = [shipments EXCEPT ![id] = u]
        /\ UNCHANGED <<nextShipmentId, now>>

\* createShipment adds one record under the next id.
AddsShipment ==
    \E u \in Shipment :
        /\ SoundRecord(u, now)
        /\ nextShipmentId < MaxShipments
        /\ nextShipmentId' = nextShipmentId + 1
        /\ shipments' = [i \in 0..nextShipmentId |->
                           IF i = nextShipmentId THEN u ELSE shipments[i]]
        /\ UNCHANGED now

\* The issued ids are those below the counter, which is what shipmentExists tests.
LEMMA IssuedIds ==
    ASSUME ContractTypeOK
    PROVE  /\ Issued = 0..(nextShipmentId - 1)
           /\ nextShipmentId \in Nat
           /\ \A id \in Nat : ShipmentExists(id) => id \in Issued
           /\ \A id \in Issued : shipments[id] \in Shipment
BY ContractAssumption DEF ContractTypeOK, Issued, ShipmentExists

\* Every step is one of three shapes.
LEMMA StepShape ==
    ASSUME ContractInv, ContractNext
    PROVE  NextBlock \/ AddsShipment \/ WritesOpenShipment
<1>0. ContractTypeOK /\ (\A i \in Issued : SoundRecord(shipments[i], now))
      /\ now \in 1..MaxTime
  BY DEF ContractInv, ContractTypeOK
<1>1. ASSUME NEW caller \in Wallets, NEW receiver \in Wallets \union {ZeroAddress},
             NEW tracker \in Wallets \union {ZeroAddress},
             NEW ref \in PackageRefs \union {Empty},
             CreateShipment(caller, receiver, tracker, ref)
      PROVE  AddsShipment
  <2> DEFINE u == NewShipment(caller, receiver, tracker, ref)
  <2>1. receiver \in Wallets /\ tracker \in Wallets /\ ref \in PackageRefs
    BY <1>1 DEF CreateShipment, ValidParties
  <2>2. u \in Shipment
    BY <1>0, <2>1, ContractAssumption DEF NewShipment, Shipment, TrackerState, ShipmentStatus
  <2>3. SoundRecord(u, now)
    BY <1>0 DEF NewShipment, SoundRecord
  <2> HIDE DEF u
  <2>4. QED BY <1>1, <2>2, <2>3 DEF CreateShipment, AddsShipment, u
<1>2. ASSUME NEW id \in 0..(MaxShipments - 1), NEW caller \in Wallets,
             \/ StartShipment(id, caller)
             \/ \E isGood \in BOOLEAN, proof \in Proofs \union {Empty} :
                   SubmitTrackerState(id, caller, isGood, proof)
             \/ ConfirmReceived(id, caller)
             \/ CancelShipment(id, caller)
      PROVE  WritesOpenShipment
  <2>1. id \in Issued /\ shipments[id] \in Shipment /\ SoundRecord(shipments[id], now)
    <3>1. ShipmentExists(id) /\ id \in Nat
      BY <1>2 DEF StartShipment, SubmitTrackerState, CanSubmit, ConfirmReceived,
                  CancelShipment, CanCancel
    <3>2. QED BY <1>0, <3>1, IssuedIds
  <2> DEFINE s == shipments[id]
  <2>2. CASE StartShipment(id, caller)
    <3> DEFINE u == [s EXCEPT !.status = "IN_TRANSIT"]
    <3>1. Active(s) /\ shipments' = [shipments EXCEPT ![id] = u]
          /\ UNCHANGED <<nextShipmentId, now>>
      BY <2>2 DEF StartShipment, Active
    <3>2. GoodWrite(s, u)
      BY <2>1, <3>1, StatusChangeSound
    <3> HIDE DEF u
    <3>3. QED BY <2>1, <3>1, <3>2 DEF WritesOpenShipment, GoodWrite
  <2>3. ASSUME NEW isGood \in BOOLEAN, NEW proof \in Proofs \union {Empty},
               SubmitTrackerState(id, caller, isGood, proof)
        PROVE  WritesOpenShipment
    <3> DEFINE u == IF isGood THEN GoodReport(s, proof) ELSE BadReport(s, proof)
    <3>1. Active(s) /\ proof \in Proofs /\ shipments' = [shipments EXCEPT ![id] = u]
          /\ UNCHANGED <<nextShipmentId, now>>
      BY <2>3 DEF SubmitTrackerState, CanSubmit
    <3>2. GoodWrite(s, GoodReport(s, proof)) /\ GoodWrite(s, BadReport(s, proof))
      BY <1>0, <2>1, <3>1, GoodReportSound, BadReportSound
    <3>3. GoodWrite(s, u)
      BY <3>2
    <3> HIDE DEF u
    <3>4. QED BY <2>1, <3>1, <3>3 DEF WritesOpenShipment, GoodWrite
  <2>4. CASE ConfirmReceived(id, caller)
    <3> DEFINE u == Confirmation(s)
    <3>1. Active(s) /\ shipments' = [shipments EXCEPT ![id] = u]
          /\ UNCHANGED <<nextShipmentId, now>>
      BY <2>4 DEF ConfirmReceived
    <3>2. GoodWrite(s, u)
      BY <1>0, <2>1, <3>1, ConfirmationSound
    <3> HIDE DEF u
    <3>3. QED BY <2>1, <3>1, <3>2 DEF WritesOpenShipment, GoodWrite
  <2>5. CASE CancelShipment(id, caller)
    <3> DEFINE u == [s EXCEPT !.status = "CANCELLED"]
    <3>1. Active(s) /\ shipments' = [shipments EXCEPT ![id] = u]
          /\ UNCHANGED <<nextShipmentId, now>>
      BY <2>5 DEF CancelShipment, CanCancel
    <3>2. GoodWrite(s, u)
      BY <2>1, <3>1, StatusChangeSound
    <3> HIDE DEF u
    <3>3. QED BY <2>1, <3>1, <3>2 DEF WritesOpenShipment, GoodWrite
  <2>6. QED BY <1>2, <2>2, <2>3, <2>4, <2>5
<1>3. QED BY <1>1, <1>2 DEF ContractNext, Call

\* A freshly deployed contract satisfies the invariant.
LEMMA InvInit == ContractInit => ContractInv
BY ContractAssumption DEF ContractInit, ContractInv, ContractTypeOK, Issued

\* Every call, and every new block, preserves the invariant.
LEMMA InvStep == ContractInv /\ [ContractNext]_contractVars => ContractInv'
<1> SUFFICES ASSUME ContractInv, [ContractNext]_contractVars PROVE ContractInv'
  OBVIOUS
<1>0. /\ ContractTypeOK /\ MaxTime \in Nat /\ MaxShipments \in Nat
      /\ \A i \in Issued : SoundRecord(shipments[i], now)
      /\ Issued = 0..(nextShipmentId - 1) /\ nextShipmentId \in Nat
      /\ \A i \in Issued : shipments[i] \in Shipment
  <2>1. ContractTypeOK /\ \A i \in Issued : SoundRecord(shipments[i], now)
    BY DEF ContractInv
  <2>2. MaxTime \in Nat /\ MaxShipments \in Nat
    BY ContractAssumption
  <2>3. QED BY <2>1, <2>2, IssuedIds
<1>1. CASE NextBlock
  <2>1. \A i \in Issued : SoundRecord(shipments[i], now + 1)
    <3> TAKE i \in Issued
    <3>1. shipments[i] \in Shipment /\ SoundRecord(shipments[i], now) /\ now \in 1..MaxTime
      BY <1>0 DEF ContractTypeOK
    <3>2. QED BY <1>0, <3>1 DEF SoundRecord, Shipment
  <2>2. QED BY <1>0, <1>1, <2>1 DEF NextBlock, ContractInv, ContractTypeOK, Issued
<1>2. CASE AddsShipment
  <2>1. PICK u \in Shipment :
          /\ SoundRecord(u, now)
          /\ nextShipmentId < MaxShipments
          /\ nextShipmentId' = nextShipmentId + 1
          /\ shipments' = [i \in 0..nextShipmentId |->
                             IF i = nextShipmentId THEN u ELSE shipments[i]]
          /\ UNCHANGED now
    BY <1>2 DEF AddsShipment
  <2>2. ContractTypeOK'
    BY <1>0, <2>1 DEF ContractTypeOK
  <2>3. \A i \in Issued' : SoundRecord(shipments'[i], now')
    BY <1>0, <2>1 DEF Issued
  <2>4. QED BY <2>2, <2>3 DEF ContractInv
<1>3. CASE WritesOpenShipment
  <2>1. PICK id \in Issued, u \in Shipment :
          /\ SoundRecord(u, now)
          /\ shipments' = [shipments EXCEPT ![id] = u]
          /\ UNCHANGED <<nextShipmentId, now>>
    BY <1>3 DEF WritesOpenShipment, GoodWrite
  <2>2. ContractTypeOK'
    BY <1>0, <2>1 DEF ContractTypeOK
  <2>3. \A i \in Issued' : SoundRecord(shipments'[i], now')
    BY <1>0, <2>1 DEF Issued
  <2>4. QED BY <2>2, <2>3 DEF ContractInv
<1>4. CASE UNCHANGED contractVars
  BY <1>0, <1>4 DEF contractVars, ContractInv, ContractTypeOK, Issued
<1>5. QED BY <1>1, <1>2, <1>3, <1>4, StepShape

\* Spec implies the inductive invariant; every safety theorem below rests on it.
THEOREM ContractInvariant == ContractSpec => []ContractInv
BY InvInit, InvStep, PTL DEF ContractSpec

\* The contract's storage is well typed in every reachable state.
THEOREM ContractTyped == ContractSpec => []ContractTypeOK
<1>1. ContractInv => ContractTypeOK
  BY DEF ContractInv
<1>2. QED BY <1>1, ContractInvariant, PTL

\* Delivery happens exactly when both parties have approved, in either order: no
\* shipment is delivered early and none stays open once it can be delivered.
THEOREM DeliveryTheorem == ContractSpec => []DeliveredExactlyWhenBoth
BY ContractInvariant, ContractInvGivesProperties, PTL

\* A verdict never stands without its evidence, nor a breach without a bad report.
THEOREM EvidenceTheorem == ContractSpec => []VerdictHasEvidence
BY ContractInvariant, ContractInvGivesProperties, PTL

\* deliveredAt dates delivery, within the life of the shipment.
THEOREM DatingTheorem == ContractSpec => []DeliveryIsDated
BY ContractInvariant, ContractInvGivesProperties, PTL

\* A step writes open shipments only.
LEMMA StepClosedForGood ==
    ContractInv /\ [ContractNext]_contractVars =>
        [\A i \in Issued : Terminal(shipments[i]) => shipments'[i] = shipments[i]]_contractVars
<1> SUFFICES ASSUME ContractInv, ContractNext, NEW i \in Issued, Terminal(shipments[i])
             PROVE  shipments'[i] = shipments[i]
  BY DEF contractVars
<1>0. Issued = 0..(nextShipmentId - 1) /\ nextShipmentId \in Nat
  BY IssuedIds DEF ContractInv
<1>1. CASE NextBlock
  BY <1>1 DEF NextBlock
<1>2. CASE AddsShipment
  BY <1>0, <1>2 DEF AddsShipment
<1>3. CASE WritesOpenShipment
  BY <1>3 DEF WritesOpenShipment, Terminal, Issued
<1>4. QED BY <1>1, <1>2, <1>3, StepShape

\* Nothing about a delivered, breached or cancelled shipment ever changes again.
THEOREM ClosureTheorem == ContractSpec => ClosedForGood
BY ContractInvariant, StepClosedForGood, PTL DEF ContractSpec, ClosedForGood

\* A step writes one record at most, and keeps what KeepsRecord names.
LEMMA StepRecordsAreKept ==
    ContractInv /\ [ContractNext]_contractVars =>
        [/\ \A i, j \in Issued :
              shipments'[i] # shipments[i] /\ shipments'[j] # shipments[j] => i = j
         /\ \A i \in Issued : KeepsRecord(shipments[i], shipments'[i])]_contractVars
<1> SUFFICES ASSUME ContractInv, ContractNext
             PROVE  /\ \A i, j \in Issued :
                          shipments'[i] # shipments[i] /\ shipments'[j] # shipments[j] => i = j
                    /\ \A i \in Issued : KeepsRecord(shipments[i], shipments'[i])
  BY DEF contractVars
<1>0. Issued = 0..(nextShipmentId - 1) /\ nextShipmentId \in Nat
  BY IssuedIds DEF ContractInv
<1>1. CASE NextBlock
  BY <1>1 DEF NextBlock, KeepsRecord
<1>2. CASE AddsShipment
  BY <1>0, <1>2 DEF AddsShipment, KeepsRecord
<1>3. CASE WritesOpenShipment
  <2>1. PICK id \in Issued, u \in Shipment :
          KeepsRecord(shipments[id], u) /\ shipments' = [shipments EXCEPT ![id] = u]
    BY <1>3 DEF WritesOpenShipment, GoodWrite
  <2>2. \A i \in Issued : shipments'[i] = IF i = id THEN u ELSE shipments[i]
    BY <2>1 DEF Issued
  <2>3. QED BY <2>1, <2>2 DEF KeepsRecord
<1>4. QED BY <1>1, <1>2, <1>3, StepShape

\* A call writes one shipment at most, and never its parties, cargo or birth date;
\* a confirmation, once given, stands.
THEOREM RecordsTheorem == ContractSpec => RecordsAreKept
BY ContractInvariant, StepRecordsAreKept, PTL DEF ContractSpec, RecordsAreKept, KeepsRecord

-----------------------------------------------------------------------------
\* The refinement. First, what a write to one record does to the two maps.
LEMMA WriteMaps ==
    ASSUME ContractTypeOK, NEW id \in Issued, NEW u,
           shipments' = [shipments EXCEPT ![id] = u]
    PROVE  /\ id \in Ids
           /\ PhaseMap' = [PhaseMap EXCEPT ![id] = PhaseOfStatus[u.status]]
           /\ ApprovalMap' = [ApprovalMap EXCEPT ![id] = ApprovalsOf(u)]
           /\ PhaseMap[id] = PhaseOfStatus[shipments[id].status]
           /\ ApprovalMap[id] = ApprovalsOf(shipments[id])
<1>1. Issued = 0..(nextShipmentId - 1) /\ nextShipmentId \in 0..MaxShipments
      /\ Issued' = Issued /\ MaxShipments \in Nat
  BY ContractAssumption, IssuedIds DEF ContractTypeOK, Issued
<1>2. Issued \subseteq Ids
  BY <1>1 DEF Ids
<1>3. \A i \in Issued : shipments'[i] = IF i = id THEN u ELSE shipments[i]
  BY DEF Issued
<1>4. PhaseMap' = [PhaseMap EXCEPT ![id] = PhaseOfStatus[u.status]]
  <2>1. PhaseMap' = [i \in Ids |-> IF i \in Issued
                                   THEN PhaseOfStatus[shipments'[i].status] ELSE "absent"]
    BY <1>1 DEF PhaseMap, Ids, PhaseOfStatus
  <2>2. \A i \in Ids : PhaseMap'[i] =
            IF i = id THEN PhaseOfStatus[u.status] ELSE PhaseMap[i]
    BY <1>3, <2>1 DEF PhaseMap
  <2>3. QED BY <2>1, <2>2 DEF PhaseMap
<1>5. ApprovalMap' = [ApprovalMap EXCEPT ![id] = ApprovalsOf(u)]
  <2>1. ApprovalMap' = [i \in Ids |-> IF i \in Issued
                                      THEN ApprovalsOf(shipments'[i]) ELSE {}]
    BY <1>1 DEF ApprovalMap, Ids
  <2>2. \A i \in Ids : ApprovalMap'[i] =
            IF i = id THEN ApprovalsOf(u) ELSE ApprovalMap[i]
    BY <1>3, <2>1 DEF ApprovalMap
  <2>3. QED BY <2>1, <2>2 DEF ApprovalMap
<1>6. QED BY <1>2, <1>4, <1>5 DEF PhaseMap, ApprovalMap

\* A good report or a confirmation of an open shipment is the abstract approval.
LEMMA ApprovalWrites ==
    ASSUME NEW s \in Shipment, Active(s), SoundRecord(s, now), NEW p, now \in 1..MaxTime
    PROVE  /\ ApprovalsOf(GoodReport(s, p)) = ApprovalsOf(s) \union {"tracker"}
           /\ PhaseOfStatus[GoodReport(s, p).status] =
                IF ApprovalsOf(s) \union {"tracker"} = {"tracker", "receiver"}
                THEN "delivered" ELSE "open"
           /\ ApprovalsOf(Confirmation(s)) = ApprovalsOf(s) \union {"receiver"}
           /\ PhaseOfStatus[Confirmation(s).status] =
                IF ApprovalsOf(s) \union {"receiver"} = {"tracker", "receiver"}
                THEN "delivered" ELSE "open"
<1>1. /\ GoodReport(s, p).trackerState = "GOOD"
      /\ GoodReport(s, p).receiverConfirmed = s.receiverConfirmed
      /\ GoodReport(s, p).status = IF s.receiverConfirmed THEN "DELIVERED" ELSE "IN_TRANSIT"
  BY DEF GoodReport, TryCompleteShipment, Shipment
<1>2. /\ Confirmation(s).trackerState = s.trackerState
      /\ Confirmation(s).receiverConfirmed
      /\ Confirmation(s).status =
            IF s.trackerState = "GOOD" THEN "DELIVERED" ELSE "IN_TRANSIT"
  BY DEF Confirmation, TryCompleteShipment, Shipment
<1>3. s.receiverConfirmed \in BOOLEAN
  BY DEF Shipment
<1>4. ApprovalsOf(s) \union {"tracker"} = {"tracker", "receiver"} <=> s.receiverConfirmed
  BY <1>3 DEF ApprovalsOf
<1>5. ApprovalsOf(s) \union {"receiver"} = {"tracker", "receiver"} <=> s.trackerState = "GOOD"
  BY <1>3 DEF ApprovalsOf
<1>6. ApprovalsOf(GoodReport(s, p)) = ApprovalsOf(s) \union {"tracker"}
  BY <1>1 DEF ApprovalsOf
<1>7. ApprovalsOf(Confirmation(s)) = ApprovalsOf(s) \union {"receiver"}
  BY <1>2 DEF ApprovalsOf
<1>8. QED BY <1>1, <1>2, <1>4, <1>5, <1>6, <1>7 DEF PhaseOfStatus

\* A step of the contract is a step of the lifecycle, or changes neither map.
LEMMA LifecycleStep ==
    ContractInv /\ [ContractNext]_contractVars =>
        [Lifecycle!LifecycleNext]_<<PhaseMap, ApprovalMap>>
<1> SUFFICES ASSUME ContractInv, [ContractNext]_contractVars
             PROVE  [Lifecycle!LifecycleNext]_<<PhaseMap, ApprovalMap>>
  OBVIOUS
<1>0. /\ ContractTypeOK /\ now \in 1..MaxTime /\ MaxShipments \in Nat
      /\ Issued = 0..(nextShipmentId - 1) /\ nextShipmentId \in 0..MaxShipments
  BY ContractAssumption, IssuedIds DEF ContractInv, ContractTypeOK
<1>1. CASE UNCHANGED shipments
  BY <1>1 DEF PhaseMap, ApprovalMap, Issued
<1>2. ASSUME NEW caller, NEW receiver, NEW tracker, NEW ref,
             CreateShipment(caller, receiver, tracker, ref)
      PROVE  \E i \in Ids : Lifecycle!Open(i)
  <2> DEFINE i == nextShipmentId
  <2>1. i \in Ids /\ i \notin Issued
    BY <1>0, <1>2 DEF Ids, CreateShipment
  <2>2. Issued' = Issued \union {i}
    BY <1>0, <1>2 DEF CreateShipment, Issued
  <2>3. \A j \in Issued : shipments'[j] = shipments[j]
    BY <1>0, <1>2 DEF CreateShipment
  <2>4. shipments'[i].status = "CREATED" /\ ApprovalsOf(shipments'[i]) = {}
    BY <1>0, <1>2 DEF CreateShipment, NewShipment, ApprovalsOf
  <2>5. PhaseMap' = [PhaseMap EXCEPT ![i] = "open"] /\ PhaseMap[i] = "absent"
    <3>1. PhaseMap' = [j \in Ids |-> IF j \in Issued \union {i}
                                    THEN PhaseOfStatus[shipments'[j].status] ELSE "absent"]
      BY <2>2 DEF PhaseMap, Ids, PhaseOfStatus
    <3>2. PhaseOfStatus["CREATED"] = "open"
      BY DEF PhaseOfStatus
    <3> HIDE DEF i
    <3>3. \A j \in Ids : PhaseMap'[j] = IF j = i THEN "open" ELSE PhaseMap[j]
      BY <2>3, <2>4, <3>1, <3>2 DEF PhaseMap
    <3>4. QED BY <2>1, <3>1, <3>3 DEF PhaseMap
  <2>6. ApprovalMap' = ApprovalMap
    BY <2>1, <2>2, <2>3, <2>4 DEF ApprovalMap
  <2> HIDE DEF i
  <2>7. QED BY <2>1, <2>5, <2>6 DEF Lifecycle!Open
<1>3. ASSUME NEW id \in 0..(MaxShipments - 1), NEW caller,
             ShipmentExists(id), Active(shipments[id])
      PROVE  /\ id \in Issued /\ id \in Ids
             /\ shipments[id] \in Shipment /\ SoundRecord(shipments[id], now)
             /\ PhaseMap[id] = "open"
  <2>1. id \in Issued /\ id \in Ids
    BY <1>0, <1>3 DEF ShipmentExists, Ids
  <2>2. shipments[id] \in Shipment /\ SoundRecord(shipments[id], now)
    BY <1>0, <2>1, IssuedIds DEF ContractInv
  <2>3. QED BY <1>3, <2>1, <2>2 DEF Active, PhaseMap, PhaseOfStatus
<1>4. ASSUME NEW id \in 0..(MaxShipments - 1), NEW caller, StartShipment(id, caller)
      PROVE  UNCHANGED <<PhaseMap, ApprovalMap>>
  <2> DEFINE u == [shipments[id] EXCEPT !.status = "IN_TRANSIT"]
  <2>1. ShipmentExists(id) /\ Active(shipments[id]) /\ shipments[id].status = "CREATED"
        /\ shipments' = [shipments EXCEPT ![id] = u]
    BY <1>4 DEF StartShipment, Active
  <2>2. id \in Issued /\ id \in Ids /\ shipments[id] \in Shipment
    BY <1>3, <2>1
  <2>3. u.status = "IN_TRANSIT" /\ ApprovalsOf(u) = ApprovalsOf(shipments[id])
    BY <2>2 DEF Shipment, ApprovalsOf
  <2> HIDE DEF u
  <2>w. /\ PhaseMap' = [PhaseMap EXCEPT ![id] = PhaseOfStatus[u.status]]
        /\ ApprovalMap' = [ApprovalMap EXCEPT ![id] = ApprovalsOf(u)]
        /\ PhaseMap[id] = PhaseOfStatus[shipments[id].status]
        /\ ApprovalMap[id] = ApprovalsOf(shipments[id])
    BY <1>0, <2>1, <2>2, WriteMaps
  <2>4. /\ PhaseMap' = [PhaseMap EXCEPT ![id] = PhaseMap[id]]
        /\ ApprovalMap' = [ApprovalMap EXCEPT ![id] = ApprovalMap[id]]
    BY <2>1, <2>3, <2>w DEF PhaseOfStatus
  <2>5. QED BY <2>4 DEF PhaseMap, ApprovalMap
<1>5. ASSUME NEW id \in 0..(MaxShipments - 1), NEW caller, NEW isGood \in BOOLEAN,
             NEW proof, SubmitTrackerState(id, caller, isGood, proof)
      PROVE  \E i \in Ids : Lifecycle!Approve(i, "tracker") \/ Lifecycle!Breach(i)
  <2>1. ShipmentExists(id) /\ Active(shipments[id])
    BY <1>5 DEF SubmitTrackerState, CanSubmit
  <2>2. /\ id \in Issued /\ id \in Ids /\ shipments[id] \in Shipment
        /\ SoundRecord(shipments[id], now) /\ PhaseMap[id] = "open"
    BY <1>3, <2>1
  <2>3. CASE isGood
    <3>1. shipments' = [shipments EXCEPT ![id] = GoodReport(shipments[id], proof)]
      BY <1>5, <2>3 DEF SubmitTrackerState
    <3>2. /\ PhaseMap' = [PhaseMap EXCEPT ![id] = PhaseOfStatus[GoodReport(shipments[id], proof).status]]
          /\ ApprovalMap' = [ApprovalMap EXCEPT ![id] = ApprovalsOf(GoodReport(shipments[id], proof))]
          /\ PhaseMap[id] = PhaseOfStatus[shipments[id].status]
          /\ ApprovalMap[id] = ApprovalsOf(shipments[id])
      BY <1>0, <2>2, <3>1, WriteMaps
    <3>3. Lifecycle!Approve(id, "tracker")
      BY <1>0, <2>1, <2>2, <3>2, ApprovalWrites DEF Lifecycle!Approve, Lifecycle!Approvers
    <3>4. QED BY <2>2, <3>3
  <2>4. CASE ~isGood
    <3> DEFINE u == BadReport(shipments[id], proof)
    <3>1. shipments' = [shipments EXCEPT ![id] = u]
      BY <1>5, <2>4 DEF SubmitTrackerState
    <3>2. u.status = "BREACHED" /\ ApprovalsOf(u) = ApprovalsOf(shipments[id]) \ {"tracker"}
      BY <2>2 DEF BadReport, Shipment, ApprovalsOf
    <3> HIDE DEF u
    <3>3. /\ PhaseMap' = [PhaseMap EXCEPT ![id] = PhaseOfStatus[u.status]]
          /\ ApprovalMap' = [ApprovalMap EXCEPT ![id] = ApprovalsOf(u)]
          /\ PhaseMap[id] = PhaseOfStatus[shipments[id].status]
          /\ ApprovalMap[id] = ApprovalsOf(shipments[id])
      BY <1>0, <2>2, <3>1, WriteMaps
    <3>4. Lifecycle!Breach(id)
      BY <2>2, <3>2, <3>3 DEF Lifecycle!Breach, PhaseOfStatus
    <3>5. QED BY <2>2, <3>4
  <2>5. QED BY <2>3, <2>4
<1>6. ASSUME NEW id \in 0..(MaxShipments - 1), NEW caller, ConfirmReceived(id, caller)
      PROVE  \E i \in Ids : Lifecycle!Approve(i, "receiver")
  <2>1. /\ ShipmentExists(id) /\ Active(shipments[id])
        /\ shipments' = [shipments EXCEPT ![id] = Confirmation(shipments[id])]
    BY <1>6 DEF ConfirmReceived
  <2>2. /\ id \in Issued /\ id \in Ids /\ shipments[id] \in Shipment
        /\ SoundRecord(shipments[id], now) /\ PhaseMap[id] = "open"
    BY <1>3, <2>1
  <2>3. /\ PhaseMap' = [PhaseMap EXCEPT ![id] = PhaseOfStatus[Confirmation(shipments[id]).status]]
        /\ ApprovalMap' = [ApprovalMap EXCEPT ![id] = ApprovalsOf(Confirmation(shipments[id]))]
        /\ PhaseMap[id] = PhaseOfStatus[shipments[id].status]
        /\ ApprovalMap[id] = ApprovalsOf(shipments[id])
    BY <1>0, <2>1, <2>2, WriteMaps
  <2>4. Lifecycle!Approve(id, "receiver")
    BY <1>0, <2>1, <2>2, <2>3, ApprovalWrites DEF Lifecycle!Approve, Lifecycle!Approvers
  <2>5. QED BY <2>2, <2>4
<1>7. ASSUME NEW id \in 0..(MaxShipments - 1), NEW caller, CancelShipment(id, caller)
      PROVE  \E i \in Ids : Lifecycle!Cancel(i)
  <2> DEFINE u == [shipments[id] EXCEPT !.status = "CANCELLED"]
  <2>1. ShipmentExists(id) /\ Active(shipments[id])
        /\ shipments' = [shipments EXCEPT ![id] = u]
    BY <1>7 DEF CancelShipment, CanCancel
  <2>2. id \in Issued /\ id \in Ids /\ shipments[id] \in Shipment /\ PhaseMap[id] = "open"
    BY <1>3, <2>1
  <2>3. u.status = "CANCELLED" /\ ApprovalsOf(u) = ApprovalsOf(shipments[id])
    BY <2>2 DEF Shipment, ApprovalsOf
  <2> HIDE DEF u
  <2>w. /\ PhaseMap' = [PhaseMap EXCEPT ![id] = PhaseOfStatus[u.status]]
        /\ ApprovalMap' = [ApprovalMap EXCEPT ![id] = ApprovalsOf(u)]
        /\ PhaseMap[id] = PhaseOfStatus[shipments[id].status]
        /\ ApprovalMap[id] = ApprovalsOf(shipments[id])
    BY <1>0, <2>1, <2>2, WriteMaps
  <2>4. /\ PhaseMap' = [PhaseMap EXCEPT ![id] = "cancelled"]
        /\ ApprovalMap' = [ApprovalMap EXCEPT ![id] = ApprovalMap[id]]
    BY <2>3, <2>w DEF PhaseOfStatus
  <2>5. ApprovalMap' = ApprovalMap
    BY <2>4 DEF ApprovalMap
  <2>6. QED BY <2>2, <2>4, <2>5 DEF Lifecycle!Cancel
<1>8. CASE NextBlock \/ UNCHANGED contractVars
  BY <1>1, <1>8 DEF NextBlock, contractVars
<1>9. ASSUME NEW caller \in Wallets, Call(caller)
      PROVE  Lifecycle!LifecycleNext \/ UNCHANGED <<PhaseMap, ApprovalMap>>
  BY <1>2, <1>4, <1>5, <1>6, <1>7, <1>9
     DEF Call, Lifecycle!LifecycleNext, Lifecycle!Approvers
<1>10. QED BY <1>8, <1>9 DEF ContractNext

\* The contract implements the agreement: its storage, read through PhaseMap and
\* ApprovalMap, only ever makes the steps of ShipmentLifecycle.
THEOREM RefinementTheorem == ContractSpec => ImplementsLifecycle
<1>1. ContractInit => Lifecycle!LifecycleInit
  BY DEF ContractInit, Lifecycle!LifecycleInit, PhaseMap, ApprovalMap, Issued
<1>2. QED
  BY <1>1, ContractInvariant, LifecycleStep, PTL
     DEF ContractSpec, ImplementsLifecycle, Lifecycle!LifecycleSpec, Lifecycle!LifecycleVars

-----------------------------------------------------------------------------
\* The backend and the node over it.

JobRecord ==
    [pc : {"nonce", "price", "build", "send", "done"}, kind : Kinds,
     id : ShipmentIds, nonce : Nat, price : 0..MaxGasPrice,
     sent : BOOLEAN, known : BOOLEAN]

TxRecord == [job : Jobs, kind : Kinds, id : ShipmentIds, nonce : Nat, price : 0..MaxGasPrice]

\* The types of the backend and of the node; job is a function, which
\* OracleTypeOK does not say.
BackendTypeOK ==
    /\ job \in [Jobs -> {Idle} \union JobRecord]
    /\ mined \in Nat
    /\ pool \subseteq TxRecord
    /\ gasPrice \in 0..MaxGasPrice
    /\ failures \in 0..MaxFailures /\ othersCalls \in 0..MaxOthersCalls
    /\ disturbed \in BOOLEAN

\* At most one transaction is pending, with the nonce the next block takes, and no
\* job holds a later one.
Nonces ==
    /\ \A tx \in pool : tx.nonce = mined
    /\ \A t, u \in pool : t = u
    /\ \A j \in Jobs : job[j] # Idle => job[j].nonce <= mined

\* A pending transaction names the shipment its job is about.
Provenance == \A tx \in pool : job[tx.job] # Idle /\ job[tx.job].id = tx.id

\* The inductive invariant. BreachHasItsEvidence needs Provenance: between the
\* start of a job and its report stand a fallback, a failure and a block.
OracleInv ==
    /\ ContractInv
    /\ BackendTypeOK
    /\ Nonces
    /\ Provenance
    /\ BreachHasItsEvidence

\* It contains the state properties the runs check.
LEMMA OracleInvGivesProperties ==
    OracleInv => OracleTypeOK /\ NoNonceGap /\ BreachHasItsEvidence
<1> SUFFICES ASSUME OracleInv PROVE OracleTypeOK /\ NoNonceGap /\ BreachHasItsEvidence
  OBVIOUS
<1>1. OracleTypeOK
  BY DEF OracleInv, ContractInv, BackendTypeOK, OracleTypeOK, JobRecord, TxRecord
<1>2. Cardinality(pool) <= 1
  <2>1. CASE pool = {}
    BY <2>1, FS_EmptySet
  <2>2. CASE pool # {}
    <3>1. PICK tx \in pool : TRUE
      BY <2>2
    <3>2. pool = {tx}
      BY <3>1 DEF OracleInv, Nonces
    <3>3. QED BY <3>2, FS_Singleton
  <2>3. QED BY <2>1, <2>2
<1>3. QED BY <1>1, <1>2 DEF OracleInv, Nonces, NoNonceGap

\* It holds when the backend starts and the contract is fresh.
LEMMA OracleInvInit == OracleInit => OracleInv
<1> SUFFICES ASSUME OracleInit PROVE OracleInv
  OBVIOUS
<1>1. ContractInv /\ Issued = {}
  BY InvInit DEF OracleInit, ContractInit, Issued
<1>2. BackendTypeOK
  <2>1. job \in [Jobs -> {Idle} \union JobRecord] /\ disturbed \in BOOLEAN
    BY DEF OracleInit
  <2>2. QED BY <2>1, OracleAssumption DEF OracleInit, BackendTypeOK
<1>3. Nonces /\ Provenance
  BY DEF OracleInit, Nonces, Provenance
<1>4. QED BY <1>1, <1>2, <1>3 DEF OracleInv, BreachHasItsEvidence

-----------------------------------------------------------------------------
\* What the contract sees.

\* A transaction in a block is a call of the contract, or it reverts.
LEMMA ExecuteIsCall ==
    ASSUME ContractTypeOK, NEW tx \in TxRecord, Execute(tx)
    PROVE  \/ UNCHANGED contractVars
           \/ Call(Server)
<1>1. Server \in Wallets /\ tx.id \in 0..(MaxShipments - 1) /\ tx.job \in Proofs
  BY OracleAssumption DEF TxRecord, ShipmentIds
<1>2. QED
  BY <1>1 DEF Execute, Call

\* Every step of the system is a step of the contract or leaves it alone.
LEMMA ContractStep ==
    OracleInv /\ [Next]_vars => [ContractNext]_contractVars
<1> SUFFICES ASSUME OracleInv, [Next]_vars PROVE [ContractNext]_contractVars
  OBVIOUS
<1>1. CASE Mine
  <2>1. PICK tx \in pool : Execute(tx)
    BY <1>1 DEF Mine
  <2>2. tx \in TxRecord /\ ContractTypeOK /\ Server \in Wallets
    BY <2>1, OracleAssumption DEF OracleInv, BackendTypeOK, ContractInv
  <2>3. QED
    BY <2>1, <2>2, ExecuteIsCall DEF ContractNext
<1>2. CASE OtherWalletCalls
  BY <1>2 DEF OtherWalletCalls, ContractNext
<1>3. ASSUME NEW j \in Jobs, Start(j) \/ JobStep(j) \/ CallFails(j)
      PROVE  UNCHANGED contractVars
  BY <1>3 DEF Start, JobStep, ReadNonce, ReadGasPrice, Build, Send, CallFails
<1>4. CASE GasPriceRises \/ UNCHANGED vars
  BY <1>4 DEF GasPriceRises, vars
<1>5. QED BY <1>1, <1>2, <1>3, <1>4 DEF Next

\* A shipment becomes BREACHED only by a bad report of its tracker service. Every
\* other call leaves the breached shipments as they are, and the parties of all.
LEMMA BreachesComeFromReports ==
    ASSUME ContractInv, NEW caller \in Wallets, Call(caller),
           NEW i \in Issued', shipments'[i].status = "BREACHED"
    PROVE  /\ i \in Issued
           /\ \/ shipments'[i] = shipments[i]
              \/ shipments'[i].trackerService = caller
<1>0. ContractTypeOK /\ nextShipmentId \in Nat /\ MaxShipments \in Nat
  BY ContractAssumption DEF ContractInv, ContractTypeOK
<1>1. ASSUME NEW receiver, NEW tracker, NEW ref, CreateShipment(caller, receiver, tracker, ref)
      PROVE  i \in Issued /\ shipments'[i] = shipments[i]
  <2>1. i \in 0..nextShipmentId /\ Issued = 0..(nextShipmentId - 1)
    BY <1>0, <1>1, IssuedIds DEF CreateShipment, Issued
  <2>2. i # nextShipmentId
    <3>1. NewShipment(caller, receiver, tracker, ref).status = "CREATED"
      BY DEF NewShipment
    <3>2. QED BY <1>1, <2>1, <3>1 DEF CreateShipment
  <2>3. QED BY <1>0, <1>1, <2>1, <2>2 DEF CreateShipment
<1>2. ASSUME NEW id \in 0..(MaxShipments - 1),
             \/ StartShipment(id, caller)
             \/ \E isGood \in BOOLEAN, proof \in Proofs \union {Empty} :
                   SubmitTrackerState(id, caller, isGood, proof)
             \/ ConfirmReceived(id, caller)
             \/ CancelShipment(id, caller)
      PROVE  /\ i \in Issued
             /\ shipments'[i] = shipments[i] \/ shipments'[i].trackerService = caller
  <2>0. \E u : shipments' = [shipments EXCEPT ![id] = u]
    BY <1>2 DEF StartShipment, SubmitTrackerState, ConfirmReceived, CancelShipment
  <2>1. i \in Issued /\ (i # id => shipments'[i] = shipments[i])
    BY <2>0 DEF Issued
  <2>2. CASE i # id
    BY <2>1, <2>2
  <2>3. CASE i = id
    <3>1. shipments[id] \in Shipment
      BY <1>0, <2>1, <2>3, IssuedIds
    <3>2. CASE StartShipment(id, caller)
      <4>1. shipments'[id].status = "IN_TRANSIT"
        BY <2>1, <2>3, <3>1, <3>2 DEF StartShipment, Issued, Shipment
      <4>2. QED BY <2>3, <4>1
    <3>3. ASSUME NEW isGood \in BOOLEAN, NEW proof \in Proofs \union {Empty},
                 SubmitTrackerState(id, caller, isGood, proof)
          PROVE  shipments'[id].trackerService = caller
      <4>1. shipments[id].trackerService = caller
        BY <3>3 DEF SubmitTrackerState, CanSubmit, OnlyTrackerService
      <4>2. /\ GoodReport(shipments[id], proof).trackerService = caller
            /\ BadReport(shipments[id], proof).trackerService = caller
        BY <3>1, <4>1 DEF GoodReport, BadReport, TryCompleteShipment, Shipment
      <4>3. QED BY <2>1, <2>3, <3>3, <4>2 DEF SubmitTrackerState, Issued
    <3>4. CASE ConfirmReceived(id, caller)
      <4>1. Confirmation(shipments[id]).status \in {"IN_TRANSIT", "DELIVERED"}
        BY <3>1 DEF Confirmation, TryCompleteShipment, Shipment
      <4>2. QED BY <2>1, <2>3, <3>4, <4>1 DEF ConfirmReceived, Issued
    <3>5. CASE CancelShipment(id, caller)
      <4>1. shipments'[id].status = "CANCELLED"
        BY <2>1, <2>3, <3>1, <3>5 DEF CancelShipment, Issued, Shipment
      <4>2. QED BY <2>3, <4>1
    <3>6. QED BY <1>2, <2>1, <2>3, <3>2, <3>3, <3>4, <3>5
  <2>4. QED BY <2>2, <2>3
<1>3. QED BY <1>1, <1>2 DEF Call

-----------------------------------------------------------------------------
\* The steps of the backend and of the node preserve the types.

\* What the handlers do to a job keeps it a job, about the same shipment.
KeepsJob(r, s) == s \in JobRecord /\ s.id = r.id /\ s.nonce = r.nonce

LEMMA GiveUpKeepsJob ==
    ASSUME BackendTypeOK, NEW j \in Jobs, Busy(j)
    PROVE  /\ GiveUp(j) \in [Jobs -> {Idle} \union JobRecord]
           /\ \A k \in Jobs : k # j => GiveUp(j)[k] = job[k]
           /\ KeepsJob(job[j], GiveUp(j)[j])
<1>1. job[j] \in JobRecord /\ job \in [Jobs -> {Idle} \union JobRecord]
  BY DEF BackendTypeOK, Busy, Idle
<1>2. CASE job[j].kind = "submit"
  <2> DEFINE r == [job[j] EXCEPT !.pc = "nonce", !.kind = "cancel"]
  <2>1. KeepsJob(job[j], r)
    BY <1>1 DEF JobRecord, Kinds, KeepsJob
  <2>2. GiveUp(j) = [job EXCEPT ![j] = r]
    BY <1>1, <1>2 DEF GiveUp
  <2> HIDE DEF r
  <2>3. QED BY <1>1, <2>1, <2>2 DEF KeepsJob
<1>3. CASE job[j].kind # "submit"
  <2> DEFINE r == [job[j] EXCEPT !.pc = "done"]
  <2>1. KeepsJob(job[j], r)
    BY <1>1 DEF JobRecord, KeepsJob
  <2>2. GiveUp(j) = [job EXCEPT ![j] = r]
    BY <1>1, <1>3 DEF GiveUp
  <2> HIDE DEF r
  <2>3. QED BY <1>1, <2>1, <2>2 DEF KeepsJob
<1>4. QED BY <1>2, <1>3

\* The transaction of a busy job is well formed and about the job's shipment.
LEMMA TxOfJob ==
    ASSUME BackendTypeOK, NEW j \in Jobs, Busy(j)
    PROVE  /\ Tx(j) \in TxRecord
           /\ Tx(j).job = j /\ Tx(j).id = job[j].id /\ Tx(j).nonce = job[j].nonce
BY DEF BackendTypeOK, Busy, Idle, JobRecord, TxRecord, Tx

\* A job that runs stays a job about the same shipment.
JobsKept == \A k \in Jobs : job[k] # Idle => job'[k] # Idle /\ job'[k].id = job[k].id

\* A step that leaves the node alone and changes one job to a record with a nonce
\* that is not from the future preserves types, nonces and provenance.
LEMMA JobChange ==
    ASSUME BackendTypeOK, Nonces, Provenance, NEW j \in Jobs,
           job' \in [Jobs -> {Idle} \union JobRecord],
           \A k \in Jobs : k # j => job'[k] = job[k],
           job'[j] \in JobRecord, job'[j].nonce <= mined,
           job[j] # Idle => job'[j].id = job[j].id,
           UNCHANGED <<mined, pool>>
    PROVE  /\ Nonces' /\ Provenance' /\ JobsKept
<1>1. job'[j] # Idle
  BY DEF JobRecord, Idle
<1>2. JobsKept
  BY <1>1 DEF JobsKept
<1>3. Nonces'
  BY DEF Nonces
<1>4. \A tx \in pool : tx.job \in Jobs
  BY DEF BackendTypeOK, TxRecord
<1>5. Provenance'
  BY <1>2, <1>4 DEF Provenance, JobsKept
<1>6. QED BY <1>2, <1>3, <1>5

\* A transaction the node takes on is the only one pending.
LEMMA AdmitsOne ==
    ASSUME BackendTypeOK, Nonces, NEW j \in Jobs, Busy(j), Accepted(Tx(j))
    PROVE  Admit(Tx(j)) = {Tx(j)} /\ Tx(j).nonce = mined
<1>1. job[j] # Idle /\ job[j] \in JobRecord /\ mined \in Nat
  BY DEF Busy, Idle, BackendTypeOK
<1>2. Tx(j).nonce \in Nat /\ Tx(j).nonce <= mined
  BY <1>1, TxOfJob DEF Nonces, JobRecord
<1>3. Tx(j).nonce = mined
  BY <1>1, <1>2 DEF Accepted
<1>4. QED BY <1>3 DEF Admit, Nonces

\* Every step of the system preserves types, nonces and provenance.
LEMMA BackendStep ==
    OracleInv /\ [Next]_vars => BackendTypeOK' /\ Nonces' /\ Provenance' /\ JobsKept
<1> SUFFICES ASSUME OracleInv, [Next]_vars
             PROVE  BackendTypeOK' /\ Nonces' /\ Provenance' /\ JobsKept
  OBVIOUS
<1>0. /\ BackendTypeOK /\ Nonces /\ Provenance
      /\ MaxFailures \in Nat /\ MaxGasPrice \in Nat /\ MaxOthersCalls \in Nat
      /\ MaxShipments \in Nat \ {0}
  BY ContractAssumption, OracleAssumption DEF OracleInv
<1>1. /\ job \in [Jobs -> {Idle} \union JobRecord]
      /\ mined \in Nat /\ pool \subseteq TxRecord
      /\ gasPrice \in 0..MaxGasPrice
      /\ failures \in 0..MaxFailures /\ othersCalls \in 0..MaxOthersCalls
      /\ disturbed \in BOOLEAN
  BY <1>0 DEF BackendTypeOK
<1>2. ASSUME NEW j \in Jobs, Start(j)
      PROVE  BackendTypeOK' /\ Nonces' /\ Provenance' /\ JobsKept
  <2>1. PICK kind \in Kinds, id \in ShipmentIds :
          job' = [job EXCEPT ![j] = Started(kind, id)]
    BY <1>0, <1>2 DEF Start, Kinds, ShipmentIds
  <2> DEFINE r == Started(kind, id)
  <2>2. r \in JobRecord /\ r.nonce = 0
    <3>1. ShipmentExists(id) \in BOOLEAN
      BY DEF ShipmentExists
    <3>2. QED BY <1>0, <3>1 DEF Started, JobRecord
  <2>3. job[j] = Idle
    BY <1>1, <1>2 DEF Start, JobRecord
  <2>4. disturbed' \in BOOLEAN
    BY <1>1, <1>2 DEF Start, Quiet, Busy
  <2>5. UNCHANGED <<mined, pool, gasPrice, failures, othersCalls>>
    BY <1>2 DEF Start, nodeVars
  <2> HIDE DEF r
  <2>6. /\ job' \in [Jobs -> {Idle} \union JobRecord]
        /\ job'[j] = r /\ \A k \in Jobs : k # j => job'[k] = job[k]
    BY <1>1, <2>1, <2>2 DEF r
  <2>7. Nonces' /\ Provenance' /\ JobsKept
    BY <1>0, <1>1, <2>2, <2>3, <2>5, <2>6, JobChange
  <2>8. BackendTypeOK'
    BY <1>1, <2>4, <2>5, <2>6 DEF BackendTypeOK
  <2>9. QED BY <2>7, <2>8
<1>3. ASSUME NEW j \in Jobs, ReadNonce(j) \/ ReadGasPrice(j) \/ Build(j) \/ CallFails(j)
      PROVE  BackendTypeOK' /\ Nonces' /\ Provenance' /\ JobsKept
  <2>1. Busy(j) /\ job[j] # Idle /\ job[j] \in JobRecord
    BY <1>1, <1>3 DEF ReadNonce, ReadGasPrice, Build, CallFails, Busy, Idle
  <2>2. /\ UNCHANGED <<mined, pool, gasPrice, othersCalls>>
        /\ failures' \in 0..MaxFailures
    BY <1>0, <1>1, <1>3 DEF ReadNonce, ReadGasPrice, Build, CallFails, nodeVars
  <2>3. disturbed' \in BOOLEAN
    BY <1>1, <1>3 DEF ReadNonce, ReadGasPrice, Build, CallFails
  <2>4. /\ job' \in [Jobs -> {Idle} \union JobRecord]
        /\ \A k \in Jobs : k # j => job'[k] = job[k]
        /\ job'[j] \in JobRecord /\ job'[j].id = job[j].id /\ job'[j].nonce <= mined
    <3>1. CASE job' = GiveUp(j)
      <4>1. job[j].nonce <= mined
        BY <1>0, <2>1 DEF Nonces
      <4>2. QED BY <1>0, <2>1, <3>1, <4>1, GiveUpKeepsJob DEF KeepsJob
    <3>2. CASE ReadNonce(j)
      <4> DEFINE r == [job[j] EXCEPT !.pc = "price", !.nonce = mined]
      <4>1. job' = [job EXCEPT ![j] = r]
        BY <1>1, <3>2 DEF ReadNonce, TransactionCount
      <4>2. r \in JobRecord /\ r.id = job[j].id /\ r.nonce = mined
        BY <1>1, <2>1 DEF JobRecord
      <4> HIDE DEF r
      <4>3. QED BY <1>1, <4>1, <4>2
    <3>3. CASE ReadGasPrice(j)
      <4> DEFINE r == [job[j] EXCEPT !.pc = "build", !.price = gasPrice]
      <4>1. job' = [job EXCEPT ![j] = r]
        BY <1>1, <3>3 DEF ReadGasPrice
      <4>2. r \in JobRecord /\ r.id = job[j].id /\ r.nonce = job[j].nonce
        BY <1>1, <2>1 DEF JobRecord
      <4>3. job[j].nonce <= mined
        BY <1>0, <2>1 DEF Nonces
      <4> HIDE DEF r
      <4>4. QED BY <1>1, <4>1, <4>2, <4>3
    <3>4. CASE job' = [job EXCEPT ![j].pc = "send"]
      <4> DEFINE r == [job[j] EXCEPT !.pc = "send"]
      <4>1. job' = [job EXCEPT ![j] = r]
        BY <1>1, <3>4
      <4>2. r \in JobRecord /\ r.id = job[j].id /\ r.nonce = job[j].nonce
        BY <2>1 DEF JobRecord
      <4>3. job[j].nonce <= mined
        BY <1>0, <2>1 DEF Nonces
      <4> HIDE DEF r
      <4>4. QED BY <1>1, <4>1, <4>2, <4>3
    <3>5. QED BY <1>3, <3>1, <3>2, <3>3, <3>4 DEF Build, CallFails
  <2>5. Nonces' /\ Provenance' /\ JobsKept
    BY <1>0, <1>1, <2>2, <2>4, JobChange
  <2>6. BackendTypeOK'
    BY <1>1, <2>2, <2>3, <2>4 DEF BackendTypeOK
  <2>7. QED BY <2>5, <2>6
<1>4. ASSUME NEW j \in Jobs, Send(j)
      PROVE  BackendTypeOK' /\ Nonces' /\ Provenance' /\ JobsKept
  <2>1. Busy(j) /\ job[j] # Idle /\ job[j] \in JobRecord
    BY <1>1, <1>4 DEF Send, Busy, Idle
  <2>2. /\ UNCHANGED <<mined, gasPrice, othersCalls>>
        /\ failures' \in 0..MaxFailures
    BY <1>0, <1>1, <1>4 DEF Send
  <2>3. disturbed' \in BOOLEAN
    BY <1>1, <1>4 DEF Send
  <2>4. /\ job' \in [Jobs -> {Idle} \union JobRecord]
        /\ \A k \in Jobs : k # j => job'[k] = job[k]
        /\ job'[j] \in JobRecord /\ job'[j].id = job[j].id /\ job'[j].nonce = job[j].nonce
    <3>1. CASE job' = GiveUp(j)
      BY <1>0, <2>1, <3>1, GiveUpKeepsJob DEF KeepsJob
    <3>2. CASE job' = [job EXCEPT ![j].pc = "done", ![j].sent = TRUE]
      <4> DEFINE r == [job[j] EXCEPT !.pc = "done", !.sent = TRUE]
      <4>1. job' = [job EXCEPT ![j] = r]
        BY <1>1, <3>2
      <4>2. r \in JobRecord /\ r.id = job[j].id /\ r.nonce = job[j].nonce
        BY <2>1 DEF JobRecord
      <4> HIDE DEF r
      <4>3. QED BY <1>1, <4>1, <4>2
    <3>3. QED BY <1>4, <3>1, <3>2 DEF Send
  <2>5. pool' = pool \/ (Accepted(Tx(j)) /\ pool' = Admit(Tx(j)))
    BY <1>4 DEF Send
  <2>6. job[j].nonce <= mined /\ job'[j] # Idle
    BY <1>0, <2>1, <2>4 DEF Nonces, JobRecord, Idle
  <2>7. CASE pool' = pool
    <3>1. Nonces' /\ Provenance' /\ JobsKept
      BY <1>0, <1>1, <2>2, <2>4, <2>6, <2>7, JobChange
    <3>2. QED BY <1>1, <2>2, <2>3, <2>4, <2>7, <3>1 DEF BackendTypeOK
  <2>8. CASE Accepted(Tx(j)) /\ pool' = Admit(Tx(j))
    <3>1. pool' = {Tx(j)} /\ Tx(j).nonce = mined
      BY <1>0, <2>1, <2>8, AdmitsOne
    <3>2. Tx(j) \in TxRecord /\ Tx(j).job = j /\ Tx(j).id = job[j].id
      BY <1>0, <2>1, TxOfJob
    <3>3. BackendTypeOK'
      BY <1>1, <2>2, <2>3, <2>4, <3>1, <3>2 DEF BackendTypeOK
    <3>4. Nonces'
      BY <1>0, <2>2, <2>4, <2>6, <3>1 DEF Nonces
    <3>5. Provenance'
      BY <2>4, <2>6, <3>1, <3>2 DEF Provenance
    <3>6. JobsKept
      BY <2>4, <2>6 DEF JobsKept
    <3>7. QED BY <3>3, <3>4, <3>5, <3>6
  <2>9. QED BY <2>5, <2>7, <2>8
<1>5. CASE Mine
  <2>1. PICK tx \in pool : pool' = pool \ {tx}
    BY <1>5 DEF Mine
  <2>2. pool' = {}
    BY <1>0, <2>1 DEF Nonces
  <2>3. UNCHANGED <<job, gasPrice, failures, othersCalls, disturbed>> /\ mined' = mined + 1
    BY <1>5 DEF Mine
  <2>4. \A j \in Jobs : job[j] # Idle => job[j].nonce \in Nat
    BY <1>1 DEF JobRecord
  <2>5. QED
    BY <1>0, <1>1, <2>2, <2>3, <2>4 DEF BackendTypeOK, Nonces, Provenance, JobsKept
<1>6. CASE GasPriceRises
  <2>1. UNCHANGED <<job, mined, pool, failures, othersCalls, disturbed>>
        /\ gasPrice' \in 0..MaxGasPrice
    BY <1>0, <1>1, <1>6 DEF GasPriceRises
  <2>2. QED BY <1>0, <2>1 DEF BackendTypeOK, Nonces, Provenance, JobsKept
<1>7. CASE OtherWalletCalls
  <2>1. UNCHANGED <<job, mined, pool, gasPrice, failures, disturbed>>
        /\ othersCalls' \in 0..MaxOthersCalls
    BY <1>0, <1>1, <1>7 DEF OtherWalletCalls, nodeVars
  <2>2. QED BY <1>0, <2>1 DEF BackendTypeOK, Nonces, Provenance, JobsKept
<1>8. CASE UNCHANGED vars
  BY <1>0, <1>8 DEF vars, nodeVars, BackendTypeOK, Nonces, Provenance, JobsKept
<1>9. QED BY <1>2, <1>3, <1>4, <1>5, <1>6, <1>7, <1>8 DEF Next, JobStep

-----------------------------------------------------------------------------
\* The evidence.

\* What a breach the server reported rests on.
Backed(i, s, js) ==
    s.status = "BREACHED" /\ s.trackerService = Server =>
        \E j \in Jobs : s.telemetryProof = j /\ js[j] # Idle /\ js[j].id = i

\* A bad report of the server in a block stores the proof of a job about that
\* very shipment; every other step keeps the evidence there is.
LEMMA EvidenceStep ==
    OracleInv /\ [Next]_vars => BreachHasItsEvidence'
<1> SUFFICES ASSUME OracleInv, [Next]_vars, NEW i \in Issued'
             PROVE  Backed(i, shipments'[i], job')
  BY DEF BreachHasItsEvidence, Backed
<1>0. /\ ContractInv /\ ContractTypeOK /\ BackendTypeOK /\ Provenance
      /\ \A k \in Issued : Backed(k, shipments[k], job)
      /\ Server \in Wallets
  BY OracleAssumption DEF OracleInv, ContractInv, BreachHasItsEvidence, Backed
<1>1. JobsKept
  BY BackendStep
<1>2. ASSUME i \in Issued, shipments'[i] = shipments[i]
      PROVE  Backed(i, shipments'[i], job')
  BY <1>0, <1>1, <1>2 DEF Backed, JobsKept
<1>3. CASE UNCHANGED contractVars
  BY <1>2, <1>3 DEF contractVars, Issued
<1>4. ASSUME NEW caller \in Wallets \ {Server}, Call(caller)
      PROVE  Backed(i, shipments'[i], job')
  BY <1>0, <1>2, <1>4, BreachesComeFromReports DEF Backed
<1>5. ASSUME NEW tx \in pool, Execute(tx), ~UNCHANGED contractVars
      PROVE  Backed(i, shipments'[i], job')
  <2>1. tx \in TxRecord /\ Call(Server)
    BY <1>0, <1>5, ExecuteIsCall DEF BackendTypeOK
  <2>2. SUFFICES ASSUME shipments'[i].status = "BREACHED"
                 PROVE  Backed(i, shipments'[i], job')
    BY DEF Backed
  <2>3. i \in Issued
    BY <1>0, <2>1, <2>2, BreachesComeFromReports
  <2>4. CASE SubmitTrackerState(tx.id, Server, FALSE, tx.job)
    <3>1. shipments' = [shipments EXCEPT ![tx.id] = BadReport(shipments[tx.id], tx.job)]
      BY <2>4 DEF SubmitTrackerState
    <3>2. CASE i # tx.id
      BY <1>2, <2>3, <3>1, <3>2 DEF Issued
    <3>3. CASE i = tx.id
      <4>1. shipments[i] \in Shipment
        BY <1>0, <2>3, IssuedIds
      <4>2. shipments'[i].telemetryProof = tx.job
        BY <2>3, <3>1, <3>3, <4>1 DEF BadReport, Issued, Shipment
      <4>3. tx.job \in Jobs /\ job[tx.job] # Idle /\ job[tx.job].id = i
        BY <1>0, <1>5, <2>1, <3>3 DEF Provenance, TxRecord
      <4>4. QED BY <1>1, <4>2, <4>3 DEF Backed, JobsKept
    <3>4. QED BY <3>2, <3>3
  <2>5. ASSUME NEW ref \in PackageRefs, CreateShipment(Server, Server, Server, ref)
        PROVE  Backed(i, shipments'[i], job')
    <3>1. i \in 0..nextShipmentId /\ Issued = 0..(nextShipmentId - 1) /\ nextShipmentId \in Nat
      BY <1>0, <2>3, IssuedIds DEF Issued
    <3>2. i # nextShipmentId
      BY <2>3, <3>1
    <3>3. QED BY <1>2, <2>3, <2>5, <3>1, <3>2 DEF CreateShipment
  <2>6. CASE CancelShipment(tx.id, Server)
    <3>1. shipments' = [shipments EXCEPT ![tx.id].status = "CANCELLED"]
      BY <2>6 DEF CancelShipment
    <3>2. CASE i # tx.id
      BY <1>2, <2>3, <3>1, <3>2 DEF Issued
    <3>3. CASE i = tx.id
      <4>1. shipments[i] \in Shipment
        BY <1>0, <2>3, IssuedIds
      <4>2. shipments'[i].status = "CANCELLED"
        BY <2>3, <3>1, <3>3, <4>1 DEF Issued, Shipment
      <4>3. QED BY <2>2, <4>2
    <3>4. QED BY <3>2, <3>3
  <2>7. QED BY <1>5, <2>4, <2>5, <2>6 DEF Execute
<1>6. CASE Mine
  <2>1. PICK tx \in pool : Execute(tx)
    BY <1>6 DEF Mine
  <2>2. QED BY <1>3, <1>5, <2>1
<1>7. CASE OtherWalletCalls
  BY <1>4, <1>7 DEF OtherWalletCalls
<1>8. ASSUME NEW j \in Jobs, Start(j) \/ JobStep(j) \/ CallFails(j)
      PROVE  Backed(i, shipments'[i], job')
  BY <1>3, <1>8 DEF Start, JobStep, ReadNonce, ReadGasPrice, Build, Send, CallFails
<1>9. CASE GasPriceRises \/ UNCHANGED vars
  BY <1>3, <1>9 DEF GasPriceRises, vars
<1>10. QED BY <1>6, <1>7, <1>8, <1>9 DEF Next

-----------------------------------------------------------------------------
\* The reports that get through.

\* A shipment the server tracks takes no more reports.
Late(s) == s.trackerService = Server => ~Active(s)

\* A shipment that was there when its job started is still there.
KnownJobsExist == \A j \in Jobs : job[j] # Idle /\ job[j].known => ShipmentExists(job[j].id)

\* The job that runs has the wallet to itself, and from its nonce on no block moves
\* the count under it.
OneAtATime ==
    \A j \in Jobs : Busy(j) =>
        /\ pool = {}
        /\ job[j].pc # "nonce" => job[j].nonce = mined
        /\ \A k \in Jobs : Busy(k) => k = j

\* A job that fell back to cancelling found its shipment closed.
FallbackIsLate ==
    \A j \in Jobs :
        job[j] # Idle /\ job[j].kind = "cancel" /\ job[j].known => Late(shipments[job[j].id])

\* The inductive invariant of ReportsGoThrough. The property looks at the step that
\* gives a report up, and the reason lies several awaits before it.
ReportInv ==
    /\ KnownJobsExist
    /\ ~disturbed => OneAtATime /\ FallbackIsLate

LEMMA ReportInvInit == OracleInit => ReportInv
<1> SUFFICES ASSUME OracleInit PROVE ReportInv
  OBVIOUS
<1>1. \A j \in Jobs : job[j] = Idle
  BY DEF OracleInit
<1>2. QED
  BY <1>1 DEF ReportInv, KnownJobsExist, OneAtATime, FallbackIsLate, Busy, Idle

\* Ids stay issued, and a shipment that takes no more reports never takes one again.
LEMMA LateStaysLate ==
    ASSUME OracleInv, [Next]_vars, NEW i \in ShipmentIds, ShipmentExists(i)
    PROVE  /\ ShipmentExists(i)'
           /\ Late(shipments[i]) => Late(shipments'[i])
<1>1. [ContractNext]_contractVars /\ ContractInv /\ ContractTypeOK
  BY ContractStep DEF OracleInv, ContractInv
<1>2. i \in Issued /\ nextShipmentId \in Nat /\ i \in Nat
  BY <1>1, IssuedIds, ContractAssumption DEF ShipmentIds
<1>3. CASE UNCHANGED contractVars
  BY <1>3 DEF contractVars, ShipmentExists
<1>4. CASE ContractNext /\ ~UNCHANGED contractVars
  <2>1. nextShipmentId' = nextShipmentId \/ nextShipmentId' = nextShipmentId + 1
    BY <1>1, <1>4, StepShape DEF NextBlock, AddsShipment, WritesOpenShipment
  <2>2. ShipmentExists(i)'
    BY <1>2, <2>1 DEF ShipmentExists
  <2>3. Terminal(shipments[i]) => shipments'[i] = shipments[i]
    BY <1>1, <1>2, <1>4, StepClosedForGood
  <2>4. shipments'[i].trackerService = shipments[i].trackerService
    BY <1>1, <1>2, <1>4, StepRecordsAreKept DEF KeepsRecord
  <2>5. QED BY <2>2, <2>3, <2>4 DEF Late, Terminal
<1>5. QED BY <1>1, <1>3, <1>4

\* What a step does to a job: it begins, it goes on, or its report falls back.
Begins(j) ==
    /\ job[j] = Idle
    /\ \E kind \in {"create", "submit"}, id \in ShipmentIds : job'[j] = Started(kind, id)

SameJob(r, s) == s \in JobRecord /\ s.id = r.id /\ s.known = r.known

GoesOn(j) ==
    /\ Busy(j) /\ SameJob(job[j], job'[j])
    /\ job'[j].kind = job[j].kind
    /\ job[j].kind = "submit" /\ job'[j].pc = "done" => job'[j].sent

FallsBack(j) ==
    /\ Busy(j) /\ SameJob(job[j], job'[j])
    /\ job[j].kind = "submit" /\ job'[j].kind = "cancel" /\ job'[j].pc # "done"
    /\ \/ disturbed'
       \/ Reverts(Tx(j))
       \/ job[j].pc = "send" /\ ~Accepted(Tx(j))

\* Giving up ends a job that is not a report, and sends a report to its fallback.
LEMMA GiveUpShape ==
    ASSUME BackendTypeOK, NEW j \in Jobs, Busy(j), job' = GiveUp(j)
    PROVE  /\ SameJob(job[j], job'[j])
           /\ \/ job[j].kind # "submit" /\ job'[j].kind = job[j].kind
              \/ job[j].kind = "submit" /\ job'[j].kind = "cancel" /\ job'[j].pc = "nonce"
<1>1. job[j] \in JobRecord /\ job \in [Jobs -> {Idle} \union JobRecord]
  BY DEF BackendTypeOK, Busy, Idle
<1>2. CASE job[j].kind = "submit"
  <2> DEFINE r == [job[j] EXCEPT !.pc = "nonce", !.kind = "cancel"]
  <2>1. SameJob(job[j], r) /\ r.kind = "cancel" /\ r.pc = "nonce"
    BY <1>1 DEF JobRecord, Kinds, SameJob
  <2>2. job'[j] = r
    BY <1>1, <1>2 DEF GiveUp
  <2>3. QED BY <1>2, <2>1, <2>2
<1>3. CASE job[j].kind # "submit"
  <2> DEFINE r == [job[j] EXCEPT !.pc = "done"]
  <2>1. SameJob(job[j], r) /\ r.kind = job[j].kind
    BY <1>1 DEF JobRecord, SameJob
  <2>2. job'[j] = r
    BY <1>1, <1>3 DEF GiveUp
  <2>3. QED BY <1>3, <2>1, <2>2
<1>4. QED BY <1>2, <1>3

\* Only the job whose step it is changes.
LEMMA StepsOfOneJob ==
    ASSUME OracleInv, NEW j \in Jobs, Start(j) \/ JobStep(j) \/ CallFails(j)
    PROVE  \A k \in Jobs : k # j => job'[k] = job[k]
BY DEF Start, JobStep, ReadNonce, ReadGasPrice, Build, Send, CallFails, GiveUp,
       OracleInv, BackendTypeOK

LEMMA JobShape ==
    ASSUME OracleInv, [Next]_vars, NEW k \in Jobs
    PROVE  job'[k] = job[k] \/ Begins(k) \/ GoesOn(k) \/ FallsBack(k)
<1>1. BackendTypeOK /\ job \in [Jobs -> {Idle} \union JobRecord] /\ gasPrice \in 0..MaxGasPrice
      /\ mined \in Nat
  BY DEF OracleInv, BackendTypeOK
<1>2. ASSUME NEW j \in Jobs, Start(j) \/ JobStep(j) \/ CallFails(j), k # j
      PROVE  job'[k] = job[k]
  BY <1>2, StepsOfOneJob
<1>3. CASE Start(k)
  <2>1. job[k] = Idle
    BY <1>1, <1>3 DEF Start, JobRecord
  <2>2. 0 \in ShipmentIds
    BY OracleAssumption, ContractAssumption DEF ShipmentIds
  <2>3. PICK kind \in {"create", "submit"}, id \in ShipmentIds :
          job' = [job EXCEPT ![k] = Started(kind, id)]
    BY <1>3, <2>2 DEF Start, ShipmentIds
  <2>4. job'[k] = Started(kind, id)
    BY <1>1, <2>3
  <2>5. QED BY <2>1, <2>4 DEF Begins
<1>4. ASSUME Busy(k), job' = GiveUp(k),
             disturbed' \/ Reverts(Tx(k)) \/ (job[k].pc = "send" /\ ~Accepted(Tx(k)))
      PROVE  GoesOn(k) \/ FallsBack(k)
  BY <1>1, <1>4, GiveUpShape DEF GoesOn, FallsBack
<1>5. ASSUME Busy(k), NEW r, job' = [job EXCEPT ![k] = r],
             SameJob(job[k], r), r.kind = job[k].kind, r.pc = "done" => r.sent
      PROVE  GoesOn(k)
  <2>1. job'[k] = r
    BY <1>1, <1>5
  <2>2. QED BY <1>5, <2>1 DEF GoesOn
<1>6. CASE ReadNonce(k)
  <2> DEFINE r == [job[k] EXCEPT !.pc = "price", !.nonce = mined]
  <2>1. Busy(k) /\ job[k] \in JobRecord
    BY <1>1, <1>6 DEF ReadNonce, Busy, Idle
  <2>2. SameJob(job[k], r) /\ r.kind = job[k].kind /\ r.pc # "done"
    BY <1>1, <2>1 DEF SameJob, JobRecord
  <2>3. job' = [job EXCEPT ![k] = r]
    BY <1>1, <1>6 DEF ReadNonce, TransactionCount
  <2> HIDE DEF r
  <2>4. QED BY <1>5, <2>1, <2>2, <2>3
<1>7. CASE ReadGasPrice(k)
  <2> DEFINE r == [job[k] EXCEPT !.pc = "build", !.price = gasPrice]
  <2>1. Busy(k) /\ job[k] \in JobRecord
    BY <1>1, <1>7 DEF ReadGasPrice, Busy, Idle
  <2>2. SameJob(job[k], r) /\ r.kind = job[k].kind /\ r.pc # "done"
    BY <1>1, <2>1 DEF SameJob, JobRecord
  <2>3. job' = [job EXCEPT ![k] = r]
    BY <1>1, <1>7 DEF ReadGasPrice
  <2> HIDE DEF r
  <2>4. QED BY <1>5, <2>1, <2>2, <2>3
<1>8. CASE Build(k)
  <2> DEFINE r == [job[k] EXCEPT !.pc = "send"]
  <2>1. Busy(k) /\ job[k] \in JobRecord
    BY <1>1, <1>8 DEF Build, Busy, Idle
  <2>2. SameJob(job[k], r) /\ r.kind = job[k].kind /\ r.pc # "done"
    BY <1>1, <2>1 DEF SameJob, JobRecord
  <2>3. (Reverts(Tx(k)) /\ job' = GiveUp(k)) \/ job' = [job EXCEPT ![k] = r]
    BY <1>1, <1>8 DEF Build
  <2> HIDE DEF r
  <2>4. QED BY <1>4, <1>5, <2>1, <2>2, <2>3
<1>9. CASE Send(k)
  <2> DEFINE r == [job[k] EXCEPT !.pc = "done", !.sent = TRUE]
  <2>1. Busy(k) /\ job[k] \in JobRecord /\ job[k].pc = "send"
    BY <1>1, <1>9 DEF Send, Busy, Idle
  <2>2. SameJob(job[k], r) /\ r.kind = job[k].kind /\ r.sent
    BY <1>1, <2>1 DEF SameJob, JobRecord
  <2>3. \/ job' = [job EXCEPT ![k] = r]
        \/ job' = GiveUp(k) /\ (disturbed' \/ ~Accepted(Tx(k)))
    BY <1>1, <1>9 DEF Send
  <2> HIDE DEF r
  <2>4. QED BY <1>4, <1>5, <2>1, <2>2, <2>3
<1>10. CASE CallFails(k)
  <2>1. Busy(k) /\ job' = GiveUp(k) /\ disturbed'
    BY <1>10 DEF CallFails, Busy
  <2>2. QED BY <1>4, <2>1
<1>11. CASE Mine \/ GasPriceRises \/ OtherWalletCalls \/ UNCHANGED vars
  BY <1>11 DEF Mine, GasPriceRises, OtherWalletCalls, vars
<1>12. QED BY <1>2, <1>3, <1>6, <1>7, <1>8, <1>9, <1>10, <1>11 DEF Next, JobStep

\* Known shipments stay.
LEMMA KnownStep ==
    ASSUME OracleInv, KnownJobsExist, [Next]_vars
    PROVE  KnownJobsExist'
<1> SUFFICES ASSUME NEW j \in Jobs, job'[j] # Idle, job'[j].known
             PROVE  job'[j].id < nextShipmentId'
  BY DEF KnownJobsExist, ShipmentExists
<1>1. job[j] # Idle => job[j].id \in ShipmentIds
  BY DEF OracleInv, BackendTypeOK, JobRecord
<1>2. ASSUME NEW i \in ShipmentIds, ShipmentExists(i), job'[j].id = i
      PROVE  job'[j].id < nextShipmentId'
  BY <1>2, LateStaysLate DEF ShipmentExists
<1>3. CASE Begins(j)
  <2>1. PICK kind \in {"create", "submit"}, id \in ShipmentIds : job'[j] = Started(kind, id)
    BY <1>3 DEF Begins
  <2>2. job'[j].id = id /\ ShipmentExists(id)
    BY <2>1 DEF Started
  <2>3. QED BY <1>2, <2>2
<1>4. CASE job'[j] = job[j]
  BY <1>1, <1>2, <1>4 DEF KnownJobsExist
<1>5. CASE GoesOn(j) \/ FallsBack(j)
  <2>1. Busy(j) /\ SameJob(job[j], job'[j])
    BY <1>5 DEF GoesOn, FallsBack
  <2>2. job[j] # Idle
    BY <2>1 DEF Busy, Idle
  <2>3. job'[j].id = job[j].id /\ job'[j].known = job[j].known
    BY <2>1 DEF SameJob
  <2>4. job[j].known
    BY <2>3
  <2>5. QED BY <1>1, <1>2, <2>2, <2>3, <2>4 DEF KnownJobsExist
<1>6. QED BY <1>3, <1>4, <1>5, JobShape

\* Trouble is remembered.
LEMMA TroubleStays ==
    ASSUME OracleInv, [Next]_vars, ~disturbed' PROVE ~disturbed
<1>1. ASSUME NEW j \in Jobs, Start(j) \/ JobStep(j) \/ CallFails(j)
      PROVE  ~disturbed
  BY <1>1 DEF Start, JobStep, ReadNonce, ReadGasPrice, Build, Send, CallFails
<1>2. CASE Mine \/ GasPriceRises \/ OtherWalletCalls \/ UNCHANGED vars
  BY <1>2 DEF Mine, GasPriceRises, OtherWalletCalls, vars
<1>3. QED BY <1>1, <1>2 DEF Next

\* In calm, the node takes the transaction of the job that runs.
LEMMA CalmIsAccepted ==
    ASSUME OracleInv, OneAtATime, NEW j \in Jobs, job[j].pc = "send"
    PROVE  Accepted(Tx(j))
<1>1. Busy(j) /\ mined \in Nat /\ BackendTypeOK
  BY DEF Busy, OracleInv, BackendTypeOK
<1>2. pool = {} /\ Tx(j).nonce = mined
  BY <1>1, TxOfJob DEF OneAtATime
<1>3. QED BY <1>1, <1>2 DEF Accepted

\* In calm, one job runs at a time.
LEMMA OneAtATimeStep ==
    ASSUME OracleInv, OneAtATime, [Next]_vars, ~disturbed'
    PROVE  OneAtATime'
<1>0. job \in [Jobs -> {Idle} \union JobRecord]
  BY DEF OracleInv, BackendTypeOK
<1>1. ASSUME NEW j \in Jobs, Start(j)
      PROVE  OneAtATime'
  <2>1. Quiet
    BY <1>1 DEF Start
  <2>2. UNCHANGED pool
    BY <1>1 DEF Start, nodeVars
  <2>3. job'[j].pc = "nonce"
    BY <1>0, <1>1 DEF Start, Started
  <2>4. \A k \in Jobs : k # j => ~Busy(k)'
    BY <1>1, <2>1, StepsOfOneJob DEF Quiet, Busy
  <2>5. QED BY <2>1, <2>2, <2>3, <2>4 DEF OneAtATime, Quiet, Busy
<1>2. ASSUME NEW j \in Jobs, ReadNonce(j) \/ ReadGasPrice(j) \/ Build(j)
      PROVE  OneAtATime'
  <2>1. Busy(j) /\ UNCHANGED <<pool, mined>>
    BY <1>2 DEF ReadNonce, ReadGasPrice, Build, Busy, nodeVars
  <2>2. \A k \in Jobs : k # j => ~Busy(k)'
    BY <1>2, <2>1, StepsOfOneJob DEF OneAtATime, Busy, JobStep
  <2>3. job'[j].pc \in {"nonce", "done"} \/ job'[j].nonce = mined
    <3>1. CASE ReadNonce(j)
      BY <1>0, <3>1 DEF ReadNonce, TransactionCount
    <3>2. CASE ReadGasPrice(j) \/ (Build(j) /\ job' = [job EXCEPT ![j].pc = "send"])
      <4>1. job[j].nonce = mined
        <5>1. job[j].pc # "nonce"
          BY <3>2 DEF ReadGasPrice, Build
        <5>2. QED BY <2>1, <5>1 DEF OneAtATime
      <4>2. job'[j].nonce = job[j].nonce
        <5>1. job[j] \in JobRecord
          BY <1>0, <2>1 DEF Busy, Idle
        <5>2. \/ job'[j] = [job[j] EXCEPT !.pc = "build", !.price = gasPrice]
              \/ job'[j] = [job[j] EXCEPT !.pc = "send"]
          BY <1>0, <3>2 DEF ReadGasPrice
        <5>3. QED BY <5>1, <5>2 DEF JobRecord
      <4>3. QED BY <4>1, <4>2
    <3>3. CASE job' = GiveUp(j)
      BY <1>0, <3>3 DEF GiveUp
    <3>4. QED BY <1>2, <3>1, <3>2, <3>3 DEF Build
  <2>4. pool = {}
    BY <2>1 DEF OneAtATime
  <2>5. QED BY <2>1, <2>2, <2>3, <2>4 DEF OneAtATime, Busy
<1>3. ASSUME NEW j \in Jobs, Send(j)
      PROVE  OneAtATime'
  <2>1. Busy(j) /\ job[j].pc = "send"
    BY <1>3 DEF Send, Busy
  <2>2. Accepted(Tx(j))
    BY <2>1, CalmIsAccepted
  <2>3. job'[j].pc = "done"
    <3>1. job' = [job EXCEPT ![j].pc = "done", ![j].sent = TRUE]
      BY <1>3, <2>2 DEF Send
    <3>2. QED BY <1>0, <3>1
  <2>4. \A k \in Jobs : k # j => ~Busy(k)'
    BY <1>3, <2>1, StepsOfOneJob DEF OneAtATime, Busy, JobStep
  <2>5. QED BY <2>3, <2>4 DEF OneAtATime, Busy
<1>4. ASSUME NEW j \in Jobs, CallFails(j) PROVE FALSE
  BY <1>4 DEF CallFails
<1>5. CASE Mine
  <2>1. pool # {} /\ UNCHANGED job
    BY <1>5 DEF Mine
  <2>2. \A k \in Jobs : ~Busy(k)'
    BY <2>1 DEF OneAtATime, Busy
  <2>3. QED BY <2>2 DEF OneAtATime
<1>6. CASE GasPriceRises \/ OtherWalletCalls \/ UNCHANGED vars
  BY <1>6 DEF GasPriceRises, OtherWalletCalls, vars, nodeVars, OneAtATime, Busy
<1>7. QED BY <1>1, <1>2, <1>3, <1>4, <1>5, <1>6 DEF Next, JobStep

\* In calm, only a closed shipment makes a report revert.
LEMMA RevertsWhenLate ==
    ASSUME OracleInv, KnownJobsExist, NEW j \in Jobs, Busy(j),
           job[j].kind = "submit", job[j].known, Reverts(Tx(j))
    PROVE  Late(shipments[job[j].id])
<1>1. ShipmentExists(job[j].id) /\ j # Empty
  BY ContractAssumption, OracleAssumption DEF KnownJobsExist, Busy, Idle
<1>2. ~CanSubmit(job[j].id, Server, j)
  BY DEF Reverts, Tx
<1>3. QED BY <1>1, <1>2 DEF CanSubmit, OnlyTrackerService, Late

LEMMA FallbackStep ==
    ASSUME OracleInv, KnownJobsExist, OneAtATime, FallbackIsLate, [Next]_vars, ~disturbed'
    PROVE  FallbackIsLate'
<1> SUFFICES ASSUME NEW j \in Jobs, job'[j] # Idle, job'[j].kind = "cancel", job'[j].known
             PROVE  Late(shipments'[job'[j].id])
  BY DEF FallbackIsLate, Late, Active
<1>1. job[j] # Idle => job[j].id \in ShipmentIds
  BY DEF OracleInv, BackendTypeOK, JobRecord
<1>2. ASSUME job[j] # Idle, job[j].known, job'[j].id = job[j].id, Late(shipments[job[j].id])
      PROVE  Late(shipments'[job'[j].id])
  BY <1>1, <1>2, LateStaysLate DEF KnownJobsExist
<1>3. ASSUME Begins(j) PROVE FALSE
  <2>1. PICK kind \in {"create", "submit"}, id \in ShipmentIds : job'[j] = Started(kind, id)
    BY <1>3 DEF Begins
  <2>2. job'[j].kind = kind
    BY <2>1 DEF Started
  <2>3. QED BY <2>2
<1>4. CASE job'[j] = job[j]
  BY <1>2, <1>4 DEF FallbackIsLate
<1>5. CASE GoesOn(j)
  BY <1>2, <1>5 DEF GoesOn, SameJob, Busy, Idle, FallbackIsLate
<1>6. CASE FallsBack(j)
  <2>1. Reverts(Tx(j))
    BY <1>6, CalmIsAccepted DEF FallsBack
  <2>2. Busy(j) /\ job[j] # Idle /\ job[j].known /\ job'[j].id = job[j].id
        /\ job[j].kind = "submit"
    BY <1>6 DEF FallsBack, SameJob, Busy, Idle
  <2>3. QED BY <1>2, <2>1, <2>2, RevertsWhenLate
<1>7. QED BY <1>3, <1>4, <1>5, <1>6, JobShape

LEMMA ReportInvStep == OracleInv /\ ReportInv /\ [Next]_vars => ReportInv'
BY KnownStep, TroubleStays, OneAtATimeStep, FallbackStep DEF ReportInv

\* A step that ends a report without a transaction ends its fallback.
LEMMA StepReportsGoThrough ==
    OracleInv /\ ReportInv /\ [Next]_vars =>
        [\A j \in Jobs :
           /\ ~disturbed
           /\ Busy(j) /\ job'[j].pc = "done" /\ ~job'[j].sent
           /\ job[j].kind # "create" /\ job[j].known
           /\ shipments[job[j].id].trackerService = Server
           => ~Active(shipments[job[j].id])]_vars
<1> SUFFICES ASSUME OracleInv, ReportInv, [Next]_vars, NEW j \in Jobs,
                    ~disturbed, Busy(j), job'[j].pc = "done", ~job'[j].sent,
                    job[j].kind # "create", job[j].known
             PROVE  Late(shipments[job[j].id])
  BY DEF Late
<1>1. job[j] # Idle /\ job[j].kind \in Kinds
  BY DEF Busy, Idle, OracleInv, BackendTypeOK, JobRecord
<1>2. job'[j] # job[j] /\ ~Begins(j)
  BY <1>1 DEF Busy, Begins
<1>3. job[j].kind # "submit"
  BY <1>2, JobShape DEF GoesOn, FallsBack
<1>4. QED BY <1>1, <1>3 DEF Kinds, ReportInv, FallbackIsLate

-----------------------------------------------------------------------------
\* The theorems.

LEMMA OracleInvStep == OracleInv /\ [Next]_vars => OracleInv'
BY ContractStep, InvStep, BackendStep, EvidenceStep DEF OracleInv

\* The invariant holds in every reachable state.
THEOREM OracleInvariant == Spec => []OracleInv
BY OracleInvInit, OracleInvStep, PTL DEF Spec

\* Jobs, node and contract are well typed in every reachable state.
THEOREM OracleTyped == Spec => []OracleTypeOK
BY OracleInvariant, OracleInvGivesProperties, PTL

\* However many jobs overlap and calls fail, the server's wallet has at most one
\* transaction pending, and the next block can take it.
THEOREM NonceTheorem == Spec => []NoNonceGap
BY OracleInvariant, OracleInvGivesProperties, PTL

\* A shipment the server reported as breached carries the record of a violation of
\* that very shipment.
THEOREM BreachTheorem == Spec => []BreachHasItsEvidence
BY OracleInvariant, OracleInvGivesProperties, PTL

\* Backend and node together implement the contract's specification: nothing the
\* oracle does makes the contract take a step that is not one of its calls.
THEOREM OracleUsesContract == Spec => ContractSpec
<1>1. OracleInit => ContractInit
  BY DEF OracleInit
<1>2. QED
  BY <1>1, OracleInvariant, ContractStep, PTL DEF Spec, ContractSpec

\* So a shipment that is closed stays what it was, whichever jobs report late.
THEOREM OracleRespectsClosure == Spec => ClosedForGood
BY OracleUsesContract, ClosureTheorem, PTL

\* The invariant behind the reports holds in every reachable state.
THEOREM ReportInvariant == Spec => []ReportInv
BY OracleInvariant, ReportInvInit, ReportInvStep, PTL DEF Spec

\* While jobs do not overlap and the node answers, a violation of a shipment the
\* server tracks is given up only when the shipment is closed.
THEOREM ReportsTheorem == Spec => ReportsGoThrough
BY OracleInvariant, ReportInvariant, StepReportsGoThrough, PTL DEF Spec, ReportsGoThrough
==============================================================================
