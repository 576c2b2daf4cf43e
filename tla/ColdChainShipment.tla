-------------------------- MODULE ColdChainShipment --------------------------
(***************************************************************************)
(* The ColdChainShipment contract (smart-contract/contracts/               *)
(* orderContract.sol). A transaction is atomic, so each external function  *)
(* is one action: its guard is the conjunction of the function's modifiers *)
(* and require statements, and a call that reverts is a call whose guard   *)
(* is false. The three roles of a shipment are plain wallets: one wallet   *)
(* may hold several roles, which createShipment allows.                    *)
(***************************************************************************)
EXTENDS Naturals

CONSTANTS
    Wallets,        \* the accounts that call the contract
    ZeroAddress,    \* address(0), an argument createShipment rejects
    PackageRefs,    \* the non-empty packageRef strings
    Proofs,         \* the non-empty telemetryProof strings
    Empty,          \* the empty string
    MaxShipments,   \* bound: shipments ever created
    MaxTime         \* bound: distinct block timestamps

ASSUME ContractAssumption ==
    /\ ZeroAddress \notin Wallets
    /\ Empty \notin PackageRefs
    /\ Empty \notin Proofs
    /\ MaxShipments \in Nat
    /\ MaxTime \in Nat \ {0}

VARIABLES
    nextShipmentId, \* the counter of the same name
    shipments,      \* the mapping of the same name, on the ids handed out
    now             \* block.timestamp of the block being built

contractVars == <<nextShipmentId, shipments, now>>

TrackerState == {"UNKNOWN", "GOOD", "BAD"}
ShipmentStatus == {"CREATED", "IN_TRANSIT", "DELIVERED", "BREACHED", "CANCELLED"}

Shipment ==
    [sender : Wallets, receiver : Wallets, trackerService : Wallets,
     packageRef : PackageRefs, telemetryProof : Proofs \union {Empty},
     trackerState : TrackerState, status : ShipmentStatus,
     receiverConfirmed : BOOLEAN,
     createdAt : 1..MaxTime, deliveredAt : 0..MaxTime]

ContractInit ==
    /\ nextShipmentId = 0
    /\ shipments = [i \in {} |-> 0]
    /\ now = 1

-----------------------------------------------------------------------------
\* The modifiers and the status test three functions share.

ShipmentExists(id) == id < nextShipmentId
OnlySender(id, caller) == caller = shipments[id].sender
OnlyReceiver(id, caller) == caller = shipments[id].receiver
OnlyTrackerService(id, caller) == caller = shipments[id].trackerService

Active(s) == s.status \in {"CREATED", "IN_TRANSIT"}

\* _tryCompleteShipment, on the shipment as the calling function left it.
TryCompleteShipment(s) ==
    IF s.receiverConfirmed /\ s.trackerState = "GOOD" /\ s.status = "IN_TRANSIT"
    THEN [s EXCEPT !.status = "DELIVERED", !.deliveredAt = now]
    ELSE s

-----------------------------------------------------------------------------
\* The external functions. caller is msg.sender.

NewShipment(caller, receiver, tracker, ref) ==
    [sender |-> caller, receiver |-> receiver, trackerService |-> tracker,
     packageRef |-> ref, telemetryProof |-> Empty,
     trackerState |-> "UNKNOWN", status |-> "CREATED", receiverConfirmed |-> FALSE,
     createdAt |-> now, deliveredAt |-> 0]

ValidParties(receiver, tracker, ref) ==
    /\ receiver # ZeroAddress
    /\ tracker # ZeroAddress
    /\ ref # Empty

CreateShipment(caller, receiver, tracker, ref) ==
    /\ ValidParties(receiver, tracker, ref)
    /\ nextShipmentId < MaxShipments
    /\ nextShipmentId' = nextShipmentId + 1
    /\ shipments' = [i \in 0..nextShipmentId |->
                       IF i = nextShipmentId
                       THEN NewShipment(caller, receiver, tracker, ref)
                       ELSE shipments[i]]
    /\ UNCHANGED now

StartShipment(id, caller) ==
    /\ ShipmentExists(id)
    /\ OnlySender(id, caller)
    /\ shipments[id].status = "CREATED"
    /\ shipments' = [shipments EXCEPT ![id].status = "IN_TRANSIT"]
    /\ UNCHANGED <<nextShipmentId, now>>

\* What a good report leaves of the shipment. A report on a shipment nobody
\* started starts it.
GoodReport(s, proof) ==
    TryCompleteShipment([s EXCEPT !.telemetryProof = proof,
                                  !.trackerState = "GOOD",
                                  !.status = "IN_TRANSIT"])

\* Fault: a bad report also clears the receiver's confirmation.
BadReportClearing(s, proof) ==
    [s EXCEPT !.telemetryProof = proof, !.trackerState = "BAD", !.status = "BREACHED",
              !.receiverConfirmed = FALSE]

BadReport(s, proof) ==
    [s EXCEPT !.telemetryProof = proof, !.trackerState = "BAD", !.status = "BREACHED"]

\* Fault: the require on the status is missing.
CanSubmitAnyTime(id, caller, proof) ==
    ShipmentExists(id) /\ OnlyTrackerService(id, caller) /\ proof # Empty

\* Fault: the require on the proof is missing.
CanSubmitBare(id, caller, proof) ==
    ShipmentExists(id) /\ OnlyTrackerService(id, caller) /\ Active(shipments[id])

CanSubmit(id, caller, proof) ==
    /\ ShipmentExists(id)
    /\ OnlyTrackerService(id, caller)
    /\ Active(shipments[id])
    /\ proof # Empty

SubmitTrackerState(id, caller, isGood, proof) ==
    /\ CanSubmit(id, caller, proof)
    /\ shipments' = [shipments EXCEPT ![id] =
                       IF isGood THEN GoodReport(@, proof) ELSE BadReport(@, proof)]
    /\ UNCHANGED <<nextShipmentId, now>>

\* Fault: a confirmation does not try to complete the shipment.
ConfirmationOnly(s) == [s EXCEPT !.receiverConfirmed = TRUE, !.status = "IN_TRANSIT"]

Confirmation(s) ==
    TryCompleteShipment([s EXCEPT !.receiverConfirmed = TRUE, !.status = "IN_TRANSIT"])

ConfirmReceived(id, caller) ==
    /\ ShipmentExists(id)
    /\ OnlyReceiver(id, caller)
    /\ Active(shipments[id])
    /\ shipments' = [shipments EXCEPT ![id] = Confirmation(@)]
    /\ UNCHANGED <<nextShipmentId, now>>

\* Fault: only the second require of cancelShipment is kept.
CanCancelUndeliverable(id, caller) ==
    /\ ShipmentExists(id)
    /\ OnlySender(id, caller)
    /\ shipments[id].trackerState # "GOOD" \/ ~shipments[id].receiverConfirmed

CanCancel(id, caller) ==
    /\ ShipmentExists(id)
    /\ OnlySender(id, caller)
    /\ Active(shipments[id])
    /\ shipments[id].trackerState # "GOOD" \/ ~shipments[id].receiverConfirmed

CancelShipment(id, caller) ==
    /\ CanCancel(id, caller)
    /\ shipments' = [shipments EXCEPT ![id].status = "CANCELLED"]
    /\ UNCHANGED <<nextShipmentId, now>>

\* The chain: a later block has a later timestamp.
NextBlock ==
    /\ now < MaxTime
    /\ now' = now + 1
    /\ UNCHANGED <<nextShipmentId, shipments>>

-----------------------------------------------------------------------------
Call(caller) ==
    \/ \E receiver, tracker \in Wallets \union {ZeroAddress},
          ref \in PackageRefs \union {Empty} :
            CreateShipment(caller, receiver, tracker, ref)
    \/ \E id \in 0..(MaxShipments - 1) :
        \/ StartShipment(id, caller)
        \/ \E isGood \in BOOLEAN, proof \in Proofs \union {Empty} :
              SubmitTrackerState(id, caller, isGood, proof)
        \/ ConfirmReceived(id, caller)
        \/ CancelShipment(id, caller)

ContractNext == NextBlock \/ \E caller \in Wallets : Call(caller)

ContractSpec == ContractInit /\ [][ContractNext]_contractVars

-----------------------------------------------------------------------------
\* Properties.

\* The type of the contract's storage. Only ids that were handed out are mapped.
ContractTypeOK ==
    /\ nextShipmentId \in 0..MaxShipments
    /\ shipments \in [0..(nextShipmentId - 1) -> Shipment]
    /\ now \in 1..MaxTime

Issued == DOMAIN shipments
Terminal(s) == ~Active(s)

\* A shipment is DELIVERED exactly when the tracker's last report is good and the
\* receiver has confirmed, whichever came first and whoever acted in between. In
\* one direction no call delivers early; in the other no call leaves a deliverable
\* shipment open, so cancelShipment's "Already deliverable" test never decides.
DeliveredExactlyWhenBoth ==
    \A i \in Issued :
        (shipments[i].status = "DELIVERED") <=>
            (shipments[i].trackerState = "GOOD" /\ shipments[i].receiverConfirmed)

\* Every verdict has its evidence: a proof is stored exactly when the tracker has
\* reported, a bad verdict is exactly a breach, and a shipment still in CREATED
\* has neither a report nor a confirmation.
VerdictHasEvidence ==
    \A i \in Issued :
        LET s == shipments[i] IN
        /\ (s.telemetryProof = Empty) <=> (s.trackerState = "UNKNOWN")
        /\ (s.trackerState = "BAD") <=> (s.status = "BREACHED")
        /\ s.status = "CREATED" => s.trackerState = "UNKNOWN" /\ ~s.receiverConfirmed

\* deliveredAt is set by delivery and by nothing else, to a time in the past that
\* is not before the shipment's creation.
DeliveryIsDated ==
    \A i \in Issued :
        LET s == shipments[i] IN
        IF s.status = "DELIVERED"
        THEN s.createdAt <= s.deliveredAt /\ s.deliveredAt <= now
        ELSE s.deliveredAt = 0

\* No call, by anyone, changes any field of a shipment that is delivered, breached
\* or cancelled: its evidence stays what it was when it closed.
ClosedForGood ==
    [][\A i \in Issued : Terminal(shipments[i]) => shipments'[i] = shipments[i]]_contractVars

\* A call touches at most one shipment, never rewrites who its parties are, what
\* it carries or when it was created, and never takes back a confirmation.
RecordsAreKept ==
    [][/\ \A i, j \in Issued :
             shipments'[i] # shipments[i] /\ shipments'[j] # shipments[j] => i = j
       /\ \A i \in Issued :
             LET s == shipments[i]  t == shipments'[i] IN
             /\ t.sender = s.sender /\ t.receiver = s.receiver
             /\ t.trackerService = s.trackerService
             /\ t.packageRef = s.packageRef /\ t.createdAt = s.createdAt
             /\ s.receiverConfirmed => t.receiverConfirmed]_contractVars

-----------------------------------------------------------------------------
\* The refinement: the storage read as the parties' agreement.

Ids == 0..(MaxShipments - 1)

PhaseOfStatus ==
    [CREATED |-> "open", IN_TRANSIT |-> "open", DELIVERED |-> "delivered",
     BREACHED |-> "breached", CANCELLED |-> "cancelled"]

ApprovalsOf(s) ==
    (IF s.trackerState = "GOOD" THEN {"tracker"} ELSE {})
      \union (IF s.receiverConfirmed THEN {"receiver"} ELSE {})

PhaseMap ==
    [i \in Ids |-> IF i \in Issued THEN PhaseOfStatus[shipments[i].status] ELSE "absent"]

ApprovalMap == [i \in Ids |-> IF i \in Issued THEN ApprovalsOf(shipments[i]) ELSE {}]

Lifecycle ==
    INSTANCE ShipmentLifecycle
    WITH ShipmentIds <- Ids, phase <- PhaseMap, approvals <- ApprovalMap

\* The contract implements the agreement smart-contract/README.md describes: both
\* approvals in either order deliver, one never does, and a shipment closes once.
ImplementsLifecycle == Lifecycle!LifecycleSpec
==============================================================================
