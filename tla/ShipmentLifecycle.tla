-------------------------- MODULE ShipmentLifecycle --------------------------
(***************************************************************************)
(* What the cold-chain contract promises the parties of a shipment, with   *)
(* nothing said of statuses, roles or calls: a shipment is open until it   *)
(* is closed once and for all, two approvals gathered in either order      *)
(* deliver it, and while it is open it may be breached or cancelled.       *)
(* smart-contract/README.md states this promise; ColdChainShipment is      *)
(* shown to keep it.                                                       *)
(***************************************************************************)
EXTENDS Naturals

CONSTANT ShipmentIds

VARIABLES phase,       \* shipment -> where it stands in its life
          approvals    \* shipment -> the approvals that stand

Phases == {"absent", "open", "delivered", "breached", "cancelled"}
Approvers == {"tracker", "receiver"}

LifecycleVars == <<phase, approvals>>

LifecycleInit ==
    /\ phase = [i \in ShipmentIds |-> "absent"]
    /\ approvals = [i \in ShipmentIds |-> {}]

Open(i) ==
    /\ phase[i] = "absent"
    /\ phase' = [phase EXCEPT ![i] = "open"]
    /\ UNCHANGED approvals

\* The approval that completes the pair delivers the shipment in the same step.
Approve(i, a) ==
    /\ phase[i] = "open"
    /\ approvals' = [approvals EXCEPT ![i] = @ \union {a}]
    /\ phase' = [phase EXCEPT ![i] =
                    IF approvals[i] \union {a} = Approvers THEN "delivered" ELSE "open"]

\* A bad report withdraws the approval the tracker may have given before.
Breach(i) ==
    /\ phase[i] = "open"
    /\ phase' = [phase EXCEPT ![i] = "breached"]
    /\ approvals' = [approvals EXCEPT ![i] = @ \ {"tracker"}]

Cancel(i) ==
    /\ phase[i] = "open"
    /\ phase' = [phase EXCEPT ![i] = "cancelled"]
    /\ UNCHANGED approvals

LifecycleNext ==
    \E i \in ShipmentIds :
        \/ Open(i)
        \/ \E a \in Approvers : Approve(i, a)
        \/ Breach(i)
        \/ Cancel(i)

LifecycleSpec == LifecycleInit /\ [][LifecycleNext]_LifecycleVars
==============================================================================
