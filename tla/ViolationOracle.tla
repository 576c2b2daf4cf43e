--------------------------- MODULE ViolationOracle ---------------------------
(***************************************************************************)
(* The backend as an oracle of the ColdChainShipment contract:             *)
(* _handle_violation (gigaservice/api/sensors.py), POST                    *)
(* /packages/initialize (api/packages.py) and the three transactions of    *)
(* services/blockchain.py, all signed by the server's wallet, over an      *)
(* Ethereum node with a transaction pool. A job is one queued violation or *)
(* one initialize request; a step of it is one await on the node.          *)
(***************************************************************************)
EXTENDS ColdChainShipment, FiniteSets

CONSTANTS
    Server,         \* the wallet of WEB3_PRIVATE_KEY
    Jobs,           \* violations and initialize requests; a violation's name
                    \* stands for the Swarm reference of its telemetry record
    MaxFailures,    \* bound: calls to the node that fail
    MaxGasPrice,    \* bound: rises of the gas price
    MaxOthersCalls  \* bound: calls of the contract by other wallets

ASSUME OracleAssumption ==
    /\ Server \in Wallets
    /\ Jobs \subseteq Proofs
    /\ MaxShipments # 0
    /\ MaxFailures \in Nat
    /\ MaxGasPrice \in Nat
    /\ MaxOthersCalls \in Nat

VARIABLES
    job,        \* job -> the locals of its coroutine
    mined,      \* transactions of the server's wallet mined so far
    pool,       \* its transactions that are pending
    gasPrice,   \* what eth_gasPrice answers
    failures,   \* failed calls so far
    othersCalls,\* calls of other wallets so far
    disturbed   \* history: two jobs overlapped, or a call failed

nodeVars == <<mined, pool, gasPrice>>
vars == <<contractVars, job, nodeVars, failures, othersCalls, disturbed>>

Idle == [pc |-> "idle"]

\* The locals of a job; known is history: the shipment existed when it started.
Started(kind, id) ==
    [pc |-> "nonce", kind |-> kind, id |-> id, nonce |-> 0, price |-> 0,
     sent |-> FALSE, known |-> ShipmentExists(id)]

OracleInit ==
    /\ ContractInit
    /\ job = [j \in Jobs |-> Idle]
    /\ mined = 0 /\ pool = {} /\ gasPrice = 0
    /\ failures = 0 /\ othersCalls = 0
    /\ disturbed = FALSE

Busy(j) == job[j].pc \notin {"idle", "done"}
Quiet == pool = {} /\ \A j \in Jobs : ~Busy(j)

-----------------------------------------------------------------------------
\* The node.

\* Fault: the transaction names the newest shipment instead of the job's.
TxForNewest(j) ==
    [job |-> j, kind |-> job[j].kind,
     id |-> IF nextShipmentId = 0 THEN 0 ELSE nextShipmentId - 1,
     nonce |-> job[j].nonce, price |-> job[j].price]

\* The transaction a job builds, signs and sends.
Tx(j) ==
    [job |-> j, kind |-> job[j].kind, id |-> job[j].id,
     nonce |-> job[j].nonce, price |-> job[j].price]

\* eth_sendRawTransaction: the nonce must not be used up, and a transaction with
\* the nonce of a pending one must pay more, and then replaces it.
Accepted(tx) ==
    /\ tx.nonce >= mined
    /\ \A other \in pool : other.nonce = tx.nonce => tx.price > other.price

Admit(tx) == {other \in pool : other.nonce # tx.nonce} \union {tx}

\* eth_estimateGas on the latest block, and execution in a block: the call reverts
\* unless the contract's guards hold.
Reverts(tx) ==
    CASE tx.kind = "create" -> nextShipmentId = MaxShipments
      [] tx.kind = "submit" -> ~CanSubmit(tx.id, Server, tx.job)
      [] tx.kind = "cancel" -> ~CanCancel(tx.id, Server)

Execute(tx) ==
    \/ Reverts(tx) /\ UNCHANGED contractVars
    \/ /\ tx.kind = "create"
       /\ \E ref \in PackageRefs : CreateShipment(Server, Server, Server, ref)
    \/ tx.kind = "submit" /\ SubmitTrackerState(tx.id, Server, FALSE, tx.job)
    \/ tx.kind = "cancel" /\ CancelShipment(tx.id, Server)

\* A block includes the server's next transaction.
Mine ==
    /\ \E tx \in pool :
         /\ tx.nonce = mined
         /\ Execute(tx)
         /\ pool' = pool \ {tx}
    /\ mined' = mined + 1
    /\ UNCHANGED <<job, gasPrice, failures, othersCalls, disturbed>>

GasPriceRises ==
    /\ gasPrice < MaxGasPrice
    /\ gasPrice' = gasPrice + 1
    /\ UNCHANGED <<contractVars, job, mined, pool, failures, othersCalls, disturbed>>

\* Everybody else calls the contract too.
OtherWalletCalls ==
    /\ othersCalls < MaxOthersCalls
    /\ othersCalls' = othersCalls + 1
    /\ \E w \in Wallets \ {Server} : Call(w)
    /\ UNCHANGED <<job, nodeVars, failures, disturbed>>

-----------------------------------------------------------------------------
\* The backend.

\* _handle_violation is started for the shipment the device's name denotes, or
\* initialize_package_on_chain for a new one.
Start(j) ==
    /\ job[j].pc = "idle"
    /\ \/ job' = [job EXCEPT ![j] = Started("create", 0)]
       \/ \E id \in 0..(MaxShipments - 1) :
            job' = [job EXCEPT ![j] = Started("submit", id)]
    /\ disturbed' = (disturbed \/ ~Quiet)
    /\ UNCHANGED <<contractVars, nodeVars, failures, othersCalls>>

\* The call raised: submit_tracker_state answers None and the fallback starts from
\* the beginning; the other two end their job.
GiveUp(j) ==
    IF job[j].kind = "submit"
    THEN [job EXCEPT ![j].pc = "nonce", ![j].kind = "cancel"]
    ELSE [job EXCEPT ![j].pc = "done"]

\* An await on the node fails, for a reason of the node's own.
CallFails(j) ==
    /\ job[j].pc \in {"nonce", "price", "build"}
    /\ failures < MaxFailures
    /\ failures' = failures + 1
    /\ disturbed' = TRUE
    /\ job' = GiveUp(j)
    /\ UNCHANGED <<contractVars, nodeVars, othersCalls>>

\* Fault: the number of transactions is taken as their last index.
OffByOneCount == mined + 1

\* Fault: the count is read once, when the backend starts.
CountAtStart == 0

\* get_transaction_count(sender): the default block is the latest one, so pending
\* transactions do not count.
TransactionCount == mined

ReadNonce(j) ==
    /\ job[j].pc = "nonce"
    /\ job' = [job EXCEPT ![j].pc = "price", ![j].nonce = TransactionCount]
    /\ UNCHANGED <<contractVars, nodeVars, failures, othersCalls, disturbed>>

ReadGasPrice(j) ==
    /\ job[j].pc = "price"
    /\ job' = [job EXCEPT ![j].pc = "build", ![j].price = gasPrice]
    /\ UNCHANGED <<contractVars, nodeVars, failures, othersCalls, disturbed>>

\* build_transaction estimates the gas, which raises if the call would revert.
Build(j) ==
    /\ job[j].pc = "build"
    /\ job' = IF Reverts(Tx(j)) THEN GiveUp(j) ELSE [job EXCEPT ![j].pc = "send"]
    /\ UNCHANGED <<contractVars, nodeVars, failures, othersCalls, disturbed>>

\* send_raw_transaction: the hash comes back, or the node refuses, or the call
\* fails, before or after the node took the transaction.
Send(j) ==
    LET tx == Tx(j) IN
    /\ job[j].pc = "send"
    /\ \/ /\ Accepted(tx)
          /\ pool' = Admit(tx)
          /\ job' = [job EXCEPT ![j].pc = "done", ![j].sent = TRUE]
          /\ UNCHANGED <<failures, othersCalls, disturbed>>
       \/ /\ ~Accepted(tx)
          /\ job' = GiveUp(j)
          /\ UNCHANGED <<pool, failures, othersCalls, disturbed>>
       \/ /\ failures < MaxFailures
          /\ failures' = failures + 1
          /\ disturbed' = TRUE
          /\ pool' \in {pool} \union (IF Accepted(tx) THEN {Admit(tx)} ELSE {})
          /\ job' = GiveUp(j)
    /\ UNCHANGED <<contractVars, mined, gasPrice, othersCalls>>

-----------------------------------------------------------------------------
JobStep(j) == ReadNonce(j) \/ ReadGasPrice(j) \/ Build(j) \/ Send(j)

Next ==
    \/ \E j \in Jobs : Start(j) \/ JobStep(j) \/ CallFails(j)
    \/ Mine
    \/ GasPriceRises
    \/ OtherWalletCalls

\* The event loop runs every job, and blocks keep coming.
Fairness == WF_vars(Mine) /\ \A j \in Jobs : WF_vars(JobStep(j))

Spec == OracleInit /\ [][Next]_vars /\ Fairness

-----------------------------------------------------------------------------
\* Properties.

Kinds == {"create", "submit", "cancel"}
ShipmentIds == 0..(MaxShipments - 1)

OracleTypeOK ==
    /\ ContractTypeOK
    /\ \A j \in Jobs :
         \/ job[j] = Idle
         \/ job[j] \in [pc : {"nonce", "price", "build", "send", "done"}, kind : Kinds,
                        id : ShipmentIds, nonce : Nat, price : 0..MaxGasPrice,
                        sent : BOOLEAN, known : BOOLEAN]
    /\ mined \in Nat
    /\ pool \subseteq [job : Jobs, kind : Kinds, id : ShipmentIds, nonce : Nat, price : 0..MaxGasPrice]
    /\ gasPrice \in 0..MaxGasPrice
    /\ failures \in 0..MaxFailures /\ othersCalls \in 0..MaxOthersCalls
    /\ disturbed \in BOOLEAN

\* The wallet never gets stuck behind a gap in its nonces: what is pending is one
\* transaction at most, and the next block can take it. No job works on a nonce
\* from the future.
NoNonceGap ==
    /\ \A tx \in pool : tx.nonce = mined
    /\ Cardinality(pool) <= 1
    /\ \A j \in Jobs : job[j] # Idle => job[j].nonce <= mined

\* Whom the contract blames, it blames on evidence: a shipment the server reported
\* as BREACHED carries the telemetry record of a violation of that very shipment.
BreachHasItsEvidence ==
    \A i \in Issued :
        LET s == shipments[i] IN
        s.status = "BREACHED" /\ s.trackerService = Server =>
            \E j \in Jobs :
                s.telemetryProof = j /\ job[j] # Idle /\ job[j].id = i

\* While jobs do not overlap and the node answers, a violation of a shipment the
\* server tracks is given up only when somebody has closed the shipment.
ReportsGoThrough ==
    [][\A j \in Jobs :
         /\ ~disturbed
         /\ Busy(j) /\ job'[j].pc = "done" /\ ~job'[j].sent
         /\ job[j].kind # "create" /\ job[j].known
         /\ shipments[job[j].id].trackerService = Server
         => ~Active(shipments[job[j].id])]_vars

\* A violation whose handler got a transaction hash closes the shipment, whatever
\* other jobs and other wallets do meanwhile, unless a dearer one replaced it.
SentReportsCloseTheShipment ==
    \A j \in Jobs, i \in ShipmentIds :
        (job[j] # Idle /\ job[j].pc = "done" /\ job[j].sent /\ job[j].kind # "create"
           /\ job[j].id = i)
            ~> (i \in Issued /\ ~Active(shipments[i])) \/ gasPrice > 0

\* What README.md says of the oracle: when a violation occurs, it submits it. With a
\* node that never fails, a violation of an open shipment the server tracks is not
\* given up.
EveryViolationIsSubmitted ==
    [][\A j \in Jobs :
         /\ failures' = 0
         /\ Busy(j) /\ job'[j].pc = "done" /\ ~job'[j].sent
         /\ job[j].kind # "create" /\ job[j].known
         /\ shipments[job[j].id].trackerService = Server
         => ~Active(shipments[job[j].id])]_vars
==============================================================================
