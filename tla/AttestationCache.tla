--------------------------- MODULE AttestationCache ---------------------------
(***************************************************************************)
(* The attestation gate of GET /packages/{id}/history: RequiresAttestation *)
(* (gigaservice/api/deps.py) and verify_attestation with its in-process    *)
(* cache (services/attestations.py), over the EAS contract, which others   *)
(* write, and a node that answers each call at some moment before its      *)
(* answer arrives, or fails. A check is one request; a step is the code    *)
(* between two awaits, or the node's own. Time counts whole seconds. The   *)
(* one schema the backend asks for is the courier schema.                  *)
(***************************************************************************)
EXTENDS Integers

CONSTANTS
    Users,          \* wallet addresses
    Attestations,   \* uids of the attestations the EAS contract may hold
    Checks,         \* requests that pass through the gate
    Lifetimes,      \* how long an attestation that expires may be valid
    TTL,            \* _CACHE_TTL_SECONDS
    GetLogsParameters,  \* the parameters web3's get_logs takes
    MaxTime,        \* bound: the clock
    MaxRestarts     \* bound: process restarts

\* What the theorems assume of the constants.
CacheAssumption ==
    /\ Lifetimes \subseteq Nat
    /\ TTL \in Nat
    /\ MaxTime \in Nat \ {0}
    /\ MaxRestarts \in Nat

VARIABLES
    now,        \* the time, of the chain and of the backend
    att,        \* EAS: uid -> NotIssued or its Attestation struct
    configured, \* EAS_CONTRACT_ADDRESS and WEB3_RPC_URL are set
    cache,      \* user -> NoEntry or the cached result with its expiry
    check,      \* request -> the locals of its coroutine
    restarts    \* process restarts so far

vars == <<now, att, configured, cache, check, restarts>>

NotIssued == [issued |-> FALSE]
NoEntry == [held |-> FALSE]
Idle == [pc |-> "idle"]

\* Time 0 is before everything: in a struct it says "not revoked" and "for ever".
Init ==
    /\ now = 1
    /\ att = [a \in Attestations |-> NotIssued]
    /\ configured \in BOOLEAN
    /\ cache = [u \in Users |-> NoEntry]
    /\ check = [q \in Checks |-> Idle]
    /\ restarts = 0

\* The attestations the contract has issued to a user.
IssuedTo(u) == {a \in Attestations : att[a].issued /\ att[a].recipient = u}

-----------------------------------------------------------------------------
\* The EAS contract.

\* An attester issues an attestation, for ever or until a time to come.
Attest(a, u) ==
    /\ ~att[a].issued
    /\ \E until \in {0} \union {now + l : l \in Lifetimes} :
         att' = [att EXCEPT ![a] =
                   [issued |-> TRUE, recipient |-> u,
                    expirationTime |-> until, revocationTime |-> 0]]
    /\ UNCHANGED <<now, configured, cache, check, restarts>>

Revoke(a) ==
    /\ att[a].issued /\ att[a].revocationTime = 0
    /\ att' = [att EXCEPT ![a].revocationTime = now]
    /\ UNCHANGED <<now, configured, cache, check, restarts>>

-----------------------------------------------------------------------------
\* The cache.

\* _cache_get: is there an entry that has not expired?
Cached(u) == cache[u].held /\ ~(now > cache[u].expiry)

\* The cache after _cache_get, which drops an expired entry.
Looked(u) == IF cache[u].held /\ ~Cached(u) THEN [cache EXCEPT ![u] = NoEntry] ELSE cache

\* The cache after _cache_set, which keeps positive results only.
CacheSet(u, result) ==
    IF result
    THEN [cache EXCEPT ![u] = [held |-> TRUE, result |-> result, expiry |-> now + TTL]]
    ELSE cache

-----------------------------------------------------------------------------
\* verify_attestation. The request ends with an answer: the history, or 403.

\* The locals of a request on its first call to the node. clock is the `now` of
\* _check_on_chain. known and failed are history: what had been issued to the user
\* when the request came, and whether a call to the node failed.
Asking(u) ==
    [pc |-> "logs", user |-> u, known |-> IssuedTo(u), left |-> {}, uid |-> {},
     read |-> NotIssued, clock |-> 0, failed |-> FALSE]

\* The locals are gone with the answer; who got which stays.
Answered(r, result) ==
    [r EXCEPT !.pc = IF result THEN "granted" ELSE "denied",
              !.left = {}, !.uid = {}, !.read = NotIssued, !.clock = 0]

\* Outside a configured deployment the gate is open, and the cache is not asked.
Open(q, u) ==
    /\ check[q].pc = "idle"
    /\ ~configured
    /\ check' = [check EXCEPT ![q] = [Asking(u) EXCEPT !.pc = "open"]]
    /\ UNCHANGED <<now, att, configured, cache, restarts>>

\* _check_on_chain passes fromBlock to get_logs, and Python raises a TypeError on the
\* spot if get_logs has no such parameter.
CallIsWellFormed == "fromBlock" \in GetLogsParameters

\* A hit is answered at once; otherwise the logs are asked for. The TypeError is
\* caught like every exception: access is denied and nothing is cached.
Ask(q, u) ==
    /\ check[q].pc = "idle"
    /\ configured
    /\ \/ /\ Cached(u)
          /\ check' = [check EXCEPT ![q] = Answered(Asking(u), cache[u].result)]
       \/ /\ ~Cached(u) /\ CallIsWellFormed
          /\ check' = [check EXCEPT ![q] = Asking(u)]
       \/ /\ ~Cached(u) /\ ~CallIsWellFormed
          /\ check' = [check EXCEPT ![q] = Answered(Asking(u), FALSE)]
    /\ cache' = Looked(u)
    /\ UNCHANGED <<now, att, configured, restarts>>

\* The node runs the get_logs filter: every attestation issued to the user.
NodeFilters(q) ==
    /\ check[q].pc = "logs"
    /\ check' = [check EXCEPT ![q].pc = "logsBack", ![q].left = IssuedTo(check[q].user)]
    /\ UNCHANGED <<now, att, configured, cache, restarts>>

\* The logs arrive; the clock is read once, before the loop over them.
LogsArrive(q) ==
    /\ check[q].pc = "logsBack"
    /\ check' = [check EXCEPT ![q] =
                   IF @.left = {} THEN Answered(@, FALSE)
                   ELSE [@ EXCEPT !.pc = "fetch", !.clock = now]]
    /\ UNCHANGED <<now, att, configured, cache, restarts>>

\* The node evaluates getAttestation for the next uid.
NodeReads(q) ==
    /\ check[q].pc = "fetch"
    /\ \E a \in check[q].left :
         check' = [check EXCEPT ![q].pc = "fetched", ![q].uid = {a}, ![q].read = att[a]]
    /\ UNCHANGED <<now, att, configured, cache, restarts>>

\* Not revoked, and not expired by the clock read before the loop.
Live(r) ==
    /\ r.read.revocationTime = 0
    /\ r.read.expirationTime = 0 \/ ~(r.clock > r.read.expirationTime)

\* The struct arrives: the first live one grants and is cached from now on; after
\* the last dead one the answer is no; else the next one is asked for.
StructArrives(q) ==
    LET r == check[q]
        rest == r.left \ r.uid IN
    /\ r.pc = "fetched"
    /\ \/ /\ Live(r)
          /\ cache' = CacheSet(r.user, TRUE)
          /\ check' = [check EXCEPT ![q] = Answered(r, TRUE)]
       \/ /\ ~Live(r) /\ rest = {}
          /\ cache' = CacheSet(r.user, FALSE)
          /\ check' = [check EXCEPT ![q] = Answered(r, FALSE)]
       \/ /\ ~Live(r) /\ rest # {}
          /\ check' = [check EXCEPT ![q].pc = "fetch", ![q].left = rest]
          /\ UNCHANGED cache
    /\ UNCHANGED <<now, att, configured, restarts>>

Pending(q) == check[q].pc \in {"logs", "logsBack", "fetch", "fetched"}

\* A call fails or times out: access is denied and nothing is cached.
CallFails(q) ==
    /\ Pending(q)
    /\ check' = [check EXCEPT ![q] = [Answered(@, FALSE) EXCEPT !.failed = TRUE]]
    /\ UNCHANGED <<now, att, configured, cache, restarts>>

-----------------------------------------------------------------------------
\* Time passes, however long a call is pending.
Tick ==
    /\ now < MaxTime
    /\ now' = now + 1
    /\ UNCHANGED <<att, configured, cache, check, restarts>>

\* The process is restarted, perhaps with another environment: cache and requests
\* are gone.
Restart ==
    /\ restarts < MaxRestarts
    /\ restarts' = restarts + 1
    /\ configured' \in BOOLEAN
    /\ cache' = [u \in Users |-> NoEntry]
    /\ check' = [q \in Checks |-> IF Pending(q) THEN Idle ELSE check[q]]
    /\ UNCHANGED <<now, att>>

Step(q) ==
    NodeFilters(q) \/ LogsArrive(q) \/ NodeReads(q) \/ StructArrives(q) \/ CallFails(q)

Next ==
    \/ \E a \in Attestations : Revoke(a) \/ \E u \in Users : Attest(a, u)
    \/ \E q \in Checks : Step(q) \/ \E u \in Users : Open(q, u) \/ Ask(q, u)
    \/ Tick
    \/ Restart

Spec == Init /\ [][Next]_vars

-----------------------------------------------------------------------------
\* Properties.

Structs ==
    [issued : {TRUE}, recipient : Users, expirationTime : Nat, revocationTime : 0..MaxTime]

PCs == {"open", "logs", "logsBack", "fetch", "fetched", "granted", "denied"}

Locals ==
    [pc : PCs, user : Users, known : SUBSET Attestations, left : SUBSET Attestations,
     uid : SUBSET Attestations, read : Structs \union {NotIssued}, clock : 0..MaxTime,
     failed : BOOLEAN]

\* The types; a cached result is always positive.
CacheTypeOK ==
    /\ now \in 1..MaxTime
    /\ att \in [Attestations -> Structs \union {NotIssued}]
    /\ configured \in BOOLEAN
    /\ cache \in [Users -> [held : {TRUE}, result : {TRUE}, expiry : Nat] \union {NoEntry}]
    /\ check \in [Checks -> Locals \union {Idle}]
    /\ restarts \in 0..MaxRestarts

\* What the comment on the cache and ARCHITECTURE.md promise: an attestation takes
\* effect with the next request. A request that is denied although no call to the
\* node failed had no attestation to show: all that had been issued to the user when
\* it came are revoked or expired.
LiveAttestationIsSeen ==
    \A q \in Checks :
        check[q].pc = "denied" /\ ~check[q].failed =>
            \A a \in check[q].known :
                \/ att[a].revocationTime # 0
                \/ att[a].expirationTime # 0 /\ att[a].expirationTime < now
===============================================================================
