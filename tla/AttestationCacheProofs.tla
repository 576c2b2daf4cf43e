----------------------- MODULE AttestationCacheProofs -----------------------
(***************************************************************************)
(* What holds of the gate of AttestationCache for any number of users,     *)
(* attestations and requests: its types, and that with a get_logs that     *)
(* takes no fromBlock a configured deployment grants nothing.              *)
(***************************************************************************)
EXTENDS AttestationCache, TLAPS

-----------------------------------------------------------------------------
\* Types.

LEMMA StructTypes ==
    ASSUME CacheAssumption, CacheTypeOK, NEW a \in Attestations, att[a].issued
    PROVE  /\ att[a] \in Structs
           /\ att[a].expirationTime \in Nat
           /\ att[a].revocationTime \in 0..MaxTime
<1>1. att[a] \in Structs \union {NotIssued}
  BY DEF CacheTypeOK
<1>2. att[a] # NotIssued
  BY DEF NotIssued
<1>3. att[a] \in Structs
  BY <1>1, <1>2
<1> QED
  BY <1>3 DEF Structs

LEMMA LocalTypes ==
    ASSUME CacheAssumption, CacheTypeOK, NEW q \in Checks, check[q].pc # "idle"
    PROVE  /\ check[q] \in Locals
           /\ check[q].user \in Users
           /\ check[q].known \subseteq Attestations
           /\ check[q].left \subseteq Attestations
           /\ check[q].clock \in Nat
           /\ check[q].failed \in BOOLEAN
<1>1. check[q] \in Locals
  BY DEF CacheTypeOK, Idle
<1> QED
  BY <1>1 DEF CacheAssumption, Locals

LEMMA InitTyped == CacheAssumption /\ Init => CacheTypeOK
BY DEF CacheAssumption, Init, CacheTypeOK

LEMMA TimeFacts ==
    ASSUME CacheAssumption, CacheTypeOK
    PROVE  now \in 0..MaxTime /\ 0 \in 0..MaxTime /\ now \in Nat /\ now # 0
BY DEF CacheAssumption, CacheTypeOK

LEMMA TypedAsking ==
    ASSUME CacheAssumption, CacheTypeOK, NEW u \in Users
    PROVE  Asking(u) \in Locals
BY TimeFacts DEF Asking, Locals, IssuedTo, PCs

LEMMA TypedAnswer ==
    ASSUME CacheAssumption, CacheTypeOK, NEW r \in Locals, NEW result \in BOOLEAN
    PROVE  Answered(r, result) \in Locals
<1> DEFINE pc == IF result THEN "granted" ELSE "denied"
<1>1. pc \in PCs
  BY DEF PCs
<1> HIDE DEF pc
<1>2. [r EXCEPT !.pc = pc, !.left = {}, !.uid = {}, !.read = NotIssued, !.clock = 0] \in Locals
  BY <1>1, TimeFacts DEF Locals
<1> QED
  BY <1>2 DEF Answered, pc

LEMMA StepTyped ==
    ASSUME CacheAssumption, CacheTypeOK, [Next]_vars
    PROVE  CacheTypeOK'
<1> USE DEF CacheAssumption
<1>1. ASSUME NEW a \in Attestations, NEW u \in Users, Attest(a, u)
      PROVE  CacheTypeOK'
  <2>1. PICK until \in {0} \union {now + l : l \in Lifetimes} :
          att' = [att EXCEPT ![a] =
                   [issued |-> TRUE, recipient |-> u,
                    expirationTime |-> until, revocationTime |-> 0]]
    BY <1>1, Zenon DEF Attest
  <2>2. until \in Nat
    BY DEF CacheTypeOK
  <2>3. [issued |-> TRUE, recipient |-> u,
         expirationTime |-> until, revocationTime |-> 0] \in Structs
    BY <2>2 DEF Structs
  <2>4. att' \in [Attestations -> Structs \union {NotIssued}]
    BY <2>1, <2>3 DEF CacheTypeOK
  <2> QED
    BY <1>1, <2>4 DEF CacheTypeOK, Attest
<1>2. ASSUME NEW a \in Attestations, Revoke(a)
      PROVE  CacheTypeOK'
  <2>1. att[a] \in Structs
    BY <1>2, StructTypes DEF Revoke
  <2>2. [att[a] EXCEPT !.revocationTime = now] \in Structs
    BY <2>1, TimeFacts DEF Structs
  <2>3. att' = [att EXCEPT ![a] = [att[a] EXCEPT !.revocationTime = now]]
    BY <1>2 DEF Revoke
  <2>4. att' \in [Attestations -> Structs \union {NotIssued}]
    BY <2>2, <2>3 DEF CacheTypeOK
  <2> QED
    BY <1>2, <2>4 DEF CacheTypeOK, Revoke
<1>3. ASSUME NEW q \in Checks, NEW u \in Users, Open(q, u)
      PROVE  CacheTypeOK'
  <2>1. [Asking(u) EXCEPT !.pc = "open"] \in Locals
    <3>1. Asking(u) \in Locals
      BY TypedAsking
    <3>2. 0 \in 0..MaxTime /\ "open" \in PCs
      BY TimeFacts DEF PCs
    <3> QED
      BY <3>1, <3>2 DEF Locals
  <2> QED
    BY <1>3, <2>1 DEF CacheTypeOK, Open
<1>4. ASSUME NEW q \in Checks, NEW u \in Users, Ask(q, u)
      PROVE  CacheTypeOK'
  <2>1. Looked(u) \in [Users -> [held : {TRUE}, result : {TRUE}, expiry : Nat] \union {NoEntry}]
    BY DEF CacheTypeOK, Looked
  <2>2. cache[u].held => cache[u].result = TRUE
    <3>1. cache[u] \in [held : {TRUE}, result : {TRUE}, expiry : Nat] \union {NoEntry}
      BY DEF CacheTypeOK
    <3>2. NoEntry.held = FALSE
      BY DEF NoEntry
    <3> QED
      BY <3>1, <3>2
  <2> DEFINE new == IF Cached(u) THEN Answered(Asking(u), cache[u].result)
                    ELSE IF CallIsWellFormed THEN Asking(u) ELSE Answered(Asking(u), FALSE)
  <2>3. new \in Locals
    BY <2>2, TypedAsking, TypedAnswer DEF Cached
  <2>4. check' = [check EXCEPT ![q] = new]
    BY <1>4 DEF Ask
  <2> HIDE DEF new
  <2>5. check' \in [Checks -> Locals \union {Idle}]
    BY <2>3, <2>4 DEF CacheTypeOK
  <2> QED
    BY <1>4, <2>1, <2>5 DEF CacheTypeOK, Ask
<1>5. ASSUME NEW q \in Checks, NodeFilters(q)
      PROVE  CacheTypeOK'
  <2> DEFINE new == [check[q] EXCEPT !.pc = "logsBack", !.left = IssuedTo(check[q].user)]
  <2>1. check[q] \in Locals
    BY <1>5, LocalTypes DEF NodeFilters
  <2>2. new \in Locals
    BY <2>1 DEF Locals, PCs, IssuedTo
  <2>3. check' = [check EXCEPT ![q] = new]
    BY <1>5 DEF NodeFilters
  <2> HIDE DEF new
  <2>4. check' \in [Checks -> Locals \union {Idle}]
    BY <2>2, <2>3 DEF CacheTypeOK
  <2> QED
    BY <1>5, <2>4 DEF CacheTypeOK, NodeFilters
<1>6. ASSUME NEW q \in Checks, LogsArrive(q)
      PROVE  CacheTypeOK'
  <2> DEFINE new == IF check[q].left = {} THEN Answered(check[q], FALSE)
                    ELSE [check[q] EXCEPT !.pc = "fetch", !.clock = now]
  <2>1. check[q] \in Locals
    BY <1>6, LocalTypes DEF LogsArrive
  <2>2. [check[q] EXCEPT !.pc = "fetch", !.clock = now] \in Locals
    BY <2>1, TimeFacts DEF Locals, PCs
  <2>3. new \in Locals
    BY <2>1, <2>2, TypedAnswer
  <2>4. check' = [check EXCEPT ![q] = new]
    BY <1>6 DEF LogsArrive
  <2> HIDE DEF new
  <2>5. check' \in [Checks -> Locals \union {Idle}]
    BY <2>3, <2>4 DEF CacheTypeOK
  <2> QED
    BY <1>6, <2>5 DEF CacheTypeOK, LogsArrive
<1>7. ASSUME NEW q \in Checks, NodeReads(q)
      PROVE  CacheTypeOK'
  <2>1. check[q] \in Locals /\ check[q].left \subseteq Attestations
    BY <1>7, LocalTypes DEF NodeReads
  <2>2. PICK a \in check[q].left :
          check' = [check EXCEPT ![q].pc = "fetched", ![q].uid = {a}, ![q].read = att[a]]
    BY <1>7, Zenon DEF NodeReads
  <2> DEFINE new == [check[q] EXCEPT !.pc = "fetched", !.uid = {a}, !.read = att[a]]
  <2>3. att[a] \in Structs \union {NotIssued}
    BY <2>1 DEF CacheTypeOK
  <2>4. new \in Locals
    BY <2>1, <2>3 DEF Locals, PCs
  <2>5. check' = [check EXCEPT ![q] = new]
    BY <2>2
  <2> HIDE DEF new
  <2>6. check' \in [Checks -> Locals \union {Idle}]
    BY <2>4, <2>5 DEF CacheTypeOK
  <2> QED
    BY <1>7, <2>6 DEF CacheTypeOK, NodeReads
<1>8. ASSUME NEW q \in Checks, StructArrives(q)
      PROVE  CacheTypeOK'
  <2>1. check[q] \in Locals
    BY <1>8, LocalTypes DEF StructArrives
  <2>2. CASE check' = [check EXCEPT ![q] = Answered(check[q], TRUE)] /\ cache' = CacheSet(check[q].user, TRUE)
    <3>1. check' \in [Checks -> Locals \union {Idle}]
      BY <2>1, <2>2, TypedAnswer DEF CacheTypeOK
    <3>2. cache' \in [Users -> [held : {TRUE}, result : {TRUE}, expiry : Nat] \union {NoEntry}]
      <4> DEFINE entry == [held |-> TRUE, result |-> TRUE, expiry |-> now + TTL]
      <4>1. entry \in [held : {TRUE}, result : {TRUE}, expiry : Nat]
        BY TimeFacts
      <4>2. cache' = [cache EXCEPT ![check[q].user] = entry]
        BY <2>2 DEF CacheSet
      <4> HIDE DEF entry
      <4> QED
        BY <4>1, <4>2 DEF CacheTypeOK
    <3> QED
      BY <1>8, <3>1, <3>2 DEF CacheTypeOK, StructArrives
  <2>3. CASE check' = [check EXCEPT ![q] = Answered(check[q], FALSE)] /\ cache' = CacheSet(check[q].user, FALSE)
    <3>1. check' \in [Checks -> Locals \union {Idle}]
      BY <2>1, <2>3, TypedAnswer DEF CacheTypeOK
    <3>2. cache' = cache
      BY <2>3 DEF CacheSet
    <3> QED
      BY <1>8, <3>1, <3>2 DEF CacheTypeOK, StructArrives
  <2>4. CASE /\ check' = [check EXCEPT ![q].pc = "fetch",
                             ![q].left = check[q].left \ check[q].uid]
             /\ UNCHANGED cache
    <3> DEFINE new == [check[q] EXCEPT !.pc = "fetch",
                                !.left = check[q].left \ check[q].uid]
    <3>1. new \in Locals
      BY <2>1, TimeFacts DEF Locals, PCs
    <3>2. check' = [check EXCEPT ![q] = new]
      BY <2>4
    <3> HIDE DEF new
    <3>3. check' \in [Checks -> Locals \union {Idle}]
      BY <3>1, <3>2 DEF CacheTypeOK
    <3> QED
      BY <1>8, <2>4, <3>3 DEF CacheTypeOK, StructArrives
  <2> QED
    BY <1>8, <2>2, <2>3, <2>4, Zenon DEF StructArrives
<1>9. ASSUME NEW q \in Checks, CallFails(q)
      PROVE  CacheTypeOK'
  <2> DEFINE new == [Answered(check[q], FALSE) EXCEPT !.failed = TRUE]
  <2>1. check[q] \in Locals
    BY <1>9, LocalTypes DEF CallFails, Pending
  <2>2. Answered(check[q], FALSE) \in Locals
    BY <2>1, TypedAnswer
  <2>3. new \in Locals
    BY <2>2 DEF Locals
  <2>4. check' = [check EXCEPT ![q] = new]
    BY <1>9 DEF CallFails
  <2> HIDE DEF new
  <2>5. check' \in [Checks -> Locals \union {Idle}]
    BY <2>3, <2>4 DEF CacheTypeOK
  <2> QED
    BY <1>9, <2>5 DEF CacheTypeOK, CallFails
<1>10. CASE Tick
  <2>1. now' \in 1..MaxTime
    BY <1>10 DEF CacheTypeOK, Tick
  <2> QED
    BY <1>10, <2>1 DEF CacheTypeOK, Tick
<1>11. CASE Restart
  <2>1. check' \in [Checks -> Locals \union {Idle}]
    BY <1>11 DEF CacheTypeOK, Restart
  <2>2. restarts' \in 0..MaxRestarts
    BY <1>11 DEF CacheTypeOK, Restart
  <2>3. cache' \in [Users -> [held : {TRUE}, result : {TRUE}, expiry : Nat] \union {NoEntry}]
    BY <1>11 DEF Restart
  <2> QED
    BY <1>11, <2>1, <2>2, <2>3 DEF CacheTypeOK, Restart
<1>12. CASE UNCHANGED vars
  BY <1>12 DEF CacheTypeOK, vars
<1> QED
  BY <1>1, <1>2, <1>3, <1>4, <1>5, <1>6, <1>7, <1>8, <1>9, <1>10, <1>11, <1>12
  DEF Next, Step

-----------------------------------------------------------------------------
\* The cache, the structs and the locals of verify_attestation keep their types; in
\* particular _cache_set never keeps a denial.
THEOREM CacheTyped == CacheAssumption /\ Spec => []CacheTypeOK
<1>1. CacheAssumption /\ CacheTypeOK /\ [Next]_vars => CacheTypeOK'
  BY StepTyped
<1>2. CASE CacheAssumption
  <2>1. Init => CacheTypeOK
    BY <1>2, InitTyped
  <2>2. CacheTypeOK /\ [Next]_vars => CacheTypeOK'
    BY <1>1, <1>2
  <2> QED
    BY <2>1, <2>2, PTL DEF Spec
<1> QED
  BY <1>2

-----------------------------------------------------------------------------
\* The gate with a get_logs that takes no fromBlock.

NothingCached == \A u \in Users : ~cache[u].held

\* Requests pass while the deployment is not configured, and are denied after that.
Refused == \A q \in Checks : check[q].pc \in {"idle", "open", "denied"}

\* No request of a configured deployment got through.
NeverGranted == \A q \in Checks : check[q].pc # "granted"

LEMMA RefusedStep ==
    ASSUME CacheTypeOK, NothingCached, Refused, ~CallIsWellFormed, [Next]_vars
    PROVE  NothingCached' /\ Refused'
<1>1. ASSUME UNCHANGED <<cache, check>>
      PROVE  NothingCached' /\ Refused'
  BY <1>1 DEF NothingCached, Refused
<1>2. ASSUME NEW q \in Checks, NEW u \in Users, Open(q, u)
      PROVE  NothingCached' /\ Refused'
  <2>1. check' = [check EXCEPT ![q] = [Asking(u) EXCEPT !.pc = "open"]] /\ cache' = cache
    BY <1>2 DEF Open
  <2>2. [Asking(u) EXCEPT !.pc = "open"].pc = "open"
    BY DEF Asking
  <2> QED
    BY <2>1, <2>2 DEF NothingCached, Refused, CacheTypeOK
<1>3. ASSUME NEW q \in Checks, NEW u \in Users, Ask(q, u)
      PROVE  NothingCached' /\ Refused'
  <2>1. ~Cached(u) /\ Looked(u) = cache
    BY DEF NothingCached, Cached, Looked
  <2>2. check' = [check EXCEPT ![q] = Answered(Asking(u), FALSE)] /\ cache' = cache
    BY <1>3, <2>1 DEF Ask
  <2>3. Answered(Asking(u), FALSE).pc = "denied"
    BY DEF Answered, Asking
  <2> QED
    BY <2>2, <2>3 DEF NothingCached, Refused, CacheTypeOK
\* No request is ever where a step of the check on the chain starts.
<1>4. ASSUME NEW q \in Checks, Step(q)
      PROVE  FALSE
  BY <1>4 DEF Refused, Step, NodeFilters, LogsArrive, NodeReads, StructArrives, CallFails, Pending
<1>5. ASSUME Restart
      PROVE  NothingCached' /\ Refused'
  <2>1. cache' = [u \in Users |-> NoEntry]
    BY <1>5 DEF Restart
  <2>2. NothingCached'
    BY <2>1 DEF NothingCached, NoEntry
  <2>3. check' = [q \in Checks |-> IF Pending(q) THEN Idle ELSE check[q]]
    BY <1>5 DEF Restart
  <2>4. Refused'
    BY <2>3 DEF Refused, Idle
  <2> QED
    BY <2>2, <2>4
<1>6. ASSUME NEW a \in Attestations, Revoke(a) \/ \E u \in Users : Attest(a, u)
      PROVE  UNCHANGED <<cache, check>>
  BY <1>6 DEF Revoke, Attest
<1>7. Tick \/ UNCHANGED vars => UNCHANGED <<cache, check>>
  BY DEF Tick, vars
<1> QED
  BY <1>1, <1>2, <1>3, <1>4, <1>5, <1>6, <1>7 DEF Next

\* With a web3 whose get_logs takes no fromBlock - the pinned 7.9.0 takes from_block -
\* verify_attestation denies every request of a configured deployment, whatever the
\* contract holds, however requests overlap and whenever the process is restarted.
THEOREM NeverGrantedTheorem ==
    CacheAssumption /\ ~CallIsWellFormed /\ Spec => []NeverGranted
<1>1. CASE CacheAssumption /\ ~CallIsWellFormed
  <2> DEFINE I == CacheTypeOK /\ NothingCached /\ Refused
  <2>1. Init => I
    BY <1>1, InitTyped DEF Init, NothingCached, NoEntry, Refused, Idle
  <2>2. I /\ [Next]_vars => I'
    <3>1. ASSUME I, [Next]_vars PROVE CacheTypeOK'
      BY <1>1, <3>1, StepTyped
    <3>2. ASSUME I, [Next]_vars PROVE NothingCached' /\ Refused'
      BY <1>1, <3>2, RefusedStep
    <3> QED
      BY <3>1, <3>2
  <2>3. I => NeverGranted
    BY DEF Refused, NeverGranted
  <2> QED
    BY <2>1, <2>2, <2>3, PTL DEF Spec
<1> QED
  BY <1>1
=============================================================================
