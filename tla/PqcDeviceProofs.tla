--------------------------- MODULE PqcDeviceProofs ---------------------------
(***************************************************************************)
(* Proofs about PqcDevice, for any number of key pairs, sessions, failing  *)
(* NVS calls, power losses and erasures.                                   *)
(***************************************************************************)
EXTENDS PqcDevice, TLAPS

\* The invariant of the storage. On a device that has the backend's key a public
\* key reaches the storage only where there was none, and after its private half:
\* so a flash that holds one is what the handle reads, and no key is being written.
Storage ==
    /\ nvs.kem = flash.kem
    /\ pc \in {"write_sk", "write_pk", "commit", "announce"} =>
         ctx.sk = ctx.pk /\ ctx.pk # Zero
    /\ pc = "write_pk" => nvs.sk = ctx.sk
    /\ nvs.kem # Zero =>
         /\ nvs.pk \in {Zero, nvs.sk} /\ flash.pk \in {Zero, flash.sk}
         /\ flash.pk = Zero \/ flash = nvs
         /\ pc \in {"generate", "write_sk", "write_pk", "commit"} => flash.pk = Zero
         /\ pc \in {"generate", "write_sk", "write_pk"} => nvs.pk = Zero

\* The invariant of the sessions: the context holds a session key only for the
\* batch that is being sent, and that session is newer than every packet's.
Sessions ==
    /\ pc \notin {"upload", "wipe"} => ctx.session = Zero
    /\ pc = "upload" =>
         /\ ctx.session = sessions /\ ctx.ct = sessions /\ sessions # 0
         /\ \A p \in packets : p.session # sessions
    /\ \A p \in packets : p.session \in 1..sessions /\ p.ct = p.session
    /\ \A p, q \in packets : p.session = q.session => p = q

\* The invariant of the identity while no call fails and provisioning is never cut
\* short: what is stored between two provisionings was announced, and the context
\* holds it whenever a batch is signed.
Identity ==
    errors = 0 /\ ~cut =>
      /\ pc \notin Provisioning \/ pc = "generate" =>
           nvs = flash /\ nvs.sk = nvs.pk /\ nvs.sk \in announced \union {Zero}
      /\ pc \in {"write_pk", "commit", "announce"} => nvs.sk = ctx.sk
      /\ pc \in {"commit", "announce"} => nvs.pk = ctx.pk
      /\ pc = "announce" => flash = nvs
      /\ pc \in {"collect", "upload", "wipe", "reload"} => nvs.sk # Zero
      /\ pc \in {"collect", "upload"} => ctx.sk = nvs.sk /\ ctx.pk = nvs.pk
      /\ pc # "halted"
      /\ \A p \in packets : p.signer = p.pk /\ p.signer \in announced

\* The inductive invariant.
PqcInv == PqcTypeOK /\ Storage /\ Sessions /\ Identity

\* It contains the state properties the run checks.
LEMMA PqcInvGivesProperties ==
    PqcInv => /\ PqcTypeOK /\ StoredPairMatches /\ PacketsVerify
              /\ PacketsAreReadable /\ SessionKeyIsWiped
<1> SUFFICES ASSUME PqcInv
             PROVE  /\ PqcTypeOK /\ StoredPairMatches /\ PacketsVerify
                    /\ PacketsAreReadable /\ SessionKeyIsWiped
  OBVIOUS
<1>1. StoredPairMatches
  <2>1. flash.kem = nvs.kem /\ [flash EXCEPT !.sk = nvs.sk].kem = nvs.kem
        /\ [flash EXCEPT !.sk = nvs.sk].pk = flash.pk
        /\ [flash EXCEPT !.sk = nvs.sk].sk = nvs.sk
    BY DEF PqcInv, PqcTypeOK, Storage
  <2>2. QED BY <2>1 DEF PqcInv, Storage, StoredPairMatches, Complete
<1>2. PacketsVerify
  BY DEF PqcInv, Identity, PacketsVerify
<1>3. PacketsAreReadable /\ SessionKeyIsWiped
  <2>1. \A p \in packets : p.session # Zero
    BY DEF PqcInv, PqcTypeOK, SessionNumbers, Sessions, Zero
  <2>2. QED BY <2>1 DEF PqcInv, Sessions, PacketsAreReadable, SessionKeyIsWiped
<1>4. QED BY <1>1, <1>2, <1>3 DEF PqcInv

\* It holds at the first boot, with and without the backend's key.
LEMMA PqcInvInit == Init => PqcInv
<1> SUFFICES ASSUME Init PROVE PqcInv
  OBVIOUS
<1>1. nvs \in {[sk |-> 0, pk |-> 0, kem |-> 0], [sk |-> 0, pk |-> 0, kem |-> 1]}
  BY DEF Init, Erased, Zero, BackendKem
<1>2. PqcTypeOK
  <2>1. cut \in BOOLEAN
    BY DEF Init
  <2>2. /\ MaxKeys \in Nat /\ MaxSessions \in Nat /\ MaxErrors \in Nat
        /\ MaxPowerLosses \in Nat /\ MaxErases \in Nat
    BY PqcAssumption
  <2>3. QED
    BY <1>1, <2>1, <2>2
    DEF Init, PqcTypeOK, Zeroed, Zero, KeyNumbers, SessionNumbers, Kems, BackendKem
<1>3. Storage /\ Sessions /\ Identity
  BY <1>1 DEF Init, Storage, Sessions, Identity, Zeroed, Zero, Provisioning
<1>4. QED BY <1>2, <1>3 DEF PqcInv

-----------------------------------------------------------------------------
\* The types.

\* Every pqc_load_keys leaves a well typed context, with the session it had.
LEMMA LoadKeysTyped ==
    ASSUME PqcTypeOK, NEW stop,
           NEW c \in [sk : KeyNumbers, session : SessionNumbers, kem : Kems,
                      pk : KeyNumbers, ct : SessionNumbers]
    PROVE  /\ LoadKeys(c, stop) \in [sk : KeyNumbers, session : SessionNumbers, kem : Kems,
                                     pk : KeyNumbers, ct : SessionNumbers]
           /\ LoadKeys(c, stop).session = c.session
           /\ LoadKeys(c, stop).sk = IF stop = "sk" THEN c.sk ELSE nvs.sk
           /\ LoadKeys(c, stop).pk = IF stop \in {"sk", "pk"} THEN c.pk ELSE nvs.pk
BY DEF LoadKeys, PqcTypeOK

\* The types are not inductive alone: that an announced key is a key is Storage.
LEMMA PqcTypeStep == PqcTypeOK /\ Storage /\ [Next]_vars => PqcTypeOK'
<1> SUFFICES ASSUME PqcTypeOK, Storage, [Next]_vars PROVE PqcTypeOK'
  OBVIOUS
<1>0. /\ MaxKeys \in Nat /\ MaxSessions \in Nat /\ MaxErrors \in Nat
      /\ MaxPowerLosses \in Nat /\ MaxErases \in Nat
      /\ Zero \in KeyNumbers /\ Zero \in SessionNumbers /\ Zero \in Kems
      /\ BackendKem \in Kems
  BY PqcAssumption DEF Zero, BackendKem, KeyNumbers, SessionNumbers, Kems
<1> DEFINE Blobs == [sk : KeyNumbers, pk : KeyNumbers, kem : Kems]
           Context == [sk : KeyNumbers, session : SessionNumbers, kem : Kems,
                       pk : KeyNumbers, ct : SessionNumbers]
<1>1. Zeroed \in Context /\ Erased \in Blobs
  BY <1>0 DEF Zeroed, Erased
<1>2. CASE Boot
  BY <1>0, <1>1, <1>2 DEF Boot, PqcTypeOK
<1>3. CASE InitKeys
  <2>1. PICK bad \in {"none", "sk", "pk", "kem"} :
          /\ errors' \in 0..MaxErrors
          /\ pc' = AfterInit(bad)
          /\ ctx' = [LoadKeys(Zeroed, StopsAt(bad)) EXCEPT
                       !.kem = IF pc' = "generate" THEN Zero ELSE @]
    BY <1>0, <1>3 DEF InitKeys, NvsFails, PqcTypeOK
  <2>2. pc' \in {"collect", "halted", "generate"}
    BY <2>1 DEF AfterInit
  <2>3. LoadKeys(Zeroed, StopsAt(bad)) \in Context
    BY <1>1, LoadKeysTyped
  <2>4. ctx' \in Context
    BY <1>0, <2>1, <2>3
  <2>5. QED BY <1>3, <2>1, <2>2, <2>4 DEF InitKeys, PqcTypeOK, Provisioning
<1>4. CASE GenerateKeys
  <2>1. cut' \in BOOLEAN
    BY <1>4 DEF GenerateKeys, KeypairFails, Halt, PqcTypeOK
  <2>2. keys' \in KeyNumbers
    BY <1>0, <1>4 DEF GenerateKeys, KeypairFails, Halt, PqcTypeOK, KeyNumbers
  <2>3. ctx' \in Context
    BY <1>4, <2>2 DEF GenerateKeys, KeypairFails, Halt, PqcTypeOK
  <2>4. UNCHANGED <<nvs, flash, announced, sessions, errors, losses, erases, packets>>
        /\ pc' \in {"write_sk", "halted"}
    BY <1>4 DEF GenerateKeys, KeypairFails, Halt
  <2>5. QED BY <2>1, <2>2, <2>3, <2>4 DEF PqcTypeOK, Provisioning
<1>5. CASE StoreKeys
  <2>1. cut' \in BOOLEAN
    BY <1>5 DEF StoreKeys, Write, Halt, PqcTypeOK
  <2>2. nvs' \in Blobs /\ flash' \in Blobs
    BY <1>5 DEF StoreKeys, Write, Halt, PqcTypeOK
  <2>3. errors' \in 0..MaxErrors
    BY <1>0, <1>5 DEF StoreKeys, Write, NvsFails, PqcTypeOK
  <2>4. UNCHANGED <<ctx, keys, announced, sessions, losses, erases, packets>>
        /\ pc' \in {"write_pk", "commit", "announce", "halted"}
    BY <1>5 DEF StoreKeys, Write, Halt
  <2>5. QED BY <2>1, <2>2, <2>3, <2>4 DEF PqcTypeOK, Provisioning
<1>6. CASE Announce
  <2>1. ctx.pk \in 1..MaxKeys
    BY <1>0, <1>6 DEF Announce, PqcTypeOK, Storage, KeyNumbers, Zero
  <2>2. announced' \subseteq 1..MaxKeys
    BY <1>6, <2>1 DEF Announce, PqcTypeOK
  <2>3. QED BY <1>6, <2>2 DEF Announce, counters, PqcTypeOK
<1>7. CASE EstablishSession
  <2>1. sessions' \in SessionNumbers /\ pc' \in {"upload", "collect"}
    BY <1>0, <1>7 DEF EstablishSession, SkipBatch, PqcTypeOK, SessionNumbers
  <2>2. ctx' \in Context
    BY <1>7, <2>1 DEF EstablishSession, PqcTypeOK
  <2>3. QED BY <1>7, <2>1, <2>2 DEF EstablishSession, PqcTypeOK
<1>8. CASE Upload
  BY <1>8 DEF Upload, counters, PqcTypeOK
<1>9. CASE Wipe
  BY <1>0, <1>9 DEF Wipe, Zeroize, counters, PqcTypeOK
<1>10. CASE Reload
  <2>1. ctx' \in Context
    BY <1>10, LoadKeysTyped DEF Reload, Reloaded, PqcTypeOK
  <2>2. errors' \in 0..MaxErrors
    BY <1>0, <1>10 DEF Reload, NvsFails, PqcTypeOK
  <2>3. QED BY <1>10, <2>1, <2>2 DEF Reload, PqcTypeOK
<1>11. CASE PowerLoss
  BY <1>0, <1>1, <1>11 DEF PowerLoss, PqcTypeOK
<1>12. CASE UNCHANGED vars
  BY <1>12 DEF vars, counters, PqcTypeOK
<1>13. QED
  BY <1>2, <1>3, <1>4, <1>5, <1>6, <1>7, <1>8, <1>9, <1>10, <1>11, <1>12 DEF Next

-----------------------------------------------------------------------------
\* The storage.

\* Provisioning starts on a device with the backend's key only if the public key
\* is missing.
LEMMA WhenGenerated ==
    ASSUME Storage, NEW bad, AfterInit(bad) = "generate", nvs.kem # Zero
    PROVE  nvs.pk = Zero
BY DEF AfterInit, StopsAt, Storage

LEMMA StorageStep == PqcTypeOK /\ Storage /\ [Next]_vars => Storage'
<1> SUFFICES ASSUME PqcTypeOK, Storage, [Next]_vars PROVE Storage'
  OBVIOUS
<1> USE DEF Storage
<1>0. /\ nvs \in [sk : KeyNumbers, pk : KeyNumbers, kem : Kems]
      /\ flash \in [sk : KeyNumbers, pk : KeyNumbers, kem : Kems]
      /\ Zero \notin {1}
  BY DEF PqcTypeOK, Zero
<1>1. ASSUME UNCHANGED <<nvs, flash>>,
             pc' \notin {"generate", "write_sk", "write_pk", "commit", "announce"}
      PROVE  Storage'
  BY <1>1
<1>2. CASE Boot
  <2>1. CASE UNCHANGED <<nvs, flash>>
    BY <1>1, <1>2, <2>1 DEF Boot
  <2>2. CASE nvs' = Erased /\ flash' = Erased
    BY <1>2, <2>2 DEF Boot, Erased
  <2>3. QED BY <1>2, <2>1, <2>2 DEF Boot
<1>3. CASE InitKeys
  <2>1. PICK bad \in {"none", "sk", "pk", "kem"} : pc' = AfterInit(bad)
    BY <1>3 DEF InitKeys
  <2>2. pc' \in {"collect", "halted", "generate"}
    BY <2>1 DEF AfterInit
  <2>3. UNCHANGED <<nvs, flash>> /\ pc = "init"
    BY <1>3 DEF InitKeys
  <2>4. CASE pc' = "generate"
    BY <2>1, <2>3, <2>4, WhenGenerated
  <2>5. QED BY <1>1, <2>2, <2>3, <2>4
<1>4. CASE GenerateKeys
  <2>1. CASE pc' = "write_sk"
    <3>1. keys' = keys + 1 /\ ctx' = [ctx EXCEPT !.sk = keys', !.pk = keys']
          /\ UNCHANGED <<nvs, flash>> /\ pc = "generate"
      BY <1>4, <2>1 DEF GenerateKeys, KeypairFails, Halt
    <3>2. ctx'.sk = ctx'.pk /\ ctx'.pk # Zero
      BY <3>1 DEF PqcTypeOK, KeyNumbers, Zero
    <3>3. QED BY <2>1, <3>1, <3>2
  <2>2. CASE pc' = "halted" /\ UNCHANGED <<nvs, flash>>
    BY <1>1, <2>2
  <2>3. QED BY <1>4, <2>1, <2>2 DEF GenerateKeys, KeypairFails, Halt
<1>5. CASE StoreKeys
  <2>1. CASE pc' = "halted" /\ UNCHANGED <<nvs, flash>>
    BY <1>1, <2>1
  <2>2. CASE pc = "write_sk" /\ pc' = "write_pk" /\ nvs' = [nvs EXCEPT !.sk = ctx.sk]
             /\ UNCHANGED <<flash, ctx>>
    BY <1>0, <2>2
  <2>3. CASE pc = "write_pk" /\ pc' = "commit" /\ nvs' = [nvs EXCEPT !.pk = ctx.pk]
             /\ UNCHANGED <<flash, ctx>>
    BY <1>0, <2>3
  <2>4. CASE pc = "commit" /\ pc' = "announce" /\ flash' = nvs /\ UNCHANGED <<nvs, ctx>>
    BY <2>4
  <2>5. QED BY <1>5, <2>1, <2>2, <2>3, <2>4 DEF StoreKeys, Write, Halt
<1>6. CASE Announce \/ EstablishSession \/ Upload \/ Wipe \/ Reload
  BY <1>1, <1>6 DEF Announce, EstablishSession, SkipBatch, Upload, Wipe, Reload
<1>7. CASE PowerLoss
  <2>1. pc' = "off" /\ flash' = nvs'
        /\ nvs' \in {flash, [flash EXCEPT !.sk = nvs.sk], nvs}
    BY <1>7 DEF PowerLoss
  <2>2. nvs'.kem = nvs.kem /\ (nvs.kem # Zero => nvs'.pk \in {Zero, nvs'.sk})
    BY <1>0, <2>1
  <2>3. QED BY <2>1, <2>2
<1>8. CASE UNCHANGED vars
  BY <1>8 DEF vars
<1>9. QED BY <1>2, <1>3, <1>4, <1>5, <1>6, <1>7, <1>8 DEF Next

-----------------------------------------------------------------------------
\* The sessions.

\* A step that sends nothing and leaves no session behind.
LEMMA NoSession ==
    ASSUME Sessions, UNCHANGED <<sessions, packets>>,
           ctx'.session = Zero, pc' # "upload"
    PROVE  Sessions'
BY DEF Sessions

LEMMA SessionsStep == PqcTypeOK /\ Sessions /\ [Next]_vars => Sessions'
<1> SUFFICES ASSUME PqcTypeOK, Sessions, [Next]_vars PROVE Sessions'
  OBVIOUS
<1>0. /\ sessions \in Nat /\ Zeroed.session = Zero
      /\ ctx \in [sk : KeyNumbers, session : SessionNumbers, kem : Kems,
                  pk : KeyNumbers, ct : SessionNumbers]
  BY PqcAssumption DEF PqcTypeOK, SessionNumbers, Zeroed
<1>1. CASE Boot \/ PowerLoss
  BY <1>0, <1>1, NoSession DEF Boot, PowerLoss
<1>2. CASE InitKeys
  <2>1. PICK bad \in {"none", "sk", "pk", "kem"} :
          /\ pc' = AfterInit(bad)
          /\ ctx' = [LoadKeys(Zeroed, StopsAt(bad)) EXCEPT
                       !.kem = IF pc' = "generate" THEN Zero ELSE @]
    BY <1>2 DEF InitKeys
  <2>2. ctx'.session = Zero
    BY <2>1 DEF LoadKeys, Zeroed
  <2>3. pc' # "upload"
    BY <2>1 DEF AfterInit
  <2>4. QED BY <1>2, <2>2, <2>3, NoSession DEF InitKeys
<1>3. CASE GenerateKeys
  BY <1>0, <1>3, NoSession DEF GenerateKeys, KeypairFails, Halt, Sessions
<1>4. CASE StoreKeys
  BY <1>0, <1>4, NoSession DEF StoreKeys, Write, Halt, Sessions
<1>5. CASE Announce
  BY <1>0, <1>5, NoSession DEF Announce, counters, Sessions
<1>6. CASE EstablishSession
  <2>1. sessions' = sessions + 1 /\ UNCHANGED packets /\ pc = "collect"
    BY <1>6 DEF EstablishSession
  <2>2. \A p \in packets : p.session \in 1..sessions' /\ p.session # sessions'
    BY <1>0, <2>1 DEF Sessions
  <2>3. \/ /\ pc' = "upload" /\ ctx'.session = sessions' /\ ctx'.ct = sessions'
        \/ /\ pc' = "collect" /\ ctx'.session = Zero
    BY <1>0, <1>6 DEF EstablishSession, SkipBatch, Sessions
  <2>4. QED BY <1>0, <2>1, <2>2, <2>3 DEF Sessions
<1>7. CASE Upload
  <2>1. PICK p : /\ p.session = sessions /\ p.ct = sessions
                 /\ packets' \in {packets, packets \union {p}}
    BY <1>7 DEF Upload, Sessions
  <2>2. /\ pc = "upload" /\ pc' = "wipe" /\ UNCHANGED <<ctx, sessions>>
        /\ sessions # 0 /\ \A q \in packets : q.session # sessions
    BY <1>7 DEF Upload, counters, Sessions
  <2>3. QED BY <1>0, <2>1, <2>2 DEF Sessions
<1>8. CASE Wipe
  BY <1>0, <1>8, NoSession DEF Wipe, Zeroize, counters
<1>9. CASE Reload
  <2>1. ctx'.session = ctx.session /\ ctx.session = Zero
    BY <1>0, <1>9, LoadKeysTyped DEF Reload, Reloaded, Sessions
  <2>2. QED BY <1>9, <2>1, NoSession DEF Reload
<1>10. CASE UNCHANGED vars
  BY <1>10 DEF vars, counters, Sessions
<1>11. QED
  BY <1>1, <1>2, <1>3, <1>4, <1>5, <1>6, <1>7, <1>8, <1>9, <1>10 DEF Next

-----------------------------------------------------------------------------
\* The identity.

\* Without failing calls and interruptions the storage holds one announced pair or
\* none, wherever the power may be lost.
LEMMA StoredIdentity ==
    ASSUME PqcTypeOK, Identity, errors = 0, ~cut, pc \notin Provisioning
    PROVE  /\ nvs = flash /\ nvs.sk = nvs.pk /\ nvs.sk \in announced \union {Zero}
           /\ [flash EXCEPT !.sk = nvs.sk] = flash
           /\ pc # "halted"
BY DEF PqcTypeOK, Identity

LEMMA IdentityStep == PqcTypeOK /\ Storage /\ Identity /\ [Next]_vars => Identity'
<1> SUFFICES ASSUME PqcTypeOK, Storage, Identity, [Next]_vars, errors' = 0, ~cut'
             PROVE  Identity'
  BY DEF Identity
<1>0. /\ errors \in Nat
      /\ ctx \in [sk : KeyNumbers, session : SessionNumbers, kem : Kems,
                  pk : KeyNumbers, ct : SessionNumbers]
      /\ nvs \in [sk : KeyNumbers, pk : KeyNumbers, kem : Kems]
      /\ flash \in [sk : KeyNumbers, pk : KeyNumbers, kem : Kems]
  BY PqcAssumption DEF PqcTypeOK
<1>1. errors = 0 /\ ~NvsFails
  BY <1>0 DEF Next, vars, counters, Boot, InitKeys, GenerateKeys, StoreKeys, Write, Announce,
              EstablishSession, Upload, Wipe, Reload, PowerLoss, NvsFails
<1>2. ~cut
  BY DEF Next, vars, Boot, InitKeys, GenerateKeys, KeypairFails, Halt, StoreKeys, Write,
         Announce, EstablishSession, Upload, Wipe, Reload, PowerLoss
<1>3. /\ pc \notin Provisioning \/ pc = "generate" =>
           nvs = flash /\ nvs.sk = nvs.pk /\ nvs.sk \in announced \union {Zero}
      /\ pc \in {"write_pk", "commit", "announce"} => nvs.sk = ctx.sk
      /\ pc \in {"commit", "announce"} => nvs.pk = ctx.pk
      /\ pc = "announce" => flash = nvs
      /\ pc \in {"collect", "upload", "wipe", "reload"} => nvs.sk # Zero
      /\ pc \in {"collect", "upload"} => ctx.sk = nvs.sk /\ ctx.pk = nvs.pk
      /\ pc # "halted"
      /\ \A p \in packets : p.signer = p.pk /\ p.signer \in announced
  BY <1>1, <1>2 DEF Identity
<1>4. CASE Boot
  <2>1. /\ UNCHANGED <<nvs, flash>> \/ (nvs' = Erased /\ flash' = Erased)
        /\ pc = "off" /\ pc' = "init" /\ UNCHANGED <<announced, packets>>
    BY <1>4 DEF Boot
  <2>2. QED BY <1>3, <2>1 DEF Identity, Provisioning, Erased
<1>5. CASE InitKeys
  <2>1. /\ pc = "init" /\ UNCHANGED <<nvs, flash, announced, packets>>
        /\ pc' = AfterInit("none")
        /\ ctx' = [LoadKeys(Zeroed, StopsAt("none")) EXCEPT
                     !.kem = IF pc' = "generate" THEN Zero ELSE @]
    BY <1>1, <1>5 DEF InitKeys
  <2>2. pc' = "collect" \/ pc' = "generate"
    BY <2>1 DEF AfterInit, StopsAt
  <2>3. pc' = "collect" =>
          nvs.sk # Zero /\ ctx'.sk = nvs.sk /\ ctx'.pk = nvs.pk
    BY <2>1 DEF AfterInit, StopsAt, LoadKeys, Zeroed
  <2>4. QED BY <1>3, <2>1, <2>2, <2>3 DEF Identity, Provisioning
<1>6. CASE GenerateKeys
  BY <1>3, <1>6 DEF GenerateKeys, KeypairFails, Halt, Identity, Provisioning
<1>7. CASE StoreKeys
  <2>1. UNCHANGED <<ctx, announced, packets>>
    BY <1>7 DEF StoreKeys, Write, Halt
  <2>2. CASE pc = "write_sk" /\ pc' = "write_pk" /\ nvs' = [nvs EXCEPT !.sk = ctx.sk]
    BY <1>0, <1>3, <2>1, <2>2 DEF Identity, Provisioning
  <2>3. CASE pc = "write_pk" /\ pc' = "commit" /\ nvs' = [nvs EXCEPT !.pk = ctx.pk]
    BY <1>0, <1>3, <2>1, <2>3 DEF Identity, Provisioning
  <2>4. CASE pc = "commit" /\ pc' = "announce" /\ nvs' = nvs /\ flash' = nvs
    BY <1>3, <2>1, <2>4 DEF Identity, Provisioning
  <2>5. QED BY <1>1, <1>7, <2>2, <2>3, <2>4 DEF StoreKeys, Write
<1>8. CASE Announce
  <2>1. /\ pc = "announce" /\ pc' = "collect" /\ UNCHANGED <<ctx, nvs, flash, packets>>
        /\ announced' = announced \union {ctx.pk}
    BY <1>8 DEF Announce
  <2>2. ctx.sk = ctx.pk /\ ctx.pk # Zero
    BY <2>1 DEF Storage
  <2>3. QED BY <1>3, <2>1, <2>2 DEF Identity, Provisioning
<1>9. CASE EstablishSession
  <2>1. /\ pc = "collect" /\ pc' \in {"collect", "upload"}
        /\ UNCHANGED <<nvs, flash, announced, packets>>
        /\ ctx'.sk = ctx.sk /\ ctx'.pk = ctx.pk
    BY <1>0, <1>9 DEF EstablishSession, SkipBatch
  <2>2. QED BY <1>3, <2>1 DEF Identity, Provisioning
<1>10. CASE Upload
  <2>1. PICK p : /\ p.signer = ctx.sk /\ p.pk = ctx.pk
                 /\ packets' \in {packets, packets \union {p}}
    BY <1>10 DEF Upload
  <2>2. pc = "upload" /\ pc' = "wipe" /\ UNCHANGED <<ctx, nvs, flash, announced>>
    BY <1>10 DEF Upload
  <2>3. p.signer = p.pk /\ p.signer \in announced
    BY <1>3, <2>1, <2>2 DEF Provisioning
  <2>4. QED BY <1>3, <2>1, <2>2, <2>3 DEF Identity, Provisioning
<1>11. CASE Wipe
  BY <1>3, <1>11 DEF Wipe, Identity, Provisioning
<1>12. CASE Reload
  <2>1. /\ pc = "reload" /\ pc' = "collect" /\ UNCHANGED <<nvs, flash, announced, packets>>
        /\ ctx' = LoadKeys(ctx, StopsAt("none"))
    BY <1>1, <1>12 DEF Reload, Reloaded
  <2>2. StopsAt("none") \notin {"sk", "pk"}
    BY <1>3, <2>1 DEF StopsAt, Provisioning
  <2>3. ctx'.sk = nvs.sk /\ ctx'.pk = nvs.pk
    BY <1>0, <2>1, <2>2, LoadKeysTyped
  <2>4. QED BY <1>3, <2>1, <2>3 DEF Identity, Provisioning
<1>13. CASE PowerLoss
  <2>1. /\ pc' = "off" /\ UNCHANGED <<announced, packets>> /\ flash' = nvs'
        /\ nvs' \in {flash, [flash EXCEPT !.sk = nvs.sk], nvs}
        /\ pc \notin Provisioning
    BY <1>13 DEF PowerLoss
  <2>2. nvs' = nvs /\ nvs = flash /\ nvs.sk = nvs.pk /\ nvs.sk \in announced \union {Zero}
    BY <1>1, <1>2, <2>1, StoredIdentity
  <2>3. QED BY <1>3, <2>1, <2>2 DEF Identity, Provisioning
<1>14. CASE UNCHANGED vars
  BY <1>3, <1>14 DEF vars, counters, Identity
<1>15. QED
  BY <1>4, <1>5, <1>6, <1>7, <1>8, <1>9, <1>10, <1>11, <1>12, <1>13, <1>14 DEF Next

-----------------------------------------------------------------------------
\* A flash with all three keys is not written to, unless it is erased.
LEMMA StableStep ==
    PqcInv /\ [Next]_vars =>
        [Complete(flash) /\ erases' = erases => nvs'.sk = nvs.sk /\ nvs'.pk = nvs.pk]_vars
<1> SUFFICES ASSUME PqcInv, Next, Complete(flash), erases' = erases
             PROVE  nvs'.sk = nvs.sk /\ nvs'.pk = nvs.pk
  OBVIOUS
<1>1. flash = nvs /\ pc \notin {"generate", "write_sk", "write_pk", "commit"}
  BY DEF PqcInv, Storage, Complete
<1>2. erases \in Nat
  BY PqcAssumption DEF PqcInv, PqcTypeOK
<1>3. nvs \in [sk : KeyNumbers, pk : KeyNumbers, kem : Kems]
  BY DEF PqcInv, PqcTypeOK
<1>4. CASE PowerLoss
  <2>1. nvs' \in {flash, [flash EXCEPT !.sk = nvs.sk], nvs}
    BY <1>4 DEF PowerLoss
  <2>2. QED BY <1>1, <1>3, <2>1
<1>5. CASE ~PowerLoss
  <2>1. UNCHANGED nvs
    BY <1>1, <1>2, <1>5
    DEF Next, Boot, InitKeys, GenerateKeys, StoreKeys, Write, Announce,
        EstablishSession, Upload, Wipe, Reload
  <2>2. QED BY <2>1
<1>6. QED BY <1>4, <1>5

-----------------------------------------------------------------------------
\* The theorems.

LEMMA PqcInvStep == PqcInv /\ [Next]_vars => PqcInv'
BY PqcTypeStep, StorageStep, SessionsStep, IdentityStep DEF PqcInv

\* The invariant holds in every reachable state.
THEOREM PqcInvariant == Spec => []PqcInv
BY PqcInvInit, PqcInvStep, PTL DEF Spec

\* Task, context and storage are well typed in every reachable state.
THEOREM PqcTyped == Spec => []PqcTypeOK
BY PqcInvariant, PqcInvGivesProperties, PTL

\* A half-written key pair is never taken for a whole one at the next boot.
THEOREM StoredPairTheorem == Spec => []StoredPairMatches
BY PqcInvariant, PqcInvGivesProperties, PTL

\* A packet's signature verifies under an announced key, as long as no NVS call
\* fails and provisioning is not cut short.
THEOREM PacketsVerifyTheorem == Spec => []PacketsVerify
BY PqcInvariant, PqcInvGivesProperties, PTL

\* Every packet can be opened, with a key no other packet has.
THEOREM PacketsReadableTheorem == Spec => []PacketsAreReadable
BY PqcInvariant, PqcInvGivesProperties, PTL

\* No session key is in RAM between two batches.
THEOREM WipeTheorem == Spec => []SessionKeyIsWiped
BY PqcInvariant, PqcInvGivesProperties, PTL

\* A provisioned device keeps its identity through power losses and errors.
THEOREM StableIdentityTheorem == Spec => IdentityIsStable
BY PqcInvariant, StableStep, PTL DEF Spec, IdentityIsStable
==============================================================================
