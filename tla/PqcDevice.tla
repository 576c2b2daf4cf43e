------------------------------ MODULE PqcDevice ------------------------------
(***************************************************************************)
(* The post-quantum tracker (pqc-module): its keys in flash                *)
(* (components/pqc/pqc.cpp, pqc.h) and the task that provisions them,      *)
(* opens a session per batch and uploads (main/main.cpp). One task runs,   *)
(* so the only interleaving is with power loss. A key, a session and a     *)
(* KEM ciphertext are numbers: 0 is the zeroed buffer, or an absent blob.  *)
(***************************************************************************)
EXTENDS Naturals, FiniteSets

CONSTANTS
    MaxKeys,        \* bound: key pairs generated
    MaxSessions,    \* bound: sessions established
    MaxErrors,      \* bound: failing NVS calls
    MaxPowerLosses, \* bound: power losses
    MaxErases       \* bound: erasures of the NVS partition at boot

ASSUME PqcAssumption ==
    {MaxKeys, MaxSessions, MaxErrors, MaxPowerLosses, MaxErases} \subseteq Nat

VARIABLES
    pc,         \* where pqc_task is; off before app_main, halted when it deleted itself
    ctx,        \* s_ctx: [sk, session, kem, pk, ct]
    nvs,        \* the pqc namespace as the handle reads it: [sk, pk, kem]
    flash,      \* the same after the last nvs_commit
    keys,       \* key pairs generated so far
    sessions,   \* sessions established so far
    errors, losses, erases, \* counters of the bounds
    announced,  \* public keys logged for registration on the backend
    packets,    \* the packets uploaded
    cut         \* history: power was lost, or NVS failed, during provisioning

counters == <<keys, sessions, errors, losses, erases>>
vars == <<pc, ctx, nvs, flash, counters, announced, packets, cut>>

Zero == 0
BackendKem == 1     \* the backend's real KEM public key
Zeroed == [sk |-> Zero, session |-> Zero, kem |-> Zero, pk |-> Zero, ct |-> Zero]
Erased == [sk |-> Zero, pk |-> Zero, kem |-> Zero]

\* The backend's key may have been written to NVS at manufacturing, or not: no
\* code of the module writes it.
Init ==
    /\ pc = "off"
    /\ ctx = Zeroed
    /\ nvs \in {Erased, [Erased EXCEPT !.kem = BackendKem]}
    /\ flash = nvs
    /\ keys = 0 /\ sessions = 0 /\ errors = 0 /\ losses = 0 /\ erases = 0
    /\ announced = {} /\ packets = {}
    /\ cut = FALSE

Provisioning == {"generate", "write_sk", "write_pk", "commit", "announce"}

\* An NVS call fails: the counter of the bound.
NvsFails == errors < MaxErrors /\ errors' = errors + 1

-----------------------------------------------------------------------------
\* Boot.

\* app_main: the context is static memory; a partition without a free page, or of
\* another version, is erased.
Boot ==
    /\ pc = "off"
    /\ pc' = "init"
    /\ ctx' = Zeroed
    /\ \/ UNCHANGED <<nvs, flash, erases>>
       \/ /\ erases < MaxErases
          /\ erases' = erases + 1
          /\ nvs' = Erased /\ flash' = Erased
    /\ UNCHANGED <<keys, sessions, errors, losses, announced, packets, cut>>

\* The blob at which pqc_load_keys stops, when the call for blob bad fails.
StopsAt(bad) ==
    IF nvs.sk = Zero \/ bad = "sk" THEN "sk"
    ELSE IF nvs.pk = Zero \/ bad = "pk" THEN "pk"
    ELSE IF nvs.kem = Zero \/ bad = "kem" THEN "kem"
    ELSE "none"

\* What pqc_load_keys leaves of the context: the blobs before the one it stops at.
LoadKeys(c, stop) ==
    [c EXCEPT !.sk = IF stop = "sk" THEN @ ELSE nvs.sk,
              !.pk = IF stop \in {"sk", "pk"} THEN @ ELSE nvs.pk,
              !.kem = IF stop = "none" THEN nvs.kem ELSE @]

\* Fault: any error of pqc_init starts provisioning.
GenerateOnError(bad) == IF StopsAt(bad) = "none" THEN "collect" ELSE "generate"

\* What pqc_task makes of the result: it goes on, provisions the device when a blob
\* was not found, and deletes itself on another error.
AfterInit(bad) ==
    IF StopsAt(bad) = "none" THEN "collect"
    ELSE IF StopsAt(bad) = bad THEN "halted"
    ELSE "generate"

\* pqc_init. Before provisioning, the placeholder of the backend's key is copied in.
InitKeys ==
    /\ pc = "init"
    /\ \E bad \in {"none", "sk", "pk", "kem"} :
         /\ IF bad = "none" THEN UNCHANGED errors
            ELSE NvsFails /\ StopsAt(bad) = bad
         /\ pc' = AfterInit(bad)
         /\ ctx' = [LoadKeys(Zeroed, StopsAt(bad)) EXCEPT
                      !.kem = IF pc' = "generate" THEN Zero ELSE @]
    /\ UNCHANGED <<nvs, flash, keys, sessions, losses, erases, announced, packets, cut>>

-----------------------------------------------------------------------------
\* pqc_generate_keys: any failure halts the task.

Halt ==
    /\ pc' = "halted"
    /\ cut' = TRUE
    /\ UNCHANGED <<ctx, nvs, flash, keys, announced>>

KeypairFails == Halt

GenerateKeys ==
    /\ pc = "generate"
    /\ \/ /\ keys < MaxKeys
          /\ keys' = keys + 1
          /\ ctx' = [ctx EXCEPT !.sk = keys', !.pk = keys']
          /\ pc' = "write_sk"
          /\ UNCHANGED <<nvs, flash, announced, cut>>
       \/ KeypairFails
    /\ UNCHANGED <<sessions, errors, losses, erases, packets>>

\* The two nvs_set_blob calls and nvs_commit.
Write(at, next, newNvs, newFlash) ==
    /\ pc = at
    /\ \/ /\ nvs' = newNvs /\ flash' = newFlash
          /\ pc' = next
          /\ UNCHANGED <<ctx, keys, announced, cut, errors>>
       \/ NvsFails /\ Halt
    /\ UNCHANGED <<sessions, losses, erases, packets>>

StoreKeys ==
    \/ Write("write_sk", "write_pk", [nvs EXCEPT !.sk = ctx.sk], flash)
    \/ Write("write_pk", "commit", [nvs EXCEPT !.pk = ctx.pk], flash)
    \/ Write("commit", "announce", nvs, nvs)

\* The new public key is logged, to be registered on the backend.
Announce ==
    /\ pc = "announce"
    /\ announced' = announced \union {ctx.pk}
    /\ pc' = "collect"
    /\ UNCHANGED <<ctx, nvs, flash, counters, packets, cut>>

-----------------------------------------------------------------------------
\* The telemetry loop.

\* Fault: the batch is uploaded although pqc_establish_session failed.
GoOnRegardless == "upload"

\* A failed session skips the batch.
SkipBatch == "collect"

\* A batch is complete and pqc_establish_session runs: it fails in the
\* encapsulation, or in the derivation with a new ciphertext already in place.
EstablishSession ==
    /\ pc = "collect"
    /\ sessions < MaxSessions
    /\ sessions' = sessions + 1
    /\ \/ pc' = "upload" /\ ctx' = [ctx EXCEPT !.session = sessions', !.ct = sessions']
       \/ pc' = SkipBatch /\ ctx' \in {ctx, [ctx EXCEPT !.ct = sessions']}
    /\ UNCHANGED <<nvs, flash, keys, errors, losses, erases, announced, packets, cut>>

\* upload_packet: the packet goes out, or the encryption or the signature fails.
\* Either way the batch is over.
Upload ==
    /\ pc = "upload"
    /\ packets' \in {packets,
                     packets \union {[signer |-> ctx.sk, pk |-> ctx.pk, kem |-> ctx.kem,
                                      session |-> ctx.session, ct |-> ctx.ct]}}
    /\ pc' = "wipe"
    /\ UNCHANGED <<ctx, nvs, flash, counters, announced, cut>>

\* pqc_zeroize.
Zeroize == [ctx EXCEPT !.sk = Zero, !.session = Zero]

Wipe ==
    /\ pc = "wipe"
    /\ ctx' = Zeroize
    /\ pc' = "reload"
    /\ UNCHANGED <<nvs, flash, counters, announced, packets, cut>>

\* Fault: as in the README's example, nothing is loaded again.
NoReload(stop) == ctx

\* What the pqc_load_keys at the end of the loop leaves of the context.
Reloaded(stop) == LoadKeys(ctx, stop)

\* Its result is ignored.
Reload ==
    /\ pc = "reload"
    /\ \E bad \in {"none", "sk", "pk", "kem"} :
         /\ IF bad = "none" THEN UNCHANGED errors
            ELSE NvsFails /\ StopsAt(bad) = bad
         /\ ctx' = Reloaded(StopsAt(bad))
    /\ pc' = "collect"
    /\ UNCHANGED <<nvs, flash, keys, sessions, losses, erases, announced, packets, cut>>

\* Power is lost, or a halted device is switched off: RAM is gone, and of the blobs
\* not committed a prefix has reached the flash.
PowerLoss ==
    /\ pc # "off"
    /\ losses < MaxPowerLosses
    /\ losses' = losses + 1
    /\ nvs' \in {flash, [flash EXCEPT !.sk = nvs.sk], nvs}
    /\ flash' = nvs'
    /\ pc' = "off"
    /\ ctx' = Zeroed
    /\ cut' = (cut \/ pc \in Provisioning)
    /\ UNCHANGED <<keys, sessions, errors, erases, announced, packets>>

-----------------------------------------------------------------------------
Next ==
    \/ Boot \/ InitKeys
    \/ GenerateKeys \/ StoreKeys \/ Announce
    \/ EstablishSession \/ Upload \/ Wipe \/ Reload
    \/ PowerLoss

Spec == Init /\ [][Next]_vars

-----------------------------------------------------------------------------
\* Properties.

KeyNumbers == 0..MaxKeys
SessionNumbers == 0..MaxSessions
Kems == {Zero, BackendKem}

PqcTypeOK ==
    /\ pc \in Provisioning \union {"off", "init", "collect", "upload", "wipe", "reload",
                                   "halted"}
    /\ ctx \in [sk : KeyNumbers, session : SessionNumbers, kem : Kems, pk : KeyNumbers,
                ct : SessionNumbers]
    /\ nvs \in [sk : KeyNumbers, pk : KeyNumbers, kem : Kems]
    /\ flash \in [sk : KeyNumbers, pk : KeyNumbers, kem : Kems]
    /\ keys \in KeyNumbers /\ sessions \in SessionNumbers
    /\ errors \in 0..MaxErrors /\ losses \in 0..MaxPowerLosses /\ erases \in 0..MaxErases
    /\ announced \subseteq 1..MaxKeys
    /\ packets \subseteq [signer : KeyNumbers, pk : KeyNumbers, kem : Kems,
                          session : SessionNumbers, ct : SessionNumbers]
    /\ cut \in BOOLEAN

Complete(n) == n.sk # Zero /\ n.pk # Zero /\ n.kem # Zero

\* Whenever power is lost, keys that load at the next boot without provisioning are
\* the two halves of one pair: a half-written pair is never taken for a whole one.
StoredPairMatches ==
    \A n \in {flash, [flash EXCEPT !.sk = nvs.sk], nvs} : Complete(n) => n.sk = n.pk

\* A packet is signed with the private half of a public key that was announced for
\* registration, as long as no NVS call fails and provisioning is not interrupted.
PacketsVerify ==
    errors = 0 /\ ~cut =>
        \A p \in packets : p.signer = p.pk /\ p.signer \in announced

\* Every packet can be opened by the holder of the KEM key it was made for, and each
\* with a key of its own: the ciphertext sent along encapsulates the key the batch
\* is encrypted with, and no two packets have the same one.
PacketsAreReadable ==
    /\ \A p \in packets : p.session # Zero /\ p.ct = p.session
    /\ \A p, q \in packets : p.session = q.session => p = q

\* No session key stays in RAM while readings are collected, whichever step of the
\* last upload failed.
SessionKeyIsWiped == pc \in {"collect", "reload", "halted"} => ctx.session = Zero

\* A device whose flash holds all three keys keeps its identity through power losses
\* and failing NVS calls, unless the partition is erased.
IdentityIsStable ==
    [][Complete(flash) /\ erases' = erases => nvs'.sk = nvs.sk /\ nvs'.pk = nvs.pk]_vars

\* What pqc.h says of provisioning: keys that were provisioned once, committed and
\* announced, are not generated again.
ProvisionedOnce ==
    [][announced # {} /\ errors = 0 /\ erases = 0 => keys' = keys]_vars
==============================================================================
