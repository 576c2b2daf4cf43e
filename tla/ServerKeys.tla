------------------------------ MODULE ServerKeys ------------------------------
(***************************************************************************)
(* The server's RSA and Kyber768 key pairs (gigaservice/services/auth.py): *)
(* at import each pair is taken from the environment, else from a file on  *)
(* the /data volume, else from one in /tmp, else generated and saved to    *)
(* the first of the two that takes it. A read may fail, and a new pair may *)
(* then take the place of the one in the file; a write may fail or be cut  *)
(* short by a stop of the process; the container may be recreated, which   *)
(* empties /tmp. A pair is a number; of a file or of the keys in memory it *)
(* matters how much of the pair is there.                                  *)
(***************************************************************************)
EXTENDS Integers, FiniteSets

CONSTANT MaxRestarts    \* bound: restarts of the process

ASSUME KeysAssumption == MaxRestarts \in Nat

VARIABLES
    env,        \* kind -> both its variables are set in the environment
    oqs,        \* the image has liboqs
    file,       \* kind -> place -> what the key file there holds
    mem,        \* kind -> the pair in memory
    boot,       \* the pair the import is busy with and what it does, or up
    made,       \* pairs generated so far
    restarts,   \* restarts so far
    saved,      \* history: kind -> the pairs ever written whole to /data
    unread      \* history: kind -> the pairs on /data that the last try failed to read

keyVars == <<env, oqs, file, mem, boot, made, restarts, saved, unread>>

Kinds == {"rsa", "kyber"}
Places == {"data", "tmp"}

\* Neither half whole, the secret half, or both: a file is [length][secret][public].
Parts == {"none", "secret", "all"}

\* What a write that is cut short leaves; a part of a PEM is of no use.
TornParts(k) == IF k = "rsa" THEN {"none"} ELSE {"none", "secret"}

NoKey == [held |-> FALSE]
Pair(id, part) == [held |-> TRUE, id |-> id, part |-> part]
EnvPair == Pair(0, "all")

Up == [kind |-> "kyber", does |-> "serve"]

KeysInit ==
    /\ env \in [Kinds -> BOOLEAN]
    /\ oqs \in BOOLEAN
    /\ file = [k \in Kinds |-> [p \in Places |-> NoKey]]
    /\ mem = [k \in Kinds |-> NoKey]
    /\ boot = [kind |-> "rsa", does |-> "load"]
    /\ made = 0
    /\ restarts = 0
    /\ saved = [k \in Kinds |-> {}]
    /\ unread = [k \in Kinds |-> {}]

-----------------------------------------------------------------------------
\* The RSA pair first, then the Kyber pair, then the requests.
Done == IF boot.kind = "rsa" THEN [kind |-> "kyber", does |-> "load"] ELSE Up

\* A key file that is taken when it is read. A torn PEM raises and the next place is
\* tried; a torn Kyber file is split at whatever length it begins with, and is taken.
Loads(k, p) ==
    /\ file[k][p].held
    /\ k = "rsa" => file[k][p].part = "all"

\* Fault: only the legacy path is looked at.
LegacyPlace(k, fails) == IF "tmp" \notin fails /\ Loads(k, "tmp") THEN {"tmp"} ELSE {}

\* Fault: /tmp before /data.
LegacyFirst(k, fails) ==
    IF "tmp" \notin fails /\ Loads(k, "tmp") THEN {"tmp"}
    ELSE IF "data" \notin fails /\ Loads(k, "data") THEN {"data"} ELSE {}

\* The place the pair is loaded from: /data before /tmp, and neither if it cannot be
\* read.
Source(k, fails) ==
    IF "data" \notin fails /\ Loads(k, "data") THEN {"data"}
    ELSE IF "tmp" \notin fails /\ Loads(k, "tmp") THEN {"tmp"} ELSE {}

\* History: the kept pair that is on /data.
Kept(k) == {id \in saved[k] : file[k]["data"] = Pair(id, "all")}

\* History: the pairs the last try failed to read, when the reads of fails raise.
Unread(k, fails) == IF "data" \in fails THEN unread[k] \union Kept(k) ELSE unread[k] \ Kept(k)

\* The files are read, or the reads of some raise and are passed over: a pair is
\* loaded, or a new one is generated to be written over what could not be read.
ReadFiles(k) ==
    \E fails \in SUBSET {p \in Places : file[k][p].held} :
        /\ unread' = [unread EXCEPT ![k] = Unread(k, fails)]
        /\ \/ /\ \E p \in Source(k, fails) : mem' = [mem EXCEPT ![k] = file[k][p]]
              /\ boot' = Done
              /\ UNCHANGED made
           \/ /\ Source(k, fails) = {}
              /\ made' = made + 1
              /\ mem' = [mem EXCEPT ![k] = Pair(made + 1, "all")]
              /\ boot' = [kind |-> k, does |-> "save to data"]

\* The import loads a pair or generates one.
LoadOrGenerate ==
    LET k == boot.kind IN
    /\ boot.does = "load"
    /\ \/ /\ k = "kyber" /\ ~oqs
          /\ boot' = Done
          /\ UNCHANGED <<mem, made, unread>>
       \/ /\ k = "kyber" => oqs
          /\ env[k]
          /\ mem' = [mem EXCEPT ![k] = EnvPair]
          /\ boot' = Done
          /\ UNCHANGED <<made, unread>>
       \/ /\ k = "kyber" => oqs
          /\ ~env[k]
          /\ ReadFiles(k)
    /\ UNCHANGED <<env, oqs, file, restarts, saved>>

\* The target a new pair is being written to.
Target == IF boot.does = "save to data" THEN "data" ELSE "tmp"

\* write_bytes writes the pair, and the import goes on.
Save ==
    LET k == boot.kind IN
    /\ boot.does \in {"save to data", "save to tmp"}
    /\ file' = [file EXCEPT ![k][Target] = mem[k]]
    /\ saved' = IF Target = "data" THEN [saved EXCEPT ![k] = @ \union {mem[k].id}] ELSE saved
    /\ boot' = Done
    /\ UNCHANGED <<env, oqs, mem, made, restarts, unread>>

\* The write raises, before it opened the file or after it wrote a part: on to /tmp,
\* and from there on without a saved pair.
SaveFails ==
    LET k == boot.kind IN
    /\ boot.does \in {"save to data", "save to tmp"}
    /\ \/ UNCHANGED file
       \/ \E part \in TornParts(k) :
            file' = [file EXCEPT ![k][Target] = Pair(mem[k].id, part)]
    /\ boot' = IF Target = "data" THEN [kind |-> k, does |-> "save to tmp"] ELSE Done
    /\ UNCHANGED <<env, oqs, mem, made, restarts, saved, unread>>

\* The process stops and is started again, in its container or in a new one. Stopped
\* while it writes a key file it leaves a part of it.
Restart ==
    /\ restarts < MaxRestarts
    /\ restarts' = restarts + 1
    /\ \E recreated \in BOOLEAN,
          torn \in {file} \union
                   (IF boot.does \in {"save to data", "save to tmp"}
                    THEN {[file EXCEPT ![boot.kind][Target] = Pair(mem[boot.kind].id, part)] :
                            part \in TornParts(boot.kind)}
                    ELSE {}) :
         file' = [k \in Kinds |-> [p \in Places |->
                    IF recreated /\ p = "tmp" THEN NoKey ELSE torn[k][p]]]
    /\ mem' = [k \in Kinds |-> NoKey]
    /\ boot' = [kind |-> "rsa", does |-> "load"]
    /\ UNCHANGED <<env, oqs, made, saved, unread>>

KeysNext == LoadOrGenerate \/ Save \/ SaveFails \/ Restart

-----------------------------------------------------------------------------
\* What the server's requests make of the pairs.

\* GET /auth/keys answers with the public half, however much of it there is; 503
\* without one.
Served == IF boot = Up /\ mem["kyber"].held THEN {mem["kyber"]} ELSE {}

\* decrypt_kyber_aes_gcm: with another secret key, or with a part of it, the
\* decapsulation or the AES-GCM tag fails.
Decrypts(id) ==
    /\ mem["kyber"].held
    /\ mem["kyber"].part \in {"secret", "all"}
    /\ mem["kyber"].id = id

-----------------------------------------------------------------------------
\* Properties.

PairsOrNone == [held : {TRUE}, id : Nat, part : Parts] \union {NoKey}

KeysTypeOK ==
    /\ env \in [Kinds -> BOOLEAN]
    /\ oqs \in BOOLEAN
    /\ file \in [Kinds -> [Places -> PairsOrNone]]
    /\ mem \in [Kinds -> PairsOrNone]
    /\ boot \in [kind : Kinds, does : {"load", "save to data", "save to tmp", "serve"}]
    /\ made \in Nat
    /\ restarts \in 0..MaxRestarts
    /\ saved \in [Kinds -> SUBSET Nat]
    /\ unread \in [Kinds -> SUBSET Nat]

\* A pair that was once written whole to the volume is the server's pair for as long as
\* no read of its file fails, and again once one succeeds before it is written over:
\* every process that finishes its import holds it, whole, whatever restarts, recreated
\* containers, failed and torn writes came before and after. Only a pair that could not
\* be read, and whose place a new one took, is gone.
KeptKeyIsForGood ==
    \A k \in Kinds :
        boot = Up /\ ~env[k] /\ (k = "kyber" => oqs) =>
            \A id \in saved[k] \ unread[k] : mem[k] = Pair(id, "all")
===============================================================================
