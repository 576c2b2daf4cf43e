------------------------ MODULE TrackerFirmwareProofs ------------------------
(***************************************************************************)
(* Proofs about ServerKeys and TrackerFirmware, for any number of restarts,*)
(* power cycles and levels of acceleration: the types, a pair that was     *)
(* kept on the volume stays as long as it can be read, the packets sealed  *)
(* under it are accepted, and the two tasks of the tracker lose no peak    *)
(* but by a power cut or by the race between its reading and its reset.    *)
(***************************************************************************)
EXTENDS TrackerFirmware, TLAPS

-----------------------------------------------------------------------------
\* The invariant of the server's keys.

\* The image can have a pair of this kind.
Supported(k) == k = "kyber" => oqs

\* The import is through with a kind of pair.
Passed(k) == IF k = "rsa" THEN boot.kind = "kyber" ELSE boot = Up

Saving == boot.does \in {"save to data", "save to tmp"}

\* Only a pair that nobody knows yet is written: a whole one, of a kind that has
\* neither variables nor a kept pair that could be read.
SavingIsFresh ==
    Saving => LET k == boot.kind IN
              /\ ~env[k] /\ Supported(k) /\ saved[k] \ unread[k] = {}
              /\ mem[k] \in [held : {TRUE}, id : Nat, part : {"all"}]

\* A pair that was once whole on the volume, and could be read, is there, and nothing
\* else.
KeptIsOnFile == \A k \in Kinds : \A id \in saved[k] \ unread[k] : file[k]["data"] = Pair(id, "all")

\* A kind that the environment or the image settles has no kept pair.
SettledIsNotKept == \A k \in Kinds : env[k] \/ ~Supported(k) => saved[k] = {}

\* What the import made of it.
PassedIsLoaded ==
    \A k \in Kinds :
        Passed(k) /\ Supported(k) =>
            /\ env[k] => mem[k] = EnvPair
            /\ \A id \in saved[k] \ unread[k] : mem[k] = Pair(id, "all")

\* Pairs are numbered as they are made; 0 is the environment's.
Numbered ==
    /\ \A k \in Kinds, p \in Places : file[k][p].held => file[k][p].id \in 1..made
    /\ \A k \in Kinds :
         mem[k].held => /\ Supported(k)
                        /\ IF mem[k].id = 0 THEN env[k] ELSE mem[k].id \in 1..made

KeysInv ==
    /\ KeysTypeOK
    /\ SavingIsFresh
    /\ KeptIsOnFile
    /\ SettledIsNotKept
    /\ PassedIsLoaded
    /\ Numbered

LEMMA KeysInvInit == KeysInit => KeysInv
<1> SUFFICES ASSUME KeysInit PROVE KeysInv
  OBVIOUS
<1>1. KeysTypeOK
  BY KeysAssumption DEF KeysInit, KeysTypeOK, PairsOrNone, Kinds
<1>2. SavingIsFresh /\ KeptIsOnFile /\ SettledIsNotKept /\ PassedIsLoaded
  BY DEF KeysInit, SavingIsFresh, Saving, KeptIsOnFile, SettledIsNotKept, PassedIsLoaded,
         Passed, Up
<1>3. Numbered
  BY DEF KeysInit, Numbered, NoKey
<1> QED BY <1>1, <1>2, <1>3 DEF KeysInv

\* The next thing the import does is to load a pair, or it is done.
LEMMA DoneShape ==
    ASSUME boot.kind \in Kinds
    PROVE  /\ Done \in [kind : Kinds, does : {"load", "serve"}]
           /\ boot.kind = "rsa" => Done = [kind |-> "kyber", does |-> "load"]
           /\ boot.kind = "kyber" => Done = Up
BY DEF Done, Up, Kinds

\* With a kept pair on the volume that can be read, that is what the import takes.
LEMMA KeptIsTheSource ==
    ASSUME KeysInv, NEW k \in Kinds, NEW fails, NEW id \in saved[k] \ Unread(k, fails)
    PROVE  file[k]["data"] = Pair(id, "all") /\ Source(k, fails) = {"data"}
<1>1. file[k]["data"] = Pair(id, "all")
  BY DEF KeysInv, KeptIsOnFile, Unread, Kept
<1>2. "data" \notin fails
  BY <1>1 DEF Unread, Kept
<1>3. Loads(k, "data")
  BY <1>1 DEF Loads, Pair
<1> QED BY <1>1, <1>2, <1>3 DEF Source

LEMMA LoadOrGenerateKeepsInv == KeysInv /\ LoadOrGenerate => KeysInv'
<1> SUFFICES ASSUME KeysInv, LoadOrGenerate PROVE KeysInv'
  OBVIOUS
<1> DEFINE k == boot.kind
<1> USE DEF Kinds, Places, Supported
<1>0. /\ k \in Kinds /\ boot.does = "load" /\ ~Saving
      /\ mem \in [Kinds -> PairsOrNone] /\ file \in [Kinds -> [Places -> PairsOrNone]]
      /\ made \in Nat
      /\ saved \in [Kinds -> SUBSET Nat] /\ unread \in [Kinds -> SUBSET Nat]
      /\ UNCHANGED <<env, oqs, file, restarts, saved>>
  BY DEF KeysInv, KeysTypeOK, LoadOrGenerate, Saving
<1>1. \/ boot' = Done /\ UNCHANGED <<made, unread>> /\ ~Supported(k) /\ mem' = mem
      \/ boot' = Done /\ UNCHANGED <<made, unread>> /\ Supported(k) /\ env[k]
           /\ mem' = [mem EXCEPT ![k] = EnvPair]
      \/ Supported(k) /\ ~env[k] /\ ReadFiles(k)
  BY DEF LoadOrGenerate
<1>8. ASSUME NEW fails, unread' = [unread EXCEPT ![k] = Unread(k, fails)]
      PROVE  /\ unread' \in [Kinds -> SUBSET Nat] /\ unread'[k] = Unread(k, fails)
             /\ \A l \in Kinds : l # k => unread'[l] = unread[l]
             /\ KeptIsOnFile' /\ SettledIsNotKept'
  <2>1. Unread(k, fails) \in SUBSET Nat
    BY <1>0 DEF Unread, Kept
  <2>2. unread' \in [Kinds -> SUBSET Nat] /\ unread'[k] = Unread(k, fails)
        /\ \A l \in Kinds : l # k => unread'[l] = unread[l]
    BY <1>0, <1>8, <2>1
  <2>3. \A id \in saved[k] \ Unread(k, fails) : file[k]["data"] = Pair(id, "all")
    BY <1>0, KeptIsTheSource
  <2>4. KeptIsOnFile'
    BY <1>0, <2>2, <2>3 DEF KeysInv, KeptIsOnFile
  <2> QED BY <1>0, <2>2, <2>4 DEF KeysInv, SettledIsNotKept
<1>2. UNCHANGED unread => KeptIsOnFile' /\ SettledIsNotKept'
  BY <1>0 DEF KeysInv, KeptIsOnFile, SettledIsNotKept
<1>3. CASE boot' = Done /\ ~Supported(k) /\ UNCHANGED <<mem, made, unread>>
  <2>1. k = "kyber" /\ boot' = Up
    BY <1>0, <1>3, DoneShape
  <2>2. KeysTypeOK'
    <3>1. Up \in [kind : Kinds, does : {"load", "save to data", "save to tmp", "serve"}]
      BY DEF Up
    <3> QED BY <1>0, <1>3, <2>1, <3>1 DEF KeysInv, KeysTypeOK
  <2>3. SavingIsFresh' /\ Numbered'
    BY <1>0, <1>3, <2>1 DEF KeysInv, SavingIsFresh, Saving, Numbered, Up
  <2>4. PassedIsLoaded'
    BY <1>0, <1>3, <2>1 DEF KeysInv, PassedIsLoaded, Passed
  <2> QED BY <1>2, <1>3, <2>2, <2>3, <2>4 DEF KeysInv
<1>4. ASSUME NEW pair \in PairsOrNone, boot' = Done, UNCHANGED made, Supported(k),
             mem' = [mem EXCEPT ![k] = pair],
             pair.held,
             env[k] => pair = EnvPair,
             unread' \in [Kinds -> SUBSET Nat],
             \A l \in Kinds : l # k => unread'[l] = unread[l],
             KeptIsOnFile' /\ SettledIsNotKept',
             \A id \in saved[k] \ unread'[k] : pair = Pair(id, "all"),
             IF pair.id = 0 THEN env[k] ELSE pair.id \in 1..made
      PROVE  KeysInv'
  <2>1. /\ boot' \in [kind : Kinds, does : {"load", "serve"}]
        /\ k = "rsa" => boot' = [kind |-> "kyber", does |-> "load"]
        /\ k = "kyber" => boot' = Up
    BY <1>0, <1>4, DoneShape
  <2>2. KeysTypeOK'
    BY <1>0, <1>4, <2>1 DEF KeysInv, KeysTypeOK
  <2>3. SavingIsFresh'
    BY <2>1 DEF SavingIsFresh, Saving
  <2>4. Numbered'
    BY <1>0, <1>4 DEF KeysInv, Numbered
  <2>5. PassedIsLoaded'
    <3> SUFFICES ASSUME NEW l \in Kinds, Passed(l)', Supported(l)
                 PROVE  /\ env[l] => mem'[l] = EnvPair
                        /\ \A id \in saved[l] \ unread'[l] : mem'[l] = Pair(id, "all")
      BY <1>0 DEF PassedIsLoaded
    <3>1. CASE l = k
      BY <1>0, <1>4, <3>1
    <3>2. CASE l # k
      <4>1. l = "rsa" /\ k = "kyber"
        BY <1>0, <2>1, <3>2 DEF Passed, Up
      <4> QED BY <1>0, <1>4, <4>1 DEF KeysInv, PassedIsLoaded, Passed
    <3> QED BY <3>1, <3>2
  <2> QED BY <1>4, <2>2, <2>3, <2>4, <2>5 DEF KeysInv
<1>5. CASE boot' = Done /\ UNCHANGED <<made, unread>> /\ Supported(k) /\ env[k]
             /\ mem' = [mem EXCEPT ![k] = EnvPair]
  <2>1. EnvPair \in PairsOrNone /\ EnvPair.held /\ EnvPair.id = 0
    BY DEF EnvPair, Pair, PairsOrNone, Parts
  <2>2. saved[k] = {}
    BY <1>0, <1>5 DEF KeysInv, SettledIsNotKept
  <2>3. unread' \in [Kinds -> SUBSET Nat] /\ \A l \in Kinds : l # k => unread'[l] = unread[l]
    BY <1>0, <1>5
  <2> QED BY <1>2, <1>4, <1>5, <2>1, <2>2, <2>3
<1>6. ASSUME Supported(k), ~env[k], NEW fails,
             unread' = [unread EXCEPT ![k] = Unread(k, fails)],
             \E p \in Source(k, fails) : mem' = [mem EXCEPT ![k] = file[k][p]],
             boot' = Done, UNCHANGED made
      PROVE  KeysInv'
  <2>1. PICK p \in Source(k, fails) : mem' = [mem EXCEPT ![k] = file[k][p]]
    BY <1>6
  <2>2. p \in Places /\ file[k][p].held
    BY <1>0, <2>1 DEF Source, Loads
  <2>3. file[k][p] \in PairsOrNone /\ file[k][p].id \in 1..made
    BY <1>0, <2>2 DEF KeysInv, Numbered
  <2>4. ASSUME NEW id \in saved[k] \ Unread(k, fails) PROVE file[k][p] = Pair(id, "all")
    BY <1>0, <2>1, <2>4, KeptIsTheSource
  <2>5. file[k][p].id # 0
    BY <1>0, <2>3
  <2> DEFINE pair == file[k][p]
  <2>6. /\ pair \in PairsOrNone /\ pair.held /\ mem' = [mem EXCEPT ![k] = pair]
        /\ \A id \in saved[k] \ unread'[k] : pair = Pair(id, "all")
        /\ IF pair.id = 0 THEN env[k] ELSE pair.id \in 1..made
        /\ env[k] => pair = EnvPair
    BY <1>6, <1>8, <2>1, <2>2, <2>3, <2>4, <2>5
  <2> HIDE DEF pair
  <2> QED BY <1>4, <1>6, <1>8, <2>6
<1>7. ASSUME Supported(k), ~env[k], NEW fails,
             unread' = [unread EXCEPT ![k] = Unread(k, fails)],
             Source(k, fails) = {}, made' = made + 1,
             mem' = [mem EXCEPT ![k] = Pair(made + 1, "all")],
             boot' = [kind |-> k, does |-> "save to data"]
      PROVE  KeysInv'
  <2>1. saved[k] \ unread'[k] = {} /\ unread' \in [Kinds -> SUBSET Nat]
        /\ \A l \in Kinds : l # k => unread'[l] = unread[l]
    BY <1>0, <1>7, <1>8, KeptIsTheSource
  <2>2. Pair(made + 1, "all") \in [held : {TRUE}, id : Nat, part : {"all"}]
    BY <1>0 DEF Pair
  <2>3. Pair(made + 1, "all") \in PairsOrNone
    BY <2>2 DEF PairsOrNone, Parts
  <2>4. KeysTypeOK'
    <3>1. boot' \in [kind : Kinds, does : {"load", "save to data", "save to tmp", "serve"}]
      BY <1>0, <1>7
    <3>2. mem' \in [Kinds -> PairsOrNone] /\ made' \in Nat
      <4> DEFINE pair == Pair(made + 1, "all")
      <4>1. pair \in PairsOrNone /\ mem' = [mem EXCEPT ![k] = pair] /\ made' = made + 1
        BY <1>7, <2>3
      <4> HIDE DEF pair
      <4> QED BY <1>0, <4>1
    <3>3. UNCHANGED <<env, oqs, file, restarts, saved>>
      BY <1>0
    <3> QED BY <2>1, <3>1, <3>2, <3>3 DEF KeysInv, KeysTypeOK
  <2>5. mem'[k] = Pair(made + 1, "all") /\ boot'.kind = k
    BY <1>0, <1>7
  <2>6. SavingIsFresh'
    BY <1>0, <1>7, <2>1, <2>2, <2>5 DEF SavingIsFresh
  <2>7. Numbered'
    <3>0. made \in Nat /\ made' = made + 1
      BY <1>0, <1>7
    <3>1. Pair(made + 1, "all").id \in 1..made' /\ Pair(made + 1, "all").id # 0
      BY <3>0 DEF Pair
    <3>2. \A i \in 1..made : i \in 1..made'
      BY <3>0
    <3> QED BY <1>0, <1>7, <3>1, <3>2 DEF KeysInv, Numbered
  <2>8. PassedIsLoaded'
    BY <1>0, <1>7, <2>1 DEF KeysInv, PassedIsLoaded, Passed, Up
  <2> QED BY <1>7, <1>8, <2>4, <2>6, <2>7, <2>8 DEF KeysInv
<1>9. ASSUME Supported(k), ~env[k], ReadFiles(k) PROVE KeysInv'
  BY <1>6, <1>7, <1>9 DEF ReadFiles
<1> QED BY <1>1, <1>3, <1>5, <1>9

\* A write to a key file, whole or in part, of the pair that is new.
LEMMA FileWrite ==
    ASSUME KeysInv, Saving, NEW part \in Parts,
           NEW f, f = [file EXCEPT ![boot.kind][Target] = Pair(mem[boot.kind].id, part)]
    PROVE  /\ f \in [Kinds -> [Places -> PairsOrNone]]
           /\ \A k \in Kinds, p \in Places : f[k][p].held => f[k][p].id \in 1..made
           /\ \A k \in Kinds : saved[k] \ unread[k] # {} => f[k]["data"] = file[k]["data"]
           /\ f[boot.kind][Target] = Pair(mem[boot.kind].id, part)
<1> DEFINE k == boot.kind
           new == Pair(mem[k].id, part)
<1>1. k \in Kinds /\ Target \in Places /\ file \in [Kinds -> [Places -> PairsOrNone]]
  BY DEF KeysInv, KeysTypeOK, Target, Places
<1>2. mem[k].held /\ mem[k].id \in Nat /\ ~env[k] /\ saved[k] \ unread[k] = {}
  BY DEF KeysInv, SavingIsFresh
<1>3. mem[k].id \in 1..made
  BY <1>1, <1>2 DEF KeysInv, Numbered
<1>4. new \in PairsOrNone /\ new.id \in 1..made
  BY <1>2, <1>3 DEF Pair, PairsOrNone
<1> HIDE DEF new
<1>5. f = [file EXCEPT ![k][Target] = new]
  BY DEF new
<1>6. f \in [Kinds -> [Places -> PairsOrNone]] /\ f[k][Target] = new
  BY <1>1, <1>4, <1>5
<1>7. \A l \in Kinds, p \in Places : f[l][p] = IF l = k /\ p = Target THEN new ELSE file[l][p]
  BY <1>1, <1>5
<1>8. \A l \in Kinds : saved[l] \ unread[l] # {} => f[l]["data"] = file[l]["data"]
  BY <1>2, <1>7 DEF Places
<1>9. \A l \in Kinds, p \in Places : f[l][p].held => f[l][p].id \in 1..made
  BY <1>4, <1>7 DEF KeysInv, Numbered
<1> QED BY <1>6, <1>8, <1>9 DEF new

\* The pair that is being saved is a whole one.
LEMMA SavedPair ==
    ASSUME KeysInv, Saving
    PROVE  mem[boot.kind] = Pair(mem[boot.kind].id, "all") /\ mem[boot.kind].id \in Nat
BY DEF KeysInv, SavingIsFresh, Pair

\* After the last write of a kind the import goes on, and what it holds stays.
LEMMA DonePasses ==
    ASSUME KeysInv, Saving, boot' = Done, UNCHANGED <<env, oqs, mem, made>>
    PROVE  /\ ~Saving' /\ boot' \in [kind : Kinds, does : {"load", "save to data", "save to tmp", "serve"}]
           /\ \A l \in Kinds \ {boot.kind} : Passed(l)' => Passed(l)
<1>1. boot.kind \in Kinds
  BY DEF KeysInv, KeysTypeOK
<1>2. /\ boot' \in [kind : Kinds, does : {"load", "serve"}]
      /\ boot.kind = "rsa" => boot' = [kind |-> "kyber", does |-> "load"]
      /\ boot.kind = "kyber" => boot' = Up
  BY <1>1, DoneShape
<1>3. \A l \in Kinds \ {boot.kind} : Passed(l)' => Passed(l)
  BY <1>1, <1>2 DEF Passed, Kinds, Up
<1> QED BY <1>2, <1>3 DEF Saving

LEMMA SaveKeepsInv == KeysInv /\ Save => KeysInv'
<1> SUFFICES ASSUME KeysInv, Save PROVE KeysInv'
  OBVIOUS
<1> DEFINE k == boot.kind
           id == mem[k].id
<1>1. /\ Saving /\ k \in Kinds /\ boot' = Done /\ UNCHANGED <<env, oqs, mem, made, restarts, unread>>
      /\ saved \in [Kinds -> SUBSET Nat] /\ saved[k] \ unread[k] = {} /\ ~env[k] /\ Supported(k)
  BY DEF Save, Saving, KeysInv, KeysTypeOK, SavingIsFresh
<1>2. mem[k] = Pair(id, "all") /\ id \in Nat
  BY <1>1, SavedPair
<1>3. file' = [file EXCEPT ![k][Target] = Pair(id, "all")]
  BY <1>2 DEF Save
<1>4. /\ file' \in [Kinds -> [Places -> PairsOrNone]]
      /\ \A l \in Kinds, p \in Places : file'[l][p].held => file'[l][p].id \in 1..made
      /\ \A l \in Kinds : saved[l] \ unread[l] # {} => file'[l]["data"] = file[l]["data"]
      /\ file'[k][Target] = Pair(id, "all")
  BY <1>1, <1>3, FileWrite DEF Parts
<1>5. saved' = IF Target = "data" THEN [saved EXCEPT ![k] = @ \union {id}] ELSE saved
  BY <1>1 DEF Save
<1>6. saved' \in [Kinds -> SUBSET Nat]
  BY <1>1, <1>2, <1>5
<1>7. /\ ~Saving' /\ boot' \in [kind : Kinds, does : {"load", "save to data", "save to tmp", "serve"}]
      /\ \A l \in Kinds \ {k} : Passed(l)' => Passed(l)
  BY <1>1, DonePasses
<1>8. KeysTypeOK'
  BY <1>1, <1>4, <1>6, <1>7 DEF KeysInv, KeysTypeOK
<1>9. SavingIsFresh'
  BY <1>7 DEF SavingIsFresh
<1>10. KeptIsOnFile'
  BY <1>1, <1>4, <1>5 DEF KeysInv, KeptIsOnFile
<1>11. SettledIsNotKept'
  BY <1>1, <1>5 DEF KeysInv, SettledIsNotKept, Supported
<1>12. PassedIsLoaded'
  <2> SUFFICES ASSUME NEW l \in Kinds, Passed(l)', Supported(l)
               PROVE  /\ env[l] => mem[l] = EnvPair
                      /\ \A i \in saved'[l] \ unread[l] : mem[l] = Pair(i, "all")
    BY <1>1 DEF PassedIsLoaded, Supported
  <2>1. CASE l = k
    BY <1>1, <1>2, <1>5, <2>1
  <2>2. CASE l # k
    BY <1>1, <1>5, <1>7, <2>2 DEF KeysInv, PassedIsLoaded
  <2> QED BY <2>1, <2>2
<1>13. Numbered'
  BY <1>1, <1>4 DEF KeysInv, Numbered, Supported
<1> QED BY <1>8, <1>9, <1>10, <1>11, <1>12, <1>13 DEF KeysInv

LEMMA SaveFailsKeepsInv == KeysInv /\ SaveFails => KeysInv'
<1> SUFFICES ASSUME KeysInv, SaveFails PROVE KeysInv'
  OBVIOUS
<1> DEFINE k == boot.kind
<1>1. /\ Saving /\ k \in Kinds /\ UNCHANGED <<env, oqs, mem, made, restarts, saved, unread>>
      /\ saved[k] \ unread[k] = {} /\ ~env[k] /\ Supported(k)
      /\ mem[k] \in [held : {TRUE}, id : Nat, part : {"all"}]
  BY DEF SaveFails, Saving, KeysInv, KeysTypeOK, SavingIsFresh
<1>2. /\ file' \in [Kinds -> [Places -> PairsOrNone]]
      /\ \A l \in Kinds, p \in Places : file'[l][p].held => file'[l][p].id \in 1..made
      /\ \A l \in Kinds : saved[l] \ unread[l] # {} => file'[l]["data"] = file[l]["data"]
  <2>1. CASE UNCHANGED file
    BY <2>1 DEF KeysInv, KeysTypeOK, Numbered
  <2>2. ASSUME NEW part \in TornParts(k),
               file' = [file EXCEPT ![k][Target] = Pair(mem[k].id, part)]
        PROVE  <1>2!:
    BY <1>1, <2>2, FileWrite DEF TornParts, Parts
  <2> QED BY <2>1, <2>2 DEF SaveFails
<1>3. CASE boot' = [kind |-> k, does |-> "save to tmp"]
  <2>1. boot' \in [kind : Kinds, does : {"load", "save to data", "save to tmp", "serve"}]
    BY <1>1, <1>3
  <2>2. KeysTypeOK'
    BY <1>1, <1>2, <2>1 DEF KeysInv, KeysTypeOK
  <2>3. SavingIsFresh'
    BY <1>1, <1>3 DEF SavingIsFresh, Supported
  <2>4. PassedIsLoaded'
    BY <1>1, <1>3 DEF KeysInv, PassedIsLoaded, Passed, Supported, Up
  <2>5. KeptIsOnFile' /\ SettledIsNotKept' /\ Numbered'
    BY <1>1, <1>2 DEF KeysInv, KeptIsOnFile, SettledIsNotKept, Numbered, Supported
  <2> QED BY <2>2, <2>3, <2>4, <2>5 DEF KeysInv
<1>4. CASE boot' = Done
  <2>1. /\ ~Saving' /\ boot' \in [kind : Kinds, does : {"load", "save to data", "save to tmp", "serve"}]
        /\ \A l \in Kinds \ {k} : Passed(l)' => Passed(l)
    BY <1>1, <1>4, DonePasses
  <2>2. KeysTypeOK'
    BY <1>1, <1>2, <2>1 DEF KeysInv, KeysTypeOK
  <2>3. SavingIsFresh'
    BY <2>1 DEF SavingIsFresh
  <2>4. PassedIsLoaded'
    <3> SUFFICES ASSUME NEW l \in Kinds, Passed(l)', Supported(l)
                 PROVE  /\ env[l] => mem[l] = EnvPair
                        /\ \A i \in saved[l] \ unread[l] : mem[l] = Pair(i, "all")
      BY <1>1 DEF PassedIsLoaded, Supported
    <3> QED BY <1>1, <2>1 DEF KeysInv, PassedIsLoaded
  <2>5. KeptIsOnFile' /\ SettledIsNotKept' /\ Numbered'
    BY <1>1, <1>2 DEF KeysInv, KeptIsOnFile, SettledIsNotKept, Numbered, Supported
  <2> QED BY <2>2, <2>3, <2>4, <2>5 DEF KeysInv
<1> QED BY <1>3, <1>4 DEF SaveFails

LEMMA RestartKeepsInv == KeysInv /\ Restart => KeysInv'
<1> SUFFICES ASSUME KeysInv, Restart PROVE KeysInv'
  OBVIOUS
<1>1. /\ UNCHANGED <<env, oqs, made, saved, unread>>
      /\ restarts' \in 0..MaxRestarts
      /\ mem' = [k \in Kinds |-> NoKey]
      /\ boot' = [kind |-> "rsa", does |-> "load"]
  <2>1. /\ UNCHANGED <<env, oqs, made, saved, unread>>
        /\ restarts < MaxRestarts /\ restarts' = restarts + 1
        /\ mem' = [k \in Kinds |-> NoKey]
        /\ boot' = [kind |-> "rsa", does |-> "load"]
    BY Zenon DEF Restart
  <2>2. restarts \in 0..MaxRestarts
    BY DEF KeysInv, KeysTypeOK
  <2>3. restarts' \in 0..MaxRestarts
    BY <2>1, <2>2, KeysAssumption
  <2> QED BY <2>1, <2>3
<1> DEFINE Torn == {file} \union
               (IF boot.does \in {"save to data", "save to tmp"}
                THEN {[file EXCEPT ![boot.kind][Target] = Pair(mem[boot.kind].id, part)] :
                        part \in TornParts(boot.kind)}
                ELSE {})
<1>2. PICK recreated \in BOOLEAN, torn \in Torn :
         file' = [k \in Kinds |-> [p \in Places |->
                    IF recreated /\ p = "tmp" THEN NoKey ELSE torn[k][p]]]
  BY Zenon DEF Restart
<1>3. /\ torn \in [Kinds -> [Places -> PairsOrNone]]
      /\ \A l \in Kinds, p \in Places : torn[l][p].held => torn[l][p].id \in 1..made
      /\ \A l \in Kinds : saved[l] \ unread[l] # {} => torn[l]["data"] = file[l]["data"]
  <2>1. CASE torn = file
    BY <2>1 DEF KeysInv, KeysTypeOK, Numbered
  <2>2. CASE torn # file
    <3>1. PICK part \in TornParts(boot.kind) :
            Saving /\ torn = [file EXCEPT ![boot.kind][Target] = Pair(mem[boot.kind].id, part)]
      BY <1>2, <2>2 DEF Saving
    <3> QED BY <3>1, FileWrite DEF TornParts, Parts
  <2> QED BY <2>1, <2>2
<1>4. /\ file' \in [Kinds -> [Places -> PairsOrNone]]
      /\ \A l \in Kinds, p \in Places : file'[l][p].held => file'[l][p].id \in 1..made
      /\ \A l \in Kinds : saved[l] \ unread[l] # {} => file'[l]["data"] = file[l]["data"]
  <2> DEFINE Left(l, p) == IF recreated /\ p = "tmp" THEN NoKey ELSE torn[l][p]
  <2>1. file' = [l \in Kinds |-> [p \in Places |-> Left(l, p)]]
    BY <1>2
  <2>2. \A l \in Kinds, p \in Places :
          Left(l, p) \in PairsOrNone /\ (Left(l, p).held => Left(l, p).id \in 1..made)
    BY <1>3 DEF PairsOrNone, NoKey
  <2>3. \A l \in Kinds : Left(l, "data") = torn[l]["data"]
    OBVIOUS
  <2> HIDE DEF Left
  <2>4. \A l \in Kinds, p \in Places : file'[l][p] = Left(l, p)
    BY <2>1
  <2>5. "data" \in Places
    BY DEF Places
  <2> QED BY <1>3, <2>1, <2>2, <2>3, <2>4, <2>5
<1>5. boot' \in [kind : Kinds, does : {"load", "save to data", "save to tmp", "serve"}]
  BY <1>1 DEF Kinds
<1>6. mem' \in [Kinds -> PairsOrNone] /\ \A k \in Kinds : ~mem'[k].held
  BY <1>1 DEF PairsOrNone, NoKey
<1>7. KeysTypeOK'
  BY <1>1, <1>4, <1>5, <1>6 DEF KeysInv, KeysTypeOK
<1>8. SavingIsFresh' /\ PassedIsLoaded'
  BY <1>1 DEF SavingIsFresh, Saving, PassedIsLoaded, Passed, Up, Kinds
<1>9. KeptIsOnFile' /\ SettledIsNotKept' /\ Numbered'
  BY <1>1, <1>4, <1>6 DEF KeysInv, KeptIsOnFile, SettledIsNotKept, Numbered, Supported
<1> QED BY <1>7, <1>8, <1>9 DEF KeysInv

LEMMA KeysStep == KeysInv /\ [KeysNext]_keyVars => KeysInv'
<1> SUFFICES ASSUME KeysInv, [KeysNext]_keyVars PROVE KeysInv'
  OBVIOUS
<1>1. CASE UNCHANGED keyVars
  <2>1. KeysTypeOK' /\ SavingIsFresh'
    BY <1>1 DEF keyVars, KeysInv, KeysTypeOK, SavingIsFresh, Saving, Supported
  <2>2. KeptIsOnFile' /\ SettledIsNotKept' /\ PassedIsLoaded' /\ Numbered'
    BY <1>1 DEF keyVars, KeysInv, KeptIsOnFile, SettledIsNotKept, PassedIsLoaded, Passed,
                Numbered, Supported
  <2> QED BY <2>1, <2>2 DEF KeysInv
<1> QED BY <1>1, LoadOrGenerateKeepsInv, SaveKeepsInv, SaveFailsKeepsInv, RestartKeepsInv
        DEF KeysNext

-----------------------------------------------------------------------------
\* The invariant of the tracker and its server.

DeviceTypeOK ==
    /\ pubkey \in PairsOrNone
    /\ peak \in Nat /\ sample \in Nat
    /\ report \in [does : {"boot", "wait", "reset", "seal", "post"}, peak : Nat]
    /\ cycles \in 0..MaxPowerCycles
    /\ owed \in Nat
    /\ refused \subseteq 0..made

\* The tracker's key is one the server had, and a packet is under way only with one.
KeyIsTheServers ==
    /\ pubkey.held => oqs /\ IF pubkey.id = 0 THEN env["kyber"] ELSE pubkey.id \in 1..made
    /\ report.does = "post" => pubkey.held

\* A pair that is still being written has sealed nothing.
SavedIsUnused ==
    Saving /\ boot.kind = "kyber" =>
        /\ mem["kyber"].id \notin refused
        /\ pubkey.held => pubkey.id # mem["kyber"].id

\* What the sampling task stores raises the peak, and an idle report task holds none.
PeakOnlyRises ==
    /\ sample # 0 => sample > peak
    /\ report.does \in {"boot", "wait"} => report.peak = 0

DeviceInv ==
    /\ KeysInv
    /\ DeviceTypeOK
    /\ KeyIsTheServers
    /\ SavedIsUnused
    /\ RefusedOnlyAfterKeyLoss

ShockInv == DeviceTypeOK /\ PeakOnlyRises /\ ShockIsAccountedFor

LEMMA DeviceInvInit == Init => DeviceInv /\ ShockInv
<1> SUFFICES ASSUME Init PROVE DeviceInv /\ ShockInv
  OBVIOUS
<1>1. KeysInv
  BY KeysInvInit DEF Init
<1>2. DeviceTypeOK
  <2>1. made \in Nat /\ NoKey \in PairsOrNone
    BY DEF Init, KeysInit, PairsOrNone
  <2>2. /\ pubkey = NoKey /\ peak = 0 /\ sample = 0 /\ cycles = 0 /\ owed = 0
        /\ report \in [does : {"boot", "wait", "reset", "seal", "post"}, peak : Nat]
        /\ refused = {}
    BY DEF Init
  <2>3. 0 \in 0..MaxPowerCycles
    BY TrackerAssumption
  <2> QED BY <2>1, <2>2, <2>3 DEF DeviceTypeOK
<1>3. KeyIsTheServers /\ SavedIsUnused /\ RefusedOnlyAfterKeyLoss
  BY DEF Init, KeysInit, KeyIsTheServers, SavedIsUnused, Saving, RefusedOnlyAfterKeyLoss, NoKey
<1>4. PeakOnlyRises /\ ShockIsAccountedFor
  BY DEF Init, PeakOnlyRises, ShockIsAccountedFor
<1> QED BY <1>1, <1>2, <1>3, <1>4 DEF DeviceInv, ShockInv

\* What a step of the server's start does to the pairs that matter to a tracker.
LEMMA KeysShape ==
    ASSUME KeysInv, KeysNext
    PROVE  /\ UNCHANGED <<env, oqs>>
           /\ made' \in {made, made + 1}
           /\ saved'["kyber"] = saved["kyber"]
              \/ /\ Saving /\ boot.kind = "kyber"
                 /\ saved'["kyber"] = saved["kyber"] \union {mem["kyber"].id}
           /\ Saving' /\ boot'.kind = "kyber" =>
                \/ mem'["kyber"].id = made + 1
                \/ Saving /\ boot.kind = "kyber" /\ mem' = mem
<1>1. /\ boot.kind \in Kinds /\ "kyber" \in Kinds /\ mem \in [Kinds -> PairsOrNone]
      /\ saved \in [Kinds -> SUBSET Nat]
  BY DEF KeysInv, KeysTypeOK, Kinds
<1>2. CASE LoadOrGenerate
  <2>1. UNCHANGED <<env, oqs, saved>> /\ made' \in {made, made + 1}
    BY <1>2 DEF LoadOrGenerate, ReadFiles
  <2>2. ASSUME Saving', boot'.kind = "kyber" PROVE mem'["kyber"].id = made + 1
    <3>1. boot' # Done
      BY <1>1, <2>2, DoneShape DEF Saving
    <3>2. /\ mem' = [mem EXCEPT ![boot.kind] = Pair(made + 1, "all")]
          /\ boot' = [kind |-> boot.kind, does |-> "save to data"]
      BY <1>2, <3>1, Zenon DEF LoadOrGenerate, ReadFiles
    <3> QED BY <1>1, <2>2, <3>2 DEF Pair
  <2> QED BY <2>1, <2>2
<1>3. CASE Save
  <2>1. /\ UNCHANGED <<env, oqs, made>> /\ Saving /\ boot' = Done
        /\ saved' \in {saved, [saved EXCEPT ![boot.kind] = @ \union {mem[boot.kind].id}]}
    BY <1>3 DEF Save, Saving
  <2>2. ~Saving'
    BY <1>1, <2>1, DoneShape DEF Saving
  <2> QED BY <1>1, <2>1, <2>2
<1>4. CASE SaveFails
  <2>1. /\ UNCHANGED <<env, oqs, mem, made, saved>> /\ Saving
        /\ boot' \in {[kind |-> boot.kind, does |-> "save to tmp"], Done}
    BY <1>4 DEF SaveFails, Saving
  <2>2. CASE boot' = Done
    <3>1. ~Saving'
      BY <1>1, <2>2, DoneShape DEF Saving
    <3> QED BY <2>1, <3>1
  <2>3. CASE boot' = [kind |-> boot.kind, does |-> "save to tmp"]
    BY <2>1, <2>3
  <2> QED BY <2>1, <2>2, <2>3
<1>5. CASE Restart
  BY <1>5 DEF Restart, Saving
<1> QED BY <1>2, <1>3, <1>4, <1>5 DEF KeysNext

LEMMA ServerStepKeepsInv ==
    DeviceInv /\ KeysNext /\ UNCHANGED deviceVars => DeviceInv'
<1> SUFFICES ASSUME DeviceInv, KeysNext, UNCHANGED deviceVars PROVE DeviceInv'
  OBVIOUS
<1>1. KeysInv' /\ made \in Nat /\ UNCHANGED <<pubkey, report, refused>>
  BY KeysStep DEF DeviceInv, KeysInv, KeysTypeOK, deviceVars
<1>2. /\ UNCHANGED <<env, oqs>>
      /\ made' \in {made, made + 1}
      /\ saved'["kyber"] = saved["kyber"]
         \/ /\ Saving /\ boot.kind = "kyber"
            /\ saved'["kyber"] = saved["kyber"] \union {mem["kyber"].id}
      /\ Saving' /\ boot'.kind = "kyber" =>
           \/ mem'["kyber"].id = made + 1
           \/ Saving /\ boot.kind = "kyber" /\ mem' = mem
  BY KeysShape DEF DeviceInv
<1>3. DeviceTypeOK'
  <2>1. refused \subseteq 0..made'
    BY <1>1, <1>2 DEF DeviceInv, DeviceTypeOK
  <2> QED BY <1>1, <2>1 DEF DeviceInv, DeviceTypeOK, deviceVars
<1>4. KeyIsTheServers'
  <2>1. \A i \in 1..made : i \in 1..made'
    BY <1>1, <1>2
  <2> QED BY <1>1, <1>2, <2>1 DEF DeviceInv, KeyIsTheServers
<1>5. SavedIsUnused'
  <2>1. made + 1 \notin refused /\ (pubkey.held => pubkey.id # made + 1)
    BY <1>1 DEF DeviceInv, DeviceTypeOK, KeyIsTheServers
  <2> QED BY <1>1, <1>2, <2>1 DEF DeviceInv, SavedIsUnused
<1>6. RefusedOnlyAfterKeyLoss'
  BY <1>1, <1>2 DEF DeviceInv, RefusedOnlyAfterKeyLoss, SavedIsUnused
<1> QED BY <1>1, <1>3, <1>4, <1>5, <1>6 DEF DeviceInv

\* The server that is up decrypts what was sealed under a pair it had to keep.
LEMMA KeptPairDecrypts ==
    ASSUME KeysInv, boot = Up, pubkey.held, KeyIsTheServers,
           pubkey.id = 0 \/ pubkey.id \in saved["kyber"] \ unread["kyber"]
    PROVE  Decrypts(pubkey.id)
<1>1. Passed("kyber") /\ Supported("kyber") /\ "kyber" \in Kinds
  BY DEF Passed, Supported, KeyIsTheServers, Kinds
<1>2. mem["kyber"] = Pair(pubkey.id, "all")
  <2>1. CASE pubkey.id = 0
    BY <1>1, <2>1 DEF KeysInv, PassedIsLoaded, KeyIsTheServers, EnvPair
  <2>2. CASE pubkey.id \in saved["kyber"] \ unread["kyber"]
    BY <1>1, <2>2 DEF KeysInv, PassedIsLoaded
  <2> QED BY <2>1, <2>2
<1> QED BY <1>2 DEF Decrypts, Pair

\* The types of the tracker survive its own steps.
LEMMA DeviceTypes ==
    ASSUME DeviceInv, DeviceNext
    PROVE  DeviceTypeOK'
<1> USE DEF DeviceTypeOK, DeviceInv
<1>0. KeysInv /\ mem \in [Kinds -> PairsOrNone] /\ NoKey \in PairsOrNone /\ made \in Nat
  BY DEF KeysInv, KeysTypeOK, PairsOrNone
<1>1. CASE FetchKey
  <2>1. pubkey' \in PairsOrNone
    BY <1>0, <1>1 DEF FetchKey, Served, Kinds
  <2> QED BY <1>1, <2>1 DEF FetchKey, keyVars, Waiting
<1>2. ASSUME NEW g \in 1..MaxG, Measure(g) PROVE DeviceTypeOK'
  BY <1>2, TrackerAssumption DEF Measure, keyVars
<1>3. CASE StorePeak
  BY <1>3 DEF StorePeak, keyVars
<1>4. CASE TakePeak
  BY <1>4 DEF TakePeak, keyVars
<1>5. CASE ResetPeak
  BY <1>5 DEF ResetPeak, Taken, OwedUpTo, keyVars
<1>6. CASE Seal
  <2>1. /\ report' \in {[report EXCEPT !.does = "post"], Waiting}
        /\ owed' \in {owed, OwedUpTo(peak)}
        /\ UNCHANGED <<keyVars, pubkey, peak, sample, cycles, refused>>
    BY <1>6, Zenon DEF Seal
  <2>2. report' \in [does : {"boot", "wait", "reset", "seal", "post"}, peak : Nat]
    BY <2>1 DEF Waiting
  <2> QED BY <2>1, <2>2 DEF OwedUpTo, keyVars
<1>7. CASE Post
  <2>1. /\ report' = Waiting /\ owed' = OwedUpTo(peak)
        /\ refused' \subseteq refused \union {pubkey.id} /\ report.does = "post"
        /\ UNCHANGED <<keyVars, pubkey, peak, sample, cycles>>
    BY <1>7 DEF Post
  <2>2. pubkey.id \in 0..made
    BY <1>0, <2>1 DEF KeyIsTheServers
  <2>3. report' \in [does : {"boot", "wait", "reset", "seal", "post"}, peak : Nat]
    BY <2>1 DEF Waiting
  <2> QED BY <2>1, <2>2, <2>3 DEF OwedUpTo, keyVars
<1>8. CASE PowerCycle
  BY <1>0, <1>8, TrackerAssumption DEF PowerCycle, keyVars
<1> QED BY <1>1, <1>2, <1>3, <1>4, <1>5, <1>6, <1>7, <1>8 DEF DeviceNext

LEMMA DeviceStepKeepsInv == DeviceInv /\ DeviceNext => DeviceInv'
<1> SUFFICES ASSUME DeviceInv, DeviceNext PROVE DeviceInv'
  OBVIOUS
<1>1. UNCHANGED keyVars /\ DeviceTypeOK'
  BY DeviceTypes DEF DeviceNext, FetchKey, Measure, StorePeak, TakePeak, ResetPeak, Seal, Post,
                     PowerCycle
<1>2. KeysInv' /\ UNCHANGED <<env, oqs, mem, boot, made, saved, unread>>
  BY <1>1, KeysStep DEF DeviceInv, keyVars
<1>3. CASE UNCHANGED <<pubkey, refused>> /\ (report'.does = "post" => pubkey.held)
  BY <1>1, <1>2, <1>3 DEF DeviceInv, KeyIsTheServers, SavedIsUnused, Saving,
                          RefusedOnlyAfterKeyLoss
<1>4. CASE FetchKey
  <2>1. /\ pubkey' = NoKey \/ (pubkey' = mem["kyber"] /\ mem["kyber"].held /\ boot = Up)
        /\ report' = Waiting /\ UNCHANGED refused
    BY <1>4 DEF FetchKey, Served
  <2>2. KeyIsTheServers'
    BY <1>2, <2>1 DEF DeviceInv, KeyIsTheServers, KeysInv, Numbered, Supported, Kinds, NoKey,
                      Waiting
  <2>3. RefusedOnlyAfterKeyLoss'
    BY <1>2, <2>1 DEF DeviceInv, RefusedOnlyAfterKeyLoss
  <2>4. SavedIsUnused'
    <3>1. boot = Up => ~Saving
      BY DEF Up, Saving
    <3>2. Saving' = Saving
      BY <1>2 DEF Saving
    <3> QED BY <1>2, <2>1, <3>1, <3>2 DEF DeviceInv, SavedIsUnused, NoKey
  <2> QED BY <1>1, <1>2, <2>2, <2>3, <2>4 DEF DeviceInv
<1>5. CASE PowerCycle
  <2>1. pubkey' = NoKey /\ report'.does = "boot" /\ UNCHANGED refused
    BY <1>5 DEF PowerCycle
  <2> QED BY <1>1, <1>2, <2>1 DEF DeviceInv, KeyIsTheServers, SavedIsUnused, Saving,
                                  RefusedOnlyAfterKeyLoss, NoKey
<1>6. CASE Post
  <2>1. CASE /\ boot = Up /\ ~Decrypts(pubkey.id)
             /\ refused' = refused \union ({pubkey.id} \ unread["kyber"])
    <3>1. pubkey.held /\ UNCHANGED pubkey /\ report' = Waiting
      BY <1>6 DEF Post, DeviceInv, KeyIsTheServers
    <3>2. pubkey.id \in unread["kyber"] \/ (pubkey.id # 0 /\ pubkey.id \notin saved["kyber"])
      BY <2>1, <3>1, KeptPairDecrypts DEF DeviceInv
    <3>3. RefusedOnlyAfterKeyLoss'
      BY <1>2, <2>1, <3>2, Zenon DEF DeviceInv, RefusedOnlyAfterKeyLoss
    <3>5. KeyIsTheServers'
      BY <1>2, <3>1 DEF DeviceInv, KeyIsTheServers, Waiting
    <3>4. SavedIsUnused'
      BY <1>2, <2>1 DEF SavedIsUnused, Saving, Up
    <3> QED BY <1>1, <1>2, <3>3, <3>4, <3>5 DEF DeviceInv
  <2>2. CASE UNCHANGED refused
    <3>1. UNCHANGED pubkey /\ report'.does # "post"
      BY <1>6 DEF Post, Waiting
    <3> QED BY <1>3, <2>2, <3>1
  <2> QED BY <1>6, <2>1, <2>2 DEF Post
<1>7. CASE Seal
  <2>1. UNCHANGED <<pubkey, refused>> /\ (report'.does = "post" => pubkey.held)
    BY <1>7 DEF Seal, Waiting
  <2> QED BY <1>3, <2>1
<1>8. CASE StorePeak \/ \E g \in 1..MaxG : Measure(g)
  <2>1. UNCHANGED <<pubkey, refused, report>>
    BY <1>8 DEF StorePeak, Measure
  <2> QED BY <1>3, <2>1 DEF DeviceInv, KeyIsTheServers
<1>9. CASE TakePeak \/ ResetPeak
  <2>1. UNCHANGED <<pubkey, refused>> /\ report'.does # "post"
    BY <1>9 DEF TakePeak, ResetPeak
  <2> QED BY <1>3, <2>1
<1> QED BY <1>4, <1>5, <1>6, <1>7, <1>8, <1>9 DEF DeviceNext

LEMMA DeviceInvStep == DeviceInv /\ [Next]_vars => DeviceInv'
<1> SUFFICES ASSUME DeviceInv, [Next]_vars PROVE DeviceInv'
  OBVIOUS
<1>1. CASE UNCHANGED vars
  <2>1. KeysInv' /\ UNCHANGED <<env, oqs, mem, boot, made, saved>> /\ UNCHANGED deviceVars
    BY <1>1, KeysStep DEF DeviceInv, vars, keyVars
  <2>2. DeviceTypeOK' /\ KeyIsTheServers'
    BY <2>1 DEF DeviceInv, deviceVars, DeviceTypeOK, KeyIsTheServers
  <2>3. SavedIsUnused' /\ RefusedOnlyAfterKeyLoss'
    BY <2>1 DEF DeviceInv, deviceVars, SavedIsUnused, Saving, RefusedOnlyAfterKeyLoss
  <2> QED BY <2>1, <2>2, <2>3 DEF DeviceInv
<1> QED BY <1>1, DeviceStepKeepsInv, ServerStepKeepsInv DEF Next

\* Between the two tasks, step by step.
LEMMA ShockInvStep == DeviceInv /\ ShockInv /\ [Next]_vars => ShockInv'
<1> SUFFICES ASSUME DeviceInv, ShockInv, [Next]_vars PROVE ShockInv'
  OBVIOUS
<1> USE DEF PeakOnlyRises, ShockIsAccountedFor
<1>1. DeviceTypeOK' /\ DeviceTypeOK
  BY DeviceInvStep DEF DeviceInv
<1>2. PeakOnlyRises /\ ShockIsAccountedFor
  BY DEF ShockInv
<1> USE DEF DeviceTypeOK
<1>3. CASE UNCHANGED <<peak, sample, report, owed>>
  BY <1>1, <1>2, <1>3 DEF ShockInv
<1>4. CASE FetchKey
  <2>1. UNCHANGED <<peak, sample, owed>> /\ report' = Waiting /\ report.peak = 0
    BY <1>2, <1>4 DEF FetchKey
  <2> QED BY <1>1, <1>2, <2>1 DEF ShockInv, Waiting
<1>5. ASSUME NEW g \in 1..MaxG, Measure(g) PROVE ShockInv'
  BY <1>1, <1>2, <1>5, TrackerAssumption DEF ShockInv, Measure
<1>6. CASE StorePeak
  BY <1>1, <1>2, <1>6 DEF ShockInv, StorePeak
<1>7. CASE TakePeak
  BY <1>1, <1>2, <1>7 DEF ShockInv, TakePeak
<1>8. CASE ResetPeak
  <2>1. /\ peak' = 0 /\ report' = [does |-> "seal", peak |-> report.peak]
        /\ UNCHANGED sample
        /\ owed' = IF peak > report.peak THEN OwedUpTo(report.peak) ELSE owed
    BY <1>8, Zenon DEF ResetPeak, Taken
  <2> QED BY <1>1, <1>2, <2>1 DEF ShockInv, OwedUpTo
<1>9. CASE Seal
  BY <1>1, <1>2, <1>9 DEF ShockInv, Seal, Waiting, OwedUpTo
<1>10. CASE Post
  BY <1>1, <1>2, <1>10 DEF ShockInv, Post, Waiting, OwedUpTo
<1>11. CASE PowerCycle
  BY <1>1, <1>2, <1>11 DEF ShockInv, PowerCycle
<1> QED BY <1>3, <1>4, <1>5, <1>6, <1>7, <1>8, <1>9, <1>10, <1>11
        DEF Next, DeviceNext, vars, deviceVars

-----------------------------------------------------------------------------
\* The theorems.

LEMMA SpecInv == Spec => [](DeviceInv /\ ShockInv)
<1>1. Init => DeviceInv /\ ShockInv
  BY DeviceInvInit
<1>2. DeviceInv /\ ShockInv /\ [Next]_vars => (DeviceInv /\ ShockInv)'
  BY DeviceInvStep, ShockInvStep
<1> QED BY <1>1, <1>2, PTL DEF Spec

\* The server's keys, their files and the tracker keep their types (services/auth.py,
\* firmware/main).
THEOREM KeysTyped == Spec => []KeysTypeOK
<1>1. DeviceInv => KeysTypeOK
  BY DEF DeviceInv, KeysInv
<1> QED BY <1>1, SpecInv, PTL

\* A pair that was once written whole to the volume, and that the last try did not fail
\* to read, is the server's after any number of restarts, recreated containers, failed
\* and torn writes (_load_or_generate_rsa_keys and _load_or_generate_kyber_keys).
THEOREM KeptKeyTheorem == Spec => []KeptKeyIsForGood
<1>1. KeysInv => KeptKeyIsForGood
  BY DEF KeysInv, PassedIsLoaded, Passed, Supported, KeptKeyIsForGood, Up, Kinds
<1>2. DeviceInv => KeptKeyIsForGood
  BY <1>1 DEF DeviceInv
<1> QED BY <1>2, SpecInv, PTL

\* Packets of the tracker sealed under a pair the server had to keep are refused only by
\* a server that failed to read that pair, although the key is fetched only once
\* (client_fetch_pubkey, decrypt_kyber_aes_gcm).
THEOREM RefusalTheorem == Spec => []RefusedOnlyAfterKeyLoss
<1>1. DeviceInv => RefusedOnlyAfterKeyLoss
  BY DEF DeviceInv
<1> QED BY <1>1, SpecInv, PTL

\* The sampling and the report task lose no peak between them until its report is over,
\* whatever level is measured when, but for what the power cut takes and for a peak that
\* is stored between the reading (sensor_get_peak_g) and the reset (sensor_reset_peak_g)
\* of print_report, main.c: that one is overwritten and never reported.
THEOREM ShockTheorem == Spec => []ShockIsAccountedFor
<1>1. ShockInv => ShockIsAccountedFor
  BY DEF ShockInv
<1> QED BY <1>1, SpecInv, PTL
==============================================================================
