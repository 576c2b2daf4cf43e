------------------------ MODULE TelemetryIngestProofs ------------------------
(***************************************************************************)
(* The telemetry pipeline of TelemetryIngest, and the readers of its       *)
(* chains in HistoryReaders, for any number of devices, packets, readings, *)
(* registrations and restarts, and any limits, routes and outages of Bee.  *)
(* Induction is done through sets of numbers (Least, Induction), and what  *)
(* a loop over the store collects is first said without the loop. The      *)
(* liveness of the pipeline stays with TLC.                                *)
(***************************************************************************)
EXTENDS HistoryReaders, WellFoundedInduction, FiniteSetTheorems, TLAPS

-----------------------------------------------------------------------------
\* Types.

Records == [dev : Devices, packet : Packets, valid : BOOLEAN, prev : Nat]

\* The entries that refer to the first n records.
EntriesUpTo(n) ==
    {Absent} \union
    [registered : {TRUE}, conditions : Packages \union {Default},
     latest : 0..n, last : Packets \union {None}]

Locals(n) ==
    [pc : PCs, dev : Devices, reading : Readings, entry : EntriesUpTo(n),
     valid : BOOLEAN, hash : 0..n]

\* The type invariant, with the store as a sequence and the locals as a set.
Typed ==
    /\ index \in [Devices -> EntriesUpTo(Len(store))]
    /\ fileOK \in BOOLEAN
    /\ store \in Seq(Records)
    /\ \A h \in 1..Len(store) : store[h].prev \in 0..Len(store)
    /\ cache \subseteq Packages
    /\ req \in [Packets -> Locals(Len(store)) \union {Fresh}]
    /\ tasks \subseteq Packets /\ handled \subseteq Packets
    /\ packages \in 0..MaxPackages /\ restarts \in 0..MaxRestarts
    /\ linked \in [Devices -> SUBSET (1..Len(store))]
    /\ raced \subseteq Devices
    /\ missed \subseteq Packets

LEMMA TypedIsTypeOK == Typed => TypeOK
<1> SUFFICES ASSUME Typed PROVE TypeOK
  OBVIOUS
<1>1. Entries = EntriesUpTo(Len(store))
  BY DEF Entries, EntriesUpTo
<1>2. Len(store) \in Nat /\ \A h \in 1..Len(store) : store[h] \in Records
  BY DEF Typed
<1>3. \A h \in 1..Len(store) :
         store[h] \in [dev : Devices, packet : Packets, valid : BOOLEAN, prev : 0..Len(store)]
  BY <1>2 DEF Typed, Records
<1>4. \A p \in Packets :
         \/ req[p] = Fresh
         \/ req[p] \in [pc : PCs, dev : Devices, reading : Readings, entry : Entries,
                        valid : BOOLEAN, hash : 0..Len(store)]
  BY <1>1 DEF Typed, Locals
<1>5. index \in [Devices -> Entries]
  BY <1>1 DEF Typed
<1> QED
  BY <1>3, <1>4, <1>5 DEF Typed, TypeOK

LEMMA InitTyped == Init => Typed
BY IngestAssumption DEF Init, Typed, EntriesUpTo, None

LEMMA EntriesGrow ==
    ASSUME NEW m \in Nat, NEW n \in Nat, m <= n
    PROVE  EntriesUpTo(m) \subseteq EntriesUpTo(n) /\ Locals(m) \subseteq Locals(n)
<1>1. 0..m \subseteq 0..n
  OBVIOUS
<1>2. EntriesUpTo(m) \subseteq EntriesUpTo(n)
  BY <1>1 DEF EntriesUpTo
<1> QED
  BY <1>1, <1>2 DEF Locals

\* A handler that has begun has its locals.
LEMMA Begun ==
    ASSUME Typed, NEW p \in Packets, req[p].pc # "none"
    PROVE  /\ req[p] \in Locals(Len(store))
           /\ req[p].dev \in Devices
           /\ req[p].entry \in EntriesUpTo(Len(store))
           /\ req[p].valid \in BOOLEAN
           /\ req[p].hash \in 0..Len(store)
<1>1. req[p] \in Locals(Len(store))
  BY DEF Typed, Fresh
<1> QED
  BY <1>1 DEF Locals

LEMMA NotBegun ==
    ASSUME Typed, NEW p \in Packets, req[p].pc = "none"
    PROVE  req[p] = Fresh
BY DEF Typed, Locals, PCs

\* What moving a handler on does to its locals.
LEMMA Moved ==
    ASSUME Typed, NEW p \in Packets, NEW pc \in PCs, req[p].pc # "none", Goto(p, pc)
    PROVE  /\ req'[p] = [req[p] EXCEPT !.pc = pc]
           /\ req'[p] \in Locals(Len(store))
           /\ req'[p].pc = pc /\ req'[p].dev = req[p].dev /\ req'[p].entry = req[p].entry
           /\ req'[p].valid = req[p].valid /\ req'[p].hash = req[p].hash
           /\ \A q \in Packets \ {p} : req'[q] = req[q]
           /\ req' \in [Packets -> Locals(Len(store)) \union {Fresh}]
<1>1. req[p] \in Locals(Len(store))
  BY Begun
<1>2. req'[p] = [req[p] EXCEPT !.pc = pc] /\ \A q \in Packets \ {p} : req'[q] = req[q]
  BY DEF Goto, Typed
<1>3. [req[p] EXCEPT !.pc = pc] \in Locals(Len(store))
  BY <1>1 DEF Locals
<1>4. req' \in [Packets -> Locals(Len(store)) \union {Fresh}]
  BY <1>3 DEF Goto, Typed
<1> QED
  BY <1>1, <1>2, <1>3, <1>4 DEF Locals

\* A handler that gives up on a read or a write of the index file.
Rejects(p) ==
    /\ Goto(p, "rejected")
    /\ fileOK' \in {fileOK, FALSE}
    /\ UNCHANGED <<index, store, cache, tasks, handled, packages, restarts, linked, raced, missed>>

\* Nothing, or the failed write of a create_package.
Idle ==
    /\ fileOK' \in {fileOK, FALSE}
    /\ UNCHANGED <<index, store, cache, req, tasks, handled, restarts, linked, raced, missed>>

LEMMA FileTyped ==
    ASSUME Typed, fileOK' \in {fileOK, FALSE}
    PROVE  fileOK' \in BOOLEAN /\ (fileOK' => fileOK)
<1>1. fileOK \in BOOLEAN
  BY DEF Typed
<1>2. CASE fileOK' = fileOK
  BY <1>1, <1>2
<1>3. CASE fileOK' = FALSE
  BY <1>3
<1> QED
  BY <1>2, <1>3

LEMMA RejectsTyped ==
    ASSUME Typed, NEW p \in Packets, req[p].pc # "none", Rejects(p)
    PROVE  Typed'
<1>1. "rejected" \in PCs /\ Goto(p, "rejected")
  BY DEF PCs, Rejects
<1>2. fileOK' \in BOOLEAN
  BY FileTyped DEF Rejects
<1> QED
  BY <1>1, <1>2, Moved DEF Rejects, Typed

LEMMA ArriveTyped ==
    ASSUME Typed, NEW p \in Packets, NEW d \in Devices, NEW r \in Readings, Arrive(p, d, r)
    PROVE  Typed'
<1>1. PICK pc \in {"lookup", "register", "rejected"} :
        req' = [req EXCEPT ![p] = Running(pc, d, r)]
  BY Zenon DEF Arrive
<1>2. Running(pc, d, r) \in Locals(Len(store))
  BY DEF Running, Locals, PCs, EntriesUpTo, None, Typed
<1>3. req' \in [Packets -> Locals(Len(store)) \union {Fresh}]
  BY <1>1, <1>2 DEF Typed
<1>4. raced' \subseteq Devices
  BY DEF Arrive, Typed
<1> QED
  BY <1>3, <1>4 DEF Arrive, Typed

LEMMA CheckRegisteredTyped ==
    ASSUME Typed, NEW p \in Packets, CheckRegistered(p)
    PROVE  Typed'
<1>1. req[p].pc = "register"
  BY DEF CheckRegistered
<1>2. CASE Rejects(p)
  BY <1>1, <1>2, RejectsTyped
<1>3. CASE ~Rejects(p)
  <2>1. PICK pc \in {"lookup", "adopt"} : Goto(p, pc)
    BY <1>3 DEF CheckRegistered, ReadFails, Rejects
  <2>2. pc \in PCs
    BY DEF PCs
  <2> QED
    BY <1>1, <1>3, <2>1, <2>2, Moved DEF CheckRegistered, ReadFails, Rejects, Typed
<1> QED
  BY <1>2, <1>3

LEMMA EntryTypes ==
    ASSUME Typed, NEW d \in Devices, index[d].registered
    PROVE  /\ index[d].conditions \in Packages \union {Default}
           /\ index[d].latest \in 0..Len(store)
           /\ index[d].last \in Packets \union {None}
           /\ index[d] \in EntriesUpTo(Len(store)) \ {Absent}
<1>1. index[d] \in EntriesUpTo(Len(store)) /\ index[d] # Absent
  BY DEF Typed, Absent
<1> QED
  BY <1>1 DEF EntriesUpTo

\* A registration, by a provider or by the first packet.
LEMMA RegisteredEntry ==
    ASSUME Typed, NEW d \in Devices, NEW c \in Packages \union {Default},
           index' = [index EXCEPT ![d] = Entry(c, None, IF @.registered THEN @.last ELSE None)]
    PROVE  /\ index'[d].registered /\ index'[d].conditions = c /\ index'[d].latest = None
           /\ index'[d].last \in Packets \union {None}
           /\ index[d].registered => index'[d].last = index[d].last
           /\ ~index[d].registered => index'[d].last = None
           /\ \A e \in Devices \ {d} : index'[e] = index[e]
           /\ index' \in [Devices -> EntriesUpTo(Len(store))]
<1> DEFINE last == IF index[d].registered THEN index[d].last ELSE None
<1>1. index[d].registered => index[d].last \in Packets \union {None}
  BY EntryTypes
<1>2. last \in Packets \union {None}
  BY <1>1
<1>3. index'[d] = Entry(c, None, last) /\ \A e \in Devices \ {d} : index'[e] = index[e]
  BY DEF Typed
<1> HIDE DEF last
<1>4. Entry(c, None, last) \in EntriesUpTo(Len(store))
  BY <1>2 DEF Entry, EntriesUpTo, None, Typed
<1>5. index' \in [Devices -> EntriesUpTo(Len(store))]
  BY <1>4 DEF Typed, last
<1> QED
  BY <1>2, <1>3, <1>5 DEF Entry, last

LEMMA AdoptTyped ==
    ASSUME Typed, NEW p \in Packets, Adopt(p)
    PROVE  Typed'
<1>1. req[p].pc = "adopt" /\ req[p].dev \in Devices
  BY Begun DEF Adopt
<1>2. CASE Rejects(p)
  BY <1>1, <1>2, RejectsTyped
<1>3. CASE ~Rejects(p)
  <2>0. /\ index' = [index EXCEPT ![req[p].dev] =
                         Entry(Default, None, IF @.registered THEN @.last ELSE None)]
        /\ linked' = [linked EXCEPT ![req[p].dev] = {}]
        /\ Goto(p, "lookup")
        /\ UNCHANGED <<fileOK, store, cache, tasks, handled, packages, restarts, raced, missed>>
    BY <1>3 DEF Adopt, WriteFails, Rejects
  <2>1. index' \in [Devices -> EntriesUpTo(Len(store))]
    BY <1>1, <2>0, RegisteredEntry
  <2>2. linked' \in [Devices -> SUBSET (1..Len(store))]
    BY <2>0 DEF Typed
  <2>3. req' \in [Packets -> Locals(Len(store)) \union {Fresh}]
    BY <1>1, <2>0, Moved DEF PCs
  <2> QED
    BY <2>0, <2>1, <2>2, <2>3 DEF Typed
<1> QED
  BY <1>2, <1>3

LEMMA LookupFacts ==
    ASSUME Typed, NEW p \in Packets, Lookup(p), ~Rejects(p)
    PROVE  /\ fileOK /\ req[p].pc = "lookup" /\ req[p].dev \in Devices
           /\ UNCHANGED <<index, fileOK, store, cache, tasks, handled, packages, restarts,
                          linked, raced, missed>>
           /\ \A q \in Packets \ {p} : req'[q] = req[q]
           /\ req'[p].dev = req[p].dev /\ req'[p].hash = req[p].hash /\ req'[p].valid = req[p].valid
           /\ IF index[req[p].dev].registered
              THEN req'[p].pc = "judge" /\ req'[p].entry = index[req[p].dev]
              ELSE req'[p].pc = "rejected" /\ req'[p].entry = req[p].entry
           /\ req' \in [Packets -> Locals(Len(store)) \union {Fresh}]
<1> DEFINE d == req[p].dev
<1>0. /\ fileOK /\ req[p].pc = "lookup"
      /\ req' = IF index[d].registered
                THEN [req EXCEPT ![p].pc = "judge", ![p].entry = index[d]]
                ELSE [req EXCEPT ![p].pc = "rejected"]
      /\ UNCHANGED <<index, fileOK, store, cache, tasks, handled, packages, restarts,
                     linked, raced, missed>>
  BY DEF Lookup, ReadFails, Rejects
<1>1. fileOK /\ req[p].pc = "lookup" /\ d \in Devices /\ req[p] \in Locals(Len(store))
  BY <1>0, Begun
<1>2. UNCHANGED <<index, fileOK, store, cache, tasks, handled, packages, restarts,
                  linked, raced, missed>>
  BY <1>0
<1>3. CASE index[d].registered
  <2> DEFINE new == [req[p] EXCEPT !.pc = "judge", !.entry = index[d]]
  <2>1. req' = [req EXCEPT ![p] = new]
    BY <1>0, <1>3
  <2>2. index[d] \in EntriesUpTo(Len(store))
    BY <1>1 DEF Typed
  <2>3. /\ new \in Locals(Len(store))
        /\ new.pc = "judge" /\ new.dev = d /\ new.entry = index[d]
        /\ new.valid = req[p].valid /\ new.hash = req[p].hash
    BY <1>1, <2>2 DEF Locals, PCs
  <2> HIDE DEF new
  <2> QED
    BY <1>1, <1>2, <1>3, <2>1, <2>3 DEF Typed
<1>4. CASE ~index[d].registered
  <2>1. Goto(p, "rejected")
    BY <1>0, <1>4 DEF Goto
  <2>2. "rejected" \in PCs
    BY DEF PCs
  <2> QED
    BY <1>1, <1>2, <1>4, <2>1, <2>2, Moved
<1> QED
  BY <1>3, <1>4

LEMMA LookupTyped ==
    ASSUME Typed, NEW p \in Packets, Lookup(p)
    PROVE  Typed'
<1>1. req[p].pc = "lookup"
  BY DEF Lookup
<1>2. CASE Rejects(p)
  BY <1>1, <1>2, RejectsTyped
<1>3. CASE ~Rejects(p)
  BY <1>3, LookupFacts DEF Typed
<1> QED
  BY <1>2, <1>3

LEMMA JudgeFacts ==
    ASSUME Typed, NEW p \in Packets, Judge(p)
    PROVE  /\ req[p].pc = "judge"
           /\ UNCHANGED <<index, fileOK, store, tasks, handled, packages, restarts, linked, raced, missed>>
           /\ cache' \subseteq Packages
           /\ \A q \in Packets \ {p} : req'[q] = req[q]
           /\ req'[p].pc = "note" /\ req'[p].dev = req[p].dev
           /\ req'[p].hash = req[p].hash /\ req'[p].entry = req[p].entry
           /\ req' \in [Packets -> Locals(Len(store)) \union {Fresh}]
<1>1. req[p].pc = "judge" /\ req[p] \in Locals(Len(store))
  BY Begun DEF Judge
<1>2. PICK used \in {req[p].entry.conditions, Default} :
         /\ cache' = IF used \in Packages THEN cache \union {used} ELSE cache
         /\ req' = [req EXCEPT ![p].pc = "note",
                               ![p].valid = Violations(req[p].reading, used) = {}]
  BY Zenon DEF Judge
<1> DEFINE valid == Violations(req[p].reading, used) = {}
<1> DEFINE new == [req[p] EXCEPT !.pc = "note", !.valid = valid]
<1>3. req' = [req EXCEPT ![p] = new]
  BY <1>2
<1>4. valid \in BOOLEAN
  OBVIOUS
<1> HIDE DEF valid
<1>5. /\ new \in Locals(Len(store))
      /\ new.pc = "note" /\ new.dev = req[p].dev /\ new.hash = req[p].hash
      /\ new.entry = req[p].entry
  BY <1>1, <1>4 DEF Locals, PCs
<1> HIDE DEF new
<1>6. /\ req' \in [Packets -> Locals(Len(store)) \union {Fresh}]
      /\ req'[p] = new /\ \A q \in Packets \ {p} : req'[q] = req[q]
  BY <1>3, <1>5 DEF Typed
<1>7. cache' \subseteq Packages
  BY <1>2 DEF Typed
<1>8. UNCHANGED <<index, fileOK, store, tasks, handled, packages, restarts, linked, raced, missed>>
  BY DEF Judge
<1> QED
  BY <1>1, <1>5, <1>6, <1>7, <1>8

LEMMA JudgeTyped ==
    ASSUME Typed, NEW p \in Packets, Judge(p)
    PROVE  Typed'
BY JudgeFacts DEF Typed

\* Once a handler has read its entry the device stays registered.
Past == {"judge", "note", "upload", "link", "finish"}

Registered ==
    \A p \in Packets : req[p].pc \in Past =>
        /\ req[p].entry.registered
        /\ index[req[p].dev].registered

LEMMA NoteFacts ==
    ASSUME Typed, Registered, NEW p \in Packets, Note(p)
    PROVE  /\ req[p].pc = "note" /\ req[p].dev \in Devices
           /\ UNCHANGED <<store, cache, tasks, handled, packages, restarts, linked, raced>>
           /\ Goto(p, "upload")
           /\ fileOK' \in BOOLEAN /\ (fileOK' => fileOK)
           /\ missed \subseteq missed' /\ missed' \subseteq Packets
           /\ \/ index'[req[p].dev].last = p
              \/ index' = index /\ p \in missed'
           /\ \A d \in Devices : /\ index'[d].registered = index[d].registered
                                 /\ index[d].registered =>
                                      /\ index'[d].latest = index[d].latest
                                      /\ index'[d].conditions = index[d].conditions
                                 /\ d # req[p].dev => index'[d] = index[d]
           /\ index' \in [Devices -> EntriesUpTo(Len(store))]
<1> DEFINE d == req[p].dev
<1> DEFINE new == [index[d] EXCEPT !.last = p]
<1>1. req[p].pc = "note" /\ d \in Devices
  BY Begun DEF Note
<1>2. index[d].registered
  BY <1>1 DEF Registered, Past
<1>3. index[d] \in EntriesUpTo(Len(store)) \ {Absent}
  BY <1>1, <1>2, EntryTypes
<1>4. /\ new \in EntriesUpTo(Len(store)) /\ new.last = p /\ new.registered = index[d].registered
      /\ new.latest = index[d].latest /\ new.conditions = index[d].conditions
  BY <1>3 DEF EntriesUpTo
<1>5. \/ index' = [index EXCEPT ![d] = new] /\ missed' = missed
      \/ index' = index /\ missed' = missed \union {p}
  BY DEF Note, MergedReading, WriteFails
<1>6. /\ UNCHANGED <<store, cache, tasks, handled, packages, restarts, linked, raced>>
      /\ Goto(p, "upload")
      /\ fileOK' \in {fileOK, FALSE}
  BY DEF Note, WriteFails
<1>7. fileOK' \in BOOLEAN /\ (fileOK' => fileOK)
  BY <1>6, FileTyped
<1>8. missed \subseteq missed' /\ missed' \subseteq Packets
  BY <1>5 DEF Typed
<1> HIDE DEF new
<1> QED
  BY <1>1, <1>4, <1>5, <1>6, <1>7, <1>8 DEF Typed

LEMMA UploadFacts ==
    ASSUME Typed, Registered, NEW p \in Packets, Upload(p)
    PROVE  /\ req[p].pc = "upload" /\ req[p].dev \in Devices
           /\ UNCHANGED <<index, fileOK, cache, tasks, handled, packages, restarts, linked, raced, missed>>
           /\ \A q \in Packets \ {p} : req'[q] = req[q]
           /\ req'[p].dev = req[p].dev /\ req'[p].entry = req[p].entry
           /\ req'[p].valid = req[p].valid
           /\ Record(p) \in Records /\ Record(p).prev \in 0..Len(store)
           /\ \/ /\ store' = Append(store, Record(p))
                 /\ req'[p].pc = "link" /\ req'[p].hash = Len(store) + 1
              \/ /\ store' \in {store, Append(store, Record(p))}
                 /\ req'[p].pc = "finish" /\ req'[p].hash = req[p].hash
           /\ Len(store') \in Nat /\ Len(store) <= Len(store')
           /\ req' \in [Packets -> Locals(Len(store')) \union {Fresh}]
<1>1. req[p].pc = "upload" /\ req[p].dev \in Devices /\ req[p] \in Locals(Len(store))
  BY Begun DEF Upload
<1>2. UNCHANGED <<index, fileOK, cache, tasks, handled, packages, restarts, linked, raced, missed>>
  BY DEF Upload
<1>3. req[p].entry.registered /\ req[p].entry \in EntriesUpTo(Len(store)) /\ req[p].valid \in BOOLEAN
  BY <1>1, Begun DEF Registered, Past
<1>4. req[p].entry.latest \in 0..Len(store)
  <2>1. req[p].entry # Absent
    BY <1>3 DEF Absent
  <2> QED
    BY <1>3, <2>1 DEF EntriesUpTo
<1>5. Record(p) \in Records /\ Record(p).prev \in 0..Len(store)
  BY <1>1, <1>3, <1>4 DEF Record, Records, Prev, Typed
<1>6. ASSUME store' \in {store, Append(store, Record(p))}
      PROVE  Len(store') \in Nat /\ Len(store) \in Nat /\ Len(store) <= Len(store')
  BY <1>5, <1>6 DEF Typed
<1>7. CASE /\ store' = Append(store, Record(p))
           /\ req' = [req EXCEPT ![p].pc = "link", ![p].hash = Len(store) + 1]
  <2> DEFINE new == [req[p] EXCEPT !.pc = "link", !.hash = Len(store) + 1]
  <2>1. Len(store') = Len(store) + 1 /\ Len(store) \in Nat
    BY <1>5, <1>7 DEF Typed
  <2>2. Locals(Len(store)) \subseteq Locals(Len(store'))
    BY <2>1, EntriesGrow
  <2>3. Len(store) + 1 \in 0..Len(store')
    BY <2>1
  <2>4. /\ new \in Locals(Len(store'))
        /\ new.pc = "link" /\ new.hash = Len(store) + 1
        /\ new.dev = req[p].dev /\ new.entry = req[p].entry /\ new.valid = req[p].valid
    BY <1>1, <2>2, <2>3 DEF Locals, PCs
  <2>5. req' = [req EXCEPT ![p] = new]
    BY <1>7
  <2> HIDE DEF new
  <2>6. /\ req' \in [Packets -> Locals(Len(store')) \union {Fresh}]
        /\ req'[p] = new /\ \A q \in Packets \ {p} : req'[q] = req[q]
    BY <2>2, <2>4, <2>5 DEF Typed
  <2> QED
    BY <1>1, <1>2, <1>5, <1>6, <1>7, <2>4, <2>6
<1>8. CASE /\ store' \in {store, Append(store, Record(p))}
           /\ Goto(p, "finish")
  <2>1. Locals(Len(store)) \subseteq Locals(Len(store'))
    BY <1>6, <1>8, EntriesGrow
  <2>2. "finish" \in PCs
    BY DEF PCs
  <2>3. /\ req'[p].pc = "finish" /\ req'[p].dev = req[p].dev /\ req'[p].entry = req[p].entry
        /\ req'[p].valid = req[p].valid /\ req'[p].hash = req[p].hash
        /\ \A q \in Packets \ {p} : req'[q] = req[q]
        /\ req' \in [Packets -> Locals(Len(store)) \union {Fresh}]
    BY <1>1, <1>8, <2>2, Moved
  <2>4. req' \in [Packets -> Locals(Len(store')) \union {Fresh}]
    BY <2>1, <2>3
  <2> QED
    BY <1>1, <1>2, <1>5, <1>6, <1>8, <2>3, <2>4
<1> QED
  BY <1>7, <1>8, Zenon DEF Upload

LEMMA UploadTyped ==
    ASSUME Typed, Registered, NEW p \in Packets, Upload(p)
    PROVE  Typed'
<1>1. /\ UNCHANGED <<index, fileOK, cache, tasks, handled, packages, restarts, linked, raced, missed>>
      /\ Record(p) \in Records /\ Record(p).prev \in 0..Len(store)
      /\ store' \in {store, Append(store, Record(p))}
      /\ Len(store') \in Nat /\ Len(store) <= Len(store')
      /\ req' \in [Packets -> Locals(Len(store')) \union {Fresh}]
  BY UploadFacts
<1>2. Len(store) \in Nat /\ store \in Seq(Records)
  BY DEF Typed
<1>3. EntriesUpTo(Len(store)) \subseteq EntriesUpTo(Len(store'))
  BY <1>1, <1>2, EntriesGrow
<1>4. index' \in [Devices -> EntriesUpTo(Len(store'))]
  BY <1>1, <1>3 DEF Typed
<1>5. store' \in Seq(Records) /\ \A h \in 1..Len(store') : store'[h].prev \in 0..Len(store')
  <2>1. CASE store' = store
    BY <2>1, <1>2 DEF Typed
  <2>2. CASE store' = Append(store, Record(p))
    <3>1. store' \in Seq(Records) /\ Len(store') = Len(store) + 1
      BY <1>1, <1>2, <2>2
    <3>2. ASSUME NEW h \in 1..Len(store') PROVE store'[h].prev \in 0..Len(store')
      <4>1. CASE h = Len(store) + 1
        BY <1>1, <1>2, <2>2, <3>1, <4>1
      <4>2. CASE h # Len(store) + 1
        <5>1. h \in 1..Len(store) /\ store'[h] = store[h]
          BY <1>1, <1>2, <2>2, <3>1, <4>2
        <5>2. store[h].prev \in 0..Len(store)
          BY <5>1 DEF Typed
        <5> QED
          BY <1>2, <3>1, <5>1, <5>2
      <4> QED
        BY <4>1, <4>2
    <3> QED
      BY <3>1, <3>2
  <2> QED
    BY <1>1, <2>1, <2>2
<1>6. linked' \in [Devices -> SUBSET (1..Len(store'))]
  <2>1. 1..Len(store) \subseteq 1..Len(store')
    BY <1>1, <1>2
  <2> QED
    BY <1>1, <2>1 DEF Typed
<1> QED
  BY <1>1, <1>4, <1>5, <1>6 DEF Typed

LEMMA LinkFacts ==
    ASSUME Typed, Registered, NEW p \in Packets, Link(p)
    PROVE  /\ req[p].pc = "link" /\ req[p].dev \in Devices
           /\ UNCHANGED <<store, cache, tasks, handled, packages, restarts, raced, missed>>
           /\ Goto(p, "finish")
           /\ fileOK' \in BOOLEAN /\ (fileOK' => fileOK)
           /\ \/ /\ index'[req[p].dev].latest = req[p].hash
                 /\ linked' = [linked EXCEPT ![req[p].dev] = @ \union {req[p].hash}]
              \/ index' = index /\ linked' = linked
           /\ \A d \in Devices : /\ index'[d].registered = index[d].registered
                                 /\ index[d].registered =>
                                      /\ index'[d].last = index[d].last
                                      /\ index'[d].conditions = index[d].conditions
                                 /\ d # req[p].dev => index'[d] = index[d]
           /\ index' \in [Devices -> EntriesUpTo(Len(store))]
<1> DEFINE d == req[p].dev
<1> DEFINE new == [index[d] EXCEPT !.latest = req[p].hash]
<1>1. req[p].pc = "link" /\ d \in Devices /\ req[p].hash \in 0..Len(store)
  BY Begun DEF Link
<1>2. index[d].registered
  BY <1>1 DEF Registered, Past
<1>3. index[d] \in EntriesUpTo(Len(store)) \ {Absent}
  BY <1>1, <1>2, EntryTypes
<1>4. /\ new \in EntriesUpTo(Len(store)) /\ new.last = index[d].last
      /\ new.registered = index[d].registered
      /\ new.latest = req[p].hash /\ new.conditions = index[d].conditions
  BY <1>1, <1>3 DEF EntriesUpTo
<1>5. \/ /\ index' = [index EXCEPT ![d] = new]
         /\ linked' = [linked EXCEPT ![d] = @ \union {req[p].hash}]
      \/ index' = index /\ linked' = linked
  BY DEF Link, WriteFails
<1>6. /\ UNCHANGED <<store, cache, tasks, handled, packages, restarts, raced, missed>>
      /\ Goto(p, "finish")
      /\ fileOK' \in {fileOK, FALSE}
  BY DEF Link, WriteFails
<1>7. fileOK' \in BOOLEAN /\ (fileOK' => fileOK)
  BY <1>6, FileTyped
<1> HIDE DEF new
<1> QED
  BY <1>1, <1>4, <1>5, <1>6, <1>7 DEF Typed

-----------------------------------------------------------------------------
\* What the other steps do.

LEMMA RejectFacts ==
    ASSUME Typed, NEW p \in Packets, req[p].pc # "none", Rejects(p)
    PROVE  /\ fileOK' => fileOK
           /\ UNCHANGED <<index, store, cache, tasks, handled, packages, restarts,
                          linked, raced, missed>>
           /\ \A q \in Packets \ {p} : req'[q] = req[q]
           /\ req'[p].pc = "rejected" /\ req'[p].dev = req[p].dev
           /\ req'[p].entry = req[p].entry
           /\ req'[p].valid = req[p].valid /\ req'[p].hash = req[p].hash
<1>1. "rejected" \in PCs /\ Goto(p, "rejected")
  BY DEF PCs, Rejects
<1> QED
  BY <1>1, Moved, FileTyped DEF Rejects

LEMMA ArriveFacts ==
    ASSUME Typed, NEW p \in Packets, NEW d \in Devices, NEW r \in Readings, Arrive(p, d, r)
    PROVE  /\ req[p].pc = "none"
           /\ UNCHANGED <<index, fileOK, store, cache, tasks, handled, packages, restarts, linked, missed>>
           /\ \A q \in Packets \ {p} : req'[q] = req[q]
           /\ req'[p].pc \in {"lookup", "register", "rejected"}
           /\ req'[p].dev = d /\ req'[p].entry = Absent
           /\ req'[p].valid = TRUE /\ req'[p].hash = None
           /\ raced \subseteq raced'
           /\ req'[p].pc # "rejected" /\ BusyOn(d) # {} => d \in raced'
<1>1. PICK pc \in {"lookup", "register", "rejected"} :
        req' = [req EXCEPT ![p] = Running(pc, d, r)]
  BY Zenon DEF Arrive
<1>2. req'[p] = Running(pc, d, r) /\ \A q \in Packets \ {p} : req'[q] = req[q]
  BY <1>1 DEF Typed
<1>3. /\ req[p].pc = "none"
      /\ raced' = IF BusyOn(d) # {} /\ req'[p].pc # "rejected" THEN raced \union {d} ELSE raced
      /\ UNCHANGED <<index, fileOK, store, cache, tasks, handled, packages, restarts, linked, missed>>
  BY DEF Arrive
<1> QED
  BY <1>2, <1>3 DEF Running

LEMMA CheckFacts ==
    ASSUME Typed, NEW p \in Packets, CheckRegistered(p), ~Rejects(p)
    PROVE  /\ req[p].pc = "register" /\ req[p].dev \in Devices
           /\ UNCHANGED <<index, fileOK, store, cache, tasks, handled, packages, restarts,
                          linked, raced, missed>>
           /\ \A q \in Packets \ {p} : req'[q] = req[q]
           /\ req'[p].pc = IF index[req[p].dev].registered THEN "lookup" ELSE "adopt"
           /\ req'[p].dev = req[p].dev /\ req'[p].entry = req[p].entry
           /\ req'[p].valid = req[p].valid /\ req'[p].hash = req[p].hash
<1> DEFINE pc == IF index[req[p].dev].registered THEN "lookup" ELSE "adopt"
<1>1. req[p].pc = "register" /\ req[p].dev \in Devices
  BY Begun DEF CheckRegistered
<1>2. Goto(p, pc)
  BY DEF CheckRegistered, Known, ReadFails, Rejects
<1>3. pc \in PCs
  BY DEF PCs
<1>4. UNCHANGED <<index, fileOK, store, cache, tasks, handled, packages, restarts, linked, raced, missed>>
  BY DEF CheckRegistered, ReadFails, Rejects
<1> HIDE DEF pc
<1>5. /\ req'[p].pc = pc /\ req'[p].dev = req[p].dev /\ req'[p].entry = req[p].entry
      /\ req'[p].valid = req[p].valid /\ req'[p].hash = req[p].hash
      /\ \A q \in Packets \ {p} : req'[q] = req[q]
  BY <1>1, <1>2, <1>3, Moved
<1> QED
  BY <1>1, <1>4, <1>5 DEF pc

\* What a registration of d with the conditions c leaves in the index file.
Registers(d, c) ==
    /\ index'[d].registered /\ index'[d].conditions = c /\ index'[d].latest = None
    /\ index[d].registered => index'[d].last = index[d].last
    /\ ~index[d].registered => index'[d].last = None
    /\ \A e \in Devices \ {d} : index'[e] = index[e]

LEMMA AdoptFacts ==
    ASSUME Typed, NEW p \in Packets, Adopt(p), ~Rejects(p)
    PROVE  /\ req[p].pc = "adopt" /\ req[p].dev \in Devices
           /\ UNCHANGED <<fileOK, store, cache, tasks, handled, packages, restarts, raced, missed>>
           /\ linked' = [linked EXCEPT ![req[p].dev] = {}]
           /\ \A q \in Packets \ {p} : req'[q] = req[q]
           /\ req'[p].pc = "lookup" /\ req'[p].dev = req[p].dev /\ req'[p].entry = req[p].entry
           /\ req'[p].valid = req[p].valid /\ req'[p].hash = req[p].hash
           /\ Registers(req[p].dev, Default)
<1>1. req[p].pc = "adopt" /\ req[p].dev \in Devices
  BY Begun DEF Adopt
<1>2. /\ UNCHANGED <<fileOK, store, cache, tasks, handled, packages, restarts, raced, missed>>
      /\ index' = [index EXCEPT ![req[p].dev] =
                     Entry(Default, None, IF @.registered THEN @.last ELSE None)]
      /\ linked' = [linked EXCEPT ![req[p].dev] = {}]
      /\ Goto(p, "lookup")
  BY DEF Adopt, WriteFails, Rejects
<1>3. "lookup" \in PCs
  BY DEF PCs
<1>4. Registers(req[p].dev, Default)
  BY <1>1, <1>2, RegisteredEntry DEF Registers
<1> QED
  BY <1>1, <1>2, <1>3, <1>4, Moved

LEMMA CreateFacts ==
    ASSUME Typed, NEW d \in Devices, NEW c \in Packages, CreatePackage(d, c), ~Idle
    PROVE  /\ fileOK
           /\ UNCHANGED <<fileOK, store, cache, req, tasks, handled, restarts, missed>>
           /\ linked' = [linked EXCEPT ![d] = {}]
           /\ raced \subseteq raced' /\ (BusyOn(d) # {} => d \in raced')
           /\ Registers(d, c)
<1>1. /\ fileOK
      /\ UNCHANGED <<fileOK, store, cache, req, tasks, handled, restarts, missed>>
      /\ index' = [index EXCEPT ![d] = Entry(c, None, IF @.registered THEN @.last ELSE None)]
      /\ linked' = [linked EXCEPT ![d] = {}]
      /\ raced' = IF BusyOn(d) # {} THEN raced \union {d} ELSE raced
  BY DEF CreatePackage, WriteFails, Idle
<1>2. Registers(d, c)
  BY <1>1, RegisteredEntry DEF Registers
<1> QED
  BY <1>1, <1>2

LEMMA FinishFacts ==
    ASSUME Typed, NEW p \in Packets, Finish(p)
    PROVE  /\ req[p].pc = "finish" /\ req[p].dev \in Devices
           /\ UNCHANGED <<index, fileOK, store, cache, handled, packages, restarts, linked, raced, missed>>
           /\ \A q \in Packets \ {p} : req'[q] = req[q]
           /\ req'[p].pc = "done" /\ req'[p].dev = req[p].dev /\ req'[p].entry = req[p].entry
           /\ req'[p].valid = req[p].valid /\ req'[p].hash = req[p].hash
           /\ \/ tasks' = tasks
              \/ tasks' = tasks \union {p} /\ ~req[p].valid /\ req[p].hash # None
           /\ req' \in [Packets -> Locals(Len(store)) \union {Fresh}]
<1>1. req[p].pc = "finish" /\ req[p].dev \in Devices
  BY Begun DEF Finish
<1>2. Goto(p, "done") /\ "done" \in PCs
  BY DEF Finish, PCs
<1>3. /\ UNCHANGED <<index, fileOK, store, cache, handled, packages, restarts, linked, raced, missed>>
      /\ tasks' = IF Alarm(p) THEN tasks \union {p} ELSE tasks
  BY DEF Finish
<1>4. \/ tasks' = tasks
      \/ tasks' = tasks \union {p} /\ ~req[p].valid /\ req[p].hash # None
  BY <1>3 DEF Alarm
<1> QED
  BY <1>1, <1>2, <1>3, <1>4, Moved

LEMMA MovedFacts ==
    ASSUME Typed, NEW p \in Packets, NEW pc \in {"upload", "finish"}, req[p].pc # "none",
           Goto(p, pc)
    PROVE  /\ \A q \in Packets \ {p} : req'[q] = req[q]
           /\ req'[p].pc = pc /\ req'[p].dev = req[p].dev /\ req'[p].entry = req[p].entry
           /\ req'[p].valid = req[p].valid /\ req'[p].hash = req[p].hash
           /\ req' \in [Packets -> Locals(Len(store)) \union {Fresh}]
<1>1. pc \in PCs
  BY DEF PCs
<1> QED
  BY <1>1, Moved

LEMMA RestartFacts ==
    ASSUME Typed, Restart
    PROVE  /\ UNCHANGED <<index, store, handled, packages, linked, raced, missed>>
           /\ fileOK' => fileOK
           /\ fileOK' \in BOOLEAN /\ cache' = {} /\ tasks' = {} /\ restarts' \in 0..MaxRestarts
           /\ \A p \in Packets :
                /\ InFlight(p) => req'[p].pc = "lost"
                /\ ~InFlight(p) => req'[p] = req[p]
                /\ req[p].pc # "none" =>
                     /\ req'[p].dev = req[p].dev /\ req'[p].entry = req[p].entry
                     /\ req'[p].valid = req[p].valid /\ req'[p].hash = req[p].hash
           /\ req' \in [Packets -> Locals(Len(store)) \union {Fresh}]
<1>1. /\ UNCHANGED <<index, store, handled, packages, linked, raced, missed>>
      /\ fileOK' \in (IF Writing THEN {fileOK, FALSE} ELSE {fileOK})
      /\ cache' = {} /\ tasks' = {} /\ restarts < MaxRestarts /\ restarts' = restarts + 1
      /\ req' = [p \in Packets |->
                   IF InFlight(p) THEN [req[p] EXCEPT !.pc = "lost"] ELSE req[p]]
  BY DEF Restart
<1>2. fileOK \in BOOLEAN /\ restarts \in 0..MaxRestarts
  BY DEF Typed
<1>3. restarts' \in 0..MaxRestarts
  BY <1>1, <1>2, IngestAssumption
<1>4. ASSUME NEW p \in Packets
      PROVE  /\ req'[p] \in Locals(Len(store)) \union {Fresh}
             /\ InFlight(p) => req'[p].pc = "lost"
             /\ ~InFlight(p) => req'[p] = req[p]
             /\ req[p].pc # "none" =>
                     /\ req'[p].dev = req[p].dev /\ req'[p].entry = req[p].entry
                     /\ req'[p].valid = req[p].valid /\ req'[p].hash = req[p].hash
  <2>1. CASE InFlight(p)
    <3>1. req[p] \in Locals(Len(store))
      BY <2>1, Begun DEF InFlight, Finished
    <3>2. req'[p] = [req[p] EXCEPT !.pc = "lost"]
      BY <1>1, <2>1
    <3> QED
      BY <2>1, <3>1, <3>2 DEF Locals, PCs
  <2>2. CASE ~InFlight(p)
    BY <1>1, <2>2 DEF Typed
  <2> QED
    BY <2>1, <2>2
<1>5. req' \in [Packets -> Locals(Len(store)) \union {Fresh}]
  BY <1>1, <1>4
<1>6. fileOK' \in BOOLEAN /\ (fileOK' => fileOK)
  BY <1>1, <1>2
<1> QED
  BY <1>1, <1>3, <1>4, <1>5, <1>6

\* Linking needs a reference.
LEMMA StepTyped ==
    ASSUME Typed, Registered, [Next]_vars,
           \A p \in Packets : req[p].pc = "link" => req[p].hash # None
    PROVE  Typed'
<1>1. ASSUME NEW p \in Packets, Note(p) PROVE Typed'
  <2>1. req[p].pc # "none" /\ Goto(p, "upload")
    BY <1>1, NoteFacts
  <2>2. req' \in [Packets -> Locals(Len(store)) \union {Fresh}]
    BY <2>1, MovedFacts
  <2> QED
    BY <1>1, <2>2, NoteFacts DEF Typed
<1>2. ASSUME NEW p \in Packets, Link(p) PROVE Typed'
  <2>1. req[p].pc = "link" /\ Goto(p, "finish") /\ req[p].dev \in Devices
    BY <1>2, LinkFacts
  <2>2. req' \in [Packets -> Locals(Len(store)) \union {Fresh}]
    BY <2>1, MovedFacts
  <2>3. req[p].hash \in 1..Len(store)
    <3>1. req[p].hash \in 0..Len(store) /\ req[p].hash # 0 /\ Len(store) \in Nat
      BY <2>1, Begun DEF None, Typed
    <3> QED
      BY <3>1
  <2>4. linked' \in [Devices -> SUBSET (1..Len(store))]
    BY <1>2, <2>1, <2>3, LinkFacts DEF Typed
  <2> QED
    BY <1>2, <2>2, <2>4, LinkFacts DEF Typed
<1>3. ASSUME NEW p \in Packets, Finish(p) PROVE Typed'
  <2>1. tasks' \subseteq Packets
    BY <1>3, FinishFacts DEF Typed
  <2> QED
    BY <1>3, <2>1, FinishFacts DEF Typed
<1>4. ASSUME NEW p \in Packets, RunTask(p) PROVE Typed'
  BY <1>4 DEF RunTask, Typed
<1>5. ASSUME NEW d \in Devices, NEW c \in Packages, CreatePackage(d, c) PROVE Typed'
  <2>0. packages' \in 0..MaxPackages
    BY <1>5, IngestAssumption DEF CreatePackage, Typed
  <2>1. CASE Idle
    <3>1. fileOK' \in BOOLEAN
      BY <2>1, FileTyped DEF Idle
    <3> QED BY <2>0, <2>1, <3>1 DEF Idle, Typed
  <2>2. CASE ~Idle
    <3>1. /\ index' = [index EXCEPT ![d] = Entry(c, None, IF @.registered THEN @.last ELSE None)]
          /\ linked' = [linked EXCEPT ![d] = {}]
          /\ raced' = IF BusyOn(d) # {} THEN raced \union {d} ELSE raced
          /\ UNCHANGED <<fileOK, store, cache, req, tasks, handled, restarts, missed>>
      BY <1>5, <2>2 DEF CreatePackage, WriteFails, Idle
    <3>2. index' \in [Devices -> EntriesUpTo(Len(store))]
      BY <3>1, RegisteredEntry
    <3>3. linked' \in [Devices -> SUBSET (1..Len(store))] /\ raced' \subseteq Devices
      BY <3>1 DEF Typed
    <3> QED
      BY <2>0, <3>1, <3>2, <3>3 DEF Typed
  <2> QED
    BY <2>1, <2>2
<1>6. CASE Restart
  BY <1>6, RestartFacts DEF Typed
<1>7. CASE UNCHANGED vars
  BY <1>7 DEF Typed, vars
<1> QED
  BY <1>1, <1>2, <1>3, <1>4, <1>5, <1>6, <1>7, ArriveTyped, CheckRegisteredTyped, AdoptTyped,
     LookupTyped, JudgeTyped, UploadTyped, Zenon DEF Next, Step

-----------------------------------------------------------------------------
\* The inductive invariant.

\* A handler has a reference from the upload on, and only of its own record.
Matches(p) ==
    /\ req[p].pc \in {"register", "adopt", "lookup", "judge", "note", "upload"} =>
         req[p].hash = None
    /\ req[p].pc = "link" => req[p].hash # None
    /\ req[p].hash # None =>
         /\ store[req[p].hash].dev = req[p].dev
         /\ store[req[p].hash].packet = p
         /\ store[req[p].hash].valid = req[p].valid

HashesMatch == \A p \in Packets : req[p].pc # "none" => Matches(p)

\* The head a handler has read is a record of its device.
SnapshotsMatch ==
    \A p \in Packets :
        req[p].pc # "none" /\ req[p].entry.registered /\ req[p].entry.latest # None =>
            store[req[p].entry.latest].dev = req[p].dev

TasksAreDone ==
    \A p \in tasks \union handled :
        req[p].pc = "done" /\ req[p].hash # None /\ ~req[p].valid

\* A reading on the dashboard is that of a request that has passed its first write.
Shows(d) ==
    /\ req[index[d].last].dev = d
    /\ req[index[d].last].pc \in {"upload", "link", "finish", "done", "lost"}

LastIsNoted ==
    \A d \in Devices : index[d].registered /\ index[d].last # None => Shows(d)

\* What raced stands for.
OneAtATime ==
    \A p, q \in Packets :
        InFlight(p) /\ InFlight(q) /\ req[p].dev = req[q].dev /\ req[p].dev \notin raced =>
            p = q

\* An automatic registration is still the first when nothing overlaps it.
AdoptsNewDevices ==
    \A p \in Packets : req[p].pc = "adopt" /\ req[p].dev \notin raced =>
        ~index[req[p].dev].registered

\* The history loop always comes to an end, and never leaves the device: every link
\* leads to an older record of the same device.
ChainsEnd ==
    /\ \A h \in 1..Len(store) : store[h].prev # None =>
         store[h].prev < h /\ store[store[h].prev].dev = store[h].dev
    /\ \A d \in Devices : index[d].registered /\ index[d].latest # None =>
         store[index[d].latest].dev = d

\* Between its two writes a handler's reading is on the dashboard, or its write failed.
Noted(p) == req[p].pc \in {"upload", "link"}

\* What the dashboard shows of a device whose requests do not overlap.
Tracks(d) ==
    index[d].latest # None =>
        \/ store[index[d].latest].packet = index[d].last
        \/ index[d].last # None /\ req[index[d].last].hash \notin linked[d]
        \/ store[index[d].latest].packet \in missed

Shown(d) ==
    /\ \A p \in Packets : Noted(p) /\ req[p].dev = d => index[d].last = p \/ p \in missed
    /\ Tracks(d)

AllShown == \A d \in Devices \ raced : fileOK /\ index[d].registered => Shown(d)

IngestInv ==
    /\ Typed
    /\ Registered
    /\ ChainsEnd
    /\ HashesMatch
    /\ SnapshotsMatch
    /\ TasksAreDone
    /\ LastIsNoted
    /\ OneAtATime
    /\ AdoptsNewDevices
    /\ AllShown

LEMMA InitInv == Init => IngestInv
<1> SUFFICES ASSUME Init PROVE IngestInv
  OBVIOUS
<1>1. Typed
  BY InitTyped
<1>2. /\ \A d \in Devices : ~index[d].registered
      /\ \A p \in Packets : req[p].pc = "none"
      /\ tasks = {} /\ handled = {} /\ store = <<>>
  BY DEF Init, Absent, Fresh
<1>3. Len(store) = 0
  BY <1>2
<1> QED
  BY <1>1, <1>2, <1>3
  DEF IngestInv, Registered, ChainsEnd, HashesMatch, SnapshotsMatch, TasksAreDone, LastIsNoted,
      OneAtATime, InFlight, Finished, AdoptsNewDevices, AllShown, Past, Matches, Shows

\* The actions, with the failing reads and writes apart.
LEMMA Actions ==
    ASSUME [Next]_vars
    PROVE  \/ Idle
           \/ \E p \in Packets, d \in Devices, r \in Readings : Arrive(p, d, r)
           \/ \E p \in Packets :
                \/ req[p].pc \in {"register", "adopt", "lookup"} /\ Rejects(p)
                \/ CheckRegistered(p) /\ ~Rejects(p)
                \/ Adopt(p) /\ ~Rejects(p)
                \/ Lookup(p) /\ ~Rejects(p)
                \/ Judge(p) \/ Note(p) \/ Upload(p) \/ Link(p) \/ Finish(p) \/ RunTask(p)
           \/ \E d \in Devices, c \in Packages : CreatePackage(d, c) /\ ~Idle
           \/ Restart
<1>1. ASSUME NEW p \in Packets, CheckRegistered(p) \/ Adopt(p) \/ Lookup(p)
      PROVE  req[p].pc \in {"register", "adopt", "lookup"}
  BY <1>1 DEF CheckRegistered, Adopt, Lookup
<1>2. UNCHANGED vars => Idle
  BY DEF vars, Idle
<1> QED
  BY <1>1, <1>2, Zenon DEF Next, Step

\* The store only grows: what a reference names stays what it is.
LEMMA StoreGrows ==
    ASSUME Typed, Registered, [Next]_vars
    PROVE  /\ \A h \in 1..Len(store) : store'[h] = store[h]
           /\ Len(store) \in Nat /\ Len(store') \in Nat /\ Len(store) <= Len(store')
<1>1. store \in Seq(Records) /\ Len(store) \in Nat
  BY DEF Typed
<1>2. ASSUME NEW p \in Packets, Upload(p)
      PROVE  \/ store' = store
             \/ store' = Append(store, Record(p)) /\ Record(p) \in Records
  BY <1>2, UploadFacts
<1>3. UNCHANGED store \/ \E p \in Packets : Upload(p)
  BY Actions DEF Arrive, Rejects, ReadFails, CheckRegistered, Adopt, Lookup, Judge, Note, Link, Finish,
     RunTask, CreatePackage, Restart, Idle
<1>4. CASE UNCHANGED store
  BY <1>1, <1>4
<1>5. ASSUME NEW p \in Packets, Upload(p)
      PROVE  /\ \A h \in 1..Len(store) : store'[h] = store[h]
             /\ Len(store') \in Nat /\ Len(store) <= Len(store')
  BY <1>1, <1>2, <1>5
<1> QED
  BY <1>1, <1>3, <1>4, <1>5

LEMMA RegisteredStep ==
    ASSUME IngestInv, [Next]_vars
    PROVE  Registered'
<1>1. Typed /\ Registered
  BY DEF IngestInv
\* An entry is never taken away.
<1>2. \A d \in Devices : index[d].registered => index'[d].registered
  <2>1. ASSUME NEW p \in Packets, Adopt(p), ~Rejects(p), NEW d \in Devices, index[d].registered
        PROVE  index'[d].registered
    BY <1>1, <2>1, AdoptFacts DEF Registers
  <2>2. ASSUME NEW e \in Devices, NEW c \in Packages, CreatePackage(e, c), ~Idle, NEW d \in Devices,
               index[d].registered
        PROVE  index'[d].registered
    BY <1>1, <2>2, CreateFacts DEF Registers
  <2>3. ASSUME NEW p \in Packets, Note(p) \/ Link(p), NEW d \in Devices, index[d].registered
        PROVE  index'[d].registered
    BY <1>1, <2>3, NoteFacts, LinkFacts
  <2>4. \/ UNCHANGED index
        \/ \E p \in Packets : (Adopt(p) /\ ~Rejects(p)) \/ Note(p) \/ Link(p)
        \/ \E e \in Devices, c \in Packages : CreatePackage(e, c) /\ ~Idle
    BY Actions DEF Arrive, Rejects, CheckRegistered, ReadFails, Lookup, Judge, Upload, Finish,
       RunTask, Restart, Idle
  <2> QED
    BY <2>1, <2>2, <2>3, <2>4
<1>3. ASSUME NEW p \in Packets, req'[p].pc \in Past, req'[p] = req[p]
      PROVE  req'[p].entry.registered /\ index'[req'[p].dev].registered
  <2>1. req[p].entry.registered /\ index[req[p].dev].registered /\ req[p].dev \in Devices
    BY <1>1, <1>3, Begun DEF Registered, Past
  <2> QED
    BY <1>2, <1>3, <2>1
<1>4. ASSUME NEW p \in Packets, req'[p].pc \in Past, req[p].pc \in Past,
             req'[p].entry = req[p].entry, req'[p].dev = req[p].dev
      PROVE  req'[p].entry.registered /\ index'[req'[p].dev].registered
  <2>1. req[p].entry.registered /\ index[req[p].dev].registered /\ req[p].dev \in Devices
    BY <1>1, <1>4, Begun DEF Registered, Past
  <2> QED
    BY <1>2, <1>4, <2>1
<1>5. ASSUME NEW p \in Packets, NEW q \in Packets, req'[q].pc \in Past, \A o \in Packets \ {p} : req'[o] = req[o],
             \/ req'[p].pc \notin Past
             \/ req[p].pc \in Past /\ req'[p].entry = req[p].entry /\ req'[p].dev = req[p].dev
      PROVE  req'[q].entry.registered /\ index'[req'[q].dev].registered
  BY <1>3, <1>4, <1>5
<1>6. ASSUME NEW p \in Packets, NEW d \in Devices, NEW r \in Readings, Arrive(p, d, r)
      PROVE  Registered'
  BY <1>1, <1>5, <1>6, ArriveFacts DEF Registered, Past
<1>7. ASSUME NEW p \in Packets, req[p].pc \in {"register", "adopt", "lookup"}, Rejects(p)
      PROVE  Registered'
  BY <1>1, <1>5, <1>7, RejectFacts DEF Registered, Past
<1>8. ASSUME NEW p \in Packets, CheckRegistered(p), ~Rejects(p)
      PROVE  Registered'
  BY <1>1, <1>5, <1>8, CheckFacts DEF Registered, Past
<1>9. ASSUME NEW p \in Packets, Adopt(p), ~Rejects(p)
      PROVE  Registered'
  BY <1>1, <1>5, <1>9, AdoptFacts DEF Registered, Past
<1>10. ASSUME NEW p \in Packets, Lookup(p), ~Rejects(p)
      PROVE  Registered'
  <2>1. ASSUME NEW q \in Packets, req'[q].pc \in Past
        PROVE  req'[q].entry.registered /\ index'[req'[q].dev].registered
    BY <1>1, <1>3, <1>10, <2>1, LookupFacts DEF Past
  <2> QED
    BY <2>1 DEF Registered
<1>11. ASSUME NEW p \in Packets, Judge(p)
      PROVE  Registered'
  BY <1>1, <1>5, <1>11, JudgeFacts DEF Registered, Past
<1>12. ASSUME NEW p \in Packets, Note(p)
      PROVE  Registered'
  BY <1>1, <1>5, <1>12, NoteFacts, MovedFacts DEF Registered, Past
<1>13. ASSUME NEW p \in Packets, Upload(p)
      PROVE  Registered'
  BY <1>1, <1>5, <1>13, UploadFacts DEF Registered, Past
<1>14. ASSUME NEW p \in Packets, Link(p)
      PROVE  Registered'
  BY <1>1, <1>5, <1>14, LinkFacts, MovedFacts DEF Registered, Past
<1>15. ASSUME NEW p \in Packets, Finish(p)
      PROVE  Registered'
  BY <1>1, <1>5, <1>15, FinishFacts DEF Registered, Past
<1>16. CASE Restart
  BY <1>1, <1>3, <1>16, RestartFacts DEF Registered, Past
<1>17. CASE UNCHANGED req
  BY <1>3, <1>17 DEF Registered
<1> QED
  BY <1>6, <1>7, <1>8, <1>9, <1>10, <1>11, <1>12, <1>13, <1>14, <1>15, <1>16, <1>17, Actions
  DEF RunTask, CreatePackage, Idle

\* q is in flight after the step: it was, or it is the one that arrives.
Flies(q) ==
    /\ raced \subseteq raced'
    /\ \/ InFlight(q) /\ req'[q].dev = req[q].dev
       \/ /\ ~InFlight(q)
          /\ \A s \in Packets \ {q} : req'[s] = req[s]
          /\ BusyOn(req'[q].dev) # {} => req'[q].dev \in raced'

LEMMA HashesMatchStep ==
    ASSUME IngestInv, [Next]_vars, NEW q \in Packets, req'[q].pc # "none"
    PROVE  Matches(q)'
<1>1. /\ Typed /\ HashesMatch /\ Registered /\ SnapshotsMatch /\ ChainsEnd
      /\ \A h \in 1..Len(store) : store'[h] = store[h]
      /\ Len(store) \in Nat
  BY StoreGrows DEF IngestInv
<1>2. req[q].pc # "none" => Matches(q) /\ req[q].hash \in 0..Len(store)
  BY <1>1, Begun DEF HashesMatch
<1>3. req[q].pc # "none" /\ req[q].hash # None => store'[req[q].hash] = store[req[q].hash]
  BY <1>1, <1>2 DEF None
<1>4. ASSUME NEW p \in Packets, NEW e \in Devices, NEW r \in Readings, Arrive(p, e, r)
      PROVE  Matches(q)'
  BY <1>1, <1>2, <1>3, <1>4, ArriveFacts DEF Matches
<1>5. ASSUME NEW p \in Packets, req[p].pc \in {"register", "adopt", "lookup"}, Rejects(p)
      PROVE  Matches(q)'
  BY <1>1, <1>2, <1>3, <1>5, RejectFacts DEF Matches
<1>6. ASSUME NEW p \in Packets, CheckRegistered(p), ~Rejects(p)
      PROVE  Matches(q)'
  BY <1>1, <1>2, <1>3, <1>6, CheckFacts DEF Matches
<1>7. ASSUME NEW p \in Packets, Adopt(p), ~Rejects(p)
      PROVE  Matches(q)'
  BY <1>1, <1>2, <1>3, <1>7, AdoptFacts DEF Matches, Registers
<1>8. ASSUME NEW p \in Packets, Lookup(p), ~Rejects(p)
      PROVE  Matches(q)'
  BY <1>1, <1>2, <1>3, <1>8, LookupFacts DEF Matches
<1>9. ASSUME NEW p \in Packets, Judge(p)
      PROVE  Matches(q)'
  BY <1>1, <1>2, <1>3, <1>9, JudgeFacts DEF Matches
<1>10. ASSUME NEW p \in Packets, Note(p)
      PROVE  Matches(q)'
  BY <1>1, <1>2, <1>3, <1>10, NoteFacts, MovedFacts DEF Matches
<1>11. ASSUME NEW p \in Packets, Upload(p)
      PROVE  Matches(q)'
  <2>1. CASE q # p
    BY <1>1, <1>2, <1>3, <1>11, <2>1, UploadFacts DEF Matches
  <2>2. CASE q = p /\ req'[p].pc = "finish"
    BY <1>1, <1>2, <1>3, <1>11, <2>2, UploadFacts DEF Matches
  <2>3. CASE q = p /\ req'[p].pc # "finish"
    <3>1. /\ req'[p].pc = "link" /\ req'[p].hash = Len(store) + 1
          /\ store' = Append(store, Record(p)) /\ Record(p) \in Records
          /\ req'[p].dev = req[p].dev /\ req'[p].valid = req[p].valid
      BY <1>1, <1>11, <2>3, UploadFacts
    <3>2. store'[Len(store) + 1] = Record(p)
      BY <1>1, <3>1 DEF Typed
    <3>3. Record(p).dev = req[p].dev /\ Record(p).packet = p /\ Record(p).valid = req[p].valid
      BY DEF Record
    <3> QED
      BY <1>1, <2>3, <3>1, <3>2, <3>3 DEF Matches, None
  <2> QED
    BY <2>1, <2>2, <2>3
<1>12. ASSUME NEW p \in Packets, Link(p)
      PROVE  Matches(q)'
  BY <1>1, <1>2, <1>3, <1>12, LinkFacts, MovedFacts DEF Matches
<1>13. ASSUME NEW p \in Packets, Finish(p)
      PROVE  Matches(q)'
  BY <1>1, <1>2, <1>3, <1>13, FinishFacts DEF Matches
<1>14. ASSUME NEW p \in Packets, RunTask(p)
      PROVE  Matches(q)'
  BY <1>1, <1>2, <1>3, <1>14 DEF Matches, RunTask
<1>15. ASSUME NEW e \in Devices, NEW c \in Packages, CreatePackage(e, c), ~Idle
      PROVE  Matches(q)'
  BY <1>1, <1>2, <1>3, <1>15, CreateFacts DEF Matches, Registers
<1>16. CASE Restart
  BY <1>1, <1>2, <1>3, <1>16, RestartFacts DEF Matches, InFlight, Finished
<1>17. CASE Idle
  BY <1>1, <1>2, <1>3, <1>17 DEF Matches, Idle
<1> QED
  BY <1>4, <1>5, <1>6, <1>7, <1>8, <1>9, <1>10, <1>11,
     <1>12, <1>13, <1>14, <1>15, <1>16, <1>17, Actions

LEMMA TasksAreDoneStep ==
    ASSUME IngestInv, [Next]_vars, NEW q \in (tasks \union handled)'
    PROVE  req'[q].pc = "done" /\ req'[q].hash # None /\ ~req'[q].valid
<1>1. /\ Typed /\ Registered
      /\ q \in tasks \union handled =>
           q \in Packets /\ req[q].pc = "done" /\ req[q].hash # None /\ ~req[q].valid
  BY DEF IngestInv, Typed, TasksAreDone
<1>2. ASSUME NEW p \in Packets, NEW e \in Devices, NEW r \in Readings, Arrive(p, e, r)
      PROVE  req'[q].pc = "done" /\ req'[q].hash # None /\ ~req'[q].valid
  BY <1>1, <1>2, ArriveFacts
<1>3. ASSUME NEW p \in Packets, req[p].pc \in {"register", "adopt", "lookup"}, Rejects(p)
      PROVE  req'[q].pc = "done" /\ req'[q].hash # None /\ ~req'[q].valid
  BY <1>1, <1>3, RejectFacts
<1>4. ASSUME NEW p \in Packets, CheckRegistered(p), ~Rejects(p)
      PROVE  req'[q].pc = "done" /\ req'[q].hash # None /\ ~req'[q].valid
  BY <1>1, <1>4, CheckFacts
<1>5. ASSUME NEW p \in Packets, Adopt(p), ~Rejects(p)
      PROVE  req'[q].pc = "done" /\ req'[q].hash # None /\ ~req'[q].valid
  BY <1>1, <1>5, AdoptFacts DEF Registers
<1>6. ASSUME NEW p \in Packets, Lookup(p), ~Rejects(p)
      PROVE  req'[q].pc = "done" /\ req'[q].hash # None /\ ~req'[q].valid
  BY <1>1, <1>6, LookupFacts
<1>7. ASSUME NEW p \in Packets, Judge(p)
      PROVE  req'[q].pc = "done" /\ req'[q].hash # None /\ ~req'[q].valid
  BY <1>1, <1>7, JudgeFacts
<1>8. ASSUME NEW p \in Packets, Note(p)
      PROVE  req'[q].pc = "done" /\ req'[q].hash # None /\ ~req'[q].valid
  BY <1>1, <1>8, NoteFacts, MovedFacts
<1>9. ASSUME NEW p \in Packets, Upload(p)
      PROVE  req'[q].pc = "done" /\ req'[q].hash # None /\ ~req'[q].valid
  BY <1>1, <1>9, UploadFacts
<1>10. ASSUME NEW p \in Packets, Link(p)
      PROVE  req'[q].pc = "done" /\ req'[q].hash # None /\ ~req'[q].valid
  BY <1>1, <1>10, LinkFacts, MovedFacts
<1>11. ASSUME NEW p \in Packets, Finish(p)
      PROVE  req'[q].pc = "done" /\ req'[q].hash # None /\ ~req'[q].valid
  BY <1>1, <1>11, FinishFacts
<1>12. ASSUME NEW p \in Packets, RunTask(p)
      PROVE  req'[q].pc = "done" /\ req'[q].hash # None /\ ~req'[q].valid
  BY <1>1, <1>12 DEF RunTask
<1>13. ASSUME NEW e \in Devices, NEW c \in Packages, CreatePackage(e, c), ~Idle
      PROVE  req'[q].pc = "done" /\ req'[q].hash # None /\ ~req'[q].valid
  BY <1>1, <1>13, CreateFacts DEF Registers
<1>14. CASE Restart
  BY <1>1, <1>14, RestartFacts DEF InFlight, Finished
<1>15. CASE Idle
  BY <1>1, <1>15 DEF Idle
<1> QED
  BY <1>2, <1>3, <1>4, <1>5, <1>6, <1>7, <1>8, <1>9,
     <1>10, <1>11, <1>12, <1>13, <1>14, <1>15, Actions

\* Only an arrival puts a handler in flight, and it notes what it overlaps.
LEMMA InFlightStep ==
    ASSUME IngestInv, [Next]_vars, NEW q \in Packets, InFlight(q)'
    PROVE  Flies(q)
<1>1. Typed /\ Registered
  BY DEF IngestInv
<1>2. ASSUME NEW p \in Packets, NEW e \in Devices, NEW r \in Readings, Arrive(p, e, r)
      PROVE  Flies(q)
  BY <1>1, <1>2, ArriveFacts DEF Flies, InFlight, Finished
<1>3. ASSUME NEW p \in Packets, req[p].pc \in {"register", "adopt", "lookup"}, Rejects(p)
      PROVE  Flies(q)
  BY <1>1, <1>3, RejectFacts DEF Flies, InFlight, Finished
<1>4. ASSUME NEW p \in Packets, CheckRegistered(p), ~Rejects(p)
      PROVE  Flies(q)
  BY <1>1, <1>4, CheckFacts DEF Flies, InFlight, Finished
<1>5. ASSUME NEW p \in Packets, Adopt(p), ~Rejects(p)
      PROVE  Flies(q)
  BY <1>1, <1>5, AdoptFacts DEF Flies, InFlight, Finished, Registers
<1>6. ASSUME NEW p \in Packets, Lookup(p), ~Rejects(p)
      PROVE  Flies(q)
  BY <1>1, <1>6, LookupFacts DEF Flies, InFlight, Finished
<1>7. ASSUME NEW p \in Packets, Judge(p)
      PROVE  Flies(q)
  BY <1>1, <1>7, JudgeFacts DEF Flies, InFlight, Finished
<1>8. ASSUME NEW p \in Packets, Note(p)
      PROVE  Flies(q)
  BY <1>1, <1>8, NoteFacts, MovedFacts DEF Flies, InFlight, Finished
<1>9. ASSUME NEW p \in Packets, Upload(p)
      PROVE  Flies(q)
  BY <1>1, <1>9, UploadFacts DEF Flies, InFlight, Finished
<1>10. ASSUME NEW p \in Packets, Link(p)
      PROVE  Flies(q)
  BY <1>1, <1>10, LinkFacts, MovedFacts DEF Flies, InFlight, Finished
<1>11. ASSUME NEW p \in Packets, Finish(p)
      PROVE  Flies(q)
  BY <1>1, <1>11, FinishFacts DEF Flies, InFlight, Finished
<1>12. ASSUME NEW p \in Packets, RunTask(p)
      PROVE  Flies(q)
  BY <1>1, <1>12 DEF Flies, InFlight, Finished, RunTask
<1>13. ASSUME NEW e \in Devices, NEW c \in Packages, CreatePackage(e, c), ~Idle
      PROVE  Flies(q)
  BY <1>1, <1>13, CreateFacts DEF Flies, InFlight, Finished, Registers
<1>14. CASE Restart
  BY <1>1, <1>14, RestartFacts DEF Flies, InFlight, Finished
<1>15. CASE Idle
  BY <1>1, <1>15 DEF Flies, InFlight, Finished, Idle
<1> QED
  BY <1>2, <1>3, <1>4, <1>5, <1>6, <1>7, <1>8, <1>9,
     <1>10, <1>11, <1>12, <1>13, <1>14, <1>15, Actions

LEMMA OneAtATimeStep ==
    ASSUME IngestInv, [Next]_vars
    PROVE  OneAtATime'
<1> SUFFICES ASSUME NEW p \in Packets, NEW q \in Packets, InFlight(p)', InFlight(q)',
                    req'[p].dev = req'[q].dev, req'[p].dev \notin raced', p # q
             PROVE  FALSE
  BY DEF OneAtATime
<1>1. Flies(p) /\ Flies(q)
  BY InFlightStep
<1>2. OneAtATime
  BY DEF IngestInv
<1>3. CASE InFlight(p) /\ InFlight(q)
  BY <1>1, <1>2, <1>3 DEF Flies, OneAtATime
<1>4. ASSUME NEW a \in Packets, NEW b \in Packets, a # b, Flies(a), ~InFlight(a), InFlight(b)',
             req'[a].dev = req'[b].dev
      PROVE  req'[a].dev \in raced'
  <2>1. req'[b] = req[b]
    BY <1>4 DEF Flies
  <2>2. b \in BusyOn(req'[a].dev)
    BY <1>4, <2>1 DEF BusyOn, InFlight
  <2> QED
    BY <1>4, <2>2 DEF Flies
<1> QED
  BY <1>1, <1>3, <1>4

LEMMA LastIsNotedStep ==
    ASSUME IngestInv, [Next]_vars, NEW d \in Devices,
           index'[d].registered, index'[d].last # None
    PROVE  Shows(d)'
<1>1. /\ Typed /\ Registered
      /\ index[d].registered /\ index[d].last # None => index[d].last \in Packets /\ Shows(d)
  BY EntryTypes DEF IngestInv, LastIsNoted
<1>2. ASSUME NEW p \in Packets, NEW e \in Devices, NEW r \in Readings, Arrive(p, e, r)
      PROVE  Shows(d)'
  <2>1. UNCHANGED index /\ req[p].pc = "none" /\ \A q \in Packets \ {p} : req'[q] = req[q]
    BY <1>1, <1>2, ArriveFacts
  <2> QED
    BY <1>1, <2>1 DEF Shows
<1>3. ASSUME NEW p \in Packets, req[p].pc \in {"register", "adopt", "lookup"}, Rejects(p)
      PROVE  Shows(d)'
  BY <1>1, <1>3, RejectFacts DEF Shows
<1>4. ASSUME NEW p \in Packets, CheckRegistered(p), ~Rejects(p)
      PROVE  Shows(d)'
  BY <1>1, <1>4, CheckFacts DEF Shows
<1>5. ASSUME NEW p \in Packets, Adopt(p), ~Rejects(p)
      PROVE  Shows(d)'
  BY <1>1, <1>5, AdoptFacts DEF Shows, Registers
<1>6. ASSUME NEW p \in Packets, Lookup(p), ~Rejects(p)
      PROVE  Shows(d)'
  BY <1>1, <1>6, LookupFacts DEF Shows
<1>7. ASSUME NEW p \in Packets, Judge(p)
      PROVE  Shows(d)'
  BY <1>1, <1>7, JudgeFacts DEF Shows
<1>8. ASSUME NEW p \in Packets, Note(p)
      PROVE  Shows(d)'
  BY <1>1, <1>8, NoteFacts, MovedFacts DEF Shows
<1>9. ASSUME NEW p \in Packets, Upload(p)
      PROVE  Shows(d)'
  BY <1>1, <1>9, UploadFacts DEF Shows
<1>10. ASSUME NEW p \in Packets, Link(p)
      PROVE  Shows(d)'
  BY <1>1, <1>10, LinkFacts, MovedFacts DEF Shows
<1>11. ASSUME NEW p \in Packets, Finish(p)
      PROVE  Shows(d)'
  BY <1>1, <1>11, FinishFacts DEF Shows
<1>12. ASSUME NEW p \in Packets, RunTask(p)
      PROVE  Shows(d)'
  BY <1>1, <1>12 DEF Shows, RunTask
<1>13. ASSUME NEW e \in Devices, NEW c \in Packages, CreatePackage(e, c), ~Idle
      PROVE  Shows(d)'
  BY <1>1, <1>13, CreateFacts DEF Shows, Registers
<1>14. CASE Restart
  BY <1>1, <1>14, RestartFacts DEF Shows, InFlight, Finished
<1>15. CASE Idle
  BY <1>1, <1>15 DEF Shows, Idle
<1> QED
  BY <1>2, <1>3, <1>4, <1>5, <1>6, <1>7, <1>8, <1>9,
     <1>10, <1>11, <1>12, <1>13, <1>14, <1>15, Actions

LEMMA AdoptsNewDevicesStep ==
    ASSUME IngestInv, [Next]_vars, NEW q \in Packets,
           req'[q].pc = "adopt", req'[q].dev \notin raced'
    PROVE  ~index'[req'[q].dev].registered
<1>1. Typed /\ Registered /\ OneAtATime /\ AdoptsNewDevices
  BY DEF IngestInv
<1>2. req[q].pc = "adopt" => /\ req[q].dev \in Devices
                             /\ req[q].dev \notin raced => ~index[req[q].dev].registered
  BY <1>1, Begun DEF AdoptsNewDevices
<1>3. ASSUME NEW p \in Packets, NEW e \in Devices, NEW r \in Readings, Arrive(p, e, r)
      PROVE  ~index'[req'[q].dev].registered
  BY <1>1, <1>2, <1>3, ArriveFacts DEF InFlight, Finished, BusyOn
<1>4. ASSUME NEW p \in Packets, req[p].pc \in {"register", "adopt", "lookup"}, Rejects(p)
      PROVE  ~index'[req'[q].dev].registered
  BY <1>1, <1>2, <1>4, RejectFacts DEF InFlight, Finished, BusyOn
<1>5. ASSUME NEW p \in Packets, CheckRegistered(p), ~Rejects(p)
      PROVE  ~index'[req'[q].dev].registered
  BY <1>1, <1>2, <1>5, CheckFacts DEF InFlight, Finished, BusyOn
<1>6. ASSUME NEW p \in Packets, Adopt(p), ~Rejects(p)
      PROVE  ~index'[req'[q].dev].registered
  BY <1>1, <1>2, <1>6, AdoptFacts DEF InFlight, Finished, BusyOn, Registers, OneAtATime
<1>7. ASSUME NEW p \in Packets, Lookup(p), ~Rejects(p)
      PROVE  ~index'[req'[q].dev].registered
  BY <1>1, <1>2, <1>7, LookupFacts DEF InFlight, Finished, BusyOn
<1>8. ASSUME NEW p \in Packets, Judge(p)
      PROVE  ~index'[req'[q].dev].registered
  BY <1>1, <1>2, <1>8, JudgeFacts DEF InFlight, Finished, BusyOn
<1>9. ASSUME NEW p \in Packets, Note(p)
      PROVE  ~index'[req'[q].dev].registered
  BY <1>1, <1>2, <1>9, NoteFacts, MovedFacts DEF InFlight, Finished, BusyOn
<1>10. ASSUME NEW p \in Packets, Upload(p)
      PROVE  ~index'[req'[q].dev].registered
  BY <1>1, <1>2, <1>10, UploadFacts DEF InFlight, Finished, BusyOn
<1>11. ASSUME NEW p \in Packets, Link(p)
      PROVE  ~index'[req'[q].dev].registered
  BY <1>1, <1>2, <1>11, LinkFacts, MovedFacts DEF InFlight, Finished, BusyOn
<1>12. ASSUME NEW p \in Packets, Finish(p)
      PROVE  ~index'[req'[q].dev].registered
  BY <1>1, <1>2, <1>12, FinishFacts DEF InFlight, Finished, BusyOn
<1>13. ASSUME NEW p \in Packets, RunTask(p)
      PROVE  ~index'[req'[q].dev].registered
  BY <1>1, <1>2, <1>13 DEF InFlight, Finished, BusyOn, RunTask
<1>14. ASSUME NEW e \in Devices, NEW c \in Packages, CreatePackage(e, c), ~Idle
      PROVE  ~index'[req'[q].dev].registered
  BY <1>1, <1>2, <1>14, CreateFacts DEF InFlight, Finished, BusyOn, Registers
<1>15. CASE Restart
  BY <1>1, <1>2, <1>15, RestartFacts DEF InFlight, Finished, BusyOn
<1>16. CASE Idle
  BY <1>1, <1>2, <1>16 DEF InFlight, Finished, BusyOn, Idle
<1> QED
  BY <1>3, <1>4, <1>5, <1>6, <1>7, <1>8, <1>9, <1>10,
     <1>11, <1>12, <1>13, <1>14, <1>15, <1>16, Actions

LEMMA SnapshotsMatchStep ==
    ASSUME IngestInv, [Next]_vars, NEW q \in Packets, req'[q].pc # "none",
           req'[q].entry.registered, req'[q].entry.latest # None
    PROVE  store'[req'[q].entry.latest].dev = req'[q].dev
<1>1. /\ Typed /\ HashesMatch /\ Registered /\ SnapshotsMatch /\ ChainsEnd
      /\ \A h \in 1..Len(store) : store'[h] = store[h]
      /\ Len(store) \in Nat
  BY StoreGrows DEF IngestInv
<1>2. ASSUME req[q].pc # "none", req[q].entry.registered, req[q].entry.latest # None
      PROVE  /\ store[req[q].entry.latest].dev = req[q].dev
             /\ store'[req[q].entry.latest].dev = req[q].dev
  <2>1. req[q].entry \in EntriesUpTo(Len(store)) /\ req[q].entry # Absent
    BY <1>1, <1>2, Begun DEF Absent
  <2>2. req[q].entry.latest \in 0..Len(store)
    BY <2>1 DEF EntriesUpTo
  <2> QED
    BY <1>1, <1>2, <2>2 DEF SnapshotsMatch, None
<1>3. ASSUME NEW p \in Packets, NEW e \in Devices, NEW r \in Readings, Arrive(p, e, r)
      PROVE  store'[req'[q].entry.latest].dev = req'[q].dev
  <2>1. /\ UNCHANGED store /\ req'[p].entry = Absent /\ \A s \in Packets \ {p} : req'[s] = req[s]
    BY <1>1, <1>3, ArriveFacts
  <2>2. q # p
    BY <2>1 DEF Absent
  <2> QED
    BY <1>2, <2>1, <2>2
<1>4. ASSUME NEW p \in Packets, req[p].pc \in {"register", "adopt", "lookup"}, Rejects(p)
      PROVE  store'[req'[q].entry.latest].dev = req'[q].dev
  BY <1>1, <1>2, <1>4, RejectFacts DEF Absent, None
<1>5. ASSUME NEW p \in Packets, CheckRegistered(p), ~Rejects(p)
      PROVE  store'[req'[q].entry.latest].dev = req'[q].dev
  BY <1>1, <1>2, <1>5, CheckFacts DEF Absent, None
<1>6. ASSUME NEW p \in Packets, Adopt(p), ~Rejects(p)
      PROVE  store'[req'[q].entry.latest].dev = req'[q].dev
  BY <1>1, <1>2, <1>6, AdoptFacts DEF Absent, None, Registers
<1>7. ASSUME NEW p \in Packets, Lookup(p), ~Rejects(p)
      PROVE  store'[req'[q].entry.latest].dev = req'[q].dev
  BY <1>1, <1>2, <1>7, LookupFacts DEF Absent, None, ChainsEnd
<1>8. ASSUME NEW p \in Packets, Judge(p)
      PROVE  store'[req'[q].entry.latest].dev = req'[q].dev
  BY <1>1, <1>2, <1>8, JudgeFacts DEF Absent, None
<1>9. ASSUME NEW p \in Packets, Note(p)
      PROVE  store'[req'[q].entry.latest].dev = req'[q].dev
  BY <1>1, <1>2, <1>9, NoteFacts, MovedFacts DEF Absent, None
<1>10. ASSUME NEW p \in Packets, Upload(p)
      PROVE  store'[req'[q].entry.latest].dev = req'[q].dev
  BY <1>1, <1>2, <1>10, UploadFacts DEF Absent, None
<1>11. ASSUME NEW p \in Packets, Link(p)
      PROVE  store'[req'[q].entry.latest].dev = req'[q].dev
  BY <1>1, <1>2, <1>11, LinkFacts, MovedFacts DEF Absent, None
<1>12. ASSUME NEW p \in Packets, Finish(p)
      PROVE  store'[req'[q].entry.latest].dev = req'[q].dev
  BY <1>1, <1>2, <1>12, FinishFacts DEF Absent, None
<1>13. ASSUME NEW p \in Packets, RunTask(p)
      PROVE  store'[req'[q].entry.latest].dev = req'[q].dev
  BY <1>1, <1>2, <1>13 DEF Absent, None, RunTask
<1>14. ASSUME NEW e \in Devices, NEW c \in Packages, CreatePackage(e, c), ~Idle
      PROVE  store'[req'[q].entry.latest].dev = req'[q].dev
  BY <1>1, <1>2, <1>14, CreateFacts DEF Absent, None, Registers
<1>15. CASE Restart
  BY <1>1, <1>2, <1>15, RestartFacts DEF Absent, None, InFlight, Finished
<1>16. CASE Idle
  BY <1>1, <1>2, <1>16 DEF Absent, None, Idle
<1> QED
  BY <1>3, <1>4, <1>5, <1>6, <1>7, <1>8, <1>9, <1>10,
     <1>11, <1>12, <1>13, <1>14, <1>15, <1>16, Actions

\* Only an upload adds a record: its link leads back to the head that was read.
LEMMA LinksLeadBack ==
    ASSUME IngestInv, [Next]_vars, NEW h \in 1..Len(store'), store'[h].prev # None
    PROVE  store'[h].prev < h /\ store'[store'[h].prev].dev = store'[h].dev
<1>1. /\ Typed /\ HashesMatch /\ Registered /\ SnapshotsMatch /\ ChainsEnd
      /\ \A g \in 1..Len(store) : store'[g] = store[g]
      /\ Len(store) \in Nat
  BY StoreGrows DEF IngestInv
<1>2. \A g \in 1..Len(store) : store[g].prev \in 0..Len(store)
  BY <1>1 DEF Typed
<1>3. CASE h \in 1..Len(store)
  <2>1. store'[h] = store[h] /\ store[h].prev < h /\ store[store[h].prev].dev = store[h].dev
    BY <1>1, <1>3 DEF ChainsEnd
  <2>2. store[h].prev \in 1..Len(store)
    BY <1>1, <1>2, <1>3, <2>1 DEF None
  <2> QED
    BY <1>1, <2>1, <2>2
<1>4. CASE h \notin 1..Len(store)
  <2>1. store' # store
    BY <1>4
  <2>2. PICK p \in Packets : Upload(p)
    BY <2>1, Actions DEF Arrive, Rejects, ReadFails, CheckRegistered, Adopt, Lookup, Judge, Note, Link, Finish,
       RunTask, CreatePackage, Restart, Idle
  <2>3. /\ store' = Append(store, Record(p)) /\ store \in Seq(Records)
        /\ Record(p) \in Records /\ Record(p).prev \in 0..Len(store)
        /\ req[p].pc = "upload"
    BY <1>1, <2>1, <2>2, UploadFacts DEF Typed
  <2>4. h = Len(store) + 1 /\ store'[h] = Record(p)
    BY <1>1, <1>4, <2>3
  <2>5. Record(p).dev = req[p].dev /\ Record(p).prev = req[p].entry.latest
    BY DEF Record, Prev
  <2>6. req[p].entry.registered
    BY <1>1, <2>3 DEF Registered, Past
  <2>7. store[Record(p).prev].dev = Record(p).dev
    BY <1>1, <2>3, <2>4, <2>5, <2>6 DEF SnapshotsMatch
  <2>8. Record(p).prev \in 1..Len(store)
    BY <1>1, <2>3, <2>4 DEF None
  <2> QED
    BY <1>1, <2>4, <2>7, <2>8
<1> QED
  BY <1>3, <1>4

LEMMA HeadsMatchStep ==
    ASSUME IngestInv, [Next]_vars, NEW d \in Devices,
           index'[d].registered, index'[d].latest # None
    PROVE  store'[index'[d].latest].dev = d
<1>1. /\ Typed /\ HashesMatch /\ Registered /\ SnapshotsMatch /\ ChainsEnd
      /\ \A h \in 1..Len(store) : store'[h] = store[h]
      /\ Len(store) \in Nat
  BY StoreGrows DEF IngestInv
<1>2. ASSUME index[d].registered, index[d].latest # None
      PROVE  /\ store[index[d].latest].dev = d
             /\ store'[index[d].latest].dev = d
  <2>1. index[d].latest \in 0..Len(store)
    BY <1>1, <1>2, EntryTypes
  <2> QED
    BY <1>1, <1>2, <2>1 DEF ChainsEnd, None
<1>3. \A p \in Packets : req[p].pc # "none" /\ req[p].hash # None =>
        store'[req[p].hash].dev = req[p].dev
  <2>1. ASSUME NEW p \in Packets, req[p].pc # "none", req[p].hash # None
        PROVE  store'[req[p].hash].dev = req[p].dev
    <3>1. req[p].hash \in 0..Len(store)
      BY <1>1, <2>1, Begun
    <3> QED
      BY <1>1, <2>1, <3>1 DEF HashesMatch, Matches, None
  <2> QED
    BY <2>1
<1>4. ASSUME NEW p \in Packets, NEW e \in Devices, NEW r \in Readings, Arrive(p, e, r)
      PROVE  store'[index'[d].latest].dev = d
  BY <1>1, <1>2, <1>3, <1>4, ArriveFacts
<1>5. ASSUME NEW p \in Packets, req[p].pc \in {"register", "adopt", "lookup"}, Rejects(p)
      PROVE  store'[index'[d].latest].dev = d
  BY <1>1, <1>2, <1>3, <1>5, RejectFacts
<1>6. ASSUME NEW p \in Packets, CheckRegistered(p), ~Rejects(p)
      PROVE  store'[index'[d].latest].dev = d
  BY <1>1, <1>2, <1>3, <1>6, CheckFacts
<1>7. ASSUME NEW p \in Packets, Adopt(p), ~Rejects(p)
      PROVE  store'[index'[d].latest].dev = d
  BY <1>1, <1>2, <1>3, <1>7, AdoptFacts DEF Registers
<1>8. ASSUME NEW p \in Packets, Lookup(p), ~Rejects(p)
      PROVE  store'[index'[d].latest].dev = d
  BY <1>1, <1>2, <1>3, <1>8, LookupFacts
<1>9. ASSUME NEW p \in Packets, Judge(p)
      PROVE  store'[index'[d].latest].dev = d
  BY <1>1, <1>2, <1>3, <1>9, JudgeFacts
<1>10. ASSUME NEW p \in Packets, Note(p)
      PROVE  store'[index'[d].latest].dev = d
  BY <1>1, <1>2, <1>3, <1>10, NoteFacts, MovedFacts
<1>11. ASSUME NEW p \in Packets, Upload(p)
      PROVE  store'[index'[d].latest].dev = d
  BY <1>1, <1>2, <1>3, <1>11, UploadFacts
<1>12. ASSUME NEW p \in Packets, Link(p)
      PROVE  store'[index'[d].latest].dev = d
  BY <1>1, <1>2, <1>3, <1>12, LinkFacts, MovedFacts
<1>13. ASSUME NEW p \in Packets, Finish(p)
      PROVE  store'[index'[d].latest].dev = d
  BY <1>1, <1>2, <1>3, <1>13, FinishFacts
<1>14. ASSUME NEW p \in Packets, RunTask(p)
      PROVE  store'[index'[d].latest].dev = d
  BY <1>1, <1>2, <1>3, <1>14 DEF RunTask
<1>15. ASSUME NEW e \in Devices, NEW c \in Packages, CreatePackage(e, c), ~Idle
      PROVE  store'[index'[d].latest].dev = d
  BY <1>1, <1>2, <1>3, <1>15, CreateFacts DEF Registers
<1>16. CASE Restart
  BY <1>1, <1>2, <1>3, <1>16, RestartFacts
<1>17. CASE Idle
  BY <1>1, <1>2, <1>3, <1>17 DEF Idle
<1> QED
  BY <1>4, <1>5, <1>6, <1>7, <1>8, <1>9, <1>10, <1>11,
     <1>12, <1>13, <1>14, <1>15, <1>16, <1>17, Actions

\* The dashboard of a device whose requests do not overlap.
Settled(p) == req[p].pc \in {"upload", "link", "finish", "done", "lost"}

\* A step that leaves a device's entry alone, puts no reading of its between the two
\* writes, and links none.
Frame(d) ==
    /\ index'[d] = index[d]
    /\ linked'[d] = linked[d]
    /\ missed \subseteq missed'
    /\ \A p \in Packets : Noted(p)' /\ req'[p].dev = d =>
         (Noted(p) /\ req[p].dev = d) \/ p \in missed'
    /\ \A p \in Packets : Settled(p) =>
         req'[p].hash = req[p].hash \/ req'[p].hash \notin linked[d]

\* What the invariant says of a device, for a step that leaves it unraced.
LEMMA ShownBefore ==
    ASSUME IngestInv, [Next]_vars, NEW d \in Devices, d \notin raced, fileOK,
           index[d].registered
    PROVE  /\ Shown(d)
           /\ index[d].latest \in 0..Len(store)
           /\ index[d].latest # None => store'[index[d].latest] = store[index[d].latest]
           /\ index[d].last # None => index[d].last \in Packets /\ Settled(index[d].last)
<1>1. Typed /\ Registered /\ AllShown /\ LastIsNoted
  BY DEF IngestInv
<1>2. index[d].latest \in 0..Len(store) /\ index[d].last \in Packets \union {None}
  BY <1>1, EntryTypes
<1>3. index[d].latest # None => store'[index[d].latest] = store[index[d].latest]
  BY <1>1, <1>2, StoreGrows DEF None
<1> QED
  BY <1>1, <1>2, <1>3 DEF AllShown, LastIsNoted, Shows, Settled

LEMMA ShownFrame ==
    ASSUME IngestInv, [Next]_vars, NEW d \in Devices, d \notin raced, fileOK,
           index[d].registered, Frame(d)
    PROVE  Shown(d)'
<1>1. /\ Shown(d)
      /\ index[d].latest # None => store'[index[d].latest] = store[index[d].latest]
      /\ index[d].last # None => index[d].last \in Packets /\ Settled(index[d].last)
  BY ShownBefore
<1>2. ASSUME NEW p \in Packets, Noted(p)', req'[p].dev = d
      PROVE  index'[d].last = p \/ p \in missed'
  BY <1>1, <1>2 DEF Frame, Shown
<1>3. index[d].last # None /\ req[index[d].last].hash \notin linked[d] =>
        req'[index[d].last].hash \notin linked[d]
  BY <1>1 DEF Frame
<1>4. Tracks(d)'
  BY <1>1, <1>3 DEF Frame, Shown, Tracks
<1> QED
  BY <1>2, <1>4 DEF Shown

\* A step of a handler that neither writes the entry nor uploads.
LEMMA FrameStep ==
    ASSUME IngestInv, NEW p \in Packets, NEW d \in Devices,
           req'[p].hash = req[p].hash \/ ~Settled(p),
           Noted(p)' /\ req'[p].dev = d => (Noted(p) /\ req[p].dev = d) \/ p \in missed',
           \A q \in Packets \ {p} : req'[q] = req[q], index'[d] = index[d],
           linked'[d] = linked[d], missed \subseteq missed'
    PROVE  Frame(d)
BY DEF Frame, Noted, Settled

\* The request that runs for a device is the only one.
LEMMA Alone ==
    ASSUME IngestInv, NEW p \in Packets, InFlight(p), req[p].dev \notin raced,
           NEW q \in Packets, Noted(q), req[q].dev = req[p].dev
    PROVE  q = p
BY DEF IngestInv, OneAtATime, Noted, InFlight, Finished

LEMMA AllShownStep ==
    ASSUME IngestInv, [Next]_vars, NEW d \in Devices, d \notin raced', fileOK',
           index'[d].registered
    PROVE  Shown(d)'
<1>1. /\ Typed /\ Registered /\ HashesMatch
      /\ None \notin linked[d] /\ Len(store) + 1 \notin linked[d]
  <2>1. linked[d] \subseteq 1..Len(store) /\ Len(store) \in Nat
    BY DEF IngestInv, Typed
  <2> QED BY <2>1 DEF IngestInv, None
<1>2. ASSUME NEW p \in Packets, NEW e \in Devices, NEW r \in Readings, Arrive(p, e, r)
      PROVE  Shown(d)'
  <2>1. /\ UNCHANGED <<index, fileOK, linked, missed>> /\ raced \subseteq raced'
        /\ req[p].pc = "none" /\ req'[p].pc \in {"lookup", "register", "rejected"}
        /\ \A q \in Packets \ {p} : req'[q] = req[q]
    BY <1>1, <1>2, ArriveFacts
  <2>2. Frame(d)
    BY <2>1, FrameStep DEF Noted, Settled
  <2> QED
    BY <2>1, <2>2, ShownFrame
<1>3. ASSUME NEW p \in Packets,
             \/ req[p].pc \in {"register", "adopt", "lookup"} /\ Rejects(p)
             \/ CheckRegistered(p) /\ ~Rejects(p)
             \/ Lookup(p) /\ ~Rejects(p)
             \/ Judge(p)
      PROVE  Shown(d)'
  <2>1. /\ UNCHANGED <<index, raced, linked, missed>> /\ fileOK
        /\ req[p].pc \in {"register", "adopt", "lookup", "judge"}
        /\ req'[p].pc \in {"lookup", "adopt", "judge", "rejected", "note"}
        /\ \A q \in Packets \ {p} : req'[q] = req[q]
    BY <1>1, <1>3, RejectFacts, CheckFacts, LookupFacts, JudgeFacts
  <2>2. Frame(d)
    BY <2>1, FrameStep DEF Noted, Settled
  <2> QED
    BY <2>1, <2>2, ShownFrame
<1>4. ASSUME NEW e \in Devices, NEW c \in Packages \union {Default}, Registers(e, c), d = e,
             \A q \in Packets : Noted(q)' => req'[q].dev # e
      PROVE  Shown(d)'
  BY <1>4 DEF Registers, Shown, Tracks
<1>5. ASSUME NEW p \in Packets, Adopt(p), ~Rejects(p)
      PROVE  Shown(d)'
  <2>1. /\ Registers(req[p].dev, Default) /\ UNCHANGED <<fileOK, raced, missed>>
        /\ linked' = [linked EXCEPT ![req[p].dev] = {}]
        /\ req[p].pc = "adopt" /\ req'[p].pc = "lookup" /\ req[p].dev \in Devices
        /\ \A q \in Packets \ {p} : req'[q] = req[q]
    BY <1>1, <1>5, AdoptFacts
  <2>2. CASE d = req[p].dev
    <3>1. ASSUME NEW q \in Packets, Noted(q)' PROVE req'[q].dev # d
      <4>1. q # p /\ req'[q] = req[q] /\ Noted(q)
        BY <2>1, <3>1 DEF Noted
      <4> QED
        BY <2>1, <2>2, <4>1, Alone DEF InFlight, Finished
    <3> QED
      BY <1>4, <2>1, <2>2, <3>1
  <2>3. CASE d # req[p].dev
    <3>1. index'[d] = index[d] /\ linked'[d] = linked[d]
      BY <1>1, <2>1, <2>3 DEF Registers, Typed
    <3>2. Frame(d)
      BY <2>1, <3>1, FrameStep DEF Noted, Settled
    <3> QED
      BY <2>1, <3>1, <3>2, ShownFrame
  <2> QED
    BY <2>2, <2>3
<1>6. ASSUME NEW e \in Devices, NEW c \in Packages, CreatePackage(e, c), ~Idle
      PROVE  Shown(d)'
  <2>1. /\ Registers(e, c) /\ fileOK /\ UNCHANGED <<req, missed>>
        /\ linked' = [linked EXCEPT ![e] = {}]
        /\ raced \subseteq raced' /\ (BusyOn(e) # {} => e \in raced')
    BY <1>1, <1>6, CreateFacts
  <2>2. CASE d = e
    <3>1. \A q \in Packets : Noted(q)' => req'[q].dev # e
      BY <2>1, <2>2 DEF BusyOn, Noted, InFlight, Finished
    <3> QED
      BY <1>4, <2>1, <2>2, <3>1
  <2>3. CASE d # e
    <3>1. index'[d] = index[d] /\ linked'[d] = linked[d]
      BY <1>1, <2>1, <2>3 DEF Registers, Typed
    <3>2. Frame(d)
      BY <2>1, <3>1 DEF Frame, Noted, Settled
    <3> QED
      BY <2>1, <3>1, <3>2, ShownFrame
  <2> QED
    BY <2>2, <2>3
<1>7. ASSUME NEW p \in Packets, Note(p)
      PROVE  Shown(d)'
  <2>1. /\ fileOK /\ raced' = raced /\ linked' = linked /\ store' = store
        /\ req[p].pc = "note" /\ req[p].dev \in Devices
        /\ index[d].registered /\ (d # req[p].dev => index'[d] = index[d])
        /\ index[d].registered => index'[d].latest = index[d].latest
        /\ missed \subseteq missed'
        /\ Goto(p, "upload")
    BY <1>1, <1>7, NoteFacts
  <2>2. /\ req'[p].pc = "upload" /\ req'[p].dev = req[p].dev /\ req'[p].hash = req[p].hash
        /\ \A q \in Packets \ {p} : req'[q] = req[q]
    BY <1>1, <2>1, MovedFacts
  <2>3. req'[p].hash = None
    BY <1>1, <2>1, <2>2 DEF HashesMatch, Matches
  <2>4. CASE d # req[p].dev \/ (index' = index /\ p \in missed')
    <3>1. index'[d] = index[d] /\ Frame(d)
      BY <2>1, <2>2, <2>4, FrameStep
    <3> QED
      BY <2>1, <3>1, ShownFrame
  <2>5. CASE d = req[p].dev /\ index'[d].last = p
    <3>1. ASSUME NEW q \in Packets, Noted(q)', req'[q].dev = d
          PROVE  index'[d].last = q
      <4>1. CASE q = p
        BY <2>5, <4>1
      <4>2. CASE q # p
        <5>1. Noted(q) /\ req[q].dev = d
          BY <2>2, <3>1, <4>2 DEF Noted
        <5> QED
          BY <2>1, <2>5, <4>2, <5>1, Alone DEF InFlight, Finished
      <4> QED BY <4>1, <4>2
    <3>2. p # None
      BY IngestAssumption DEF None
    <3>3. Tracks(d)'
      BY <1>1, <2>1, <2>3, <2>5, <3>2 DEF Tracks
    <3> QED
      BY <3>1, <3>3 DEF Shown
  <2> QED
    BY <1>1, <1>7, <2>4, <2>5, NoteFacts
<1>8. ASSUME NEW p \in Packets, Upload(p)
      PROVE  Shown(d)'
  <2>1. /\ UNCHANGED <<index, fileOK, raced, linked, missed>>
        /\ req[p].pc = "upload" /\ req'[p].dev = req[p].dev
        /\ \A q \in Packets \ {p} : req'[q] = req[q]
        /\ req'[p].hash = req[p].hash \/ req'[p].hash = Len(store) + 1
    BY <1>1, <1>8, UploadFacts
  <2>2. Frame(d)
    BY <1>1, <2>1 DEF Frame, Noted, Settled
  <2> QED
    BY <2>1, <2>2, ShownFrame
<1>9. ASSUME NEW p \in Packets, Link(p)
      PROVE  Shown(d)'
  <2>1. /\ fileOK /\ raced' = raced /\ missed' = missed /\ store' = store
        /\ req[p].pc = "link" /\ req[p].dev \in Devices
        /\ index[d].registered /\ index'[d].last = index[d].last
        /\ (d # req[p].dev => index'[d] = index[d])
        /\ Goto(p, "finish")
    BY <1>1, <1>9, LinkFacts
  <2>2. /\ req'[p].pc = "finish" /\ req'[p].dev = req[p].dev /\ req'[p].hash = req[p].hash
        /\ \A q \in Packets \ {p} : req'[q] = req[q]
    BY <1>1, <2>1, MovedFacts
  <2>3. ASSUME index'[d] = index[d], linked'[d] = linked[d]
        PROVE  Shown(d)'
    <3>1. Frame(d)
      BY <2>1, <2>2, <2>3, FrameStep DEF Noted
    <3> QED
      BY <2>1, <3>1, ShownFrame
  <2>4. CASE index' = index /\ linked' = linked
    BY <2>3, <2>4
  <2>5. CASE /\ index'[req[p].dev].latest = req[p].hash
             /\ linked' = [linked EXCEPT ![req[p].dev] = @ \union {req[p].hash}]
    <3>1. CASE d # req[p].dev
      <4>1. linked'[d] = linked[d]
        BY <1>1, <2>5, <3>1 DEF Typed
      <4> QED
        BY <2>1, <2>3, <3>1, <4>1
    <3>2. CASE d = req[p].dev
      <4>1. Shown(d) /\ Noted(p)
        BY <2>1, ShownBefore DEF Noted
      <4>2. index[d].last = p \/ p \in missed
        BY <3>2, <4>1 DEF Shown
      <4>3. store[req[p].hash].packet = p
        BY <1>1, <2>1 DEF HashesMatch, Matches
      <4>4. Tracks(d)'
        BY <2>1, <2>5, <3>2, <4>2, <4>3 DEF Tracks
      <4>5. ASSUME NEW q \in Packets, Noted(q)', req'[q].dev = d
            PROVE  index'[d].last = q \/ q \in missed'
        <5>1. q # p /\ Noted(q) /\ req[q].dev = d
          BY <2>2, <4>5 DEF Noted
        <5> QED
          BY <2>1, <4>1, <5>1 DEF Shown
      <4> QED
        BY <4>4, <4>5 DEF Shown
    <3> QED BY <3>1, <3>2
  <2> QED
    BY <1>1, <1>9, <2>4, <2>5, LinkFacts
<1>10. ASSUME NEW p \in Packets, Finish(p)
       PROVE  Shown(d)'
  <2>1. /\ UNCHANGED <<index, fileOK, raced, linked, missed>> /\ req[p].pc = "finish"
        /\ \A q \in Packets \ {p} : req'[q] = req[q]
        /\ req'[p].pc = "done" /\ req'[p].hash = req[p].hash
    BY <1>1, <1>10, FinishFacts
  <2>2. Frame(d)
    BY <2>1, FrameStep DEF Noted
  <2> QED
    BY <2>1, <2>2, ShownFrame
<1>11. CASE (\E p \in Packets : RunTask(p)) \/ Idle
  <2>1. UNCHANGED <<index, req, raced, linked, missed>> /\ fileOK
    BY <1>1, <1>11, FileTyped DEF RunTask, Idle
  <2>2. Frame(d)
    BY <2>1 DEF Frame, Noted, Settled
  <2> QED
    BY <2>1, <2>2, ShownFrame
<1>12. CASE Restart
  <2>1. /\ UNCHANGED <<index, store, raced, linked, missed>> /\ fileOK
        /\ \A p \in Packets :
             /\ InFlight(p) => req'[p].pc = "lost"
             /\ ~InFlight(p) => req'[p] = req[p]
             /\ req[p].pc # "none" => req'[p].hash = req[p].hash
    BY <1>1, <1>12, RestartFacts
  <2>2. \A p \in Packets : ~Noted(p)'
    BY <2>1 DEF Noted, InFlight, Finished
  <2>3. Frame(d)
    BY <2>1, <2>2 DEF Frame, Settled
  <2> QED
    BY <2>1, <2>3, ShownFrame
<1> QED
  BY <1>2, <1>3, <1>5, <1>6, <1>7, <1>8, <1>9, <1>10, <1>11, <1>12, Actions

-----------------------------------------------------------------------------
\* The theorems.

LEMMA NextInv ==
    ASSUME IngestInv, [Next]_vars
    PROVE  IngestInv'
<1>1. Typed'
  BY StepTyped DEF IngestInv, HashesMatch, Matches
<1>2. Registered'
  BY RegisteredStep
<1>3. ChainsEnd'
  BY LinksLeadBack, HeadsMatchStep DEF ChainsEnd
<1>4. HashesMatch'
  BY HashesMatchStep DEF HashesMatch
<1>5. SnapshotsMatch'
  BY SnapshotsMatchStep DEF SnapshotsMatch
<1>6. TasksAreDone'
  BY TasksAreDoneStep DEF TasksAreDone
<1>7. LastIsNoted'
  BY LastIsNotedStep DEF LastIsNoted
<1>8. OneAtATime'
  BY OneAtATimeStep
<1>9. AdoptsNewDevices'
  BY AdoptsNewDevicesStep DEF AdoptsNewDevices
<1>10. AllShown'
  BY AllShownStep DEF AllShown
<1> QED
  BY <1>1, <1>2, <1>3, <1>4, <1>5, <1>6, <1>7, <1>8, <1>9, <1>10 DEF IngestInv

LEMMA SpecInv == Spec => []IngestInv
BY InitInv, NextInv, PTL DEF Spec

\* The index file, the store and every handler's locals keep their types, whatever
\* order the handlers of api/sensors.py and api/packages.py are resumed in.
THEOREM IngestTyped == Spec => []TypeOK
<1>1. IngestInv => TypeOK
  BY TypedIsTypeOK DEF IngestInv
<1> QED
  BY <1>1, SpecInv, PTL

\* What _handle_violation sends as telemetryProof is a stored record of that packet
\* and device, and the record says that the reading was out of bounds.
THEOREM AlarmsTheorem == Spec => []AlarmsAreBacked
<1>1. ASSUME IngestInv PROVE AlarmsAreBacked
  <2>1. tasks \union handled \subseteq Packets
    BY <1>1 DEF IngestInv, Typed
  <2>2. ASSUME NEW p \in tasks \union handled
        PROVE  /\ req[p].hash # None /\ ~req[p].valid /\ req[p].pc = "done"
               /\ Matches(p)
    BY <1>1, <2>1, <2>2 DEF IngestInv, TasksAreDone, HashesMatch
  <2> QED
    BY <2>2 DEF AlarmsAreBacked, Matches
<1> QED
  BY <1>1, SpecInv, PTL

\* The last_reading of the index file, written by a handler before its upload, and the
\* head of the history, written after it, are of one request, for a device that sends one
\* packet at a time, except where one of the two writes failed or the upload between them;
\* whatever Bee and the disk refuse and wherever the process stops.
THEOREM DashboardTheorem == Spec => []DashboardTracksChain
<1>1. ASSUME IngestInv PROVE DashboardTracksChain
  <2>1. ASSUME NEW d \in Devices \ raced, fileOK, index[d].registered
        PROVE  Tracks(d)
    BY <1>1, <2>1 DEF IngestInv, AllShown, Shown
  <2> QED
    BY <2>1 DEF DashboardTracksChain, Tracks
<1> QED
  BY <1>1, SpecInv, PTL

Sticks ==
    \A d \in Devices :
        d \notin raced' /\ index[d].registered /\ index[d].conditions # Default =>
            index'[d].conditions # Default

LEMMA StepSticks ==
    ASSUME IngestInv, [Next]_vars
    PROVE  Sticks
<1> SUFFICES ASSUME NEW d \in Devices, d \notin raced', index[d].registered,
                    index[d].conditions # Default
             PROVE  index'[d].conditions # Default
  BY DEF Sticks
<1>1. Typed /\ Registered /\ AdoptsNewDevices
  BY DEF IngestInv
<1>2. ASSUME NEW p \in Packets, Adopt(p), ~Rejects(p)
      PROVE  index'[d].conditions # Default
  <2>1. req[p].pc = "adopt" /\ raced' = raced /\ Registers(req[p].dev, Default)
    BY <1>1, <1>2, AdoptFacts
  <2>2. d # req[p].dev
    BY <1>1, <2>1 DEF AdoptsNewDevices
  <2> QED
    BY <2>1, <2>2 DEF Registers
<1>3. ASSUME NEW e \in Devices, NEW c \in Packages, CreatePackage(e, c), ~Idle
      PROVE  index'[d].conditions # Default
  <2>1. Registers(e, c) /\ c # Default
    BY <1>1, <1>3, CreateFacts, IngestAssumption
  <2> QED
    BY <2>1 DEF Registers
<1>4. ASSUME NEW p \in Packets, Note(p) \/ Link(p)
      PROVE  index'[d].conditions # Default
  BY <1>1, <1>4, NoteFacts, LinkFacts
<1>5. \/ UNCHANGED index
      \/ \E p \in Packets : (Adopt(p) /\ ~Rejects(p)) \/ Note(p) \/ Link(p)
      \/ \E e \in Devices, c \in Packages : CreatePackage(e, c) /\ ~Idle
  BY Actions DEF Arrive, Rejects, CheckRegistered, ReadFails, Lookup, Judge, Upload, Finish,
     RunTask, Restart, Idle
<1> QED
  BY <1>2, <1>3, <1>4, <1>5

\* The auto-registration of receive_encrypted_sensor_data, decided on a read two
\* awaits earlier, replaces a provider's conditions only when requests overlap.
THEOREM ConditionsTheorem == Spec => PackageConditionsStick
<1>1. IngestInv /\ [Next]_vars => [Sticks]_vars
  BY StepSticks
<1>2. Spec => [][Sticks]_vars
  BY <1>1, SpecInv, PTL DEF Spec
<1> QED
  BY <1>2, PTL DEF PackageConditionsStick, Sticks

-----------------------------------------------------------------------------
\* The loops of the readers.

\* A set of natural numbers that is not empty has a least member.
LEMMA Least ==
    ASSUME NEW T \in SUBSET Nat, T # {}
    PROVE  \E n \in T : \A m \in T : n <= m
<1>1. PICK x \in T : \A y \in T : ~(<<y, x>> \in OpToRel(<, Nat))
  BY WFMin, NatLessThanWellFounded
<1>2. \A y \in T : ~(y < x)
  BY <1>1 DEF OpToRel
<1> QED
  BY <1>2

\* Induction, for sets.
LEMMA Induction ==
    ASSUME NEW T, 0 \in T, \A n \in Nat : n \in T => n + 1 \in T
    PROVE  \A n \in Nat : n \in T
<1> DEFINE U == {n \in Nat : n \notin T}
<1> SUFFICES ASSUME U # {} PROVE FALSE
  OBVIOUS
<1>1. PICK n \in U : \A m \in U : n <= m
  <2> HIDE DEF U
  <2>1. U \in SUBSET Nat
    BY DEF U
  <2> QED BY <2>1, Least
<1>2. n \in Nat /\ n \notin T /\ n - 1 \in Nat
  BY <1>1
<1>3. n - 1 \in T
  BY <1>1, <1>2
<1> QED BY <1>2, <1>3

\* A step on a set, taken again and again.
LEMMA Iterates ==
    ASSUME NEW S, NEW a \in S, NEW step \in [S -> S], NEW n \in Nat
    PROVE  \E g \in [0..n -> S] : g[0] = a /\ \A k \in 1..n : g[k] = step[g[k - 1]]
<1> DEFINE Good(m) == \E g \in [0..m -> S] : g[0] = a /\ \A k \in 1..m : g[k] = step[g[k - 1]]
           T == {m \in Nat : ~Good(m)}
<1>1. CASE T = {}
  BY <1>1
<1>2. CASE T # {}
  <2>1. PICK m \in T : \A k \in T : m <= k
    <3> HIDE DEF Good
    <3> QED BY <1>2, Least
  <2>2. m \in Nat /\ ~Good(m)
    BY <2>1
  <2>3. Good(0)
    <3> DEFINE z == [k \in 0..0 |-> a]
    <3>1. z \in [0..0 -> S] /\ z[0] = a /\ \A k \in 1..0 : z[k] = step[z[k - 1]]
      OBVIOUS
    <3> HIDE DEF z
    <3> QED BY <3>1
  <2>4. m # 0 /\ m - 1 \in Nat
    <3> HIDE DEF Good
    <3>1. m # 0
      BY <2>2, <2>3
    <3> QED BY <2>2, <3>1
  <2>5. Good(m - 1)
    <3> HIDE DEF Good
    <3> QED BY <2>1, <2>2, <2>4
  <2>6. PICK g \in [0..(m - 1) -> S] :
            g[0] = a /\ \A k \in 1..(m - 1) : g[k] = step[g[k - 1]]
    BY <2>5
  <2> DEFINE h == [k \in 0..m |-> IF k = m THEN step[g[m - 1]] ELSE g[k]]
  <2>7. h \in [0..m -> S]
    BY <2>4, <2>6
  <2>8. h[0] = a
    BY <2>4, <2>6
  <2>9. ASSUME NEW k \in 1..m PROVE h[k] = step[h[k - 1]]
    <3>1. k - 1 \in 0..(m - 1) /\ k \in 0..m /\ k - 1 \in 0..m /\ k - 1 # m
      BY <2>4
    <3>2. h[k - 1] = g[k - 1]
      BY <3>1
    <3>3. CASE k = m
      BY <3>1, <3>2, <3>3
    <3>4. CASE k # m
      BY <2>6, <3>1, <3>2, <3>4
    <3> QED BY <3>3, <3>4
  <2> HIDE DEF h
  <2>10. Good(m)
    BY <2>7, <2>8, <2>9
  <2> QED BY <2>2, <2>10
<1> QED BY <1>1, <1>2

\* The loop of DetailRows, after depth turns.
WalkDef(w, head, limit, down) ==
    w = [depth \in 0..limit |->
           IF depth = 0 THEN <<>> ELSE Turn(head, w[depth - 1], down)]

LEMMA WalkExists ==
    ASSUME Len(store) \in Nat, NEW limit \in Nat, NEW down, NEW head \in 0..Len(store),
           \A h \in 1..Len(store) : store[h].prev \in 0..Len(store)
    PROVE  \E w : /\ WalkDef(w, head, limit, down)
                  /\ w[0] = <<>>
                  /\ \A k \in 1..limit : w[k] = Turn(head, w[k - 1], down)
                  /\ w[limit] = DetailRows(head, limit, down)
<1> DEFINE S == Seq(1..Len(store))
           step == [rows \in S |-> Turn(head, rows, down)]
<1>1. ASSUME NEW rows \in S PROVE Turn(head, rows, down) \in S
  <2>1. NextFrom(head, rows) \in 0..Len(store)
    <3>1. CASE rows = <<>>
      BY <3>1 DEF NextFrom
    <3>2. CASE rows # <<>>
      <4>1. Len(rows) \in 1..Len(rows)
        BY <3>2
      <4>2. rows[Len(rows)] \in 1..Len(store)
        BY <4>1
      <4> QED BY <3>2, <4>2 DEF NextFrom
    <3> QED BY <3>1, <3>2
  <2> DEFINE next == NextFrom(head, rows)
  <2>2. CASE next \in down \union {None}
    BY <2>2 DEF Turn
  <2>3. CASE next \notin down \union {None}
    <3>1. next \in 1..Len(store)
      BY <2>1, <2>3 DEF None
    <3> HIDE DEF next
    <3>2. Append(rows, next) \in S
      BY <3>1
    <3> QED BY <2>3, <3>2 DEF Turn, next
  <2> QED BY <2>2, <2>3
<1>2. step \in [S -> S] /\ <<>> \in S
  BY <1>1
<1> HIDE DEF S
<1>3. PICK g \in [0..limit -> S] : g[0] = <<>> /\ \A k \in 1..limit : g[k] = step[g[k - 1]]
  <2> HIDE DEF step
  <2> DEFINE P(T, a, f, n) ==
        \E g \in [0..n -> T] : g[0] = a /\ \A k \in 1..n : g[k] = f[g[k - 1]]
  <2>1. \A T : \A a \in T : \A f \in [T -> T] : \A n \in Nat : P(T, a, f, n)
    BY Iterates
  <2>2. P(S, <<>>, step, limit)
    <3> HIDE DEF P
    <3> QED BY <1>2, <2>1
  <2> QED BY <2>2
<1>4. ASSUME NEW k \in 1..limit PROVE g[k] = Turn(head, g[k - 1], down)
  <2>1. k - 1 \in 0..limit
    OBVIOUS
  <2>2. g[k - 1] \in S
    BY <2>1
  <2> QED BY <1>3, <2>2
<1>5. \E w : WalkDef(w, head, limit, down)
  <2> HIDE DEF step
  <2>1. ASSUME NEW k \in 0..limit
        PROVE  g[k] = IF k = 0 THEN <<>> ELSE Turn(head, g[k - 1], down)
    BY <1>3, <1>4
  <2>2. g = [depth \in 0..limit |->
           IF depth = 0 THEN <<>> ELSE Turn(head, g[depth - 1], down)]
    BY <1>3, <2>1, Zenon
  <2> QED BY <2>2 DEF WalkDef
<1> DEFINE walk == CHOOSE w : WalkDef(w, head, limit, down)
<1>6. WalkDef(walk, head, limit, down)
  BY <1>5
<1>7. walk[limit] = DetailRows(head, limit, down)
  BY DEF DetailRows, WalkDef
<1> HIDE DEF walk
<1>8. walk[0] = <<>> /\ \A k \in 1..limit : walk[k] = Turn(head, walk[k - 1], down)
  BY <1>6 DEF WalkDef
<1> QED BY <1>6, <1>7, <1>8

\* What a loop collects, said without the loop: from the head on, each reference is
\* the previous one's prev, as far as the limit and Bee allow.
IsWalk(rows, head, limit, down) ==
    /\ rows \in Seq(1..Len(store))
    /\ Len(rows) <= limit
    /\ \A i \in 1..Len(rows) :
         /\ rows[i] \notin down
         /\ rows[i] = IF i = 1 THEN head ELSE store[rows[i - 1]].prev
    /\ Len(rows) < limit => NextFrom(head, rows) \in down \union {None}

\* One turn more.
LEMMA TurnIsWalk ==
    ASSUME Len(store) \in Nat, NEW limit \in Nat, NEW down, NEW head \in 0..Len(store),
           \A h \in 1..Len(store) : store[h].prev \in 0..Len(store),
           NEW rows, IsWalk(rows, head, limit, down)
    PROVE  IsWalk(Turn(head, rows, down), head, limit + 1, down)
<1> DEFINE next == NextFrom(head, rows)
<1>1. rows \in Seq(1..Len(store)) /\ Len(rows) \in Nat /\ Len(rows) <= limit
  BY DEF IsWalk
<1>2. next \in 0..Len(store)
  <2>1. CASE rows = <<>>
    BY <2>1 DEF NextFrom
  <2>2. CASE rows # <<>>
    <3>1. rows[Len(rows)] \in 1..Len(store)
      BY <1>1, <2>2
    <3> QED BY <2>2, <3>1 DEF NextFrom
  <2> QED BY <2>1, <2>2
<1>3. CASE next \in down \union {None}
  <2>1. Turn(head, rows, down) = rows
    BY <1>3 DEF Turn
  <2> QED BY <1>1, <1>3, <2>1 DEF IsWalk
<1>4. CASE next \notin down \union {None}
  <2>1. Turn(head, rows, down) = Append(rows, next)
    BY <1>4 DEF Turn
  <2>2. Len(rows) = limit
    BY <1>1, <1>4 DEF IsWalk
  <2>3. next \in 1..Len(store)
    BY <1>2, <1>4 DEF None
  <2>4. next = IF rows = <<>> THEN head ELSE store[rows[Len(rows)]].prev
    BY DEF NextFrom
  <2>5. rows = <<>> <=> Len(rows) = 0
    BY <1>1
  <2> HIDE DEF next
  <2> DEFINE more == Append(rows, next)
  <2>6. /\ more \in Seq(1..Len(store)) /\ Len(more) = limit + 1
        /\ more[limit + 1] = next
        /\ \A i \in 1..limit : more[i] = rows[i]
    BY <1>1, <2>2, <2>3
  <2>7. ASSUME NEW i \in 1..Len(more)
        PROVE  /\ more[i] \notin down
               /\ more[i] = IF i = 1 THEN head ELSE store[more[i - 1]].prev
    <3> HIDE DEF more
    <3>1. CASE i \in 1..limit
      <4>1. i = 1 \/ i - 1 \in 1..limit
        BY <3>1
      <4> QED BY <2>2, <2>6, <3>1, <4>1 DEF IsWalk
    <3>2. CASE i = limit + 1
      <4>1. i = 1 \/ (i - 1 = Len(rows) /\ i - 1 \in 1..limit /\ rows # <<>>)
        BY <2>2, <2>5, <3>2
      <4>2. i = 1 => more[i] = head
        BY <2>2, <2>4, <2>5, <2>6, <3>2
      <4> QED BY <1>4, <2>2, <2>4, <2>5, <2>6, <3>2, <4>1, <4>2
    <3> QED BY <2>6, <3>1, <3>2
  <2> HIDE DEF more
  <2>8. IsWalk(more, head, limit + 1, down)
    BY <2>6, <2>7 DEF IsWalk
  <2> QED BY <2>1, <2>8 DEF more
<1> QED BY <1>3, <1>4

LEMMA WalkIsWalk ==
    ASSUME Len(store) \in Nat, NEW limit \in Nat, NEW down, NEW head \in 0..Len(store),
           \A h \in 1..Len(store) : store[h].prev \in 0..Len(store)
    PROVE  IsWalk(DetailRows(head, limit, down), head, limit, down)
<1>1. PICK w : /\ w[0] = <<>>
               /\ \A k \in 1..limit : w[k] = Turn(head, w[k - 1], down)
               /\ w[limit] = DetailRows(head, limit, down)
  BY WalkExists
<1> DEFINE T == {k \in Nat : k <= limit => IsWalk(w[k], head, k, down)}
<1>2. 0 \in T
  <2>1. NextFrom(head, <<>>) = head /\ Len(<<>>) = 0 /\ <<>> \in Seq(1..Len(store))
    BY DEF NextFrom
  <2>2. IsWalk(<<>>, head, 0, down)
    BY <2>1 DEF IsWalk
  <2> QED BY <1>1, <2>2
<1>3. ASSUME NEW k \in Nat, k \in T PROVE k + 1 \in T
  <2>1. CASE k + 1 <= limit
    <3>1. w[k + 1] = Turn(head, w[k], down)
      BY <1>1, <2>1
    <3>2. IsWalk(w[k], head, k, down)
      BY <1>3, <2>1
    <3>3. IsWalk(Turn(head, w[k], down), head, k + 1, down)
      BY <3>2, TurnIsWalk
    <3> QED BY <3>1, <3>3
  <2>2. CASE ~(k + 1 <= limit)
    BY <2>2
  <2> QED BY <2>1, <2>2
<1>4. limit \in T
  <2> HIDE DEF T
  <2> QED BY <1>2, <1>3, Induction
<1>5. IsWalk(w[limit], head, limit, down)
  BY <1>4
<1>6. w[limit] = DetailRows(head, limit, down)
  BY <1>1
<1> HIDE DEF T
<1> QED BY <1>5, <1>6, Zenon

-----------------------------------------------------------------------------
\* The history loop.

ChainDef(chain) ==
    chain = [h \in 0..Len(store) |->
               IF h = None THEN {} ELSE {h} \union chain[store[h].prev]]

\* The recursion over the store has a solution: of a reference, everything that no set
\* closed under prev can leave out.
LEMMA ChainExists ==
    ASSUME Len(store) \in Nat, \A h \in 1..Len(store) : store[h].prev \in 0..Len(store)
    PROVE  \E chain : ChainDef(chain)
<1> DEFINE Refs == 1..Len(store)
           Closed(S) == \A g \in S : store[g].prev # None => store[g].prev \in S
           From(h) == {k \in Refs : \A S \in SUBSET Refs : Closed(S) /\ h \in S => k \in S}
           chain == [h \in 0..Len(store) |-> IF h = None THEN {} ELSE From(h)]
<1>1. ASSUME NEW h \in 0..Len(store), h # None
      PROVE  From(h) = {h} \union chain[store[h].prev]
  <2>1. h \in Refs /\ store[h].prev \in 0..Len(store)
    BY <1>1 DEF None
  <2> DEFINE rest == chain[store[h].prev]
  <2>2. rest = IF store[h].prev = None THEN {} ELSE From(store[h].prev)
    BY <2>1
  <2>3. rest \subseteq Refs
    <3> HIDE DEF rest, chain
    <3>1. From(store[h].prev) \subseteq Refs
      OBVIOUS
    <3> HIDE DEF From
    <3> QED BY <2>2, <3>1
  <2>4. Closed({h} \union rest)
    <3>1. store[h].prev # None => store[h].prev \in rest
      <4>1. store[h].prev # None => store[h].prev \in Refs
        BY <2>1 DEF None
      <4> QED BY <2>2, <4>1
    <3>2. ASSUME NEW g \in rest, store[g].prev # None
          PROVE  store[g].prev \in rest
      <4> HIDE DEF rest, chain
      <4>1. rest = From(store[h].prev)
        <5> HIDE DEF From
        <5> QED BY <2>2, <3>2
      <4>2. store[g].prev \in Refs
        <5> HIDE DEF From, Closed
        <5>1. g \in Refs
          BY <2>3
        <5> QED BY <3>2, <5>1 DEF None
      <4>3. ASSUME NEW S \in SUBSET Refs, Closed(S), store[h].prev \in S
            PROVE  store[g].prev \in S
        <5>1. g \in From(store[h].prev)
          BY <3>2, <4>1
        <5>2. g \in S
          <6> HIDE DEF Closed
          <6> QED BY <4>3, <5>1
        <5> QED BY <3>2, <4>3, <5>2
      <4>4. store[g].prev \in From(store[h].prev)
        <5> HIDE DEF Closed
        <5> QED BY <4>2, <4>3
      <4> QED BY <4>1, <4>4
    <3> QED BY <3>1, <3>2
  <2>5. From(h) \subseteq {h} \union rest
    <3>1. {h} \union rest \in SUBSET Refs
      BY <2>1, <2>3
    <3> HIDE DEF rest
    <3> QED BY <2>4, <3>1
  <2>6. h \in From(h)
    BY <2>1
  <2>7. ASSUME NEW k \in rest
        PROVE  k \in From(h)
    <3>1. store[h].prev # None /\ k \in From(store[h].prev)
      BY <2>2, <2>7
    <3>2. ASSUME NEW S \in SUBSET Refs, Closed(S), h \in S
          PROVE  k \in S
      BY <3>1, <3>2
    <3> QED BY <3>1, <3>2
  <2> HIDE DEF From, rest
  <2> QED BY <2>5, <2>6, <2>7 DEF rest
<1>2. ASSUME NEW h \in 0..Len(store)
      PROVE  chain[h] = IF h = None THEN {} ELSE {h} \union chain[store[h].prev]
  BY <1>1
<1>3. chain = [h \in 0..Len(store) |-> IF h = None THEN {} ELSE {h} \union chain[store[h].prev]]
  <2>1. chain = [h \in 0..Len(store) |-> chain[h]]
    OBVIOUS
  <2> HIDE DEF chain
  <2> QED BY <1>2, <2>1, Zenon
<1> HIDE DEF chain
<1> QED BY <1>3 DEF ChainDef

\* What the history loop collects, one reference at a time.
LEMMA ChainUnfolds ==
    ASSUME Len(store) \in Nat, \A h \in 1..Len(store) : store[h].prev \in 0..Len(store),
           NEW h \in 0..Len(store)
    PROVE  ChainFrom(h) = IF h = None THEN {} ELSE {h} \union ChainFrom(store[h].prev)
<1> DEFINE chain == CHOOSE c : ChainDef(c)
<1>1. ChainDef(chain)
  BY ChainExists
<1>2. \A k : ChainFrom(k) = chain[k]
  BY DEF ChainFrom, ChainDef
<1> HIDE DEF chain
<1>3. chain[h] = IF h = None THEN {} ELSE {h} \union chain[store[h].prev]
  BY <1>1 DEF ChainDef
<1> QED BY <1>2, <1>3

-----------------------------------------------------------------------------
\* m is the last of A, or there is none.
Top(m, A) == IF A = {} THEN m = None ELSE m \in A /\ \A g \in A : g <= m
Earlier(h, A) == {g \in A : g < h}

\* From the head, and from each of its members, prev leads to the next older one.
Chained(head, A) == Top(head, A) /\ \A h \in A : Top(store[h].prev, Earlier(h, A))

\* A chained set is what the loop collects from its head.
LEMMA ChainedIsChain ==
    ASSUME Len(store) \in Nat, \A h \in 1..Len(store) : store[h].prev \in 0..Len(store),
           NEW A \in SUBSET (1..Len(store)), NEW head, Chained(head, A)
    PROVE  ChainFrom(head) = A
<1> DEFINE UpTo(h) == {g \in A : g <= h}
           T == {h \in A : ChainFrom(h) # UpTo(h)}
<1>0. \A h \in A : h \in 1..Len(store) /\ h \in Nat
  OBVIOUS
<1>1. T = {}
  <2> SUFFICES ASSUME T # {} PROVE FALSE
    OBVIOUS
  <2>1. PICK h \in T : \A g \in T : h <= g
    <3>1. T \in SUBSET Nat
      BY <1>0
    <3> HIDE DEF T
    <3> QED BY <3>1, Least
  <2>2. h \in A /\ h \in 1..Len(store) /\ h \in 0..Len(store) /\ h # None
    BY <2>1 DEF None
  <2>3. ChainFrom(h) = {h} \union ChainFrom(store[h].prev)
    BY <2>2, ChainUnfolds
  <2>4. Top(store[h].prev, Earlier(h, A))
    BY <2>2 DEF Chained
  <2>5. CASE Earlier(h, A) = {}
    <3>1. store[h].prev = None /\ None \in 0..Len(store)
      BY <2>4, <2>5 DEF Top, None
    <3>2. ChainFrom(store[h].prev) = {}
      BY <3>1, ChainUnfolds
    <3>3. UpTo(h) = {h}
      <4>1. \A g \in A : ~(g < h)
        BY <2>5 DEF Earlier
      <4>2. \A g \in A : g <= h <=> g = h
        BY <1>0, <2>2, <4>1
      <4> QED BY <2>2, <4>2
    <3> QED BY <2>1, <2>3, <3>2, <3>3
  <2>6. CASE Earlier(h, A) # {}
    <3> DEFINE p == store[h].prev
    <3>1. p \in A /\ p < h /\ \A g \in A : g < h => g <= p
      BY <2>4, <2>6 DEF Top, Earlier
    <3>2. p \notin T
      <4> HIDE DEF T, p
      <4>1. p \in Int /\ h \in Int
        BY <2>2, <3>1
      <4> QED BY <2>1, <3>1, <4>1
    <3>3. ChainFrom(p) = UpTo(p)
      BY <3>1, <3>2
    <3>4. UpTo(h) = {h} \union UpTo(p)
      <4> HIDE DEF p
      <4>1. \A g \in A : g \in Int
        OBVIOUS
      <4>2. \A g \in A : g <= h <=> (g = h \/ g <= p)
        BY <2>2, <3>1, <4>1
      <4> QED BY <2>2, <4>2
    <3> QED BY <2>1, <2>3, <3>3, <3>4
  <2> QED BY <2>5, <2>6
<1>2. CASE A = {}
  <2>1. head = None /\ None \in 0..Len(store)
    BY <1>2 DEF Chained, Top, None
  <2> QED BY <1>2, <2>1, ChainUnfolds
<1>3. CASE A # {}
  <2>1. head \in A /\ \A g \in A : g <= head
    BY <1>3 DEF Chained, Top
  <2>2. ChainFrom(head) = UpTo(head)
    BY <1>1, <2>1
  <2> QED BY <2>1, <2>2
<1> QED BY <1>2, <1>3

-----------------------------------------------------------------------------
\* The history of a device whose requests do not overlap.

\* A device whose requests do not overlap has its links chained, newest first.
ChainedUp ==
    \A d \in Devices \ raced : index[d].registered => Chained(index[d].latest, linked[d])

\* What a handler has read of such a device is still so when it writes the link.
Reads == {"judge", "note", "upload", "link"}

ReadsAreCurrent ==
    \A p \in Packets : req[p].pc \in Reads /\ req[p].dev \notin raced =>
        req[p].entry.latest = index[req[p].dev].latest

\* The record about to be linked follows the head, and is newer than what is linked.
Follows(p) ==
    /\ store[req[p].hash].prev = index[req[p].dev].latest
    /\ \A g \in linked[req[p].dev] : g < req[p].hash

LinksAreNext ==
    \A p \in Packets : req[p].pc = "link" /\ req[p].dev \notin raced => Follows(p)

ChainInv == ChainedUp /\ ReadsAreCurrent /\ LinksAreNext

LEMMA InitChain == Init => ChainInv
<1> SUFFICES ASSUME Init PROVE ChainInv
  OBVIOUS
<1>1. /\ \A d \in Devices : ~index[d].registered
      /\ \A p \in Packets : req[p].pc = "none"
  BY DEF Init, Absent, Fresh
<1> QED
  BY <1>1 DEF ChainInv, ChainedUp, ReadsAreCurrent, Reads, LinksAreNext

LEMMA ReadsAreCurrentStep ==
    ASSUME IngestInv, ChainInv, [Next]_vars, NEW q \in Packets,
           req'[q].pc \in Reads, req'[q].dev \notin raced'
    PROVE  req'[q].entry.latest = index'[req'[q].dev].latest
<1>1. /\ Typed /\ Registered
      /\ \A p \in Packets : req[p].pc # "none" => req[p].dev \in Devices
  BY Begun DEF IngestInv
<1>2. req[q].pc \in Reads /\ req[q].dev \notin raced =>
        /\ req[q].entry.latest = index[req[q].dev].latest
        /\ index[req[q].dev].registered
  BY DEF IngestInv, ChainInv, ReadsAreCurrent, Registered, Reads, Past
<1>3. \A p \in Packets :
         req[q].pc \in Reads /\ InFlight(p) /\ req[p].dev = req[q].dev /\ req[q].dev \notin raced => p = q
  BY DEF IngestInv, OneAtATime, InFlight, Finished, Reads
<1>4. ASSUME NEW p \in Packets, NEW e \in Devices, NEW r \in Readings, Arrive(p, e, r)
      PROVE  req'[q].entry.latest = index'[req'[q].dev].latest
  BY <1>1, <1>2, <1>3, <1>4, ArriveFacts DEF InFlight, Finished, BusyOn, Reads
<1>5. ASSUME NEW p \in Packets, req[p].pc \in {"register", "adopt", "lookup"}, Rejects(p)
      PROVE  req'[q].entry.latest = index'[req'[q].dev].latest
  BY <1>1, <1>2, <1>3, <1>5, RejectFacts DEF InFlight, Finished, BusyOn, Reads
<1>6. ASSUME NEW p \in Packets, CheckRegistered(p), ~Rejects(p)
      PROVE  req'[q].entry.latest = index'[req'[q].dev].latest
  BY <1>1, <1>2, <1>3, <1>6, CheckFacts DEF InFlight, Finished, BusyOn, Reads
<1>7. ASSUME NEW p \in Packets, Adopt(p), ~Rejects(p)
      PROVE  req'[q].entry.latest = index'[req'[q].dev].latest
  BY <1>1, <1>2, <1>3, <1>7, AdoptFacts DEF InFlight, Finished, BusyOn, Reads, Registers
<1>8. ASSUME NEW p \in Packets, Lookup(p), ~Rejects(p)
      PROVE  req'[q].entry.latest = index'[req'[q].dev].latest
  BY <1>1, <1>2, <1>8, LookupFacts DEF Reads
<1>9. ASSUME NEW p \in Packets, Judge(p)
      PROVE  req'[q].entry.latest = index'[req'[q].dev].latest
  BY <1>1, <1>2, <1>9, JudgeFacts DEF Reads
<1>10. ASSUME NEW p \in Packets, Note(p)
      PROVE  req'[q].entry.latest = index'[req'[q].dev].latest
  BY <1>1, <1>2, <1>3, <1>10, NoteFacts, MovedFacts DEF InFlight, Finished, BusyOn, Reads
<1>11. ASSUME NEW p \in Packets, Upload(p)
      PROVE  req'[q].entry.latest = index'[req'[q].dev].latest
  BY <1>1, <1>2, <1>3, <1>11, UploadFacts DEF InFlight, Finished, BusyOn, Reads
<1>12. ASSUME NEW p \in Packets, Link(p)
      PROVE  req'[q].entry.latest = index'[req'[q].dev].latest
  BY <1>1, <1>2, <1>3, <1>12, LinkFacts, MovedFacts DEF InFlight, Finished, BusyOn, Reads
<1>13. ASSUME NEW p \in Packets, Finish(p)
      PROVE  req'[q].entry.latest = index'[req'[q].dev].latest
  BY <1>1, <1>2, <1>3, <1>13, FinishFacts DEF InFlight, Finished, BusyOn, Reads
<1>14. ASSUME NEW p \in Packets, RunTask(p)
      PROVE  req'[q].entry.latest = index'[req'[q].dev].latest
  BY <1>1, <1>2, <1>3, <1>14 DEF InFlight, Finished, BusyOn, Reads, RunTask
<1>15. ASSUME NEW e \in Devices, NEW c \in Packages, CreatePackage(e, c), ~Idle
      PROVE  req'[q].entry.latest = index'[req'[q].dev].latest
  BY <1>1, <1>2, <1>3, <1>15, CreateFacts DEF InFlight, Finished, BusyOn, Reads, Registers
<1>16. CASE Restart
  BY <1>1, <1>2, <1>3, <1>16, RestartFacts DEF InFlight, Finished, BusyOn, Reads
<1>17. CASE Idle
  BY <1>1, <1>2, <1>3, <1>17 DEF InFlight, Finished, BusyOn, Reads, Idle
<1> QED
  BY <1>4, <1>5, <1>6, <1>7, <1>8, <1>9, <1>10, <1>11,
     <1>12, <1>13, <1>14, <1>15, <1>16, <1>17, Actions

\* The record that the upload adds.
LEMMA LinksAreNextStep ==
    ASSUME IngestInv, ChainInv, [Next]_vars, NEW q \in Packets,
           req'[q].pc = "link", req'[q].dev \notin raced'
    PROVE  Follows(q)'
<1>1. /\ Typed /\ Registered
      /\ \A p \in Packets : req[p].pc # "none" => req[p].dev \in Devices
      /\ \A h \in 1..Len(store) : store'[h] = store[h]
      /\ Len(store) \in Nat /\ store \in Seq(Records)
  BY Begun, StoreGrows DEF IngestInv, Typed
<1>2. req[q].pc = "link" /\ req[q].dev \notin raced =>
        /\ Follows(q) /\ index[req[q].dev].registered /\ req[q].dev \in Devices
        /\ req[q].hash \in 1..Len(store) /\ store'[req[q].hash] = store[req[q].hash]
  <2>1. req[q].pc = "link" => req[q].hash \in 1..Len(store) /\ index[req[q].dev].registered
    <3>1. req[q].pc = "link" => req[q].hash \in 0..Len(store) /\ req[q].hash # None
      BY <1>1, Begun DEF IngestInv, HashesMatch, Matches
    <3> QED BY <1>1, <3>1 DEF None, Registered, Past
  <2> QED BY <1>1, <2>1 DEF ChainInv, LinksAreNext
<1>3. \A p \in Packets :
         req[q].pc = "link" /\ InFlight(p) /\ req[p].dev = req[q].dev /\ req[q].dev \notin raced => p = q
  BY DEF IngestInv, OneAtATime, InFlight, Finished
<1>4. ASSUME NEW p \in Packets, Link(p)
      PROVE  linked' = linked \/ linked' = [linked EXCEPT ![req[p].dev] = @ \union {req[p].hash}]
  BY <1>1, <1>4, LinkFacts
<1>5. ASSUME NEW p \in Packets, NEW e \in Devices, NEW r \in Readings, Arrive(p, e, r)
      PROVE  Follows(q)'
  BY <1>1, <1>2, <1>3, <1>5, ArriveFacts DEF InFlight, Finished, BusyOn, Follows
<1>6. ASSUME NEW p \in Packets, req[p].pc \in {"register", "adopt", "lookup"}, Rejects(p)
      PROVE  Follows(q)'
  BY <1>1, <1>2, <1>3, <1>6, RejectFacts DEF InFlight, Finished, BusyOn, Follows
<1>7. ASSUME NEW p \in Packets, CheckRegistered(p), ~Rejects(p)
      PROVE  Follows(q)'
  BY <1>1, <1>2, <1>3, <1>7, CheckFacts DEF InFlight, Finished, BusyOn, Follows
<1>8. ASSUME NEW p \in Packets, Adopt(p), ~Rejects(p)
      PROVE  Follows(q)'
  <2>1. linked' = [linked EXCEPT ![req[p].dev] = {}]
    BY <1>1, <1>8, AdoptFacts
  <2>2. req[p].pc = "adopt" /\ InFlight(p)
    BY <1>1, <1>8, AdoptFacts DEF InFlight, Finished
  <2>3. q # p /\ req'[q] = req[q] /\ raced' = raced /\ store' = store
    BY <1>1, <1>8, <2>2, AdoptFacts
  <2>4. req[p].dev # req[q].dev
    BY <1>3, <2>2, <2>3
  <2>5. index'[req[q].dev] = index[req[q].dev] /\ linked'[req[q].dev] = linked[req[q].dev]
    BY <1>1, <1>2, <1>8, <2>1, <2>3, <2>4, AdoptFacts DEF Registers, Typed
  <2> QED BY <1>2, <2>3, <2>5 DEF Follows
<1>9. ASSUME NEW p \in Packets, Lookup(p), ~Rejects(p)
      PROVE  Follows(q)'
  BY <1>1, <1>2, <1>3, <1>9, LookupFacts DEF InFlight, Finished, BusyOn, Follows
<1>10. ASSUME NEW p \in Packets, Judge(p)
      PROVE  Follows(q)'
  BY <1>1, <1>2, <1>3, <1>10, JudgeFacts DEF InFlight, Finished, BusyOn, Follows
<1>11. ASSUME NEW p \in Packets, Note(p)
      PROVE  Follows(q)'
  BY <1>1, <1>2, <1>3, <1>11, NoteFacts, MovedFacts DEF InFlight, Finished, BusyOn, Follows
<1>12. ASSUME NEW p \in Packets, Upload(p)
      PROVE  Follows(q)'
  <2>1. req'[q].pc = "link" /\ req'[q].dev = req[q].dev /\ index' = index /\ linked' = linked
    BY <1>1, <1>12, UploadFacts
  <2>2. CASE q # p
    <3>1. req'[q] = req[q] /\ raced' = raced
      BY <1>1, <1>12, <2>2, UploadFacts
    <3> QED BY <1>2, <2>1, <3>1 DEF Follows
  <2>3. CASE q = p
    <3>1. /\ store' = Append(store, Record(q)) /\ req'[q].hash = Len(store) + 1
          /\ Record(q) \in Records /\ req[q].pc = "upload" /\ raced' = raced
          /\ req[q].dev \in Devices
      BY <1>1, <1>12, <2>3, UploadFacts
    <3>2. store'[Len(store) + 1] = Record(q)
      BY <1>1, <3>1
    <3>3. Record(q).prev = index[req[q].dev].latest
      BY <2>1, <3>1 DEF Record, Prev, ChainInv, ReadsAreCurrent, Reads
    <3>4. \A g \in linked[req[q].dev] : g < Len(store) + 1
      BY <1>1, <3>1 DEF Typed
    <3> QED BY <2>1, <3>1, <3>2, <3>3, <3>4 DEF Follows
  <2> QED BY <2>2, <2>3
<1>13. ASSUME NEW p \in Packets, Link(p)
      PROVE  Follows(q)'
  <2>1. req[p].pc = "link" /\ InFlight(p)
    BY <1>1, <1>13, LinkFacts DEF InFlight, Finished
  <2>2. q # p /\ req'[q] = req[q] /\ raced' = raced /\ store' = store
    BY <1>1, <1>13, <2>1, LinkFacts, MovedFacts
  <2>3. req[p].dev # req[q].dev
    BY <1>3, <2>1, <2>2
  <2>4. index'[req[q].dev] = index[req[q].dev] /\ linked'[req[q].dev] = linked[req[q].dev]
    BY <1>1, <1>2, <1>4, <1>13, <2>2, <2>3, LinkFacts DEF Typed
  <2> QED BY <1>2, <2>2, <2>4 DEF Follows
<1>14. ASSUME NEW p \in Packets, Finish(p)
      PROVE  Follows(q)'
  BY <1>1, <1>2, <1>3, <1>14, FinishFacts DEF InFlight, Finished, BusyOn, Follows
<1>15. ASSUME NEW p \in Packets, RunTask(p)
      PROVE  Follows(q)'
  BY <1>1, <1>2, <1>3, <1>15 DEF InFlight, Finished, BusyOn, Follows, RunTask
<1>16. ASSUME NEW e \in Devices, NEW c \in Packages, CreatePackage(e, c), ~Idle
      PROVE  Follows(q)'
  <2>1. linked' = [linked EXCEPT ![e] = {}]
    BY <1>1, <1>16, CreateFacts
  <2>2. req' = req /\ store' = store /\ raced \subseteq raced' /\ (BusyOn(e) # {} => e \in raced')
    BY <1>1, <1>16, CreateFacts
  <2>3. e # req[q].dev
    BY <2>2 DEF BusyOn, InFlight, Finished
  <2>4. /\ req[q].pc = "link" /\ req[q].dev \in Devices /\ req[q].dev \notin raced
        /\ \A g \in Devices \ {e} : index'[g] = index[g]
        /\ linked \in [Devices -> SUBSET (1..Len(store))]
    BY <1>1, <1>2, <1>16, <2>2, CreateFacts DEF Registers, Typed
  <2>5. index'[req[q].dev] = index[req[q].dev] /\ linked'[req[q].dev] = linked[req[q].dev]
    BY <2>1, <2>3, <2>4
  <2> QED BY <1>2, <2>2, <2>4, <2>5 DEF Follows
<1>17. CASE Restart
  BY <1>1, <1>2, <1>3, <1>17, RestartFacts DEF InFlight, Finished, BusyOn, Follows
<1>18. CASE Idle
  BY <1>1, <1>2, <1>3, <1>18 DEF InFlight, Finished, BusyOn, Follows, Idle
<1> QED
  BY <1>5, <1>6, <1>7, <1>8, <1>9, <1>10, <1>11, <1>12,
     <1>13, <1>14, <1>15, <1>16, <1>17, <1>18, Actions

LEMMA ChainedFrame ==
    ASSUME IngestInv, ChainInv, [Next]_vars, NEW d \in Devices, d \notin raced,
           index[d].registered, index'[d].latest = index[d].latest, linked'[d] = linked[d]
    PROVE  Chained(index[d].latest, linked[d])'
<1>1. /\ Chained(index[d].latest, linked[d])
      /\ linked[d] \subseteq 1..Len(store)
      /\ \A h \in 1..Len(store) : store'[h] = store[h]
  BY StoreGrows DEF IngestInv, Typed, ChainInv, ChainedUp
<1> QED
  BY <1>1 DEF Chained

LEMMA ChainedEmpty ==
    ASSUME NEW d \in Devices, index'[d].latest = None, linked'[d] = {}
    PROVE  Chained(index[d].latest, linked[d])'
BY DEF Chained, Top

\* The write of the link makes the new record the head.
LEMMA ChainedLink ==
    ASSUME IngestInv, ChainInv, [Next]_vars, NEW p \in Packets, Link(p),
           NEW d \in Devices, d = req[p].dev, d \notin raced,
           index'[d].latest = req[p].hash, linked'[d] = linked[d] \union {req[p].hash}
    PROVE  Chained(index[d].latest, linked[d])'
<1> DEFINE h == req[p].hash
           old == linked[d]
<1>1. /\ Typed /\ Registered /\ req[p].pc = "link" /\ d \in Devices
      /\ index'[d].latest = h /\ store' = store
      /\ index[d].registered
  BY LinkFacts DEF IngestInv, Registered, Past
<1>2. linked'[d] = old \union {h}
  OBVIOUS
<1>3. h \in 1..Len(store) /\ old \subseteq 1..Len(store)
  <2>1. h \in 0..Len(store) /\ h # None
    BY <1>1, Begun DEF IngestInv, HashesMatch, Matches
  <2> QED BY <1>1, <2>1 DEF None, Typed
<1>4. store[h].prev = index[d].latest /\ \A g \in old : g < h
  BY <1>1 DEF ChainInv, LinksAreNext, Follows
<1>5. Top(index[d].latest, old) /\ \A g \in old : Top(store[g].prev, Earlier(g, old))
  BY <1>1 DEF ChainInv, ChainedUp, Chained
<1> HIDE DEF h, old
<1>6. \A g \in old \union {h} : g \in Nat
  BY <1>1, <1>3 DEF Typed
<1>7. Top(h, old \union {h})
  BY <1>4, <1>6 DEF Top
<1>8. Earlier(h, old \union {h}) = old
  BY <1>4, <1>6 DEF Earlier
<1>9. ASSUME NEW g \in old PROVE Earlier(g, old \union {h}) = Earlier(g, old)
  BY <1>4, <1>6 DEF Earlier
<1>10. \A g \in old \union {h} : Top(store[g].prev, Earlier(g, old \union {h}))
  BY <1>4, <1>5, <1>8, <1>9
<1>11. Chained(h, old \union {h}) /\ store' = store
  BY <1>1, <1>7, <1>10 DEF Chained
<1>12. index'[d].latest = h /\ linked'[d] = old \union {h}
  BY <1>1, <1>2
<1> QED
  BY <1>11, <1>12 DEF Chained

LEMMA ChainedUpStep ==
    ASSUME IngestInv, ChainInv, [Next]_vars
    PROVE  ChainedUp'
<1> SUFFICES ASSUME NEW d \in Devices, d \notin raced', index'[d].registered
             PROVE  Chained(index[d].latest, linked[d])'
  BY DEF ChainedUp
<1>1. Typed /\ Registered
  BY DEF IngestInv
<1>2. ASSUME NEW p \in Packets, Adopt(p), ~Rejects(p)
      PROVE  Chained(index[d].latest, linked[d])'
  <2>1. /\ Registers(req[p].dev, Default) /\ raced' = raced /\ req[p].dev \in Devices
        /\ linked' = [linked EXCEPT ![req[p].dev] = {}]
    BY <1>1, <1>2, AdoptFacts
  <2>2. CASE d = req[p].dev
    BY <1>1, <2>1, <2>2, ChainedEmpty DEF Registers, Typed
  <2>3. CASE d # req[p].dev
    BY <1>1, <2>1, <2>3, ChainedFrame DEF Registers, Typed
  <2> QED BY <2>2, <2>3
<1>3. ASSUME NEW e \in Devices, NEW c \in Packages, CreatePackage(e, c), ~Idle
      PROVE  Chained(index[d].latest, linked[d])'
  <2>1. /\ Registers(e, c) /\ raced \subseteq raced'
        /\ linked' = [linked EXCEPT ![e] = {}]
    BY <1>1, <1>3, CreateFacts
  <2>2. CASE d = e
    BY <1>1, <2>1, <2>2, ChainedEmpty DEF Registers, Typed
  <2>3. CASE d # e
    BY <1>1, <2>1, <2>3, ChainedFrame DEF Registers, Typed
  <2> QED BY <2>2, <2>3
<1>4. ASSUME NEW p \in Packets, Note(p)
      PROVE  Chained(index[d].latest, linked[d])'
  BY <1>1, <1>4, NoteFacts, ChainedFrame
<1>5. ASSUME NEW p \in Packets, Link(p)
      PROVE  Chained(index[d].latest, linked[d])'
  <2>1. /\ raced' = raced /\ req[p].dev \in Devices
        /\ d # req[p].dev => index'[d] = index[d]
        /\ index'[d].registered = index[d].registered
    BY <1>1, <1>5, LinkFacts
  <2>2. CASE index' = index /\ linked' = linked
    BY <1>1, <2>1, <2>2, ChainedFrame
  <2>3. CASE /\ index'[req[p].dev].latest = req[p].hash
             /\ linked' = [linked EXCEPT ![req[p].dev] = @ \union {req[p].hash}]
    <3>1. CASE d = req[p].dev
      <4>1. linked'[d] = linked[d] \union {req[p].hash}
        BY <1>1, <2>3, <3>1 DEF Typed
      <4> QED
        BY <1>5, <2>1, <2>3, <3>1, <4>1, ChainedLink
    <3>2. CASE d # req[p].dev
      <4>1. linked'[d] = linked[d]
        BY <1>1, <2>3, <3>2 DEF Typed
      <4> QED
        BY <1>1, <2>1, <3>2, <4>1, ChainedFrame
    <3> QED BY <3>1, <3>2
  <2> QED BY <1>1, <1>5, <2>2, <2>3, LinkFacts
<1>6. CASE UNCHANGED <<index, linked>> /\ raced \subseteq raced'
  BY <1>6, ChainedFrame
<1>7. ASSUME NEW p \in Packets, NEW e \in Devices, NEW r \in Readings, Arrive(p, e, r)
      PROVE  UNCHANGED <<index, linked>> /\ raced \subseteq raced'
  BY <1>1, <1>7, ArriveFacts
<1>8. \/ UNCHANGED <<index, linked>> /\ raced \subseteq raced'
      \/ \E p \in Packets : (Adopt(p) /\ ~Rejects(p)) \/ Note(p) \/ Link(p)
      \/ \E e \in Devices, c \in Packages : CreatePackage(e, c) /\ ~Idle
  BY <1>7, Actions DEF Rejects, CheckRegistered, ReadFails, Lookup, Judge, Upload, Finish,
     RunTask, Restart, Idle
<1> QED
  BY <1>2, <1>3, <1>4, <1>5, <1>6, <1>8

LEMMA SpecChain == Spec => [](IngestInv /\ ChainInv)
<1>1. Init => IngestInv /\ ChainInv
  BY InitInv, InitChain
<1>2. ASSUME IngestInv /\ ChainInv, [Next]_vars
      PROVE  (IngestInv /\ ChainInv)'
  <2>1. IngestInv' /\ ChainedUp'
    BY <1>2, NextInv, ChainedUpStep
  <2>2. ReadsAreCurrent'
    BY <1>2, ReadsAreCurrentStep DEF ReadsAreCurrent
  <2>3. LinksAreNext'
    BY <1>2, LinksAreNextStep DEF LinksAreNext
  <2> QED BY <2>1, <2>2, <2>3 DEF ChainInv
<1> QED
  BY <1>1, <1>2, PTL DEF Spec

LEMMA StoreIsLinked ==
    ASSUME Typed
    PROVE  Len(store) \in Nat /\ \A h \in 1..Len(store) : store[h].prev \in 0..Len(store)
BY DEF Typed

\* The history is what a registration's requests linked, neither less nor more: the
\* head each handler read at the start is the head it replaces at the end.
THEOREM SerialChainTheorem == Spec => []SerialChainExact
<1>1. ASSUME IngestInv, ChainInv PROVE SerialChainExact
  <2> SUFFICES ASSUME NEW d \in Devices \ raced, fileOK, index[d].registered
               PROVE  ChainFrom(index[d].latest) = linked[d]
    BY DEF SerialChainExact
  <2>1. Typed /\ linked[d] \in SUBSET (1..Len(store)) /\ Chained(index[d].latest, linked[d])
    BY <1>1 DEF IngestInv, Typed, ChainInv, ChainedUp
  <2> QED
    BY <2>1, StoreIsLinked, ChainedIsChain
<1> QED
  BY <1>1, SpecChain, PTL

-----------------------------------------------------------------------------
\* The readers.

\* Two walks from one head agree as far as both go, and one that leaves out nothing
\* goes as far as any walk that may not be longer.
LEMMA WalksAgree ==
    ASSUME Len(store) \in Nat, NEW head \in 0..Len(store),
           NEW l1 \in Nat, NEW down1, NEW rows1, IsWalk(rows1, head, l1, down1),
           NEW l2 \in Nat, NEW down2, NEW rows2, IsWalk(rows2, head, l2, down2)
    PROVE  \A i \in 1..Len(rows1) : i <= Len(rows2) => rows1[i] = rows2[i]
<1>1. Len(rows1) \in Nat /\ Len(rows2) \in Nat
  BY DEF IsWalk
<1> DEFINE T == {i \in Nat : i + 1 <= Len(rows1) /\ i + 1 <= Len(rows2) => rows1[i + 1] = rows2[i + 1]}
<1>2. 0 \in T
  BY <1>1 DEF IsWalk
<1>3. ASSUME NEW i \in Nat, i \in T PROVE i + 1 \in T
  <2> SUFFICES ASSUME i + 2 <= Len(rows1), i + 2 <= Len(rows2)
               PROVE  rows1[i + 2] = rows2[i + 2]
    BY <1>1
  <2>1. rows1[i + 1] = rows2[i + 1]
    BY <1>1, <1>3
  <2>2. i + 2 \in 1..Len(rows1) /\ i + 2 \in 1..Len(rows2) /\ i + 2 # 1 /\ (i + 2) - 1 = i + 1
    BY <1>1
  <2>3. rows1[i + 2] = store[rows1[(i + 2) - 1]].prev
    BY <2>2 DEF IsWalk
  <2>4. rows2[i + 2] = store[rows2[(i + 2) - 1]].prev
    BY <2>2 DEF IsWalk
  <2> QED
    BY <2>1, <2>2, <2>3, <2>4
<1>4. \A i \in Nat : i \in T
  <2> HIDE DEF T
  <2> QED BY <1>2, <1>3, Induction
<1>5. ASSUME NEW i \in 1..Len(rows1), i <= Len(rows2) PROVE rows1[i] = rows2[i]
  <2>1. i - 1 \in Nat /\ (i - 1) + 1 = i
    BY <1>1
  <2>2. i - 1 \in T
    <3> HIDE DEF T
    <3> QED BY <1>4, <2>1
  <2> QED BY <1>1, <1>5, <2>1, <2>2
<1> QED BY <1>5

LEMMA WalkGoesOn ==
    ASSUME Len(store) \in Nat, NEW head \in 0..Len(store),
           NEW l1 \in Nat, NEW down, NEW rows, IsWalk(rows, head, l1, down),
           NEW l2 \in Nat, NEW full, IsWalk(full, head, l2, {}),
           l1 <= l2 \/ NextFrom(head, full) = None
    PROVE  Len(rows) <= Len(full)
<1>1. /\ Len(rows) \in Nat /\ Len(full) \in Nat /\ Len(rows) <= l1 /\ Len(full) <= l2
      /\ rows \in Seq(1..Len(store)) /\ full \in Seq(1..Len(store))
  BY DEF IsWalk
<1> SUFFICES ASSUME Len(full) < Len(rows) PROVE FALSE
  BY <1>1
<1>2. NextFrom(head, full) = None
  BY <1>1 DEF IsWalk
<1> DEFINE n == Len(full)
<1>3. n + 1 \in 1..Len(rows) /\ rows[n + 1] \in 1..Len(store)
  BY <1>1
<1>4. CASE n = 0
  <2>1. rows[n + 1] = head /\ full = <<>>
    BY <1>1, <1>3, <1>4 DEF IsWalk
  <2> QED BY <1>2, <1>3, <2>1 DEF NextFrom, None
<1>5. CASE n # 0
  <2>1. n \in 1..Len(rows) /\ n <= Len(full) /\ full # <<>> /\ n + 1 # 1 /\ (n + 1) - 1 = n
    BY <1>1, <1>5
  <2>2. rows[n] = full[n]
    BY <2>1, WalksAgree
  <2>3. rows[n + 1] = store[rows[n]].prev
    BY <1>3, <2>1 DEF IsWalk
  <2>4. NextFrom(head, full) = store[full[n]].prev
    BY <2>1 DEF NextFrom
  <2> QED BY <1>2, <1>3, <2>2, <2>3, <2>4 DEF None
<1> QED BY <1>4, <1>5

\* As long as the store, a walk has come to its end: each record is older than the one
\* before.
LEMMA WalkEnds ==
    ASSUME Len(store) \in Nat, NEW head \in 0..Len(store),
           \A h \in 1..Len(store) :
              store[h].prev \in 0..Len(store) /\ (store[h].prev # None => store[h].prev < h),
           NEW full, IsWalk(full, head, Len(store), {})
    PROVE  NextFrom(head, full) = None
<1> DEFINE n == Len(store)
<1>1. full \in Seq(1..n) /\ Len(full) \in Nat /\ Len(full) <= n
  BY DEF IsWalk
<1>2. CASE Len(full) < n
  BY <1>1, <1>2 DEF IsWalk
<1>3. CASE Len(full) = n
  <2> DEFINE T == {i \in Nat : i + 1 <= n => full[i + 1] <= n - i}
  <2>1. 0 \in T
    BY <1>1, <1>3
  <2>2. ASSUME NEW i \in Nat, i \in T PROVE i + 1 \in T
    <3> SUFFICES ASSUME i + 2 <= n PROVE full[i + 2] <= n - (i + 1)
      BY <1>1
    <3>1. /\ full[i + 1] \in 1..n /\ full[i + 2] \in 1..n
          /\ full[i + 1] <= n - i
      <4>1. i + 1 \in 1..Len(full) /\ i + 2 \in 1..Len(full)
        BY <1>3
      <4> QED BY <1>1, <2>2, <4>1
    <3>2. i + 2 \in 1..Len(full) /\ i + 2 # 1 /\ (i + 2) - 1 = i + 1
      BY <1>3
    <3>3. full[i + 2] = store[full[i + 1]].prev
      BY <3>2 DEF IsWalk
    <3>4. full[i + 2] < full[i + 1]
      BY <3>1, <3>3 DEF None
    <3> QED BY <3>1, <3>4
  <2>3. \A i \in Nat : i \in T
    <3> HIDE DEF T
    <3> QED BY <2>1, <2>2, Induction
  <2>4. CASE n = 0
    BY <1>1, <1>3, <2>4 DEF NextFrom, None
  <2>5. CASE n # 0
    <3>1. n - 1 \in Nat /\ (n - 1) + 1 = n
      BY <2>5
    <3>2. n - 1 \in T
      <4> HIDE DEF T
      <4> QED BY <2>3, <3>1
    <3>3. full[n] <= 1 /\ full[n] \in 1..n /\ full # <<>>
      BY <1>1, <1>3, <2>5, <3>1, <3>2
    <3>4. store[full[n]].prev = None
      BY <3>3 DEF None
    <3> QED BY <1>3, <3>3, <3>4 DEF NextFrom
  <2> QED BY <2>4, <2>5
<1> QED BY <1>1, <1>2, <1>3

\* What every walk of the readers may rely on.
LEMMA Walkable ==
    ASSUME IngestInv
    PROVE  /\ Len(store) \in Nat
           /\ \A h \in 1..Len(store) :
                store[h].prev \in 0..Len(store) /\ (store[h].prev # None => store[h].prev < h)
           /\ \A d \in Devices : ChainHead(d) \in 0..Len(store)
<1>1. Typed /\ ChainsEnd
  BY DEF IngestInv
<1>2. Len(store) \in Nat /\ \A h \in 1..Len(store) : store[h].prev \in 0..Len(store)
  BY <1>1 DEF Typed
<1>3. \A h \in 1..Len(store) : store[h].prev # None => store[h].prev < h
  BY <1>1 DEF ChainsEnd
<1>4. ASSUME NEW d \in Devices PROVE ChainHead(d) \in 0..Len(store)
  BY <1>1, <1>2, EntryTypes DEF ChainHead, None
<1> QED BY <1>2, <1>3, <1>4

LEMMA ReverseTwice ==
    ASSUME NEW S, NEW s \in Seq(S)
    PROVE  Reverse(Reverse(s)) = s
<1>1. Len(s) \in Nat /\ s = [i \in 1..Len(s) |-> s[i]]
  OBVIOUS
<1> DEFINE r == [i \in 1..Len(s) |-> s[(Len(s) - i) + 1]]
<1>2. Reverse(s) = r
  BY DEF Reverse
<1>3. r \in Seq(S) /\ Len(r) = Len(s)
  BY <1>1
<1>4. \A i \in 1..Len(s) : r[(Len(s) - i) + 1] = s[i]
  BY <1>1
<1> HIDE DEF r
<1>5. Reverse(r) = [i \in 1..Len(s) |-> r[(Len(s) - i) + 1]]
  BY <1>3 DEF Reverse
<1>6. [i \in 1..Len(s) |-> r[(Len(s) - i) + 1]] = [i \in 1..Len(s) |-> s[i]]
  BY <1>4
<1> QED BY <1>1, <1>2, <1>5, <1>6

\* Two sequences that agree as far as the shorter one goes.
LEMMA AgreeIsPrefix ==
    ASSUME NEW S, NEW s \in Seq(S), NEW t \in Seq(S), Len(s) <= Len(t),
           \A i \in 1..Len(s) : s[i] = t[i]
    PROVE  IsPrefix(s, t)
<1>1. Len(s) \in Nat /\ Len(t) \in Nat
  OBVIOUS
<1>2. /\ SubSeq(s, 1, Len(s)) \in Seq(S) /\ SubSeq(t, 1, Len(s)) \in Seq(S)
      /\ Len(SubSeq(s, 1, Len(s))) = Len(s) /\ Len(SubSeq(t, 1, Len(s))) = Len(s)
      /\ \A i \in 1..Len(s) : SubSeq(s, 1, Len(s))[i] = s[i] /\ SubSeq(t, 1, Len(s))[i] = t[i]
  BY <1>1
<1>3. SubSeq(s, 1, Len(s)) = SubSeq(t, 1, Len(s))
  BY <1>1, <1>2
<1> QED BY <1>3 DEF IsPrefix

\* Two sequences of the same length that agree everywhere.
LEMMA SameSequence ==
    ASSUME NEW S, NEW s \in Seq(S), NEW t \in Seq(S), Len(s) = Len(t),
           \A i \in 1..Len(s) : s[i] = t[i]
    PROVE  s = t
<1>1. s = [i \in 1..Len(s) |-> s[i]] /\ t = [i \in 1..Len(t) |-> t[i]]
  OBVIOUS
<1> QED BY <1>1, Zenon

\* What a reader may rely on, as a premise.
Linked ==
    /\ Len(store) \in Nat
    /\ \A h \in 1..Len(store) :
         store[h].prev \in 0..Len(store) /\ (store[h].prev # None => store[h].prev < h)

\* The records from a reference on, newest first.
Lineage(h) == DetailRows(h, Len(store), {})

LEMMA LineageIsWalk ==
    ASSUME Linked, NEW h \in 0..Len(store)
    PROVE  /\ IsWalk(Lineage(h), h, Len(store), {})
           /\ Lineage(h) \in Seq(1..Len(store))
           /\ NextFrom(h, Lineage(h)) = None
<1>1. IsWalk(Lineage(h), h, Len(store), {})
  BY WalkIsWalk DEF Linked, Lineage
<1> DEFINE rows == Lineage(h)
<1> HIDE DEF rows
<1>2. IsWalk(rows, h, Len(store), {}) => NextFrom(h, rows) = None
  BY WalkEnds DEF Linked
<1>3. IsWalk(rows, h, Len(store), {}) => rows \in Seq(1..Len(store))
  BY DEF IsWalk
<1> QED BY <1>1, <1>2, <1>3 DEF rows

\* A lineage is its first record, and then the lineage of the record before.
LEMMA LineageUnfolds ==
    ASSUME Linked, NEW h \in 1..Len(store)
    PROVE  /\ Len(Lineage(h)) = Len(Lineage(store[h].prev)) + 1
           /\ Lineage(h)[1] = h
           /\ \A i \in 1..Len(Lineage(store[h].prev)) :
                Lineage(h)[i + 1] = Lineage(store[h].prev)[i]
<1> DEFINE n == Len(store)
           p == store[h].prev
           a == Lineage(h)
           b == Lineage(p)
           m == Len(b)
           c == [i \in 1..(m + 1) |-> IF i = 1 THEN h ELSE b[i - 1]]
<1>1. n \in Nat /\ h \in 0..n /\ p \in 0..n
  BY DEF Linked
<1>2. IsWalk(a, h, n, {}) /\ a \in Seq(1..n) /\ NextFrom(h, a) = None
  BY <1>1, LineageIsWalk
<1>3. IsWalk(b, p, n, {}) /\ b \in Seq(1..n) /\ NextFrom(p, b) = None
  BY <1>1, LineageIsWalk
<1> HIDE DEF a, b
<1>4. m \in Nat /\ m <= n /\ \A i \in 1..m : b[i] \in 1..n
  BY <1>3 DEF IsWalk
<1>5. /\ c \in Seq(1..n) /\ Len(c) = m + 1 /\ c[1] = h
      /\ \A i \in 1..m : c[i + 1] = b[i]
  <2>1. \A i \in 1..(m + 1) : (IF i = 1 THEN h ELSE b[i - 1]) \in 1..n
    <3>1. ASSUME NEW i \in 1..(m + 1), i # 1 PROVE i - 1 \in 1..m
      BY <1>4, <3>1
    <3> QED BY <1>4, <3>1
  <2>2. c \in Seq(1..n) /\ Len(c) = m + 1
    BY <1>4, <2>1
  <2>3. \A i \in 1..m : i + 1 \in 1..(m + 1) /\ i + 1 # 1 /\ (i + 1) - 1 = i
    BY <1>4
  <2> QED BY <1>4, <2>2, <2>3
<1> HIDE DEF c, m
<1>6. ASSUME NEW i \in 1..Len(c)
      PROVE  c[i] = IF i = 1 THEN h ELSE store[c[i - 1]].prev
  <2>1. CASE i = 1
    BY <1>5, <2>1
  <2>2. CASE i = 2
    <3>1. 1 \in 1..m /\ c[1 + 1] = b[1] /\ b[1] = p
      BY <1>3, <1>4, <1>5, <2>2 DEF IsWalk, m
    <3> QED BY <1>5, <2>2, <3>1
  <2>3. CASE i # 1 /\ i # 2
    <3>1. /\ i - 1 \in 1..m /\ i - 2 \in 1..m /\ i - 1 # 1 /\ (i - 1) - 1 = i - 2
          /\ (i - 1) + 1 = i /\ (i - 2) + 1 = i - 1
      BY <1>4, <1>5, <2>3
    <3>2. c[i] = b[i - 1] /\ c[i - 1] = b[i - 2]
      BY <1>5, <3>1
    <3>3. b[i - 1] = store[b[i - 2]].prev
      BY <1>3, <3>1 DEF IsWalk, m
    <3> QED BY <2>3, <3>2, <3>3
  <2> QED BY <2>1, <2>2, <2>3
<1>7. NextFrom(h, c) = None
  <2>0. c # <<>> /\ NextFrom(h, c) = store[c[m + 1]].prev
    BY <1>4, <1>5 DEF NextFrom
  <2>1. CASE m = 0
    <3>1. b = <<>> /\ p = None
      BY <1>3, <2>1 DEF NextFrom, m
    <3> QED BY <1>5, <2>0, <2>1, <3>1
  <2>2. CASE m # 0
    <3>1. m \in 1..m /\ b # <<>>
      BY <1>3, <1>4, <2>2 DEF m
    <3>2. store[b[m]].prev = None /\ c[m + 1] = b[m]
      BY <1>3, <1>5, <3>1 DEF NextFrom, m
    <3> QED BY <2>0, <3>2
  <2> QED BY <2>1, <2>2
<1>8. IsWalk(c, h, n + 1, {})
  <2>1. c \in Seq(1..Len(store)) /\ Len(c) <= Len(store) + 1
    BY <1>1, <1>4, <1>5
  <2>2. \A i \in 1..Len(c) :
           c[i] \notin {} /\ c[i] = IF i = 1 THEN h ELSE store[c[i - 1]].prev
    BY <1>6
  <2>3. NextFrom(h, c) \in {} \union {None}
    BY <1>7
  <2> HIDE DEF p
  <2> QED BY <2>1, <2>2, <2>3 DEF IsWalk
<1>9. n + 1 \in Nat
  BY <1>1
<1> HIDE DEF p, n
<1>10. Len(a) <= Len(c)
  BY <1>1, <1>2, <1>7, <1>8, <1>9, WalkGoesOn DEF n
<1>11. Len(c) <= Len(a)
  BY <1>1, <1>2, <1>8, <1>9, WalkGoesOn DEF n
<1>12. Len(a) \in Nat /\ Len(a) = m + 1
  BY <1>2, <1>4, <1>5, <1>10, <1>11
<1>13. \A i \in 1..Len(a) : i <= Len(c) => a[i] = c[i]
  BY <1>1, <1>2, <1>8, <1>9, WalksAgree DEF n
<1>14. a[1] = h /\ \A i \in 1..m : a[i + 1] = b[i]
  <2>1. 1 \in 1..Len(a) /\ 1 <= Len(c)
    BY <1>4, <1>5, <1>12
  <2>2. ASSUME NEW i \in 1..m PROVE i + 1 \in 1..Len(a) /\ i + 1 <= Len(c)
    BY <1>4, <1>5, <1>12
  <2> QED BY <1>5, <1>13, <2>1, <2>2
<1> QED BY <1>12, <1>14 DEF a, b, m, p

\* The recursion of PackageHistory, and its only solution.
OldestDef(oldestFirst) ==
    oldestFirst = [h \in 0..Len(store) |->
                     IF h = None THEN <<>> ELSE Append(oldestFirst[store[h].prev], h)]

LEMMA LineageReversed ==
    ASSUME Linked, NEW h \in 0..Len(store)
    PROVE  Reverse(Lineage(h)) =
             IF h = None THEN <<>> ELSE Append(Reverse(Lineage(store[h].prev)), h)
<1>1. CASE h = None
  <2> DEFINE rows == Lineage(h)
  <2>1. rows \in Seq(1..Len(store)) /\ IsWalk(rows, h, Len(store), {})
    BY LineageIsWalk
  <2> HIDE DEF rows
  <2>2. Len(rows) = 0
    <3>1. 1 \in 1..Len(rows) => rows[1] = h /\ rows[1] \in 1..Len(store)
      BY <2>1 DEF IsWalk
    <3> QED BY <1>1, <2>1, <3>1 DEF None
  <2>3. Reverse(rows) = <<>>
    BY <2>1, <2>2 DEF Reverse
  <2> QED BY <1>1, <2>3 DEF rows
<1>2. CASE h # None
  <2> DEFINE a == Lineage(h)
             b == Lineage(store[h].prev)
             m == Len(b)
             older == Reverse(b)
  <2>1. h \in 1..Len(store) /\ store[h].prev \in 0..Len(store) /\ Len(store) \in Nat
    BY <1>2 DEF Linked, None
  <2>2. a \in Seq(1..Len(store)) /\ b \in Seq(1..Len(store))
    BY <2>1, LineageIsWalk
  <2>3. Len(a) = m + 1 /\ a[1] = h /\ \A i \in 1..m : a[i + 1] = b[i]
    BY <2>1, LineageUnfolds
  <2> HIDE DEF a, b
  <2>4. m \in Nat
    BY <2>2
  <2>5. /\ Reverse(a) \in Seq(1..Len(store)) /\ Len(Reverse(a)) = m + 1
        /\ \A i \in 1..(m + 1) : Reverse(a)[i] = a[(m + 1) - i + 1]
    <3>1. Reverse(a) = [i \in 1..(m + 1) |-> a[(m + 1) - i + 1]]
      BY <2>3 DEF Reverse
    <3>2. \A i \in 1..(m + 1) : a[(m + 1) - i + 1] \in 1..Len(store)
      BY <2>2, <2>3, <2>4
    <3> QED BY <2>4, <3>1, <3>2
  <2>6. /\ older \in Seq(1..Len(store)) /\ Len(older) = m
        /\ \A i \in 1..m : older[i] = b[m - i + 1]
    <3>1. older = [i \in 1..m |-> b[m - i + 1]]
      BY DEF Reverse
    <3>2. \A i \in 1..m : b[m - i + 1] \in 1..Len(store)
      BY <2>2, <2>4
    <3> HIDE DEF older
    <3> QED BY <2>4, <3>1, <3>2
  <2> DEFINE t == Append(older, h)
  <2> HIDE DEF older, m
  <2>7. /\ t \in Seq(1..Len(store)) /\ Len(t) = m + 1 /\ t[m + 1] = h
        /\ \A i \in 1..m : t[i] = older[i]
    BY <2>1, <2>4, <2>6
  <2>8. ASSUME NEW i \in 1..(m + 1) PROVE Reverse(a)[i] = t[i]
    <3>1. CASE i = m + 1
      BY <2>3, <2>4, <2>5, <2>7, <3>1
    <3>2. CASE i # m + 1
      <4>1. i \in 1..m /\ m - i + 1 \in 1..m /\ (m + 1) - i + 1 = (m - i + 1) + 1
        BY <2>4, <3>2
      <4>2. Reverse(a)[i] = a[(m - i + 1) + 1]
        BY <2>5, <4>1
      <4> QED BY <2>3, <2>6, <2>7, <4>1, <4>2
    <3> QED BY <3>1, <3>2
  <2> HIDE DEF t
  <2>9. Reverse(a) = t
    BY <2>5, <2>7, <2>8, SameSequence
  <2> QED BY <1>2, <2>9 DEF t, older, a, b
<1> QED BY <1>1, <1>2

LEMMA OldestFirst ==
    ASSUME Linked, NEW f, OldestDef(f), NEW h \in 0..Len(store)
    PROVE  f[h] = Reverse(Lineage(h))
<1> DEFINE T == {g \in 0..Len(store) : f[g] # Reverse(Lineage(g))}
<1> SUFFICES ASSUME T # {} PROVE FALSE
  OBVIOUS
<1>1. PICK g \in T : \A k \in T : g <= k
  <2>1. T \in SUBSET Nat
    OBVIOUS
  <2> HIDE DEF T
  <2> QED BY <2>1, Least
<1>2. g \in 0..Len(store) /\ f[g] # Reverse(Lineage(g))
  BY <1>1
<1>3. f[g] = IF g = None THEN <<>> ELSE Append(f[store[g].prev], g)
  BY <1>2 DEF OldestDef
<1>4. g = None => f[g] = Reverse(Lineage(g))
  BY <1>2, <1>3, LineageReversed
<1>5. CASE g # None
  <2> DEFINE p == store[g].prev
  <2>1. p \in 0..Len(store) /\ p < g
    <3>1. g \in 1..Len(store)
      BY <1>2, <1>5 DEF Linked, None
    <3>2. p = None => p < g
      BY <3>1 DEF None
    <3> QED BY <3>1, <3>2 DEF Linked
  <2> HIDE DEF p
  <2>2. p \notin T
    <3>1. p \in T => g <= p
      <4> HIDE DEF T
      <4> QED BY <1>1
    <3> QED BY <1>2, <2>1, <3>1
  <2>3. f[p] = Reverse(Lineage(p))
    BY <2>1, <2>2
  <2>4. Reverse(Lineage(g)) = Append(Reverse(Lineage(p)), g)
    BY <1>2, <1>5, LineageReversed DEF p
  <2> QED BY <1>2, <1>3, <1>5, <2>3, <2>4 DEF p
<1> QED BY <1>2, <1>4, <1>5

LEMMA OldestExists ==
    ASSUME Linked
    PROVE  \E f : OldestDef(f)
<1> DEFINE f == [h \in 0..Len(store) |-> Reverse(Lineage(h))]
<1>1. ASSUME NEW h \in 0..Len(store), h # None PROVE store[h].prev \in 0..Len(store)
  BY <1>1 DEF Linked, None
<1>2. ASSUME NEW h \in 0..Len(store)
      PROVE  f[h] = IF h = None THEN <<>> ELSE Append(f[store[h].prev], h)
  <2>1. CASE h = None
    <3>1. f[h] = Reverse(Lineage(h))
      OBVIOUS
    <3> HIDE DEF f
    <3> QED BY <2>1, <3>1, LineageReversed
  <2>2. CASE h # None
    <3>1. f[h] = Reverse(Lineage(h)) /\ f[store[h].prev] = Reverse(Lineage(store[h].prev))
      BY <1>1, <2>2
    <3> HIDE DEF f
    <3> QED BY <2>2, <3>1, LineageReversed
  <2> QED BY <2>1, <2>2
<1>3. f = [h \in 0..Len(store) |-> f[h]]
  OBVIOUS
<1> HIDE DEF f
<1>4. f = [h \in 0..Len(store) |-> IF h = None THEN <<>> ELSE Append(f[store[h].prev], h)]
  BY <1>2, <1>3, Zenon
<1> QED BY <1>4 DEF OldestDef

\* What the history endpoint answers, newest first, is the lineage of the head.
LEMMA HistoryIsLineage ==
    ASSUME IngestInv, NEW d \in Devices
    PROVE  /\ NewestFirst(d) = Lineage(ChainHead(d))
           /\ \A down : PackageHistory(d, down) \in {Failed, PackageHistory(d, {})}
<1>1. Linked /\ ChainHead(d) \in 0..Len(store)
  BY Walkable DEF Linked
<1> DEFINE f == CHOOSE g : OldestDef(g)
           records == f[ChainHead(d)]
<1>2. OldestDef(f)
  BY <1>1, OldestExists
<1>3. \A down : PackageHistory(d, down) =
         IF Range(records) \intersect down # {} THEN Failed
         ELSE [ok |-> TRUE, records |-> records]
  BY DEF PackageHistory, OldestDef
<1> HIDE DEF f
<1>4. records = Reverse(Lineage(ChainHead(d)))
  BY <1>1, <1>2, OldestFirst
<1> HIDE DEF records
<1>5. PackageHistory(d, {}) = [ok |-> TRUE, records |-> records]
  BY <1>3
<1>6. Lineage(ChainHead(d)) \in Seq(1..Len(store))
  BY <1>1, LineageIsWalk
<1>7. NewestFirst(d) = Lineage(ChainHead(d))
  BY <1>4, <1>5, <1>6, ReverseTwice DEF NewestFirst
<1> QED BY <1>3, <1>5, <1>7

LEMMA DetailIsHistory ==
    ASSUME IngestInv, NEW d \in Devices, NEW limit \in Limits, NEW down \in Outages
    PROVE  LET rows == DeviceDetail(d, limit, down)
               full == NewestFirst(d)
           IN  /\ IsPrefix(rows, full)
               /\ down = {} => Len(rows) = IF Len(full) < limit THEN Len(full) ELSE limit
               /\ rows # <<>> =>
                    /\ Latest(d, down) = rows[1]
                    /\ \E row \in DeviceList : row.dev = d /\ row.head = rows[1]
               /\ PackageHistory(d, down) \in {Failed, PackageHistory(d, {})}
<1> DEFINE head == ChainHead(d)
           rows == DeviceDetail(d, limit, down)
           full == NewestFirst(d)
<1>1. /\ Len(store) \in Nat /\ head \in 0..Len(store) /\ limit \in Nat
      /\ \A h \in 1..Len(store) :
           store[h].prev \in 0..Len(store) /\ (store[h].prev # None => store[h].prev < h)
  BY Walkable, ReadersAssumption
<1>2. IsWalk(rows, head, limit, down)
  BY <1>1, WalkIsWalk DEF DeviceDetail
<1>3. full = Lineage(head) /\ PackageHistory(d, down) \in {Failed, PackageHistory(d, {})}
  BY HistoryIsLineage
<1>4. IsWalk(full, head, Len(store), {}) /\ NextFrom(head, full) = None
  <2>1. /\ IsWalk(Lineage(head), head, Len(store), {})
        /\ NextFrom(head, Lineage(head)) = None
    BY <1>1, LineageIsWalk DEF Linked
  <2> HIDE DEF full
  <2> QED BY <1>3, <2>1
<1> HIDE DEF rows, full
<1>5. rows \in Seq(1..Len(store)) /\ full \in Seq(1..Len(store))
  BY <1>2, <1>4 DEF IsWalk
<1> HIDE DEF head
<1>8. Len(rows) <= Len(full)
  BY <1>1, <1>2, <1>4, WalkGoesOn
<1>9. \A i \in 1..Len(rows) : rows[i] = full[i]
  <2>1. \A i \in 1..Len(rows) : i <= Len(full) => rows[i] = full[i]
    BY <1>1, <1>2, <1>4, WalksAgree
  <2> QED BY <1>5, <1>8, <2>1
<1>10. IsPrefix(rows, full)
  BY <1>5, <1>8, <1>9, AgreeIsPrefix
<1>11. ASSUME down = {}
       PROVE  Len(rows) = IF Len(full) < limit THEN Len(full) ELSE limit
  <2>1. Len(rows) \in Nat /\ Len(full) \in Nat /\ Len(rows) <= limit
    BY <1>2, <1>5 DEF IsWalk
  <2>2. Len(rows) < limit => NextFrom(head, rows) = None
    BY <1>2, <1>11 DEF IsWalk
  <2>3. Len(rows) < limit => Len(full) <= Len(rows)
    <3>1. IsWalk(rows, head, limit, {})
      BY <1>2, <1>11
    <3> QED BY <1>1, <1>4, <2>2, <3>1, WalkGoesOn
  <2> QED BY <1>1, <1>8, <2>1, <2>3
<1>12. ASSUME rows # <<>>
       PROVE  /\ Latest(d, down) = rows[1]
              /\ \E row \in DeviceList : row.dev = d /\ row.head = rows[1]
  <2>1. 1 \in 1..Len(rows) /\ rows[1] \in 1..Len(store)
    BY <1>5, <1>12
  <2>2. rows[1] = ChainHead(d) /\ rows[1] \notin down
    BY <1>2, <2>1 DEF IsWalk, head
  <2>3. index[d].registered /\ rows[1] = index[d].latest
    BY <2>1, <2>2 DEF ChainHead, None
  <2>4. [dev |-> d, head |-> index[d].latest, last |-> index[d].last] \in DeviceList
    BY <2>3 DEF DeviceList
  <2> QED BY <2>2, <2>3, <2>4 DEF Latest
<1> QED
  BY <1>3, <1>10, <1>11, <1>12 DEF rows, full

\* GET /dashboard/devices/{id}, whose loop counts, gives up and skips what Bee withholds,
\* GET /sensors/latest and the list of devices show the same history as
\* GET /packages/{id}/history, whose loop does none of that: the newest part of it.
THEOREM DashboardHistoryTheorem == Spec => []DashboardShowsHistory
<1>1. IngestInv => DashboardShowsHistory
  BY DetailIsHistory DEF DashboardShowsHistory
<1> QED BY <1>1, SpecInv, PTL

-----------------------------------------------------------------------------
\* The hotspots.

LoopDef(loop, head, down) ==
    loop = [depth \in 0..MaxDepth |->
              IF depth = 0 THEN [current |-> head, spots |-> {}]
              ELSE HotspotTurn(loop[depth - 1], down)]

\* The state of the map's loop once these records are behind it.
Behind(head, rows) ==
    [current |-> NextFrom(head, rows), spots |-> {h \in Range(rows) : Hotspot(h)}]

\* A turn of the map's loop and a turn of the dashboard's go side by side.
LEMMA TurnsAgree ==
    ASSUME NEW S, NEW rows \in Seq(S), NEW head, NEW down, Turn(head, rows, down) \in Seq(S)
    PROVE  HotspotTurn(Behind(head, rows), down) = Behind(head, Turn(head, rows, down))
<1> DEFINE next == NextFrom(head, rows)
<1>1. Behind(head, rows).current = next /\ Behind(head, rows).spots = {h \in Range(rows) : Hotspot(h)}
  BY DEF Behind
<1>2. CASE next \in down \union {None}
  BY <1>1, <1>2 DEF HotspotTurn, Turn
<1>3. CASE next \notin down \union {None}
  <2> DEFINE more == Append(rows, next)
             n == Len(rows)
  <2>1. Turn(head, rows, down) = more
    BY <1>3 DEF Turn
  <2>2. HotspotTurn(Behind(head, rows), down) =
          [current |-> store[next].prev,
           spots |-> {h \in Range(rows) : Hotspot(h)} \union {h \in {next} : Hotspot(h)}]
    BY <1>1, <1>3 DEF HotspotTurn
  <2> HIDE DEF next
  <2>3. /\ n \in Nat /\ Len(more) = n + 1 /\ more # <<>> /\ more[n + 1] = next
        /\ DOMAIN rows = 1..n /\ DOMAIN more = 1..(n + 1)
        /\ \A i \in 1..n : more[i] = rows[i]
    OBVIOUS
  <2>4. NextFrom(head, more) = store[next].prev
    BY <2>3 DEF NextFrom
  <2> HIDE DEF more, n
  <2>5. Range(more) = Range(rows) \union {next}
    <3>1. Range(more) \subseteq Range(rows) \union {next}
      <4> SUFFICES ASSUME NEW i \in 1..(n + 1) PROVE more[i] \in Range(rows) \union {next}
        BY <2>3 DEF Range
      <4>1. i = n + 1 \/ i \in 1..n
        BY <2>3
      <4> QED BY <2>3, <4>1 DEF Range
    <3>2. Range(rows) \subseteq Range(more)
      <4> SUFFICES ASSUME NEW i \in 1..n PROVE rows[i] \in Range(more)
        BY <2>3 DEF Range
      <4>1. i \in 1..(n + 1)
        BY <2>3
      <4> QED BY <2>3, <4>1 DEF Range
    <3>3. next \in Range(more)
      <4>1. n + 1 \in 1..(n + 1)
        BY <2>3
      <4> QED BY <2>3, <4>1 DEF Range
    <3> QED BY <3>1, <3>2, <3>3
  <2>6. {h \in Range(more) : Hotspot(h)} =
          {h \in Range(rows) : Hotspot(h)} \union {h \in {next} : Hotspot(h)}
    BY <2>5
  <2> QED BY <2>1, <2>2, <2>4, <2>6 DEF Behind, more
<1> QED BY <1>2, <1>3

\* What the map's loop collects from a head is what the dashboard's loop, with the same
\* limit, lists, the records that are no hotspots left out.
LEMMA HotspotsAreListed ==
    ASSUME Linked, NEW head \in 0..Len(store), NEW down
    PROVE  HotspotsFrom(head, down) = {h \in Range(DetailRows(head, MaxDepth, down)) : Hotspot(h)}
<1>1. MaxDepth \in Nat /\ Len(store) \in Nat /\ \A h \in 1..Len(store) : store[h].prev \in 0..Len(store)
  BY ReadersAssumption DEF Linked
<1>2. PICK w : /\ w[0] = <<>>
               /\ \A k \in 1..MaxDepth : w[k] = Turn(head, w[k - 1], down)
               /\ w[MaxDepth] = DetailRows(head, MaxDepth, down)
  BY <1>1, WalkExists
<1>3. \A k \in Nat : k <= MaxDepth => w[k] \in Seq(1..Len(store))
  <2> DEFINE T == {k \in Nat : k <= MaxDepth => IsWalk(w[k], head, k, down)}
  <2>1. 0 \in T
    <3>1. NextFrom(head, <<>>) = head /\ Len(<<>>) = 0 /\ <<>> \in Seq(1..Len(store))
      BY DEF NextFrom
    <3>2. IsWalk(<<>>, head, 0, down)
      BY <3>1 DEF IsWalk
    <3> QED BY <1>2, <3>2
  <2>2. ASSUME NEW k \in Nat, k \in T PROVE k + 1 \in T
    <3> SUFFICES ASSUME k + 1 <= MaxDepth PROVE IsWalk(w[k + 1], head, k + 1, down)
      OBVIOUS
    <3>1. w[k + 1] = Turn(head, w[k], down)
      BY <1>1, <1>2
    <3>2. IsWalk(w[k], head, k, down)
      BY <1>1, <2>2
    <3>3. IsWalk(Turn(head, w[k], down), head, k + 1, down)
      BY <1>1, <3>2, TurnIsWalk
    <3> QED BY <3>1, <3>3
  <2>3. \A k \in Nat : k \in T
    <3> HIDE DEF T
    <3> QED BY <2>1, <2>2, Induction
  <2>4. \A k \in Nat : k <= MaxDepth => IsWalk(w[k], head, k, down)
    BY <2>3
  <2> HIDE DEF T
  <2> QED BY <2>4 DEF IsWalk
<1>4. Behind(head, w[0]) = [current |-> head, spots |-> {}]
  <2>1. Range(<<>>) = {} /\ NextFrom(head, <<>>) = head
    BY DEF Range, NextFrom
  <2> QED BY <1>2, <2>1 DEF Behind
<1>5. ASSUME NEW k \in 1..MaxDepth
      PROVE  Behind(head, w[k]) = HotspotTurn(Behind(head, w[k - 1]), down)
  <2>1. k \in Nat /\ k <= MaxDepth /\ k - 1 \in Nat /\ k - 1 <= MaxDepth
    BY <1>1
  <2>2. w[k] = Turn(head, w[k - 1], down) /\ w[k] \in Seq(1..Len(store)) /\ w[k - 1] \in Seq(1..Len(store))
    BY <1>2, <1>3, <2>1
  <2> DEFINE rows == w[k - 1]
  <2> HIDE DEF rows
  <2>3. rows \in Seq(1..Len(store)) /\ Turn(head, rows, down) \in Seq(1..Len(store))
    BY <2>2 DEF rows
  <2>4. HotspotTurn(Behind(head, rows), down) = Behind(head, Turn(head, rows, down))
    BY <2>3, TurnsAgree
  <2> QED BY <2>2, <2>4 DEF rows
<1> DEFINE loop == [k \in 0..MaxDepth |-> Behind(head, w[k])]
<1>6. LoopDef(loop, head, down)
  <2>1. ASSUME NEW k \in 0..MaxDepth
        PROVE  loop[k] = IF k = 0 THEN [current |-> head, spots |-> {}]
                         ELSE HotspotTurn(loop[k - 1], down)
    <3>1. k # 0 => k \in 1..MaxDepth /\ k - 1 \in 0..MaxDepth
      BY <1>1
    <3> QED BY <1>4, <1>5, <3>1
  <2>2. loop = [k \in 0..MaxDepth |-> loop[k]]
    OBVIOUS
  <2> HIDE DEF loop
  <2>3. loop = [k \in 0..MaxDepth |->
           IF k = 0 THEN [current |-> head, spots |-> {}] ELSE HotspotTurn(loop[k - 1], down)]
    BY <2>1, <2>2, Zenon
  <2> QED BY <2>3 DEF LoopDef
<1> HIDE DEF loop
<1> DEFINE chosen == CHOOSE l : LoopDef(l, head, down)
<1>7. LoopDef(chosen, head, down)
  BY <1>6
<1>8. HotspotsFrom(head, down) = chosen[MaxDepth].spots
  BY DEF HotspotsFrom, LoopDef
<1> HIDE DEF chosen
<1>9. chosen[MaxDepth] = Behind(head, w[MaxDepth])
  <2> DEFINE T == {k \in Nat : k <= MaxDepth => chosen[k] = Behind(head, w[k])}
  <2>1. 0 \in T
    <3>1. chosen[0] = [current |-> head, spots |-> {}]
      BY <1>1, <1>7 DEF LoopDef
    <3> QED BY <1>4, <3>1
  <2>2. ASSUME NEW k \in Nat, k \in T PROVE k + 1 \in T
    <3> SUFFICES ASSUME k + 1 <= MaxDepth PROVE chosen[k + 1] = Behind(head, w[k + 1])
      OBVIOUS
    <3>1. k + 1 \in 0..MaxDepth /\ k + 1 # 0 /\ (k + 1) - 1 = k /\ k + 1 \in 1..MaxDepth /\ k <= MaxDepth
      BY <1>1
    <3>2. chosen[k + 1] = HotspotTurn(chosen[k], down)
      BY <1>7, <3>1 DEF LoopDef
    <3>3. chosen[k] = Behind(head, w[k])
      BY <2>2, <3>1
    <3>4. Behind(head, w[k + 1]) = HotspotTurn(Behind(head, w[k]), down)
      BY <1>5, <3>1
    <3> QED BY <3>2, <3>3, <3>4
  <2>3. MaxDepth \in T
    <3> HIDE DEF T
    <3>1. \A k \in Nat : k \in T
      BY <2>1, <2>2, Induction
    <3> QED BY <1>1, <3>1
  <2> QED BY <1>1, <2>3
<1> QED BY <1>2, <1>8, <1>9 DEF Behind

\* The records of the history the map's loop reaches.
Reached(full, down) ==
    {i \in DOMAIN full : i <= MaxDepth /\ \A j \in 1..i : full[j] \notin down}

LEMMA ReachedAreListed ==
    ASSUME Linked, NEW head \in 0..Len(store), NEW down,
           NEW full, IsWalk(full, head, Len(store), {}), NextFrom(head, full) = None,
           NEW rows, IsWalk(rows, head, MaxDepth, down)
    PROVE  Range(rows) = {full[i] : i \in Reached(full, down)}
<1>1. MaxDepth \in Nat /\ Len(store) \in Nat
  BY ReadersAssumption DEF Linked
<1>2. /\ rows \in Seq(1..Len(store)) /\ full \in Seq(1..Len(store))
      /\ Len(rows) \in Nat /\ Len(full) \in Nat /\ Len(rows) <= MaxDepth
      /\ DOMAIN rows = 1..Len(rows) /\ DOMAIN full = 1..Len(full)
  BY DEF IsWalk
<1>3. Len(rows) <= Len(full)
  BY <1>1, WalkGoesOn
<1>4. \A i \in 1..Len(rows) : i <= Len(full) => rows[i] = full[i]
  BY <1>1, WalksAgree
<1>5. ASSUME NEW i \in 1..Len(rows)
      PROVE  rows[i] \in {full[k] : k \in Reached(full, down)}
  <2>1. i \in DOMAIN full /\ i <= MaxDepth /\ rows[i] = full[i]
    BY <1>1, <1>2, <1>3, <1>4
  <2>2. ASSUME NEW j \in 1..i PROVE full[j] \notin down
    <3>1. j \in 1..Len(rows) /\ j <= Len(full)
      BY <1>2, <1>3
    <3> QED BY <1>4, <3>1 DEF IsWalk
  <2> QED BY <2>1, <2>2 DEF Reached
<1>6. ASSUME NEW i \in Reached(full, down) PROVE full[i] \in Range(rows)
  <2>1. i \in 1..Len(full) /\ i <= MaxDepth /\ \A j \in 1..i : full[j] \notin down
    BY <1>2 DEF Reached
  <2> DEFINE n == Len(rows)
  <2>2. i <= n
    <3> SUFFICES ASSUME n < i PROVE FALSE
      BY <1>2, <2>1
    <3>1. n + 1 \in 1..i /\ n + 1 \in 1..Len(full) /\ n < MaxDepth
      BY <1>1, <1>2, <2>1
    <3>2. full[n + 1] \notin down /\ full[n + 1] # None
      <4>1. full[n + 1] \in 1..Len(store)
        BY <1>2, <3>1
      <4> QED BY <2>1, <3>1, <4>1 DEF None
    <3>3. NextFrom(head, rows) \in down \union {None}
      BY <3>1 DEF IsWalk
    <3>4. full[n + 1] = NextFrom(head, rows)
      <4>1. CASE n = 0
        <5>1. rows = <<>> /\ full[n + 1] = head
          BY <1>2, <3>1, <4>1 DEF IsWalk
        <5> QED BY <5>1 DEF NextFrom
      <4>2. CASE n # 0
        <5>1. n \in 1..n /\ n <= Len(full) /\ rows # <<>> /\ n + 1 # 1 /\ (n + 1) - 1 = n
          BY <1>2, <1>3, <4>2
        <5>2. rows[n] = full[n]
          BY <1>4, <5>1
        <5>3. full[n + 1] = store[full[n]].prev
          BY <3>1, <5>1 DEF IsWalk
        <5> QED BY <5>1, <5>2, <5>3 DEF NextFrom
      <4> QED BY <4>1, <4>2
    <3> QED BY <3>2, <3>3, <3>4
  <2>3. i \in 1..n /\ rows[i] = full[i]
    BY <1>2, <1>4, <2>1, <2>2
  <2> QED BY <1>2, <2>3 DEF Range
<1>7. Range(rows) = {rows[i] : i \in 1..Len(rows)}
  BY <1>2 DEF Range
<1> HIDE DEF Reached
<1> QED BY <1>5, <1>6, <1>7

LEMMA MapIsHistory ==
    ASSUME IngestInv, NEW d \in Devices, NEW down
    PROVE  DeviceHotspots(d, down) =
             {h \in {NewestFirst(d)[i] : i \in Reached(NewestFirst(d), down)} : Hotspot(h)}
<1> DEFINE head == ChainHead(d)
           full == Lineage(head)
           rows == DetailRows(head, MaxDepth, down)
<1>1. Linked /\ head \in 0..Len(store) /\ MaxDepth \in Nat /\ Len(store) \in Nat
  BY Walkable, ReadersAssumption DEF Linked
<1>2. IsWalk(full, head, Len(store), {}) /\ NextFrom(head, full) = None
  BY <1>1, LineageIsWalk
<1>3. IsWalk(rows, head, MaxDepth, down)
  BY <1>1, WalkIsWalk DEF Linked
<1>4. NewestFirst(d) = full
  BY HistoryIsLineage
<1>5. DeviceHotspots(d, down) = {h \in Range(rows) : Hotspot(h)}
  BY <1>1, HotspotsAreListed DEF DeviceHotspots
<1> HIDE DEF rows, full, head
<1>6. Range(rows) = {full[i] : i \in Reached(full, down)}
  BY <1>1, <1>2, <1>3, ReachedAreListed
<1> QED BY <1>4, <1>5, <1>6

LEMMA RouteRisk ==
    ASSUME NEW route \in Routes, NEW some, NEW all, some \subseteq all
    PROVE  RiskLevel(route, some) <= RiskLevel(route, all)
<1> DEFINE warned(spots) == {i \in DOMAIN route : Near(route[i], spots)}
<1>1. IsFiniteSet(DOMAIN route)
  <2>1. route \in Seq(Int) /\ Len(route) \in Nat /\ DOMAIN route = 1..Len(route)
    BY ReadersAssumption
  <2>2. 1 \in Int /\ Len(route) \in Int
    BY <2>1
  <2> QED BY <2>1, <2>2, FS_Interval
<1>2. warned(some) \subseteq warned(all)
  BY DEF Near
<1>3. /\ warned(all) \in SUBSET (DOMAIN route)
      /\ warned(some) \in SUBSET warned(all)
  BY <1>2
<1> HIDE DEF warned
<1>4. IsFiniteSet(warned(all)) /\ IsFiniteSet(warned(some))
  BY <1>1, <1>3, FS_Subset
<1>5. /\ Cardinality(warned(all)) \in Nat /\ Cardinality(warned(some)) \in Nat
      /\ Cardinality(warned(some)) <= Cardinality(warned(all))
  BY <1>3, <1>4, FS_Subset, FS_CardinalityType
<1>6. Warnings(route, some) = Cardinality(warned(some)) /\ Warnings(route, all) = Cardinality(warned(all))
  BY DEF Warnings, warned
<1> QED BY <1>5, <1>6 DEF RiskLevel

LEMMA OutagesOnlyHide ==
    ASSUME IngestInv, NEW down
    PROVE  Hotspots(down) \subseteq Hotspots({})
<1> SUFFICES ASSUME NEW d \in Devices, NEW h \in DeviceHotspots(d, down)
             PROVE  h \in DeviceHotspots(d, {})
  BY DEF Hotspots
<1> DEFINE full == NewestFirst(d)
<1>1. PICK i \in Reached(full, down) : h = full[i] /\ Hotspot(h)
  BY MapIsHistory
<1>2. i \in Reached(full, {})
  BY DEF Reached
<1>3. DeviceHotspots(d, {}) = {k \in {full[j] : j \in Reached(full, {})} : Hotspot(k)}
  BY MapIsHistory
<1> HIDE DEF full
<1> QED BY <1>1, <1>2, <1>3

\* GET /stats/hotspots, whose loop tests a record before it counts it, shows the placed
\* violations of the newest part of the same history, and an outage of Bee never makes
\* POST /stats/analyze-route warn more.
THEOREM MapTheorem == Spec => []HotspotsAreHistory
<1>1. ASSUME IngestInv PROVE HotspotsAreHistory
  <2>1. \A down \in Outages, route \in Routes :
           RiskLevel(route, Hotspots(down)) <= RiskLevel(route, Hotspots({}))
    BY <1>1, OutagesOnlyHide, RouteRisk
  <2>2. ASSUME NEW d \in Devices, NEW down \in Outages
        PROVE  LET full == NewestFirst(d)
                   reached == {i \in DOMAIN full :
                                 i <= MaxDepth /\ \A j \in 1..i : full[j] \notin down}
               IN  DeviceHotspots(d, down) =
                     {h \in {full[i] : i \in reached} : ~store[h].valid /\ PlaceOf(h) # {}}
    BY <1>1, MapIsHistory DEF Reached, Hotspot
  <2> QED BY <2>1, <2>2 DEF HotspotsAreHistory
<1> QED BY <1>1, SpecInv, PTL
=============================================================================
