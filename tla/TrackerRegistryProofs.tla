------------------------ MODULE TrackerRegistryProofs ------------------------
(***************************************************************************)
(* The tracker registry of TrackerRegistry for any number of trackers,     *)
(* fields, values and requests, and any number of failing calls of Bee and *)
(* restarts: its types, what its requests amount to on a tracker that no   *)
(* two of them change at one time, and what a listing may show.            *)
(***************************************************************************)
EXTENDS TrackerRegistry, FiniteSetTheorems, TLAPS

-----------------------------------------------------------------------------
\* Types.

Marks == Metas \union {NoEntry}     \* what an entry may be

Ending == [pc : {"idle", "done", "failed", "conflict", "missing"}]
Getting == [pc : {"get"}, op : {"read", "update"}, id : Trackers, meta : Metas,
            change : Changes]
Creating == [pc : {"upload", "set", "written"}, op : {"create"}, id : Trackers, meta : Metas]
Updating == [pc : {"upload", "set", "written"}, op : {"update"}, id : Trackers, meta : Metas,
             change : Changes]
Popping == [pc : {"pop", "written"}, op : {"delete"}, id : Trackers]
Choosing == [pc : {"next"}, op : {"list"}, found : SUBSET Rows, ids : SUBSET Trackers]
Fetching == [pc : {"listed"}, op : {"list"}, found : SUBSET Rows, ids : SUBSET Trackers,
             id : Trackers, meta : Metas]
Answered == [pc : {"list"}, op : {"list"}, found : SUBSET Rows]

Locals ==
    Ending \union Getting \union Creating \union Updating \union Popping
      \union Choosing \union Fetching \union Answered

\* The type invariant, with the locals as a set.
Typed ==
    /\ index \in [Trackers -> Marks]
    /\ fileOK \in BOOLEAN
    /\ req \in [Requests -> Locals]
    /\ failures \in 0..MaxFailures
    /\ restarts \in 0..MaxRestarts
    /\ told \in [Trackers -> SUBSET Marks]
    /\ busy \subseteq Trackers
    /\ seen \in [Requests -> [Trackers -> SUBSET Marks]]

LEMMA TypedIsTypeOK == Typed => RegistryTypeOK
<1> SUFFICES ASSUME Typed PROVE RegistryTypeOK
  OBVIOUS
<1>1. ASSUME NEW q \in Requests
      PROVE  \/ req[q] \in Ending \/ req[q] \in Getting \/ req[q] \in Creating
             \/ req[q] \in Updating \/ req[q] \in Popping \/ req[q] \in Choosing
             \/ req[q] \in Fetching \/ req[q] \in Answered
  BY DEF Typed, Locals
<1> QED
  BY <1>1, Zenon DEF Typed, RegistryTypeOK, Ending, Getting, Creating, Updating, Popping,
     Choosing, Fetching, Answered, Marks

LEMMA IdleEnds == Idle \in Ending /\ \A pc \in {"done", "failed", "conflict", "missing"} :
                                        Ended(pc) \in Ending /\ Ended(pc).pc = pc
BY DEF Idle, Ended, Ending

\* What the step of a request tells of its locals.
LEMMA Shapes ==
    ASSUME Typed, NEW q \in Requests
    PROVE  /\ req[q] \in Locals
           /\ req[q] = Idle => req[q].pc = "idle"
           /\ req[q].pc = "get" => req[q] \in Getting
           /\ req[q].pc \in {"upload", "set"} => req[q] \in Creating \union Updating
           /\ req[q].pc = "pop" => req[q] \in Popping
           /\ req[q].pc = "written" => req[q] \in Creating \union Updating \union Popping
           /\ req[q].pc = "next" => req[q] \in Choosing
           /\ req[q].pc = "listed" => req[q] \in Fetching
           /\ req[q].pc = "list" => req[q] \in Answered
<1>1. req[q] \in Locals
  BY DEF Typed
<1> QED
  BY <1>1 DEF Locals, Idle, Ending, Getting, Creating, Updating, Popping, Choosing, Fetching,
     Answered

\* Only the request that steps changes its locals.
LEMMA Moved ==
    ASSUME Typed, NEW q \in Requests, NEW r \in Locals, Goes(q, r)
    PROVE  /\ req'[q] = r
           /\ \A p \in Requests \ {q} : req'[p] = req[p]
           /\ req' \in [Requests -> Locals]
BY DEF Typed, Goes

LEMMA ChangedMeta ==
    ASSUME NEW meta \in Metas, NEW change \in Changes
    PROVE  Changed(meta, change) \in Metas
BY DEF Changed, Metas, Changes

-----------------------------------------------------------------------------
\* The steps, by what they do to the registry.

Writes == {"create", "update", "delete"}

\* A request on one tracker arrives and has the locals r, or its answer.
Opens(q, t, r) ==
    /\ req[q] = Idle /\ Goes(q, r) /\ r \in Locals
    /\ UNCHANGED <<index, fileOK, failures, restarts, told, seen>>
    /\ \/ r.pc \in {"failed", "conflict", "missing"}
       \/ r.pc = "get" /\ r.op = "read"
       \/ /\ r.pc \in {"get", "upload", "pop"} /\ r.op \in Writes /\ r.id = t
          /\ Overlap(t)
          /\ r.op = "update" => r.pc = "get" /\ r.meta = index[t] /\ Registered(t)
    /\ Overlap(t) \/ UNCHANGED busy

\* A request goes on from one call to the next, or ends, without a write, or with one
\* that fails and may tear the file.
GoesOn(q, r) ==
    /\ req[q].pc # "written"
    /\ Goes(q, r) /\ r \in Locals
    /\ UNCHANGED <<index, restarts, told, busy, seen>>
    /\ fileOK' \in BOOLEAN /\ (fileOK' => fileOK)
    /\ failures' \in 0..MaxFailures
    /\ \/ r.pc \in {"failed", "done"}
       \/ /\ req[q].pc \in {"get", "upload"} /\ r.pc \in {"upload", "set"}
          /\ req[q].op \in Writes /\ r.op = req[q].op /\ r.id = req[q].id
          /\ r.op = "update" =>
               /\ r.change = req[q].change
               /\ r.meta = IF req[q].pc = "get" THEN Changed(req[q].meta, req[q].change)
                           ELSE req[q].meta

\* A request with its write done.
Late(q) == [req[q] EXCEPT !.pc = "written"]

\* A request writes the index, its answer still to come.
Commits(q, t, entry) ==
    /\ req[q].pc \in {"set", "pop"} /\ req[q].op \in Writes /\ req[q].id = t
    /\ t \in Trackers /\ entry \in Marks
    /\ fileOK
    /\ Put(t, entry)
    /\ Goes(q, Late(q))
    /\ UNCHANGED <<fileOK, failures, restarts, told, busy>>
    /\ req[q].op = "create" => entry = req[q].meta
    /\ req[q].op = "update" => req[q].pc = "set" /\ entry = req[q].meta
    /\ req[q].op = "delete" => entry = NoEntry

LEMMA LateLocals ==
    ASSUME Typed, NEW q \in Requests, req[q].pc \in {"set", "pop"}
    PROVE  /\ Late(q) \in Locals /\ Late(q).pc = "written"
           /\ Late(q).op = req[q].op /\ Late(q).id = req[q].id /\ req[q].op \in Writes
           /\ req[q].op \in {"create", "update"} => Late(q).meta = req[q].meta
           /\ req[q].op = "update" => Late(q).change = req[q].change
<1>1. req[q] \in Creating \union Updating \union Popping
  BY Shapes
<1>2. Late(q) \in Creating \union Updating \union Popping
  BY <1>1 DEF Late, Creating, Updating, Popping
<1>3. Late(q) \in Locals
  BY <1>2 DEF Locals
<1> QED BY <1>1, <1>3 DEF Late, Creating, Updating, Popping, Writes

\* A listing goes on.
Lists(q, r) ==
    /\ Goes(q, r) /\ r \in Locals
    /\ UNCHANGED <<index, fileOK, failures, restarts, told, busy>>
    /\ r.pc \in {"next", "listed", "list"} /\ r.op = "list"
    /\ \/ /\ req[q] = Idle
          /\ r.pc = "next" /\ r.found = {} /\ r.ids = {t \in Trackers : Registered(t)}
          /\ seen' = [seen EXCEPT ![q] = [t \in Trackers |-> {index[t]}]]
       \/ /\ req[q].pc = "next" /\ UNCHANGED seen
          /\ r.pc = "listed" /\ r.found = req[q].found
          /\ r.id \in req[q].ids /\ r.ids = req[q].ids \ {r.id} /\ r.meta = index[r.id]
       \/ /\ req[q].pc = "next" /\ UNCHANGED seen
          /\ r.pc = "next" /\ r.found = req[q].found
          /\ \E t \in req[q].ids : r.ids = req[q].ids \ {t} /\ ~Registered(t)
       \/ /\ req[q].pc = "listed" /\ UNCHANGED seen
          /\ r.pc = "next" /\ r.ids = req[q].ids
          /\ r.found = req[q].found \union {[id |-> req[q].id, meta |-> req[q].meta]}
       \/ /\ req[q].pc = "next" /\ req[q].ids = {} /\ UNCHANGED seen
          /\ r.pc = "list" /\ r.found = req[q].found

LEMMA EndedLocals ==
    ASSUME NEW pc \in {"done", "failed", "conflict", "missing"}
    PROVE  Ended(pc) \in Locals /\ Ended(pc).pc = pc
BY IdleEnds DEF Locals

LEMMA BrokenGoesOn ==
    ASSUME Typed, NEW q \in Requests, Broken(q), UNCHANGED busy, req[q].pc # "written"
    PROVE  GoesOn(q, Ended("failed"))
BY EndedLocals DEF Broken, GoesOn, Typed

LEMMA BrokenOpens ==
    ASSUME Typed, NEW q \in Requests, NEW t, req[q] = Idle, Broken(q), Overlap(t) \/ UNCHANGED busy
    PROVE  Opens(q, t, Ended("failed"))
BY EndedLocals DEF Broken, Opens

LEMMA CreateOpens ==
    ASSUME Typed, NEW q \in Requests, NEW t \in Trackers, NEW meta \in Metas, Create(q, t, meta)
    PROVE  \E r : Opens(q, t, r)
<1>1. req[q] = Idle /\ Overlap(t)
  BY DEF Create
<1>2. CASE Broken(q)
  BY <1>1, <1>2, BrokenOpens
<1>3. CASE ~Broken(q)
  <2> DEFINE r == IF Registered(t) THEN Ended("conflict")
                  ELSE [pc |-> "upload", op |-> "create", id |-> t, meta |-> meta]
  <2>1. Goes(q, r) /\ UNCHANGED <<index, fileOK, failures, restarts, told, seen>>
    BY <1>3 DEF Create
  <2>2. CASE Registered(t)
    BY <1>1, <2>1, <2>2, EndedLocals DEF Opens
  <2>3. CASE ~Registered(t)
    <3>1. r = [pc |-> "upload", op |-> "create", id |-> t, meta |-> meta]
      BY <2>3
    <3>2. r \in Creating
      BY <3>1 DEF Creating
    <3>3. r.pc = "upload" /\ r.op = "create" /\ r.id = t
      BY <3>1
    <3> HIDE DEF r
    <3> QED BY <1>1, <2>1, <3>2, <3>3 DEF Opens, Locals, Writes
  <2> QED BY <2>2, <2>3
<1> QED BY <1>2, <1>3

LEMMA RegisteredMeta ==
    ASSUME Typed, NEW t \in Trackers, Registered(t)
    PROVE  index[t] \in Metas
BY DEF Typed, Registered, Marks

LEMMA GetOpens ==
    ASSUME Typed, NEW q \in Requests, NEW t \in Trackers, Get(q, t)
    PROVE  \E r : Opens(q, t, r)
<1>1. req[q] = Idle /\ UNCHANGED busy
  BY DEF Get
<1>2. CASE Broken(q)
  BY <1>1, <1>2, BrokenOpens
<1>3. CASE ~Broken(q)
  <2> DEFINE none == [f \in Fields |-> Unset]
             r == IF Registered(t)
                  THEN [pc |-> "get", op |-> "read", id |-> t, meta |-> index[t], change |-> none]
                  ELSE Ended("missing")
  <2>1. Goes(q, r) /\ UNCHANGED <<index, fileOK, failures, restarts, told, seen>>
    BY <1>3 DEF Get
  <2>2. CASE ~Registered(t)
    BY <1>1, <2>1, <2>2, EndedLocals DEF Opens
  <2>3. CASE Registered(t)
    <3>0. none \in Changes
      BY DEF Changes
    <3> HIDE DEF none
    <3>1. r = [pc |-> "get", op |-> "read", id |-> t, meta |-> index[t], change |-> none]
      BY <2>3
    <3>2. r \in Getting
      BY <2>3, <3>0, <3>1, RegisteredMeta DEF Getting
    <3>3. r.pc = "get" /\ r.op = "read"
      BY <3>1
    <3> HIDE DEF r
    <3> QED BY <1>1, <2>1, <3>2, <3>3 DEF Opens, Locals
  <2> QED BY <2>2, <2>3
<1> QED BY <1>2, <1>3

LEMMA UpdateOpens ==
    ASSUME Typed, NEW q \in Requests, NEW t \in Trackers, NEW change \in Changes,
           Update(q, t, change)
    PROVE  \E r : Opens(q, t, r)
<1>1. req[q] = Idle /\ Overlap(t)
  BY DEF Update
<1>2. CASE Broken(q)
  BY <1>1, <1>2, BrokenOpens
<1>3. CASE ~Broken(q)
  <2> DEFINE r == IF Registered(t)
                  THEN [pc |-> "get", op |-> "update", id |-> t, meta |-> index[t], change |-> change]
                  ELSE Ended("missing")
  <2>1. Goes(q, r) /\ UNCHANGED <<index, fileOK, failures, restarts, told, seen>>
    BY <1>3 DEF Update
  <2>2. CASE ~Registered(t)
    BY <1>1, <2>1, <2>2, EndedLocals DEF Opens
  <2>3. CASE Registered(t)
    <3>1. r = [pc |-> "get", op |-> "update", id |-> t, meta |-> index[t], change |-> change]
      BY <2>3
    <3>2. r \in Getting
      BY <2>3, <3>1, RegisteredMeta DEF Getting
    <3>3. r.pc = "get" /\ r.op = "update" /\ r.id = t /\ r.meta = index[t]
      BY <3>1
    <3> HIDE DEF r
    <3> QED BY <1>1, <2>1, <2>3, <3>2, <3>3 DEF Opens, Locals, Writes
  <2> QED BY <2>2, <2>3
<1> QED BY <1>2, <1>3

LEMMA DeleteOpens ==
    ASSUME Typed, NEW q \in Requests, NEW t \in Trackers, Delete(q, t)
    PROVE  \E r : Opens(q, t, r)
<1>1. req[q] = Idle /\ Overlap(t)
  BY DEF Delete
<1>2. CASE Broken(q)
  BY <1>1, <1>2, BrokenOpens
<1>3. CASE ~Broken(q)
  <2> DEFINE r == IF Registered(t) THEN [pc |-> "pop", op |-> "delete", id |-> t]
                  ELSE Ended("missing")
  <2>1. Goes(q, r) /\ UNCHANGED <<index, fileOK, failures, restarts, told, seen>>
    BY <1>3 DEF Delete
  <2>2. CASE ~Registered(t)
    BY <1>1, <2>1, <2>2, EndedLocals DEF Opens
  <2>3. CASE Registered(t)
    <3>1. r = [pc |-> "pop", op |-> "delete", id |-> t]
      BY <2>3
    <3>2. r \in Popping
      BY <3>1 DEF Popping
    <3>3. r.pc = "pop" /\ r.op = "delete" /\ r.id = t
      BY <3>1
    <3> HIDE DEF r
    <3> QED BY <1>1, <2>1, <3>2, <3>3 DEF Opens, Locals, Writes
  <2> QED BY <2>2, <2>3
<1> QED BY <1>2, <1>3

LEMMA DownloadGoesOn ==
    ASSUME Typed, NEW q \in Requests, Download(q)
    PROVE  \E r : GoesOn(q, r)
<1> DEFINE meta == Changed(req[q].meta, req[q].change)
           more == [pc |-> "upload", op |-> "update", id |-> req[q].id, meta |-> meta,
                    change |-> req[q].change]
<1>1. /\ req[q].pc = "get" /\ req[q] \in Getting
      /\ UNCHANGED <<index, fileOK, failures, restarts, told, busy, seen>>
      /\ Goes(q, IF req[q].op = "read" THEN Ended("done") ELSE more)
  BY Shapes DEF Download, ghosts
<1>2. failures' \in 0..MaxFailures /\ fileOK' \in BOOLEAN /\ (fileOK' => fileOK)
  BY <1>1 DEF Typed
<1>3. CASE req[q].op = "read"
  BY <1>1, <1>2, <1>3, EndedLocals DEF GoesOn
<1>4. CASE req[q].op # "read"
  <2>1. req[q].op = "update" /\ req[q].id \in Trackers /\ req[q].change \in Changes /\ meta \in Metas
    BY <1>1, <1>4, ChangedMeta DEF Getting
  <2> HIDE DEF meta
  <2>2. more \in Updating
    BY <2>1 DEF Updating
  <2>3. more.pc = "upload" /\ more.op = "update" /\ more.id = req[q].id
        /\ more.change = req[q].change /\ more.meta = meta
    OBVIOUS
  <2> HIDE DEF more
  <2> QED BY <1>1, <1>2, <1>4, <2>1, <2>2, <2>3 DEF GoesOn, Locals, Writes, meta
<1> QED BY <1>3, <1>4

LEMMA UploadGoesOn ==
    ASSUME Typed, NEW q \in Requests, Upload(q)
    PROVE  \E r : GoesOn(q, r)
<1> DEFINE r == [req[q] EXCEPT !.pc = "set"]
<1>1. /\ req[q].pc = "upload" /\ req[q] \in Creating \union Updating
      /\ UNCHANGED <<index, fileOK, failures, restarts, told, busy, seen>>
      /\ Goes(q, r)
  BY Shapes DEF Upload, ghosts
<1>2. failures' \in 0..MaxFailures /\ fileOK' \in BOOLEAN /\ (fileOK' => fileOK)
  BY <1>1 DEF Typed
<1>3. r \in Creating \union Updating
  BY <1>1 DEF Creating, Updating
<1>4. /\ r.pc = "set" /\ r.op = req[q].op /\ r.op \in {"create", "update"} /\ r.id = req[q].id
      /\ r.meta = req[q].meta /\ (r.op = "update" => r.change = req[q].change)
  BY <1>1 DEF Creating, Updating
<1> HIDE DEF r
<1> QED BY <1>1, <1>2, <1>3, <1>4 DEF GoesOn, Locals, Writes

LEMMA FailGoesOn ==
    ASSUME Typed, NEW q \in Requests, BeeFails(q)
    PROVE  GoesOn(q, Ended("failed"))
<1>1. failures' \in 0..MaxFailures /\ fileOK' \in BOOLEAN /\ (fileOK' => fileOK)
  BY RegistryAssumption DEF BeeFails, Typed
<1> QED BY <1>1, EndedLocals DEF BeeFails, GoesOn, ghosts

\* A write that fails, whatever it leaves of the file.
LEMMA WriteGoesOn ==
    ASSUME Typed, NEW q \in Requests, WriteFails(q), UNCHANGED busy, req[q].pc # "written"
    PROVE  GoesOn(q, Ended("failed"))
<1>1. failures' \in 0..MaxFailures
  BY RegistryAssumption DEF WriteFails, Typed
<1> QED BY <1>1, EndedLocals DEF WriteFails, GoesOn, Typed

LEMMA SetCommits ==
    ASSUME Typed, NEW q \in Requests, SetTracker(q)
    PROVE  GoesOn(q, Ended("failed")) \/ \E t, entry : Commits(q, t, entry)
<1>1. req[q].pc = "set" /\ req[q] \in Creating \union Updating /\ UNCHANGED busy
  BY Shapes DEF SetTracker
<1>2. req[q].op \in {"create", "update"} /\ req[q].id \in Trackers /\ req[q].meta \in Marks
  BY <1>1 DEF Creating, Updating, Marks
<1>3. CASE Written(q, req[q].meta)
  <2>1. Commits(q, req[q].id, req[q].meta)
    BY <1>1, <1>2, <1>3 DEF Commits, Writes, Written, Late
  <2> QED BY <2>1
<1>4. CASE Broken(q)
  BY <1>1, <1>4, BrokenGoesOn
<1>5. CASE WriteFails(q)
  BY <1>1, <1>5, WriteGoesOn
<1> QED BY <1>3, <1>4, <1>5 DEF SetTracker

LEMMA DeleteCommits ==
    ASSUME Typed, NEW q \in Requests, DeleteTracker(q)
    PROVE  GoesOn(q, Ended("failed")) \/ \E t, entry : Commits(q, t, entry)
<1>1. req[q].pc = "pop" /\ req[q] \in Popping /\ UNCHANGED busy
  BY Shapes DEF DeleteTracker
<1>2. req[q].op = "delete" /\ req[q].id \in Trackers /\ NoEntry \in Marks
  BY <1>1 DEF Popping, Marks
<1>3. CASE Written(q, NoEntry)
  <2>1. Commits(q, req[q].id, NoEntry)
    BY <1>1, <1>2, <1>3 DEF Commits, Writes, Written, Late
  <2> QED BY <2>1
<1>4. CASE Broken(q)
  BY <1>1, <1>4, BrokenGoesOn
<1>5. CASE WriteFails(q)
  BY <1>1, <1>5, WriteGoesOn
<1> QED BY <1>3, <1>4, <1>5 DEF DeleteTracker

LEMMA ListLists ==
    ASSUME Typed, NEW q \in Requests, List(q), ~Broken(q)
    PROVE  \E r : Lists(q, r)
<1> DEFINE there == {t \in Trackers : Registered(t)}
           r == [pc |-> "next", op |-> "list", found |-> {}, ids |-> there]
<1>1. /\ req[q] = Idle /\ Goes(q, r)
      /\ seen' = [seen EXCEPT ![q] = [t \in Trackers |-> {index[t]}]]
      /\ UNCHANGED <<index, fileOK, failures, restarts, told, busy>>
  BY DEF List
<1>2. there \in SUBSET Trackers
  OBVIOUS
<1> HIDE DEF there
<1>3. r \in Choosing
  BY <1>2 DEF Choosing
<1>4. r.pc = "next" /\ r.op = "list" /\ r.found = {} /\ r.ids = there
  OBVIOUS
<1> HIDE DEF r
<1> QED BY <1>1, <1>3, <1>4 DEF Lists, Locals, there

LEMMA EntryLists ==
    ASSUME Typed, NEW q \in Requests, ListEntry(q), ~Broken(q)
    PROVE  \E r : Lists(q, r)
<1>1. PICK t \in req[q].ids :
        /\ Goes(q, IF Registered(t)
                   THEN [pc |-> "listed", op |-> "list", found |-> req[q].found,
                         ids |-> req[q].ids \ {t}, id |-> t, meta |-> index[t]]
                   ELSE Skip(req[q], t))
        /\ UNCHANGED <<index, fileOK, failures, restarts, told, seen>>
  BY DEF ListEntry
<1>2. /\ req[q].pc = "next" /\ req[q] \in Choosing /\ UNCHANGED busy
  BY Shapes DEF ListEntry
<1>3. req[q].ids \in SUBSET Trackers /\ req[q].found \in SUBSET Rows /\ t \in Trackers
      /\ req[q].ids \ {t} \in SUBSET Trackers
  BY <1>1, <1>2 DEF Choosing
<1>4. CASE Registered(t)
  <2> DEFINE r == [pc |-> "listed", op |-> "list", found |-> req[q].found,
                   ids |-> req[q].ids \ {t}, id |-> t, meta |-> index[t]]
  <2>1. r \in Fetching
    BY <1>3, <1>4, RegisteredMeta DEF Fetching
  <2>2. r.pc = "listed" /\ r.op = "list" /\ r.found = req[q].found /\ r.ids = req[q].ids \ {t}
        /\ r.id = t /\ r.meta = index[t]
    OBVIOUS
  <2>3. Goes(q, r)
    BY <1>1, <1>4
  <2> HIDE DEF r
  <2> QED BY <1>1, <1>2, <2>1, <2>2, <2>3 DEF Lists, Locals
<1>5. CASE ~Registered(t)
  <2> DEFINE r == Skip(req[q], t)
  <2>1. r \in Choosing /\ r.pc = "next" /\ r.op = "list" /\ r.found = req[q].found
        /\ r.ids = req[q].ids \ {t}
    BY <1>2, <1>3 DEF Choosing, Skip
  <2>2. Goes(q, r)
    BY <1>1, <1>5
  <2> HIDE DEF r
  <2> QED BY <1>1, <1>2, <1>5, <2>1, <2>2 DEF Lists, Locals
<1> QED BY <1>4, <1>5

LEMMA RowLists ==
    ASSUME Typed, NEW q \in Requests, ListDownload(q)
    PROVE  \E r : Lists(q, r)
<1> DEFINE rows == req[q].found \union {[id |-> req[q].id, meta |-> req[q].meta]}
           r == [pc |-> "next", op |-> "list", ids |-> req[q].ids, found |-> rows]
<1>1. /\ req[q].pc = "listed" /\ req[q] \in Fetching /\ Goes(q, r)
      /\ UNCHANGED <<index, fileOK, failures, restarts, told, busy, seen>>
  BY Shapes DEF ListDownload, ghosts
<1>2. rows \in SUBSET Rows /\ req[q].ids \in SUBSET Trackers
  BY <1>1 DEF Fetching, Rows
<1> HIDE DEF rows
<1>3. r \in Choosing
  BY <1>2 DEF Choosing
<1>4. r.pc = "next" /\ r.op = "list" /\ r.ids = req[q].ids /\ r.found = rows
  OBVIOUS
<1> HIDE DEF r
<1> QED BY <1>1, <1>3, <1>4 DEF Lists, Locals, rows

LEMMA AnswerLists ==
    ASSUME Typed, NEW q \in Requests, ListAnswer(q)
    PROVE  \E r : Lists(q, r)
<1> DEFINE r == [pc |-> "list", op |-> "list", found |-> req[q].found]
<1>1. /\ req[q].pc = "next" /\ req[q].ids = {} /\ req[q] \in Choosing /\ Goes(q, r)
      /\ UNCHANGED <<index, fileOK, failures, restarts, told, busy, seen>>
  BY Shapes DEF ListAnswer, ghosts
<1>2. r \in Answered
  BY <1>1 DEF Choosing, Answered
<1>3. r.pc = "list" /\ r.op = "list" /\ r.found = req[q].found
  OBVIOUS
<1> HIDE DEF r
<1> QED BY <1>1, <1>2, <1>3 DEF Lists, Locals

\* Every step is one of these.
LEMMA Steps ==
    ASSUME Typed, [Next]_vars
    PROVE  \/ \E q \in Requests, t \in Trackers : \E r : Opens(q, t, r)
           \/ \E q \in Requests : \E r : GoesOn(q, r)
           \/ \E q \in Requests : \E t, entry : Commits(q, t, entry)
           \/ \E q \in Requests : Answer(q)
           \/ \E q \in Requests : \E r : Lists(q, r)
           \/ Restart
           \/ UNCHANGED vars
<1>1. ASSUME NEW q \in Requests, Step(q)
      PROVE  \/ \E r : GoesOn(q, r)
             \/ \E t, entry : Commits(q, t, entry)
             \/ Answer(q)
             \/ \E r : Lists(q, r)
  <2>1. CASE Download(q) \/ Upload(q) \/ BeeFails(q)
    BY <2>1, DownloadGoesOn, UploadGoesOn, FailGoesOn
  <2>2. CASE SetTracker(q)
    BY <2>2, SetCommits
  <2>3. CASE DeleteTracker(q)
    BY <2>3, DeleteCommits
  <2>4. CASE ListEntry(q)
    <3>1. CASE Broken(q)
      BY <2>4, <3>1, BrokenGoesOn, Zenon DEF ListEntry
    <3> QED BY <2>4, <3>1, EntryLists
  <2>5. CASE ListDownload(q) \/ ListAnswer(q)
    BY <2>5, RowLists, AnswerLists
  <2> QED BY <1>1, <2>1, <2>2, <2>3, <2>4, <2>5 DEF Step
<1>2. ASSUME NEW q \in Requests, List(q)
      PROVE  (\E r : GoesOn(q, r)) \/ (\E r : Lists(q, r))
  <2>1. CASE Broken(q)
    BY <1>2, <2>1, BrokenGoesOn DEF List, Idle
  <2> QED BY <1>2, <2>1, ListLists
<1>3. ASSUME NEW q \in Requests, Arrival(q), ~List(q)
      PROVE  \E t \in Trackers : \E r : Opens(q, t, r)
  BY <1>3, GetOpens, DeleteOpens, CreateOpens, UpdateOpens DEF Arrival
<1> QED
  BY <1>1, <1>2, <1>3, Zenon DEF Next

-----------------------------------------------------------------------------
\* The inductive invariant.

\* What busy stands for.
Alone ==
    \A t \in Trackers \ busy : \A p, q \in Requests : Writing(p, t) /\ Writing(q, t) => p = q

\* An update that is alone with its tracker has read the entry that it will replace.
Current(q, t) ==
    /\ Registered(t)
    /\ req[q].meta = IF req[q].pc = "get" THEN index[t] ELSE Changed(index[t], req[q].change)

Snapshots ==
    \A q \in Requests : \A t \in Trackers \ busy :
        Writing(q, t) /\ req[q].op = "update" /\ req[q].pc # "written" => Current(q, t)

Collecting == {"next", "listed"}        \* a listing under way

\* A listing has a row, with metadata it has met, or still looks, or has met the
\* absence, for every tracker; and one row at most.
Accounted(r, s, t) ==
    \/ NoEntry \in s[t]
    \/ \E row \in r.found : row.id = t
    \/ r.pc # "list" /\ t \in r.ids
    \/ r.pc = "listed" /\ t = r.id

Fair(r, s) ==
    /\ \A row \in r.found : row.meta \in s[row.id]
    /\ \A row, other \in r.found : row.id = other.id => row = other
    /\ \A t \in Trackers : Accounted(r, s, t)
    /\ r.pc \in Collecting => \A row \in r.found : row.id \notin r.ids
    /\ r.pc = "listed" =>
         /\ r.id \notin r.ids /\ r.meta \in s[r.id]
         /\ \A row \in r.found : row.id # r.id

Listing(q) ==
    /\ req[q].pc \in Collecting \union {"list"} => Fair(req[q], seen[q])
    /\ req[q].pc \in Collecting => \A t \in Trackers : index[t] \in seen[q][t]

RegistryInv ==
    /\ Typed
    /\ Alone
    /\ Snapshots
    /\ SerialRegistryExact
    /\ \A q \in Requests : Listing(q)

LEMMA InitInv == Init => RegistryInv
<1> SUFFICES ASSUME Init PROVE RegistryInv
  OBVIOUS
<1>1. Typed
  BY IdleEnds, RegistryAssumption DEF Init, Typed, Marks, Locals
<1>2. \A q \in Requests : req[q].pc = "idle"
  BY DEF Init, Idle
<1>3. SerialRegistryExact
  BY <1>2 DEF Init, SerialRegistryExact, Outcomes
<1> QED
  BY <1>1, <1>2, <1>3 DEF RegistryInv, Alone, Snapshots, Listing, Writing, Waiting, Collecting

LEMMA BusyGrows ==
    ASSUME Typed, [Next]_vars
    PROVE  busy \subseteq busy'
BY Steps DEF Opens, GoesOn, Commits, Answer, Lists, Restart, vars, Overlap

\* A writing request is one that was, or that arrives.
LEMMA WritingBefore ==
    ASSUME Typed, [Next]_vars, NEW p \in Requests, NEW t \in Trackers, Writing(p, t)'
    PROVE  Writing(p, t) \/ \E r : Opens(p, t, r)
<1>1. ASSUME NEW q \in Requests, NEW u \in Trackers, NEW r, Opens(q, u, r)
      PROVE  Writing(p, t) \/ Opens(p, t, r)
  <2>1. req'[q] = r /\ \A s \in Requests \ {q} : req'[s] = req[s]
    BY <1>1, Moved DEF Opens
  <2>2. CASE p = q
    <3>1. r.pc \in {"get", "upload", "set", "pop", "written", "next", "listed"} /\ r.op \in Writes /\ r.id = t
      BY <2>1, <2>2 DEF Writing, Waiting, Writes
    <3>2. u = t
      BY <1>1, <3>1 DEF Opens, Writes
    <3> QED BY <1>1, <2>2, <3>2
  <2>3. CASE p # q
    BY <2>1, <2>3 DEF Writing, Waiting
  <2> QED BY <2>2, <2>3
<1>2. ASSUME NEW q \in Requests, NEW r, GoesOn(q, r)
      PROVE  Writing(p, t)
  <2>1. req'[q] = r /\ \A s \in Requests \ {q} : req'[s] = req[s]
    BY <1>2, Moved DEF GoesOn
  <2>2. CASE p = q
    <3>1. r.pc \in {"get", "upload", "set", "pop", "written", "next", "listed"} /\ r.op \in Writes /\ r.id = t
      BY <2>1, <2>2 DEF Writing, Waiting, Writes
    <3> QED BY <1>2, <2>2, <3>1 DEF GoesOn, Writing, Waiting, Writes
  <2>3. CASE p # q
    BY <2>1, <2>3 DEF Writing, Waiting
  <2> QED BY <2>2, <2>3
<1>3. ASSUME NEW q \in Requests, NEW u, NEW entry, Commits(q, u, entry)
      PROVE  Writing(p, t)
  <2>0. req[q].pc \in {"set", "pop"}
    BY <1>3 DEF Commits
  <2>1. req'[q] = Late(q) /\ \A s \in Requests \ {q} : req'[s] = req[s]
    BY <1>3, <2>0, Moved, LateLocals DEF Commits
  <2>2. Late(q).op = req[q].op /\ Late(q).id = req[q].id
    BY <2>0, LateLocals
  <2> QED BY <2>0, <2>1, <2>2 DEF Writing, Waiting
<1>7. ASSUME NEW q \in Requests, Answer(q)
      PROVE  Writing(p, t)
  <2>1. req'[q] = Ended("done") /\ \A s \in Requests \ {q} : req'[s] = req[s]
    BY <1>7, Moved, EndedLocals DEF Answer
  <2>2. p # q
    BY <2>1 DEF Writing, Waiting, Ended
  <2> QED BY <2>1, <2>2 DEF Writing, Waiting
<1>4. ASSUME NEW q \in Requests, NEW r, Lists(q, r)
      PROVE  Writing(p, t)
  <2>1. req'[q] = r /\ r.op = "list" /\ \A s \in Requests \ {q} : req'[s] = req[s]
    BY <1>4, Moved DEF Lists
  <2>2. p # q
    BY <2>1 DEF Writing
  <2> QED BY <2>1, <2>2 DEF Writing, Waiting
<1>5. CASE Restart
  <2>1. req'[p] = IF Waiting(p) THEN Ended("failed") ELSE req[p]
    BY <1>5 DEF Restart
  <2> QED BY <2>1 DEF Writing, Waiting, Ended
<1>6. CASE UNCHANGED vars
  BY <1>6 DEF vars, Writing, Waiting
<1> QED BY <1>1, <1>2, <1>3, <1>4, <1>5, <1>6, <1>7, Steps

LEMMA AloneStep ==
    ASSUME RegistryInv, [Next]_vars
    PROVE  Alone'
<1> SUFFICES ASSUME NEW t \in Trackers, t \notin busy', NEW p \in Requests, NEW q \in Requests,
                    Writing(p, t)', Writing(q, t)'
             PROVE  p = q
  BY DEF Alone
<1>1. Typed /\ Alone /\ t \notin busy
  BY BusyGrows DEF RegistryInv
<1>2. ASSUME NEW a \in Requests, NEW b \in Requests, Writing(b, t)', NEW r, Opens(a, t, r), r.op \in Writes,
             r.pc \in {"get", "upload", "set", "pop", "written", "next", "listed"}
      PROVE  a = b
  <2> SUFFICES ASSUME a # b PROVE FALSE
    OBVIOUS
  <2>1. req'[b] = req[b]
    BY <1>1, <1>2, Moved DEF Opens
  <2>2. Writing(b, t)
    BY <1>2, <2>1 DEF Writing, Waiting
  <2>3. Overlap(t)
    BY <1>2 DEF Opens, Writes
  <2>4. t \in busy'
    BY <2>2, <2>3 DEF Overlap
  <2> QED BY <2>4
<1>3. ASSUME NEW a \in Requests, Writing(a, t)', NEW r, Opens(a, t, r)
      PROVE  r.op \in Writes /\ r.pc \in {"get", "upload", "set", "pop", "written", "next", "listed"}
  <2>1. req'[a] = r
    BY <1>1, <1>3, Moved DEF Opens
  <2> QED BY <1>3, <2>1 DEF Writing, Waiting, Writes
<1>4. CASE Writing(p, t) /\ Writing(q, t)
  BY <1>1, <1>4 DEF Alone
<1>5. CASE \E r : Opens(p, t, r)
  BY <1>2, <1>3, <1>5
<1>6. CASE \E r : Opens(q, t, r)
  BY <1>2, <1>3, <1>6
<1> QED BY <1>1, <1>4, <1>5, <1>6, WritingBefore

LEMMA SnapshotsStep ==
    ASSUME RegistryInv, [Next]_vars, NEW p \in Requests, NEW t \in Trackers, t \notin busy',
           Writing(p, t)', req'[p].op = "update", req'[p].pc # "written"
    PROVE  Current(p, t)'
<1>1. Typed /\ t \notin busy
  BY BusyGrows DEF RegistryInv
<1>2. ASSUME Writing(p, t), req'[p] = req[p], index'[t] = index[t]
      PROVE  Current(p, t)'
  <2>1. Current(p, t)
    BY <1>1, <1>2 DEF RegistryInv, Snapshots
  <2> QED BY <1>2, <2>1 DEF Current, Registered
<1>3. ASSUME req'[p] = req[p] PROVE Writing(p, t)
  BY <1>3 DEF Writing, Waiting
<1>4. ASSUME NEW q \in Requests, NEW u \in Trackers, NEW r, Opens(q, u, r)
      PROVE  Current(p, t)'
  <2>1. req'[q] = r /\ index' = index /\ \A s \in Requests \ {q} : req'[s] = req[s]
    BY <1>1, <1>4, Moved DEF Opens
  <2>2. CASE p = q
    <3>1. r.op = "update" /\ r.id = t /\ r.pc \notin {"failed", "conflict", "missing"}
      BY <2>1, <2>2 DEF Writing, Waiting
    <3>2. r.pc = "get" /\ r.meta = index[t] /\ Registered(t)
      BY <1>4, <3>1 DEF Opens
    <3> QED BY <2>1, <2>2, <3>2 DEF Current, Registered
  <2>3. CASE p # q
    BY <1>2, <1>3, <2>1, <2>3
  <2> QED BY <2>2, <2>3
<1>5. ASSUME NEW q \in Requests, NEW r, GoesOn(q, r)
      PROVE  Current(p, t)'
  <2>1. req'[q] = r /\ index' = index /\ \A s \in Requests \ {q} : req'[s] = req[s]
    BY <1>1, <1>5, Moved DEF GoesOn
  <2>2. CASE p = q
    <3>1. r.op = "update" /\ r.id = t /\ r.pc \notin {"failed", "done"}
      BY <2>1, <2>2 DEF Writing, Waiting
    <3>2. /\ req[p].pc \in {"get", "upload"} /\ r.pc \in {"upload", "set"}
          /\ req[p].op = "update" /\ req[p].id = t /\ r.change = req[p].change
          /\ r.meta = IF req[p].pc = "get" THEN Changed(req[p].meta, req[p].change)
                      ELSE req[p].meta
      BY <1>5, <2>2, <3>1 DEF GoesOn
    <3>3. Writing(p, t)
      BY <3>2 DEF Writing, Waiting
    <3>4. Current(p, t)
      BY <1>1, <3>2, <3>3 DEF RegistryInv, Snapshots
    <3>5. r.meta = Changed(index[t], r.change) /\ Registered(t)
      BY <3>2, <3>4 DEF Current
    <3> QED BY <2>1, <2>2, <3>2, <3>5 DEF Current, Registered
  <2>3. CASE p # q
    BY <1>2, <1>3, <2>1, <2>3
  <2> QED BY <2>2, <2>3
<1>6. ASSUME NEW q \in Requests, NEW u, NEW entry, Commits(q, u, entry)
      PROVE  Current(p, t)'
  <2>0. req[q].pc \in {"set", "pop"}
    BY <1>6 DEF Commits
  <2>1. /\ req'[q] = Late(q) /\ Late(q).pc = "written"
        /\ \A s \in Requests \ {q} : req'[s] = req[s]
    BY <1>1, <1>6, <2>0, Moved, LateLocals DEF Commits
  <2>2. p # q /\ req'[p] = req[p] /\ Writing(p, t)
    BY <1>3, <2>1
  <2>3. Writing(q, u) /\ u \in Trackers
    BY <1>6 DEF Commits, Writing, Waiting, Writes
  <2>4. u # t
    BY <1>1, <2>2, <2>3 DEF RegistryInv, Alone
  <2>5. index'[t] = index[t]
    BY <1>1, <1>6, <2>4 DEF Commits, Put, Typed
  <2> QED BY <1>2, <2>2, <2>5
<1>10. ASSUME NEW q \in Requests, Answer(q)
      PROVE  Current(p, t)'
  <2>1. req'[q] = Ended("done") /\ index' = index /\ \A s \in Requests \ {q} : req'[s] = req[s]
    BY <1>1, <1>10, Moved, EndedLocals DEF Answer
  <2>2. p # q
    BY <2>1 DEF Writing, Waiting, Ended
  <2> QED BY <1>2, <1>3, <2>1, <2>2
<1>7. ASSUME NEW q \in Requests, NEW r, Lists(q, r)
      PROVE  Current(p, t)'
  <2>1. req'[q] = r /\ r.op = "list" /\ index' = index /\ \A s \in Requests \ {q} : req'[s] = req[s]
    BY <1>1, <1>7, Moved DEF Lists
  <2> QED BY <1>2, <1>3, <2>1
<1>8. CASE Restart
  <2>1. req'[p] = IF Waiting(p) THEN Ended("failed") ELSE req[p]
    BY <1>8 DEF Restart
  <2> QED BY <2>1 DEF Writing, Waiting, Ended
<1>9. CASE UNCHANGED vars
  BY <1>2, <1>3, <1>9 DEF vars
<1> QED BY <1>1, <1>4, <1>5, <1>6, <1>7, <1>8, <1>9, <1>10, Steps

\* The writes on a tracker whose answers are still to come.
Pending(t) == {q \in Requests : req[q].pc = "written" /\ req[q].id = t}

LEMMA PendingWrites ==
    ASSUME Typed, NEW t \in Trackers, NEW q \in Pending(t)
    PROVE  Writing(q, t)
<1>1. q \in Requests /\ req[q].pc = "written" /\ req[q].id = t
  BY DEF Pending
<1>2. req[q] \in Creating \union Updating \union Popping
  BY <1>1, Shapes
<1> QED BY <1>1, <1>2 DEF Writing, Waiting, Creating, Updating, Popping

\* What the entry may be when one write, or none, waits for its answer.
LEMMA OneOutcome ==
    ASSUME NEW t, NEW q, Pending(t) = {q}
    PROVE  Outcomes(t) = After(req[q], told[t])
<1>1. Pending(t) # {}
  OBVIOUS
<1>2. Outcomes(t) = UNION {After(req[p], told[t]) : p \in Pending(t)}
  BY <1>1 DEF Outcomes, Pending
<1> HIDE DEF Pending
<1>3. {After(req[p], told[t]) : p \in Pending(t)} = {After(req[q], told[t])}
  OBVIOUS
<1> QED BY <1>2, <1>3

LEMMA NoOutcome ==
    ASSUME NEW t, Pending(t) = {}
    PROVE  Outcomes(t) = told[t]
BY DEF Outcomes, Pending

\* No other write is pending beside a request that is alone with its tracker.
LEMMA AlonePending ==
    ASSUME Typed, Alone, NEW t \in Trackers, t \notin busy, NEW q \in Requests, Writing(q, t)
    PROVE  Pending(t) = IF req[q].pc = "written" THEN {q} ELSE {}
<1>1. \A p \in Pending(t) : p = q
  BY PendingWrites DEF Alone, Pending
<1>2. req[q].id = t
  BY DEF Writing
<1> QED BY <1>1, <1>2 DEF Pending

LEMMA AfterMarks ==
    ASSUME Typed, NEW q \in Requests, req[q].pc = "written", NEW entries \in SUBSET Marks
    PROVE  After(req[q], entries) \in SUBSET Marks
<1>1. req[q] \in Creating \union Updating \union Popping
  BY Shapes
<1>2. CASE req[q] \in Creating
  BY <1>2 DEF Creating, After, Marks
<1>3. CASE req[q] \in Popping
  BY <1>3 DEF Popping, After, Marks
<1>4. CASE req[q] \in Updating
  <2>1. req[q].op = "update" /\ req[q].change \in Changes
    BY <1>4 DEF Updating
  <2>2. After(req[q], entries) = {Changed(e, req[q].change) : e \in entries \ {NoEntry}}
    BY <2>1 DEF After, Changed
  <2>3. \A e \in entries \ {NoEntry} : e \in Metas
    BY DEF Marks
  <2>4. \A e \in entries \ {NoEntry} : Changed(e, req[q].change) \in Metas
    BY <2>1, <2>3, ChangedMeta
  <2> QED BY <2>2, <2>4 DEF Marks
<1> QED BY <1>1, <1>2, <1>3, <1>4

LEMMA OutcomesMarks ==
    ASSUME Typed, NEW t \in Trackers
    PROVE  Outcomes(t) \in SUBSET Marks
<1>1. told[t] \in SUBSET Marks
  BY DEF Typed
<1>2. \A q \in Pending(t) : After(req[q], told[t]) \in SUBSET Marks
  BY <1>1, AfterMarks DEF Pending
<1>3. Outcomes(t) = IF Pending(t) = {} THEN told[t]
                    ELSE UNION {After(req[q], told[t]) : q \in Pending(t)}
  BY DEF Outcomes, Pending
<1> HIDE DEF Pending
<1> QED BY <1>1, <1>2, <1>3

\* The write of a request that was alone makes of the tracker what the request does.
LEMMA CommitExact ==
    ASSUME RegistryInv, NEW q \in Requests, NEW t, NEW entry, Commits(q, t, entry), t \notin busy
    PROVE  entry \in After(Late(q), told[t])
<1>1. /\ Typed /\ Alone /\ t \in Trackers /\ req[q].id = t /\ fileOK
      /\ req[q].pc \in {"set", "pop"} /\ req[q].op \in Writes /\ Writing(q, t)
  BY DEF RegistryInv, Commits, Writing, Waiting, Writes
<1>2. /\ Late(q).op = req[q].op
      /\ req[q].op \in {"create", "update"} => Late(q).meta = req[q].meta
      /\ req[q].op = "update" => Late(q).change = req[q].change
  BY <1>1, LateLocals
<1>3. CASE req[q].op = "create"
  BY <1>2, <1>3 DEF Commits, After
<1>4. CASE req[q].op = "delete"
  BY <1>2, <1>4 DEF Commits, After
<1>5. CASE req[q].op = "update"
  <2>1. entry = req[q].meta /\ req[q].pc = "set"
    BY <1>5 DEF Commits
  <2>2. Registered(t) /\ entry = Changed(index[t], Late(q).change)
    BY <1>1, <1>2, <1>5, <2>1 DEF RegistryInv, Snapshots, Current
  <2>3. Pending(t) = {}
    BY <1>1, <2>1, AlonePending
  <2>4. index[t] \in told[t]
    BY <1>1, <2>3, NoOutcome DEF RegistryInv, SerialRegistryExact
  <2>5. index[t] \in told[t] \ {NoEntry}
    BY <2>2, <2>4 DEF Registered
  <2>6. After(Late(q), told[t]) = {Changed(e, Late(q).change) : e \in told[t] \ {NoEntry}}
    BY <1>2, <1>5 DEF After, Changed
  <2> QED BY <2>2, <2>5, <2>6
<1> QED BY <1>1, <1>3, <1>4, <1>5 DEF Writes

\* What the entry of a tracker may be rests with the requests that have written it.
LEMMA SameOutcomes ==
    ASSUME NEW t \in Trackers, told'[t] = told[t], Pending(t)' = Pending(t),
           \A p \in Pending(t) : req'[p] = req[p]
    PROVE  Outcomes(t)' = Outcomes(t)
<1> DEFINE old(p) == After(req[p], told[t])
           new(p) == After(req'[p], told'[t])
<1>1. \A p \in Pending(t) : new(p) = old(p)
  OBVIOUS
<1>2. Outcomes(t) = IF Pending(t) = {} THEN told[t] ELSE UNION {old(p) : p \in Pending(t)}
  BY DEF Outcomes, Pending
<1>3. Outcomes(t)' = IF Pending(t)' = {} THEN told'[t] ELSE UNION {new(p) : p \in Pending(t)'}
  BY DEF Outcomes, Pending
<1> HIDE DEF Pending, Outcomes, old, new
<1>4. {new(p) : p \in Pending(t)} = {old(p) : p \in Pending(t)}
  BY <1>1
<1>5. CASE Pending(t) = {}
  BY <1>2, <1>3, <1>5
<1>6. CASE Pending(t) # {}
  <2>1. Outcomes(t)' = UNION {new(p) : p \in Pending(t)'}
    BY <1>3, <1>6
  <2>2. {new(p) : p \in Pending(t)'} = {new(p) : p \in Pending(t)}
    OBVIOUS
  <2> QED BY <1>2, <1>4, <1>6, <2>1, <2>2
<1> QED BY <1>5, <1>6

\* A request that has nothing pending on a tracker leaves what is.
LEMMA SamePending ==
    ASSUME Typed, NEW q \in Requests, NEW r \in Locals, Goes(q, r), NEW t \in Trackers,
           req[q].pc = "written" => req[q].id # t,
           r.pc = "written" => r.id # t
    PROVE  Pending(t)' = Pending(t) /\ \A p \in Pending(t) : req'[p] = req[p]
<1>1. req'[q] = r /\ \A p \in Requests \ {q} : req'[p] = req[p]
  BY Moved
<1> QED BY <1>1 DEF Pending

LEMMA SerialStep ==
    ASSUME RegistryInv, [Next]_vars, Typed', Alone'
    PROVE  SerialRegistryExact'
<1> SUFFICES ASSUME NEW t \in Trackers, t \notin busy', fileOK'
             PROVE  index'[t] \in Outcomes(t)'
  BY DEF SerialRegistryExact
<1>1. Typed /\ Alone /\ t \notin busy
  BY BusyGrows DEF RegistryInv
<1>2. ASSUME fileOK PROVE index[t] \in Outcomes(t)
  BY <1>1, <1>2 DEF RegistryInv, SerialRegistryExact
<1>3. ASSUME fileOK, UNCHANGED told, index'[t] = index[t],
             NEW q \in Requests, NEW r \in Locals, Goes(q, r),
             req[q].pc = "written" => req[q].id # t, r.pc = "written" => r.id # t
      PROVE  index'[t] \in Outcomes(t)'
  <2>1. Pending(t)' = Pending(t) /\ \A p \in Pending(t) : req'[p] = req[p]
    BY <1>1, <1>3, SamePending
  <2>2. Outcomes(t)' = Outcomes(t)
    BY <1>3, <2>1, SameOutcomes
  <2> QED BY <1>2, <1>3, <2>2
<1>4. ASSUME NEW q \in Requests, NEW u \in Trackers, NEW r, Opens(q, u, r)
      PROVE  index'[t] \in Outcomes(t)'
  <2>1. req[q].pc # "written" /\ r.pc # "written"
    BY <1>4 DEF Opens, Idle
  <2> QED BY <1>3, <1>4, <2>1 DEF Opens
<1>5. ASSUME NEW q \in Requests, NEW r, GoesOn(q, r)
      PROVE  index'[t] \in Outcomes(t)'
  <2>1. req[q].pc # "written" /\ r.pc # "written"
    BY <1>5 DEF GoesOn
  <2> QED BY <1>3, <1>5, <2>1 DEF GoesOn
<1>6. ASSUME NEW q \in Requests, NEW r, Lists(q, r)
      PROVE  index'[t] \in Outcomes(t)'
  <2>1. req[q].pc # "written" /\ r.pc # "written"
    BY <1>6 DEF Lists, Idle
  <2> QED BY <1>3, <1>6, <2>1 DEF Lists
<1>7. ASSUME NEW q \in Requests, NEW u, NEW entry, Commits(q, u, entry)
      PROVE  index'[t] \in Outcomes(t)'
  <2>0. /\ req[q].pc \in {"set", "pop"} /\ req[q].id = u /\ u \in Trackers
        /\ fileOK /\ UNCHANGED told /\ Goes(q, Late(q))
        /\ index' = [index EXCEPT ![u] = entry]
    BY <1>7 DEF Commits, Put
  <2>1. /\ Late(q) \in Locals /\ Late(q).pc = "written" /\ Late(q).id = u
        /\ Late(q).op \in Writes
    BY <1>1, <2>0, LateLocals
  <2>2. CASE u # t
    <3>1. index'[t] = index[t]
      BY <1>1, <2>0, <2>2 DEF Typed
    <3> QED BY <1>3, <2>0, <2>1, <2>2, <3>1
  <2>3. CASE u = t
    <3>1. index'[t] = entry
      BY <1>1, <2>0, <2>3 DEF Typed
    <3>2. req'[q] = Late(q)
      BY <1>1, <2>0, <2>1, Moved
    <3>3. Writing(q, t)
      BY <1>1, <2>0, <2>3, LateLocals DEF Writing, Waiting, Writes
    <3>4. Pending(t) = {}
      BY <1>1, <2>0, <3>3, AlonePending
    <3>5. \A p \in Requests \ {q} : req'[p] = req[p]
      BY <1>1, <2>0, <2>1, Moved
    <3>6. Pending(t)' = {q}
      <4>1. q \in Pending(t)'
        BY <2>1, <2>3, <3>2 DEF Pending
      <4>2. \A p \in Requests \ {q} : p \notin Pending(t)
        BY <3>4
      <4>3. \A p \in Requests \ {q} : p \notin Pending(t)'
        BY <3>5, <4>2 DEF Pending
      <4>4. Pending(t)' \subseteq Requests
        BY DEF Pending
      <4> QED BY <4>1, <4>3, <4>4
    <3>7. Outcomes(t)' = UNION {After(req'[p], told'[t]) : p \in Pending(t)'}
      BY <3>6 DEF Outcomes, Pending
    <3>8. Outcomes(t)' = After(req'[q], told'[t])
      BY <3>6, <3>7
    <3>9. entry \in After(Late(q), told[t])
      BY <1>1, <1>7, <2>3, CommitExact
    <3> QED BY <2>0, <3>1, <3>2, <3>8, <3>9
  <2> QED BY <2>2, <2>3
<1>8. ASSUME NEW q \in Requests, Answer(q)
      PROVE  index'[t] \in Outcomes(t)'
  <2>0. /\ req[q].pc = "written" /\ Goes(q, Ended("done")) /\ UNCHANGED <<index, fileOK>>
        /\ told' = IF req[q].id \in busy THEN told
                   ELSE [told EXCEPT ![req[q].id] = After(req[q], @)]
    BY <1>8 DEF Answer
  <2>1. Ended("done") \in Locals /\ Ended("done").pc = "done"
    BY EndedLocals
  <2>2. CASE req[q].id # t
    <3>1. told'[t] = told[t]
      BY <1>1, <2>0, <2>2 DEF Typed
    <3>2. Pending(t)' = Pending(t) /\ \A p \in Pending(t) : req'[p] = req[p]
      BY <1>1, <2>0, <2>1, <2>2, SamePending
    <3>3. Outcomes(t)' = Outcomes(t)
      BY <3>1, <3>2, SameOutcomes
    <3> QED BY <1>2, <2>0, <3>3
  <2>3. CASE req[q].id = t
    <3>0. q \in Pending(t)
      BY <2>0, <2>3 DEF Pending
    <3>1. Writing(q, t)
      BY <1>1, <3>0, PendingWrites
    <3>2. Pending(t) = {q}
      BY <1>1, <2>0, <3>1, AlonePending
    <3>3. Outcomes(t) = After(req[q], told[t])
      BY <3>2, OneOutcome
    <3>4. told'[t] = After(req[q], told[t])
      BY <1>1, <2>0, <2>3 DEF Typed
    <3>5. req'[q].pc # "written" /\ \A p \in Requests \ {q} : req'[p] = req[p]
      BY <1>1, <2>0, <2>1, Moved
    <3>6. Pending(t)' = {}
      BY <3>2, <3>5 DEF Pending
    <3>7. Outcomes(t)' = told'[t]
      BY <3>6 DEF Outcomes, Pending
    <3> QED BY <1>2, <2>0, <3>3, <3>4, <3>7
  <2> QED BY <2>2, <2>3
<1>9. CASE Restart
  <2>1. /\ fileOK /\ index' = index
        /\ told'[t] = told[t] \union Outcomes(t)
    BY <1>9 DEF Restart
  <2>2. \A p \in Requests : req'[p].pc # "written"
    <3> SUFFICES ASSUME NEW p \in Requests PROVE req'[p].pc # "written"
      OBVIOUS
    <3>1. req'[p] = IF Waiting(p) THEN Ended("failed") ELSE req[p]
      BY <1>9 DEF Restart
    <3> QED BY <3>1 DEF Waiting, Ended
  <2>3. Pending(t)' = {}
    BY <2>2 DEF Pending
  <2>4. Outcomes(t)' = told'[t]
    BY <2>3 DEF Outcomes, Pending
  <2> QED BY <1>2, <2>1, <2>4
<1>10. CASE UNCHANGED vars
  <2>1. /\ fileOK /\ index' = index /\ told' = told /\ Pending(t)' = Pending(t)
        /\ \A p \in Pending(t) : req'[p] = req[p]
    BY <1>10 DEF vars, Pending
  <2>2. Outcomes(t)' = Outcomes(t)
    BY <2>1, SameOutcomes
  <2> QED BY <1>2, <2>1, <2>2
<1> QED
  BY <1>1, <1>4, <1>5, <1>6, <1>7, <1>8, <1>9, <1>10, Steps

LEMMA TypedStep ==
    ASSUME RegistryInv, [Next]_vars
    PROVE  Typed'
<1>1. Typed
  BY DEF RegistryInv
<1>2. ASSUME NEW q \in Requests, NEW t \in Trackers, NEW r, Opens(q, t, r)
      PROVE  Typed'
  <2>1. req' \in [Requests -> Locals]
    BY <1>1, <1>2, Moved DEF Opens
  <2>2. busy' \subseteq Trackers
    BY <1>1, <1>2 DEF Opens, Overlap, Typed
  <2> QED BY <1>1, <1>2, <2>1, <2>2 DEF Opens, Typed
<1>3. ASSUME NEW q \in Requests, NEW r, GoesOn(q, r)
      PROVE  Typed'
  <2>1. req' \in [Requests -> Locals]
    BY <1>1, <1>3, Moved DEF GoesOn
  <2> QED BY <1>1, <1>3, <2>1 DEF GoesOn, Typed
<1>8. ASSUME NEW q \in Requests, Answer(q)
      PROVE  Typed'
  <2>1. req[q].pc = "written" /\ req' \in [Requests -> Locals]
    BY <1>1, <1>8, Moved, EndedLocals DEF Answer
  <2>2. \A u \in Trackers : After(req[q], told[u]) \in SUBSET Marks
    BY <1>1, <2>1, AfterMarks DEF Typed
  <2>3. told' \in [Trackers -> SUBSET Marks]
    BY <1>1, <1>8, <2>2 DEF Answer, Typed
  <2> QED BY <1>1, <1>8, <2>1, <2>3 DEF Answer, Typed
<1>4. ASSUME NEW q \in Requests, NEW t, NEW entry, Commits(q, t, entry)
      PROVE  Typed'
  <2>0. req[q].pc \in {"set", "pop"}
    BY <1>4 DEF Commits
  <2>1. req' \in [Requests -> Locals]
    BY <1>1, <1>4, <2>0, Moved, LateLocals DEF Commits
  <2>2. index' = [index EXCEPT ![t] = entry] /\ t \in Trackers /\ entry \in Marks
    BY <1>4 DEF Commits, Put
  <2>3. index' \in [Trackers -> Marks]
    BY <1>1, <2>2 DEF Typed
  <2>4. ASSUME NEW p \in Requests
        PROVE  [seen[p] EXCEPT ![t] = @ \union {entry}] \in [Trackers -> SUBSET Marks]
    <3>1. seen[p] \in [Trackers -> SUBSET Marks]
      BY <1>1 DEF Typed
    <3> QED BY <2>2, <3>1
  <2>5. \A p \in Requests : seen[p] \in [Trackers -> SUBSET Marks]
    BY <1>1 DEF Typed
  <2>6. seen' \in [Requests -> [Trackers -> SUBSET Marks]]
    BY <1>4, <2>4, <2>5 DEF Commits, Put
  <2> QED BY <1>1, <1>4, <2>1, <2>3, <2>6 DEF Commits, Typed
<1>5. ASSUME NEW q \in Requests, NEW r, Lists(q, r)
      PROVE  Typed'
  <2>1. req' \in [Requests -> Locals]
    BY <1>1, <1>5, Moved DEF Lists
  <2>2. [t \in Trackers |-> {index[t]}] \in [Trackers -> SUBSET Marks]
    BY <1>1 DEF Typed
  <2>3. seen' \in [Requests -> [Trackers -> SUBSET Marks]]
    BY <1>1, <1>5, <2>2 DEF Lists, Typed
  <2> QED BY <1>1, <1>5, <2>1, <2>3 DEF Lists, Typed
<1>6. CASE Restart
  <2>1. req' \in [Requests -> Locals]
    BY <1>1, <1>6, EndedLocals DEF Restart, Typed
  <2>2. restarts' \in 0..MaxRestarts
    <3>1. restarts' = restarts + 1 /\ restarts < MaxRestarts /\ restarts \in 0..MaxRestarts
      BY <1>1, <1>6 DEF Restart, Typed
    <3> QED BY <3>1, RegistryAssumption
  <2>3. fileOK' \in BOOLEAN
    BY <1>1, <1>6 DEF Restart, Typed
  <2>4. told' \in [Trackers -> SUBSET Marks]
    <3>1. \A t \in Trackers : told[t] \union Outcomes(t) \in SUBSET Marks
      BY <1>1, OutcomesMarks DEF Typed
    <3>2. told' = [t \in Trackers |-> told[t] \union Outcomes(t)]
      BY <1>6 DEF Restart
    <3> QED BY <3>1, <3>2
  <2> QED BY <1>1, <1>6, <2>1, <2>2, <2>3, <2>4 DEF Restart, Typed
<1>7. CASE UNCHANGED vars
  BY <1>1, <1>7 DEF Typed, vars
<1> QED BY <1>1, <1>2, <1>3, <1>4, <1>5, <1>6, <1>7, <1>8, Steps

-----------------------------------------------------------------------------
\* The listings.

\* What is under way, or answered, keeps what it has when only more is met.
LEMMA FairGrows ==
    ASSUME NEW r, NEW s, NEW more, Fair(r, s), r.found \subseteq Rows,
           r.pc = "listed" => r.id \in Trackers,
           \A t \in Trackers : s[t] \subseteq more[t]
    PROVE  Fair(r, more)
<1>1. \A row \in r.found : row.id \in Trackers
  BY DEF Rows
<1> QED BY <1>1 DEF Fair, Accounted

LEMMA ListsFair ==
    ASSUME RegistryInv, NEW q \in Requests, NEW r, Lists(q, r)
    PROVE  Fair(r, seen'[q]) /\ (r.pc \in Collecting => \A t \in Trackers : index[t] \in seen'[q][t])
<1>1. Typed /\ Listing(q)
  BY DEF RegistryInv
<1>2. CASE req[q] = Idle
  <2>1. /\ r.pc = "next" /\ r.found = {} /\ r.ids = {t \in Trackers : Registered(t)}
        /\ seen' = [seen EXCEPT ![q] = [t \in Trackers |-> {index[t]}]]
    BY <1>2 DEF Lists, Idle
  <2>2. \A t \in Trackers : seen'[q][t] = {index[t]}
    BY <1>1, <2>1 DEF Typed
  <2>3. \A t \in Trackers : Accounted(r, seen'[q], t)
    BY <2>1, <2>2 DEF Accounted, Registered
  <2> QED BY <2>1, <2>2, <2>3 DEF Fair, Collecting
<1>3. CASE req[q] # Idle
  <2>1. /\ UNCHANGED seen /\ req[q].pc \in Collecting
        /\ Fair(req[q], seen[q]) /\ \A t \in Trackers : index[t] \in seen[q][t]
    BY <1>1, <1>3 DEF Lists, Listing, Collecting
  <2> DEFINE s == seen[q]
  <2>2. CASE /\ req[q].pc = "next" /\ r.pc = "listed" /\ r.found = req[q].found
             /\ r.id \in req[q].ids /\ r.ids = req[q].ids \ {r.id} /\ r.meta = index[r.id]
    <3>1. r.id \in Trackers
      BY <1>1, <2>2, Shapes DEF Choosing
    <3>2. \A t \in Trackers : Accounted(r, s, t)
      BY <2>1, <2>2 DEF Fair, Accounted
    <3> QED BY <2>1, <2>2, <3>1, <3>2 DEF Fair, Collecting
  <2>3. CASE /\ req[q].pc = "next" /\ r.pc = "next" /\ r.found = req[q].found
             /\ \E t \in req[q].ids : r.ids = req[q].ids \ {t} /\ ~Registered(t)
    <3>1. PICK u \in req[q].ids : r.ids = req[q].ids \ {u} /\ ~Registered(u)
      BY <2>3
    <3>2. u \in Trackers /\ NoEntry \in s[u]
      <4>1. req[q] \in Choosing
        BY <1>1, <2>3, Shapes
      <4>2. u \in Trackers
        BY <3>1, <4>1 DEF Choosing
      <4> QED BY <2>1, <3>1, <4>2 DEF Registered
    <3>3. \A t \in Trackers : Accounted(r, s, t)
      BY <2>1, <2>3, <3>1, <3>2 DEF Fair, Accounted
    <3> QED BY <2>1, <2>3, <3>1, <3>3 DEF Fair, Collecting
  <2>4. CASE /\ req[q].pc = "listed" /\ r.pc = "next" /\ r.ids = req[q].ids
             /\ r.found = req[q].found \union {[id |-> req[q].id, meta |-> req[q].meta]}
    <3> DEFINE new == [id |-> req[q].id, meta |-> req[q].meta]
    <3>1. new.id = req[q].id /\ new.meta = req[q].meta
      OBVIOUS
    <3> HIDE DEF new
    <3>2. r.found = req[q].found \union {new}
      BY <2>4 DEF new
    <3>3. \A t \in Trackers : Accounted(r, s, t)
      BY <2>1, <2>4, <3>1, <3>2 DEF Fair, Accounted
    <3> QED BY <2>1, <2>4, <3>1, <3>2, <3>3 DEF Fair, Collecting
  <2>5. CASE /\ req[q].pc = "next" /\ req[q].ids = {}
             /\ r.pc = "list" /\ r.found = req[q].found
    <3>1. \A t \in Trackers : Accounted(r, s, t)
      BY <2>1, <2>5 DEF Fair, Accounted
    <3> QED BY <2>1, <2>5, <3>1 DEF Fair, Collecting
  <2> QED BY <1>3, <2>2, <2>3, <2>4, <2>5 DEF Lists
<1> QED BY <1>2, <1>3

LEMMA ListingTypes ==
    ASSUME Typed, NEW q \in Requests, req[q].pc \in Collecting \union {"list"}
    PROVE  req[q].found \subseteq Rows /\ (req[q].pc = "listed" => req[q].id \in Trackers)
BY Shapes DEF Choosing, Fetching, Answered, Collecting

LEMMA ListingStep ==
    ASSUME RegistryInv, [Next]_vars, NEW q \in Requests
    PROVE  Listing(q)'
<1>1. Typed /\ Listing(q)
  BY DEF RegistryInv
<1>2. ASSUME req'[q] = req[q], seen'[q] = seen[q], UNCHANGED index
      PROVE  Listing(q)'
  BY <1>1, <1>2 DEF Listing
<1>3. ASSUME req'[q].pc \notin Collecting \union {"list"}
      PROVE  Listing(q)'
  BY <1>3 DEF Listing
<1>4. ASSUME NEW p \in Requests, NEW t \in Trackers, NEW r, Opens(p, t, r)
      PROVE  Listing(q)'
  <2>1. req'[p] = r /\ UNCHANGED <<index, seen>> /\ \A s \in Requests \ {p} : req'[s] = req[s]
    BY <1>1, <1>4, Moved DEF Opens
  <2>2. r.pc \notin Collecting \union {"list"}
    BY <1>4 DEF Opens, Collecting
  <2> QED BY <1>2, <1>3, <2>1, <2>2
<1>5. ASSUME NEW p \in Requests, NEW r, GoesOn(p, r)
      PROVE  Listing(q)'
  <2>1. req'[p] = r /\ UNCHANGED <<index, seen>> /\ \A s \in Requests \ {p} : req'[s] = req[s]
    BY <1>1, <1>5, Moved DEF GoesOn
  <2>2. r.pc \notin Collecting \union {"list"}
    BY <1>5 DEF GoesOn, Collecting
  <2> QED BY <1>2, <1>3, <2>1, <2>2
<1>6. ASSUME NEW p \in Requests, NEW t, NEW entry, Commits(p, t, entry)
      PROVE  Listing(q)'
  <2>0. req[p].pc \in {"set", "pop"}
    BY <1>6 DEF Commits
  <2>1. /\ req'[p] = Late(p) /\ Late(p).pc = "written"
        /\ \A s \in Requests \ {p} : req'[s] = req[s]
    BY <1>1, <1>6, <2>0, Moved, LateLocals DEF Commits
  <2>2. CASE p = q
    BY <1>3, <2>1, <2>2 DEF Collecting
  <2>3. CASE p # q
    <3>1. req'[q] = req[q]
      BY <2>1, <2>3
    <3>2. /\ index' = [index EXCEPT ![t] = entry] /\ t \in Trackers
          /\ seen'[q] = IF req[q].pc \in Collecting
                        THEN [seen[q] EXCEPT ![t] = @ \union {entry}] ELSE seen[q]
      BY <1>6 DEF Commits, Put, Collecting
    <3>3. seen[q] \in [Trackers -> SUBSET Marks]
      BY <1>1 DEF Typed
    <3>4. CASE req[q].pc \in Collecting
      <4>1. \A u \in Trackers : seen[q][u] \subseteq seen'[q][u]
        BY <3>2, <3>3, <3>4
      <4>2. \A u \in Trackers : index'[u] \in seen'[q][u]
        BY <1>1, <3>2, <3>3, <3>4 DEF Typed, Listing
      <4>3. Fair(req[q], seen[q])
        BY <1>1, <3>4 DEF Listing
      <4>4. Fair(req[q], seen'[q])
        BY <1>1, <3>4, <4>1, <4>3, ListingTypes, FairGrows
      <4>5. Fair(req'[q], seen'[q])
        BY <3>1, <4>4
      <4> QED BY <4>2, <4>5 DEF Listing
    <3>5. CASE req[q].pc \notin Collecting
      BY <1>1, <3>1, <3>2, <3>5 DEF Listing
    <3> QED BY <3>4, <3>5
  <2> QED BY <2>2, <2>3
<1>10. ASSUME NEW p \in Requests, Answer(p)
      PROVE  Listing(q)'
  <2>1. req'[p] = Ended("done") /\ UNCHANGED <<index, seen>> /\ \A s \in Requests \ {p} : req'[s] = req[s]
    BY <1>1, <1>10, Moved, EndedLocals DEF Answer
  <2>2. Ended("done").pc \notin Collecting \union {"list"}
    BY DEF Ended, Collecting
  <2> QED BY <1>2, <1>3, <2>1, <2>2
<1>7. ASSUME NEW p \in Requests, NEW r, Lists(p, r)
      PROVE  Listing(q)'
  <2>1. req'[p] = r /\ UNCHANGED index /\ \A s \in Requests \ {p} : req'[s] = req[s]
    BY <1>1, <1>7, Moved DEF Lists
  <2>2. CASE p = q
    <3>1. Fair(r, seen'[q]) /\ (r.pc \in Collecting => \A t \in Trackers : index[t] \in seen'[q][t])
      BY <1>7, <2>2, ListsFair
    <3>2. req'[q] = r
      BY <2>1, <2>2
    <3> QED BY <2>1, <3>1, <3>2 DEF Listing
  <2>3. CASE p # q
    <3>1. seen'[q] = seen[q]
      BY <1>1, <1>7, <2>3 DEF Lists, Typed
    <3> QED BY <1>2, <2>1, <2>3, <3>1
  <2> QED BY <2>2, <2>3
<1>8. CASE Restart
  <2>1. req'[q] = (IF Waiting(q) THEN Ended("failed") ELSE req[q]) /\ UNCHANGED <<index, seen>>
    BY <1>8 DEF Restart
  <2>2. CASE Waiting(q)
    BY <1>3, <2>1, <2>2 DEF Ended, Collecting
  <2>3. CASE ~Waiting(q)
    BY <1>2, <2>1, <2>3
  <2> QED BY <2>2, <2>3
<1>9. CASE UNCHANGED vars
  BY <1>2, <1>9 DEF vars
<1> QED BY <1>1, <1>4, <1>5, <1>6, <1>7, <1>8, <1>9, <1>10, Steps

LEMMA SpecInv == Spec => []RegistryInv
<1>1. ASSUME RegistryInv, [Next]_vars PROVE RegistryInv'
  <2>0. Typed' /\ Alone'
    BY <1>1, TypedStep, AloneStep
  <2>1. Typed' /\ Alone' /\ SerialRegistryExact'
    BY <1>1, <2>0, SerialStep
  <2>2. Snapshots'
    BY <1>1, SnapshotsStep DEF Snapshots
  <2>3. \A q \in Requests : Listing(q)'
    BY <1>1, ListingStep
  <2> QED BY <2>1, <2>2, <2>3 DEF RegistryInv
<1> QED BY <1>1, InitInv, PTL DEF Spec

-----------------------------------------------------------------------------
\* The index file and the locals of every coroutine of api/trackers.py keep their
\* types, in whatever order the coroutines are resumed.
THEOREM RegistryTyped == Spec => []RegistryTypeOK
<1>1. RegistryInv => RegistryTypeOK
  BY TypedIsTypeOK DEF RegistryInv
<1> QED BY <1>1, SpecInv, PTL

\* As long as the index file of storage/swarm.py parses, a tracker that no two writing
\* requests were busy with at one time is what its answered requests amount to, and
\* the one that has written and not answered; a write whose answer a stop of the
\* process cut off may count or not, and a request that failed has left no trace.
THEOREM SerialRegistryTheorem == Spec => []SerialRegistryExact
<1>1. RegistryInv => SerialRegistryExact
  BY DEF RegistryInv
<1> QED BY <1>1, SpecInv, PTL

\* list_trackers, which reads the index again for every id, shows a row only for what
\* was an entry during the listing, one row for a tracker, and misses none that was
\* there all the time.
THEOREM ListTheorem == Spec => []ListIsCurrent
<1>1. ASSUME RegistryInv PROVE ListIsCurrent
  <2> SUFFICES ASSUME NEW q \in Requests, req[q].pc = "list", NEW t \in Trackers
               PROVE  LET rows == {row \in req[q].found : row.id = t} IN
                      /\ \A row \in rows : row.meta \in seen[q][t]
                      /\ Cardinality(rows) <= 1
                      /\ rows = {} => NoEntry \in seen[q][t]
    BY DEF ListIsCurrent
  <2> DEFINE rows == {row \in req[q].found : row.id = t}
  <2>1. Fair(req[q], seen[q])
    BY <1>1 DEF RegistryInv, Listing
  <2>2. \A row \in rows : row.meta \in seen[q][t]
    BY <2>1 DEF Fair
  <2>3. rows = {} => NoEntry \in seen[q][t]
    BY <2>1 DEF Fair, Accounted
  <2>4. \A row, other \in rows : row = other
    BY <2>1 DEF Fair
  <2> HIDE DEF rows
  <2>5. rows = {} => Cardinality(rows) = 0
    BY FS_EmptySet
  <2>6. ASSUME rows # {} PROVE Cardinality(rows) = 1
    <3>1. PICK row \in rows : rows = {row}
      BY <2>4, <2>6
    <3>2. Cardinality({row}) = 1
      BY FS_Singleton
    <3> QED BY <3>1, <3>2
  <2>7. Cardinality(rows) <= 1
    BY <2>5, <2>6
  <2> QED BY <2>2, <2>3, <2>7 DEF rows
<1> QED BY <1>1, SpecInv, PTL
==============================================================================
