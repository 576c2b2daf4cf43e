---------------------------- MODULE TrackerRegistry ----------------------------
(***************************************************************************)
(* The tracker registry (gigaservice/api/trackers.py) over the index file  *)
(* of storage/swarm.py: create, list, get, update and delete, each a       *)
(* coroutine with an await on every index access and on every call of Bee. *)
(* An index access holds the lock from read to write, so it is one step;   *)
(* the answer is a step of its own, and the process may stop before it. A  *)
(* reference is the hash of what it refers to: the metadata stands for its *)
(* own hash, and a download returns it. Bee may fail any call, and a write *)
(* of the file may fail or be cut short and leave the file torn.           *)
(***************************************************************************)
EXTENDS Integers, FiniteSets

CONSTANTS
    Trackers,       \* tracker ids
    Fields,         \* the fields of a tracker: name, description, owner
    Values,         \* the values a field may have
    Requests,       \* requests to the registry
    MaxFailures,    \* bound: calls that Bee fails, and failing writes
    MaxRestarts     \* bound: process restarts

Unset == "unset"
NoEntry == [f \in Fields |-> Unset]

ASSUME RegistryAssumption ==
    /\ Unset \notin Values /\ Fields # {}
    /\ MaxFailures \in Nat
    /\ MaxRestarts \in Nat

Metas == [Fields -> Values]
\* A PUT body: the fields that are not None.
Changes == [Fields -> Values \union {Unset}]

VARIABLES
    index,      \* tracker -> the metadata its entry refers to, or NoEntry
    fileOK,     \* the index file parses
    req,        \* request -> the locals of its coroutine
    failures,   \* failed calls and writes so far
    restarts,   \* process restarts so far
    told,       \* history: tracker -> what its entry may be, going by the answers
    busy,       \* history: trackers two writing requests were busy with at one time
    seen        \* history: listing -> tracker -> its entries since the listing began

vars == <<index, fileOK, req, failures, restarts, told, busy, seen>>
ghosts == <<told, busy>>

Idle == [pc |-> "idle"]

\* Any registry that earlier requests have left.
Init ==
    /\ index \in [Trackers -> Metas \union {NoEntry}]
    /\ fileOK = TRUE
    /\ req = [q \in Requests |-> Idle]
    /\ failures = 0
    /\ restarts = 0
    /\ told = [t \in Trackers |-> {index[t]}]
    /\ busy = {}
    /\ seen = [q \in Requests |-> [t \in Trackers |-> {}]]

-----------------------------------------------------------------------------
\* The steps of a request on one tracker.

Registered(t) == index[t] # NoEntry

Waiting(q) == req[q].pc \in {"get", "upload", "set", "pop", "written", "next", "listed"}
Writing(q, t) == Waiting(q) /\ req[q].op \in {"create", "update", "delete"} /\ req[q].id = t

\* History: a writing request comes while another one is at work on the tracker.
Overlap(t) == busy' = IF \E p \in Requests : Writing(p, t) THEN busy \union {t} ELSE busy

\* The answer, or the error, ends the request and frees its locals.
Ended(pc) == [pc |-> pc]

Goes(q, r) == req' = [req EXCEPT ![q] = r]

\* The file does not parse: JSONDecodeError, which becomes a 500.
Broken(q) ==
    /\ ~fileOK
    /\ Goes(q, Ended("failed"))
    /\ UNCHANGED <<index, fileOK, failures, restarts, told, seen>>

\* POST /trackers: 409 or the upload of the metadata.
Create(q, t, meta) ==
    /\ req[q] = Idle
    /\ Overlap(t)
    /\ \/ Broken(q)
       \/ /\ fileOK
          /\ Goes(q, IF Registered(t) THEN Ended("conflict")
                     ELSE [pc |-> "upload", op |-> "create", id |-> t, meta |-> meta])
          /\ UNCHANGED <<index, fileOK, failures, restarts, told, seen>>

\* GET and PUT /trackers/{id}: 404 or the download of the metadata.
Get(q, t) ==
    /\ req[q] = Idle
    /\ \/ Broken(q)
       \/ /\ fileOK
          /\ Goes(q, IF Registered(t)
                     THEN [pc |-> "get", op |-> "read", id |-> t, meta |-> index[t],
                           change |-> [f \in Fields |-> Unset]]
                     ELSE Ended("missing"))
          /\ UNCHANGED <<index, fileOK, failures, restarts, told, seen>>
    /\ UNCHANGED busy

Update(q, t, change) ==
    /\ req[q] = Idle
    /\ Overlap(t)
    /\ \/ Broken(q)
       \/ /\ fileOK
          /\ Goes(q, IF Registered(t)
                     THEN [pc |-> "get", op |-> "update", id |-> t, meta |-> index[t],
                           change |-> change]
                     ELSE Ended("missing"))
          /\ UNCHANGED <<index, fileOK, failures, restarts, told, seen>>

\* DELETE /trackers/{id}: 404 or on to the deletion.
Delete(q, t) ==
    /\ req[q] = Idle
    /\ Overlap(t)
    /\ \/ Broken(q)
       \/ /\ fileOK
          /\ Goes(q, IF Registered(t) THEN [pc |-> "pop", op |-> "delete", id |-> t]
                     ELSE Ended("missing"))
          /\ UNCHANGED <<index, fileOK, failures, restarts, told, seen>>

\* Fault: the body is copied, its None fields with it.
Copied(meta, change) == change

\* Fault: a PUT replaces the fields it leaves out by the defaults of POST.
Replaced(meta, change) ==
    [f \in Fields |-> IF change[f] = Unset THEN CHOOSE v \in Values : TRUE ELSE change[f]]

\* The metadata after a PUT, which keeps what the body leaves out.
Changed(meta, change) ==
    [f \in Fields |-> IF change[f] = Unset THEN meta[f] ELSE change[f]]

\* Bee returns the metadata: a GET is answered, a PUT goes on to upload the change.
Download(q) ==
    LET r == req[q] IN
    /\ r.pc = "get"
    /\ Goes(q, IF r.op = "read" THEN Ended("done")
               ELSE [pc |-> "upload", op |-> "update", id |-> r.id,
                     meta |-> Changed(r.meta, r.change), change |-> r.change])
    /\ UNCHANGED <<index, fileOK, failures, restarts, ghosts, seen>>

\* Bee has stored the metadata.
Upload(q) ==
    /\ req[q].pc = "upload"
    /\ Goes(q, [req[q] EXCEPT !.pc = "set"])
    /\ UNCHANGED <<index, fileOK, failures, restarts, ghosts, seen>>

\* Bee fails the call: a 503, whatever the request had done so far.
BeeFails(q) ==
    /\ req[q].pc \in {"get", "upload", "listed"}
    /\ failures < MaxFailures
    /\ failures' = failures + 1
    /\ Goes(q, Ended("failed"))
    /\ UNCHANGED <<index, fileOK, restarts, ghosts, seen>>

\* The index with a new entry; the listings under way may meet it.
Put(t, entry) ==
    /\ index' = [index EXCEPT ![t] = entry]
    /\ seen' = [p \in Requests |->
                  IF req[p].pc \in {"next", "listed"}
                  THEN [seen[p] EXCEPT ![t] = @ \union {entry}] ELSE seen[p]]

\* What a write that took place makes of a tracker that was one of entries.
After(r, entries) ==
    CASE r.op = "create" -> {r.meta}
      [] r.op = "update" ->
           {[f \in Fields |-> IF r.change[f] = Unset THEN e[f] ELSE r.change[f]] :
              e \in entries \ {NoEntry}}
      [] OTHER -> {NoEntry}

\* The file cannot be written: it is as it was, or torn. The request gets a 500.
WriteFails(q) ==
    /\ fileOK /\ failures < MaxFailures
    /\ failures' = failures + 1
    /\ fileOK' \in BOOLEAN
    /\ Goes(q, Ended("failed"))
    /\ UNCHANGED <<index, restarts, told, seen>>

Written(q, entry) ==
    /\ fileOK
    /\ Put(req[q].id, entry)
    /\ Goes(q, [req[q] EXCEPT !.pc = "written"])
    /\ UNCHANGED <<fileOK, failures, restarts, told>>

\* _set_tracker and _delete_tracker.
SetTracker(q) ==
    /\ req[q].pc = "set"
    /\ Broken(q) \/ WriteFails(q) \/ Written(q, req[q].meta)
    /\ UNCHANGED busy

DeleteTracker(q) ==
    /\ req[q].pc = "pop"
    /\ Broken(q) \/ WriteFails(q) \/ Written(q, NoEntry)
    /\ UNCHANGED busy

\* The handler returns: 201, 200 or 204.
Answer(q) ==
    /\ req[q].pc = "written"
    /\ told' = IF req[q].id \in busy THEN told
               ELSE [told EXCEPT ![req[q].id] = After(req[q], @)]
    /\ Goes(q, Ended("done"))
    /\ UNCHANGED <<index, fileOK, failures, restarts, busy, seen>>

\* History: what the entry of t may be, the writes that wait for their answer included.
Outcomes(t) ==
    LET late == {q \in Requests : req[q].pc = "written" /\ req[q].id = t} IN
    IF late = {} THEN told[t] ELSE UNION {After(req[q], told[t]) : q \in late}

-----------------------------------------------------------------------------
\* GET /trackers: the ids of one reading of the index, then one by one, in the order
\* of the dict, the entry and its metadata.

List(q) ==
    /\ req[q] = Idle
    /\ \/ Broken(q)
       \/ /\ fileOK
          /\ Goes(q, [pc |-> "next", op |-> "list", found |-> {},
                      ids |-> {t \in Trackers : Registered(t)}])
          /\ seen' = [seen EXCEPT ![q] = [t \in Trackers |-> {index[t]}]]
          /\ UNCHANGED <<index, fileOK, failures, restarts, told>>
    /\ UNCHANGED busy

\* Fault: an entry that is gone ends the listing.
EndAtGap(r, t) == [r EXCEPT !.ids = {}]

\* An entry that was deleted since the ids were read is passed over.
Skip(r, t) == [r EXCEPT !.ids = @ \ {t}]

ListEntry(q) ==
    /\ req[q].pc = "next"
    /\ \E t \in req[q].ids :
         \/ Broken(q)
         \/ /\ fileOK
            /\ Goes(q, IF Registered(t)
                       THEN [pc |-> "listed", op |-> "list", found |-> req[q].found,
                             ids |-> req[q].ids \ {t}, id |-> t, meta |-> index[t]]
                       ELSE Skip(req[q], t))
            /\ UNCHANGED <<index, fileOK, failures, restarts, told, seen>>
    /\ UNCHANGED busy

\* The metadata of the entry arrives.
ListDownload(q) ==
    LET r == req[q] IN
    /\ r.pc = "listed"
    /\ Goes(q, [pc |-> "next", op |-> "list", ids |-> r.ids,
                found |-> r.found \union {[id |-> r.id, meta |-> r.meta]}])
    /\ UNCHANGED <<index, fileOK, failures, restarts, ghosts, seen>>

\* The list is complete; its rows stay for the client to look at.
ListAnswer(q) ==
    /\ req[q].pc = "next" /\ req[q].ids = {}
    /\ Goes(q, [pc |-> "list", op |-> "list", found |-> req[q].found])
    /\ UNCHANGED <<index, fileOK, failures, restarts, ghosts, seen>>

-----------------------------------------------------------------------------
\* The process is restarted: its requests are gone, a write that was under way may
\* leave a torn file, and one that was complete but not answered stays.
Restart ==
    /\ restarts < MaxRestarts
    /\ restarts' = restarts + 1
    /\ \/ UNCHANGED fileOK
       \/ /\ \E q \in Requests : req[q].pc \in {"set", "pop"}
          /\ fileOK' = FALSE
    /\ req' = [q \in Requests |-> IF Waiting(q) THEN Ended("failed") ELSE req[q]]
    /\ told' = [t \in Trackers |-> told[t] \union Outcomes(t)]
    /\ UNCHANGED <<index, failures, busy, seen>>

Step(q) ==
    \/ Download(q) \/ Upload(q) \/ BeeFails(q) \/ SetTracker(q) \/ DeleteTracker(q)
    \/ Answer(q) \/ ListEntry(q) \/ ListDownload(q) \/ ListAnswer(q)

Arrival(q) ==
    \/ List(q)
    \/ \E t \in Trackers :
         \/ Get(q, t)
         \/ Delete(q, t)
         \/ \E meta \in Metas : Create(q, t, meta)
         \/ \E change \in Changes : Update(q, t, change)

Next == Restart \/ \E q \in Requests : Step(q) \/ Arrival(q)

Spec == Init /\ [][Next]_vars

-----------------------------------------------------------------------------
\* Properties.

Rows == [id : Trackers, meta : Metas]

RegistryTypeOK ==
    /\ index \in [Trackers -> Metas \union {NoEntry}]
    /\ fileOK \in BOOLEAN
    /\ \A q \in Requests :
         LET r == req[q] IN
         \/ r \in [pc : {"idle", "done", "failed", "conflict", "missing"}]
         \/ r \in [pc : {"get"}, op : {"read", "update"}, id : Trackers, meta : Metas,
                   change : Changes]
         \/ r \in [pc : {"upload", "set", "written"}, op : {"create"}, id : Trackers,
                   meta : Metas]
         \/ r \in [pc : {"upload", "set", "written"}, op : {"update"}, id : Trackers,
                   meta : Metas, change : Changes]
         \/ r \in [pc : {"pop", "written"}, op : {"delete"}, id : Trackers]
         \/ r \in [pc : {"next"}, op : {"list"}, found : SUBSET Rows, ids : SUBSET Trackers]
         \/ r \in [pc : {"listed"}, op : {"list"}, found : SUBSET Rows,
                   ids : SUBSET Trackers, id : Trackers, meta : Metas]
         \/ r \in [pc : {"list"}, op : {"list"}, found : SUBSET Rows]
    /\ failures \in 0..MaxFailures
    /\ restarts \in 0..MaxRestarts
    /\ told \in [Trackers -> SUBSET (Metas \union {NoEntry})]
    /\ busy \subseteq Trackers
    /\ seen \in [Requests -> [Trackers -> SUBSET (Metas \union {NoEntry})]]

\* As long as the file parses, a tracker that two requests never changed at one time
\* is what its answered requests amount to, and the one whose write is complete and
\* whose answer is still to come; one whose answer a stop of the process cut off may
\* count or not. A request that Bee or the file failed has left no trace.
SerialRegistryExact ==
    \A t \in Trackers \ busy : fileOK => index[t] \in Outcomes(t)

\* A list is no snapshot, and yet each of its rows was an entry at some moment of the
\* listing, no tracker is in it twice, and none that was there all the time is missed,
\* whatever was created, changed or deleted meanwhile.
ListIsCurrent ==
    \A q \in Requests :
        req[q].pc = "list" =>
            \A t \in Trackers :
                LET rows == {row \in req[q].found : row.id = t} IN
                /\ \A row \in rows : row.meta \in seen[q][t]
                /\ Cardinality(rows) <= 1
                /\ rows = {} => NoEntry \in seen[q][t]
===============================================================================
