----------------------------- MODULE AppletBridge -----------------------------
(***************************************************************************)
(* The Trusted OS of the GoTEE starter under sdk-qpc-fix: the TCP bridge   *)
(* (bridge.go), the two channels to the Trusted Applet (rpc.go), the       *)
(* supervisor that hot-swaps the applet (main.go) and the applet's         *)
(* dispatch loop (gotee_syscall/src/lib.rs).                               *)
(*                                                                         *)
(* A Go channel of depth 1 is one sequence: its first element is in the    *)
(* buffer and the others belong to blocked senders, which Go serves in     *)
(* order. Receivers that find it empty queue up in order too.              *)
(***************************************************************************)
EXTENDS Naturals, Sequences, FiniteSets

CONSTANTS
    Callers,        \* connections that call the applet, one call each
    Exiters,        \* those whose call names the method __exit themselves
    Uploads,        \* connections that upload an applet, one each
    BadUploads,     \* those whose ELF passes validateAppletELF and does not load
    MaxPanics       \* bound: applet panics

Exit == "__exit"    \* the sentinel method
Embedded == "embedded"
Nobody == "nobody"

ASSUME BridgeAssumption ==
    /\ {Exit, Embedded, Nobody} \cap (Callers \union Uploads) = {}
    /\ Callers \cap Uploads = {} /\ BadUploads \subseteq Uploads
    /\ Exiters \subseteq Callers
    /\ IsFiniteSet(Callers) /\ IsFiniteSet(Uploads)
    /\ MaxPanics \in Nat

VARIABLES
    callerPC,   \* caller -> idle, sent, waiting, answered
    got,        \* caller -> the call whose reply it received
    requests,   \* appletRequestCh and its blocked senders
    replies,    \* appletReplyCh and its blocked sender, the applet
    waiters,    \* the callers blocked on appletReplyCh, in order
    uploadPC,   \* upload -> idle, accepted, pushed, loaded
    swaps,      \* appletSwapCh and its blocked senders
    supervisor, \* superviseApplet: [pc, elf]
    applet,     \* the dispatch loop: [pc, call, elf]
    panics,     \* panics so far
    mixed       \* history: two calls were outstanding at once

vars == <<callerPC, got, requests, replies, waiters, uploadPC, swaps, supervisor,
          applet, panics, mixed>>

Init ==
    /\ callerPC = [c \in Callers |-> "idle"]
    /\ got = [c \in Callers |-> Nobody]
    /\ requests = <<>> /\ replies = <<>> /\ waiters = <<>> /\ swaps = <<>>
    /\ uploadPC = [u \in Uploads |-> "idle"]
    /\ supervisor = [pc |-> "select", elf |-> Embedded]
    /\ applet = [pc |-> "recv", call |-> Nobody, elf |-> Embedded]
    /\ panics = 0
    /\ mixed = FALSE

\* x is in the channel but not in its buffer: the goroutine sending it is blocked.
Blocked(x, chan) == \E i \in 2..Len(chan) : chan[i] = x
InChannel(x, chan) == \E i \in 1..Len(chan) : chan[i] = x

\* The bridge forwards every method but __upload: a client may send the sentinel too.
IsExit(m) == m = Exit \/ m \in Exiters

Outstanding == {c \in Callers : callerPC[c] \in {"sent", "waiting"}}

-----------------------------------------------------------------------------
\* The bridge: a connection that calls the applet runs CallApplet.

\* The send half of CallApplet.
SendCall(c) ==
    /\ callerPC[c] = "idle"
    /\ requests' = Append(requests, c)
    /\ callerPC' = [callerPC EXCEPT ![c] = "sent"]
    /\ mixed' = (mixed \/ Outstanding # {})
    /\ UNCHANGED <<got, replies, waiters, uploadPC, swaps, supervisor, applet, panics>>

\* The receive half, once the send went through: the reply that is there, or the
\* end of the queue.
AwaitReply(c) ==
    /\ callerPC[c] = "sent"
    /\ ~Blocked(c, requests)
    /\ IF replies # <<>>
       THEN /\ got' = [got EXCEPT ![c] = Head(replies)]
            /\ replies' = Tail(replies)
            /\ callerPC' = [callerPC EXCEPT ![c] = "answered"]
            /\ UNCHANGED waiters
       ELSE /\ waiters' = Append(waiters, c)
            /\ callerPC' = [callerPC EXCEPT ![c] = "waiting"]
            /\ UNCHANGED <<got, replies>>
    /\ UNCHANGED <<requests, uploadPC, swaps, supervisor, applet, panics, mixed>>

\* A connection that uploads an applet: an ELF that passes validateAppletELF is
\* acknowledged first and pushed to the supervisor afterwards.
AcceptUpload(u) ==
    /\ uploadPC[u] = "idle"
    /\ uploadPC' = [uploadPC EXCEPT ![u] = "accepted"]
    /\ UNCHANGED <<callerPC, got, requests, replies, waiters, swaps, supervisor, applet,
                   panics, mixed>>

PushUpload(u) ==
    /\ uploadPC[u] = "accepted"
    /\ uploadPC' = [uploadPC EXCEPT ![u] = "pushed"]
    /\ swaps' = Append(swaps, u)
    /\ UNCHANGED <<callerPC, got, requests, replies, waiters, supervisor, applet, panics,
                   mixed>>

-----------------------------------------------------------------------------
\* superviseApplet.

\* A swap arrives: the supervisor takes it and sends __exit to the applet, blocking
\* when the channel is full.
TakeSwap ==
    /\ supervisor.pc = "select"
    /\ swaps # <<>>
    /\ supervisor' = [pc |-> "exiting", elf |-> Head(swaps)]
    /\ swaps' = Tail(swaps)
    /\ requests' = Append(requests, Exit)
    /\ UNCHANGED <<callerPC, got, replies, waiters, uploadPC, applet, panics, mixed>>

\* Fault: the supervisor does not wait for the applet to stop.
NoWait == ~Blocked(Exit, requests)

\* The __exit went through and wg.Wait() returned: the applet has stopped.
ReadyToLoad == ~Blocked(Exit, requests) /\ applet.pc = "stopped"

\* The replacement is loaded and runs.
LoadApplet ==
    /\ supervisor.pc = "exiting"
    /\ supervisor.elf \notin BadUploads
    /\ ReadyToLoad
    /\ applet' = [pc |-> "recv", call |-> Nobody, elf |-> supervisor.elf]
    /\ supervisor' = [supervisor EXCEPT !.pc = "select"]
    /\ uploadPC' = [uploadPC EXCEPT ![supervisor.elf] = "loaded"]
    /\ UNCHANGED <<callerPC, got, requests, replies, waiters, swaps, panics, mixed>>

\* It does not load: log.Fatalf ends the Trusted OS.
LoadFails ==
    /\ supervisor.pc = "exiting"
    /\ supervisor.elf \in BadUploads
    /\ ReadyToLoad
    /\ supervisor' = [supervisor EXCEPT !.pc = "fatal"]
    /\ UNCHANGED <<callerPC, got, requests, replies, waiters, uploadPC, swaps, applet, panics,
                   mixed>>

Up == supervisor.pc # "fatal"

-----------------------------------------------------------------------------
\* The applet's serve() loop.

\* Fault: serve() dispatches the sentinel like any method.
ServeAnything(m) == [applet EXCEPT !.pc = "busy", !.call = m]

\* What a received method makes of the applet: __exit stops it without a reply, also
\* when a client sent it, and then nobody starts it again before the next swap.
Received(m) ==
    IF IsExit(m) THEN [applet EXCEPT !.pc = "stopped"]
    ELSE [applet EXCEPT !.pc = "busy", !.call = m]

Recv ==
    /\ applet.pc = "recv"
    /\ requests # <<>>
    /\ applet' = Received(Head(requests))
    /\ requests' = Tail(requests)
    /\ UNCHANGED <<callerPC, got, replies, waiters, uploadPC, swaps, supervisor, panics,
                   mixed>>

\* Fault: the reply is left in the channel although a caller waits for it.
BufferedAlways ==
    /\ replies' = Append(replies, applet.call)
    /\ UNCHANGED <<callerPC, got, waiters>>

\* Fault: the reply that a waiting caller receives stays in the buffer as well.
AnswerAndBuffer ==
    /\ replies' = Append(replies, applet.call)
    /\ IF waiters # <<>>
       THEN /\ got' = [got EXCEPT ![Head(waiters)] = applet.call]
            /\ callerPC' = [callerPC EXCEPT ![Head(waiters)] = "answered"]
            /\ waiters' = Tail(waiters)
       ELSE UNCHANGED <<callerPC, got, waiters>>

\* The reply goes to the caller that has waited longest, or to the buffer.
Deliver ==
    IF waiters # <<>>
    THEN /\ got' = [got EXCEPT ![Head(waiters)] = applet.call]
         /\ callerPC' = [callerPC EXCEPT ![Head(waiters)] = "answered"]
         /\ waiters' = Tail(waiters)
         /\ UNCHANGED replies
    ELSE /\ replies' = Append(replies, applet.call)
         /\ UNCHANGED <<callerPC, got, waiters>>

\* The handler returns and RPC.Send delivers its output.
Reply ==
    /\ applet.pc = "busy"
    /\ Deliver
    /\ applet' = [applet EXCEPT !.pc = "sent", !.call = Nobody]
    /\ UNCHANGED <<requests, uploadPC, swaps, supervisor, panics, mixed>>

\* RPC.Send returns once its reply is in the buffer or with a caller.
NextIteration ==
    /\ applet.pc = "sent"
    /\ Len(replies) <= 1
    /\ applet' = [applet EXCEPT !.pc = "recv"]
    /\ UNCHANGED <<callerPC, got, requests, replies, waiters, uploadPC, swaps, supervisor,
                   panics, mixed>>

\* The handler panics: the panic handler exits the applet, and nobody restarts it.
Panic ==
    /\ applet.pc = "busy"
    /\ panics < MaxPanics
    /\ panics' = panics + 1
    /\ applet' = [applet EXCEPT !.pc = "stopped"]
    /\ UNCHANGED <<callerPC, got, requests, replies, waiters, uploadPC, swaps, supervisor,
                   mixed>>

-----------------------------------------------------------------------------
AppletStep == Up /\ (Recv \/ Reply \/ NextIteration)
SupervisorStep == TakeSwap \/ LoadApplet \/ LoadFails
CallerStep(c) == Up /\ AwaitReply(c)
UploadStep(u) == Up /\ PushUpload(u)

Next ==
    \/ \E c \in Callers : (Up /\ SendCall(c)) \/ CallerStep(c)
    \/ \E u \in Uploads : (Up /\ AcceptUpload(u)) \/ UploadStep(u)
    \/ SupervisorStep
    \/ AppletStep
    \/ Up /\ Panic

\* The Go scheduler runs every goroutine that can run, and the applet's handlers
\* return; no connection has to arrive and no handler has to panic.
Fairness ==
    /\ \A c \in Callers : WF_vars(CallerStep(c))
    /\ \A u \in Uploads : WF_vars(UploadStep(u))
    /\ WF_vars(SupervisorStep)
    /\ WF_vars(AppletStep)

Spec == Init /\ [][Next]_vars /\ Fairness

-----------------------------------------------------------------------------
\* Properties.

TypeOK ==
    /\ callerPC \in [Callers -> {"idle", "sent", "waiting", "answered"}]
    /\ got \in [Callers -> Callers \union {Nobody}]
    /\ requests \in Seq(Callers \union {Exit})
    /\ replies \in Seq(Callers) /\ Len(replies) <= 2
    /\ waiters \in Seq(Callers)
    /\ uploadPC \in [Uploads -> {"idle", "accepted", "pushed", "loaded"}]
    /\ swaps \in Seq(Uploads)
    /\ supervisor \in [pc : {"select", "exiting", "fatal"}, elf : Uploads \union {Embedded}]
    /\ applet \in [pc : {"recv", "busy", "sent", "stopped"},
                   call : Callers \union {Nobody}, elf : Uploads \union {Embedded}]
    /\ panics \in 0..MaxPanics
    /\ mixed \in BOOLEAN

\* A call is in one place at a time: queued, with the applet, answered and not yet
\* collected, collected by somebody, or lost to a panic. No reply is collected twice
\* and none is made up; a client's __exit is consumed and never replied to, and takes
\* no other call with it.
Places(c) ==
    Cardinality({i \in 1..Len(requests) : requests[i] = c})
  + (IF applet.call = c /\ applet.pc = "busy" THEN 1 ELSE 0)
  + Cardinality({i \in 1..Len(replies) : replies[i] = c})
  + Cardinality({d \in Callers : got[d] = c})

RepliesAreConserved ==
    \A c \in Callers :
        /\ Places(c) <= 1
        /\ callerPC[c] = "idle" => Places(c) = 0
        /\ (callerPC[c] # "idle" /\ c \notin Exiters /\ panics = 0) => Places(c) = 1
        /\ (got[c] # Nobody) <=> (callerPC[c] = "answered")
        /\ got[c] \notin Exiters

\* Calls that never overlap get their own reply, whatever swaps happen between them.
\* A client's __exit is outstanding for ever, so every later call overlaps it.
SerialCallsMatch ==
    ~mixed /\ panics = 0 => \A c \in Callers : got[c] \in {c, Nobody}

\* Nobody waits for a reply that is there, and no reply is left behind: replies are
\* buffered only while no caller is parked, and only as many as callers still want.
NoReplyIsStranded ==
    /\ replies = <<>> \/ waiters = <<>>
    /\ Len(replies) <= Cardinality(Outstanding)

\* No handler panicked and no client sent the sentinel.
Undisturbed == panics = 0 /\ \A c \in Exiters : callerPC[c] = "idle"

\* As long as no handler panics and no client sends __exit, an __exit is in the
\* channel only while the supervisor swaps, one at most, and it stops the applet it
\* was meant for: the applet that is there when the supervisor is idle is alive.
ExitHitsItsTarget ==
    Undisturbed =>
        /\ Cardinality({i \in 1..Len(requests) : requests[i] = Exit}) <= 1
        /\ supervisor.pc = "select" =>
             ~InChannel(Exit, requests) /\ applet.pc # "stopped"

\* As long as no handler panics, no client sends __exit and the OS is up, every call
\* is answered, swaps or not.
CallsAreAnswered ==
    \A c \in Callers :
        callerPC[c] = "sent" ~> (callerPC[c] = "answered" \/ ~Undisturbed \/ ~Up)
==============================================================================
