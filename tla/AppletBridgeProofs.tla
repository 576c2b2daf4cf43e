--------------------------- MODULE AppletBridgeProofs ---------------------------
(***************************************************************************)
(* The safety of the Trusted OS bridge of AppletBridge for any number of   *)
(* calls, uploads and panics. Where a call is, is a matter of counting: in *)
(* the request channel, with the applet, in the reply channel, collected.  *)
(* That every call is answered stays with TLC.                             *)
(***************************************************************************)
EXTENDS AppletBridge, FiniteSetTheorems, FunctionTheorems, TLAPS

-----------------------------------------------------------------------------
\* Counting.

\* The positions of the members of T in a sequence, and how many there are.
At(s, T) == {i \in 1..Len(s) : s[i] \in T}
CountIn(s, T) == Cardinality(At(s, T))

LEMMA CountType ==
    ASSUME NEW S, NEW s \in Seq(S), NEW T
    PROVE  IsFiniteSet(At(s, T)) /\ CountIn(s, T) \in Nat
<1>1. Len(s) \in Nat
  OBVIOUS
<1>2. IsFiniteSet(1..Len(s))
  BY <1>1, FS_Interval
<1>3. At(s, T) \in SUBSET (1..Len(s))
  BY DEF At
<1> QED
  BY <1>2, <1>3, FS_Subset, FS_CardinalityType DEF CountIn

LEMMA CountAppend ==
    ASSUME NEW S, NEW s \in Seq(S), NEW x \in S, NEW T
    PROVE  CountIn(Append(s, x), T) = CountIn(s, T) + (IF x \in T THEN 1 ELSE 0)
<1>1. Len(s) \in Nat /\ Len(Append(s, x)) = Len(s) + 1 /\ Append(s, x)[Len(s) + 1] = x
  OBVIOUS
<1>2. \A i \in 1..Len(s) : Append(s, x)[i] = s[i]
  OBVIOUS
<1>3. At(Append(s, x), T) = IF x \in T THEN At(s, T) \union {Len(s) + 1} ELSE At(s, T)
  BY <1>1, <1>2 DEF At
<1>4. Len(s) + 1 \notin At(s, T)
  BY <1>1 DEF At
<1>5. IsFiniteSet(At(s, T)) /\ Cardinality(At(s, T)) \in Nat
  BY CountType DEF CountIn
<1>6. Cardinality(At(s, T) \union {Len(s) + 1}) = Cardinality(At(s, T)) + 1
  BY <1>4, <1>5, FS_AddElement
<1> QED
  BY <1>3, <1>5, <1>6 DEF CountIn

LEMMA CountTail ==
    ASSUME NEW S, NEW s \in Seq(S), s # <<>>, NEW T
    PROVE  CountIn(s, T) = CountIn(Tail(s), T) + (IF Head(s) \in T THEN 1 ELSE 0)
<1>1. /\ Tail(s) \in Seq(S) /\ Len(s) \in Nat /\ Len(s) >= 1 /\ Len(Tail(s)) = Len(s) - 1
      /\ Head(s) = s[1]
  OBVIOUS
<1>2. \A i \in 1..(Len(s) - 1) : Tail(s)[i] = s[i + 1]
  BY <1>1
<1> DEFINE U == At(Tail(s), T)
           V == At(s, T) \ {1}
           f == [i \in U |-> i + 1]
<1>3. IsFiniteSet(U) /\ IsFiniteSet(At(s, T))
  BY <1>1, CountType
<1>4. f \in [U -> V]
  BY <1>1, <1>2 DEF At
<1>5. \A i, j \in U : f[i] = f[j] => i = j
  BY <1>1 DEF At
<1>6. \A v \in V : \E i \in U : f[i] = v
  <2>1. ASSUME NEW v \in V
        PROVE  v - 1 \in U /\ f[v - 1] = v
    BY <1>1, <1>2, <2>1 DEF At
  <2> QED
    BY <2>1
<1>7. ExistsBijection(U, V)
  <2>1. f \in Bijection(U, V)
    BY <1>4, <1>5, <1>6 DEF Bijection, Injection, Surjection, IsInjective
  <2> QED
    BY <2>1, Fun_ExistsBij
<1>8. Cardinality(V) = Cardinality(U)
  BY <1>3, <1>7, FS_Bijection
<1>9. Cardinality(V) = IF 1 \in At(s, T) THEN Cardinality(At(s, T)) - 1 ELSE Cardinality(At(s, T))
  BY <1>3, FS_RemoveElement
<1>10. 1 \in At(s, T) <=> Head(s) \in T
  BY <1>1 DEF At
<1>11. Cardinality(U) \in Nat /\ Cardinality(At(s, T)) \in Nat
  BY <1>1, CountType DEF CountIn
<1> QED
  BY <1>8, <1>9, <1>10, <1>11 DEF CountIn

LEMMA CountNone ==
    ASSUME NEW T
    PROVE  CountIn(<<>>, T) = 0
<1>1. At(<<>>, T) = {}
  BY DEF At
<1> QED
  BY <1>1, FS_EmptySet DEF CountIn

-----------------------------------------------------------------------------
\* The inductive invariant.

HoldersOf(c) == {d \in Callers : got[d] = c}
Busy == applet.pc = "busy"

Shape ==
    /\ TypeOK
    /\ Busy => applet.call \in Callers
    /\ applet.pc # "sent" => Len(replies) <= 1
    /\ \A i \in 1..Len(waiters) : callerPC[waiters[i]] = "waiting"
    /\ \A i, j \in 1..Len(waiters) : waiters[i] = waiters[j] => i = j
    /\ \A c \in Callers : (got[c] # Nobody) <=> (callerPC[c] = "answered")
    /\ replies = <<>> \/ waiters = <<>>

\* What is in the two channels or with the applet is wanted by as many callers.
Flow ==
    CountIn(requests, Callers) + (IF Busy THEN 1 ELSE 0) + Len(replies)
        <= Cardinality(Outstanding)

\* A swap is one __exit: on its way, or received.
OneExit ==
    Undisturbed =>
        CountIn(requests, {Exit}) + (IF applet.pc = "stopped" THEN 1 ELSE 0)
            = IF supervisor.pc = "select" THEN 0 ELSE 1

Conserved ==
    \A c \in Callers :
        /\ Places(c) <= 1
        /\ callerPC[c] = "idle" => Places(c) = 0
        /\ (callerPC[c] # "idle" /\ c \notin Exiters /\ panics = 0) => Places(c) = 1

\* A client's __exit never gets beyond the request channel.
NoExitReply ==
    /\ Busy => applet.call \notin Exiters
    /\ \A i \in 1..Len(replies) : replies[i] \notin Exiters
    /\ \A c \in Callers : got[c] \notin Exiters

\* While calls do not overlap, whatever is in a channel belongs to the one caller.
Serial ==
    ~mixed =>
        /\ \A c, d \in Outstanding : c = d
        /\ panics = 0 =>
             /\ \A c \in Callers : got[c] \in {c, Nobody}
             /\ \A i \in 1..Len(requests) : requests[i] \in Outstanding \union {Exit}
             /\ Busy => applet.call \in Outstanding
             /\ \A i \in 1..Len(replies) : replies[i] \in Outstanding

BridgeInv == Shape /\ Flow /\ OneExit /\ Conserved /\ NoExitReply /\ Serial

LEMMA PlacesIs ==
    ASSUME NEW c \in Callers
    PROVE  /\ Places(c) = CountIn(requests, {c}) + (IF applet.call = c /\ Busy THEN 1 ELSE 0)
                          + CountIn(replies, {c}) + Cardinality(HoldersOf(c))
           /\ Places(c)' = CountIn(requests', {c}) + (IF applet'.call = c /\ Busy' THEN 1 ELSE 0)
                           + CountIn(replies', {c}) + Cardinality(HoldersOf(c)')
<1>1. /\ At(requests, {c}) = {i \in 1..Len(requests) : requests[i] = c}
      /\ At(replies, {c}) = {i \in 1..Len(replies) : replies[i] = c}
      /\ At(requests', {c}) = {i \in 1..Len(requests') : requests'[i] = c}
      /\ At(replies', {c}) = {i \in 1..Len(replies') : replies'[i] = c}
  BY DEF At
<1> QED
  BY <1>1 DEF Places, CountIn, HoldersOf, Busy

LEMMA SetsAreFinite ==
    IsFiniteSet(Outstanding) /\ \A c \in Callers : IsFiniteSet(HoldersOf(c))
<1>1. IsFiniteSet(Callers)
  BY BridgeAssumption
<1>2. Outstanding \in SUBSET Callers /\ \A c \in Callers : HoldersOf(c) \in SUBSET Callers
  BY DEF Outstanding, HoldersOf
<1> QED
  BY <1>1, <1>2, FS_Subset

LEMMA Counts ==
    ASSUME TypeOK
    PROVE  /\ \A T : CountIn(requests, T) \in Nat /\ CountIn(replies, T) \in Nat
           /\ Len(replies) \in Nat /\ Cardinality(Outstanding) \in Nat
           /\ \A c \in Callers : Cardinality(HoldersOf(c)) \in Nat
<1>1. requests \in Seq(Callers \union {Exit}) /\ replies \in Seq(Callers)
  BY DEF TypeOK
<1> QED
  BY <1>1, CountType, SetsAreFinite, FS_CardinalityType

-----------------------------------------------------------------------------
\* What the steps do to the counts.

LEMMA SendFacts ==
    ASSUME Shape, NEW c \in Callers, SendCall(c)
    PROVE  /\ UNCHANGED <<got, replies, waiters, uploadPC, swaps, supervisor, applet, panics>>
           /\ \A T : CountIn(requests', T) = CountIn(requests, T) + (IF c \in T THEN 1 ELSE 0)
           /\ requests' = Append(requests, c)
           /\ callerPC[c] = "idle" /\ callerPC'[c] = "sent"
           /\ \A d \in Callers \ {c} : callerPC'[d] = callerPC[d]
           /\ callerPC' \in [Callers -> {"idle", "sent", "waiting", "answered"}]
           /\ Outstanding' = Outstanding \union {c}
           /\ Cardinality(Outstanding') = Cardinality(Outstanding) + 1
           /\ mixed' = (mixed \/ Outstanding # {})
<1>1. /\ requests' = Append(requests, c) /\ requests \in Seq(Callers \union {Exit})
      /\ callerPC[c] = "idle" /\ callerPC'[c] = "sent"
      /\ \A d \in Callers \ {c} : callerPC'[d] = callerPC[d]
      /\ callerPC' \in [Callers -> {"idle", "sent", "waiting", "answered"}]
  BY DEF SendCall, Shape, TypeOK
<1>2. \A T : CountIn(requests', T) = CountIn(requests, T) + (IF c \in T THEN 1 ELSE 0)
  BY <1>1, CountAppend
<1>3. Outstanding' = Outstanding \union {c} /\ c \notin Outstanding
  BY <1>1 DEF Outstanding
<1>4. Cardinality(Outstanding') = Cardinality(Outstanding) + 1
  BY <1>3, SetsAreFinite, FS_AddElement
<1>5. /\ mixed' = (mixed \/ Outstanding # {})
      /\ UNCHANGED <<got, replies, waiters, uploadPC, swaps, supervisor, applet, panics>>
  BY DEF SendCall
<1> QED
  BY <1>1, <1>2, <1>3, <1>4, <1>5

\* d collects the reply of v's call.
Collects(d, v) ==
    /\ got' = [got EXCEPT ![d] = v]
    /\ callerPC' = [callerPC EXCEPT ![d] = "answered"]

LEMMA CollectFacts ==
    ASSUME Shape, NEW d \in Outstanding, NEW v \in Callers, Collects(d, v)
    PROVE  /\ d \in Callers /\ got'[d] = v /\ callerPC'[d] = "answered" /\ v # Nobody
           /\ \A c \in Callers \ {d} : got'[c] = got[c] /\ callerPC'[c] = callerPC[c]
           /\ callerPC' \in [Callers -> {"idle", "sent", "waiting", "answered"}]
           /\ got' \in [Callers -> Callers \union {Nobody}]
           /\ Outstanding' = Outstanding \ {d}
           /\ Cardinality(Outstanding') = Cardinality(Outstanding) - 1
           /\ \A c \in Callers : Cardinality(HoldersOf(c)')
                = Cardinality(HoldersOf(c)) + (IF c = v THEN 1 ELSE 0)
<1>1. d \in Callers /\ callerPC[d] # "answered" /\ got[d] = Nobody /\ Nobody \notin Callers
  BY BridgeAssumption DEF Outstanding, Shape
<1>2. /\ got'[d] = v /\ callerPC'[d] = "answered"
      /\ \A c \in Callers \ {d} : got'[c] = got[c] /\ callerPC'[c] = callerPC[c]
      /\ callerPC' \in [Callers -> {"idle", "sent", "waiting", "answered"}]
      /\ got' \in [Callers -> Callers \union {Nobody}]
  BY <1>1 DEF Collects, Shape, TypeOK
<1>3. Outstanding' = Outstanding \ {d}
  BY <1>2 DEF Outstanding
<1>4. Cardinality(Outstanding') = Cardinality(Outstanding) - 1
  BY <1>3, SetsAreFinite, FS_RemoveElement
<1>5. ASSUME NEW c \in Callers
      PROVE  Cardinality(HoldersOf(c)') = Cardinality(HoldersOf(c)) + (IF c = v THEN 1 ELSE 0)
  <2>1. IsFiniteSet(HoldersOf(c)) /\ Cardinality(HoldersOf(c)) \in Nat /\ d \notin HoldersOf(c)
    BY <1>1, SetsAreFinite, FS_CardinalityType DEF HoldersOf
  <2>2. Cardinality(HoldersOf(c) \union {d}) = Cardinality(HoldersOf(c)) + 1
    BY <2>1, FS_AddElement
  <2>3. HoldersOf(c)' = IF c = v THEN HoldersOf(c) \union {d} ELSE HoldersOf(c)
    BY <1>1, <1>2 DEF HoldersOf
  <2> QED
    BY <2>1, <2>2, <2>3
<1> QED
  BY <1>1, <1>2, <1>3, <1>4, <1>5

LEMMA AwaitFacts ==
    ASSUME Shape, NEW c \in Callers, AwaitReply(c)
    PROVE  /\ UNCHANGED <<requests, uploadPC, swaps, supervisor, applet, panics, mixed>>
           /\ callerPC[c] = "sent" /\ c \in Outstanding
           /\ \/ /\ replies # <<>> /\ Head(replies) \in Callers
                 /\ Collects(c, Head(replies)) /\ replies' = Tail(replies) /\ waiters' = waiters
                 /\ \A T : CountIn(replies, T)
                             = CountIn(replies', T) + (IF Head(replies) \in T THEN 1 ELSE 0)
                 /\ Len(replies') = Len(replies) - 1
                 /\ replies' \in Seq(Callers)
              \/ /\ replies = <<>> /\ UNCHANGED <<got, replies>>
                 /\ waiters' = Append(waiters, c)
                 /\ callerPC' = [callerPC EXCEPT ![c] = "waiting"]
                 /\ Outstanding' = Outstanding
<1>1. /\ UNCHANGED <<requests, uploadPC, swaps, supervisor, applet, panics, mixed>>
      /\ callerPC[c] = "sent" /\ c \in Outstanding
  BY DEF AwaitReply, Outstanding
<1>2. CASE replies # <<>>
  <2>1. /\ Collects(c, Head(replies)) /\ replies' = Tail(replies) /\ waiters' = waiters
        /\ replies \in Seq(Callers)
    BY <1>2 DEF AwaitReply, Collects, Shape, TypeOK
  <2>2. \A T : CountIn(replies, T) = CountIn(replies', T) + (IF Head(replies) \in T THEN 1 ELSE 0)
    BY <1>2, <2>1, CountTail
  <2>3. Head(replies) \in Callers /\ Len(replies') = Len(replies) - 1 /\ replies' \in Seq(Callers)
    BY <1>2, <2>1
  <2> QED
    BY <1>1, <1>2, <2>1, <2>2, <2>3
<1>3. CASE replies = <<>>
  <2>1. /\ UNCHANGED <<got, replies>> /\ waiters' = Append(waiters, c)
        /\ callerPC' = [callerPC EXCEPT ![c] = "waiting"]
    BY <1>3 DEF AwaitReply
  <2>2. Outstanding' = Outstanding
    BY <1>1, <2>1 DEF Outstanding, Shape, TypeOK
  <2> QED
    BY <1>1, <1>3, <2>1, <2>2
<1> QED
  BY <1>2, <1>3

LEMMA RecvFacts ==
    ASSUME Shape, Recv
    PROVE  /\ UNCHANGED <<callerPC, got, replies, waiters, uploadPC, swaps, supervisor, panics, mixed>>
           /\ applet.pc = "recv" /\ requests # <<>> /\ requests' = Tail(requests)
           /\ \A T : CountIn(requests, T)
                       = CountIn(requests', T) + (IF Head(requests) \in T THEN 1 ELSE 0)
           /\ requests' \in Seq(Callers \union {Exit})
           /\ \A i \in 1..Len(requests') : \E j \in 1..Len(requests) : requests'[i] = requests[j]
           /\ Head(requests) = requests[1] /\ 1 \in 1..Len(requests)
           /\ \/ IsExit(Head(requests)) /\ applet' = [applet EXCEPT !.pc = "stopped"]
              \/ /\ Head(requests) \in Callers \ Exiters
                 /\ applet' = [applet EXCEPT !.pc = "busy", !.call = Head(requests)]
<1>1. /\ UNCHANGED <<callerPC, got, replies, waiters, uploadPC, swaps, supervisor, panics, mixed>>
      /\ applet.pc = "recv" /\ requests # <<>> /\ requests' = Tail(requests)
      /\ applet' = Received(Head(requests))
  BY DEF Recv
<1>2. requests \in Seq(Callers \union {Exit})
  BY DEF Shape, TypeOK
<1>3. \A T : CountIn(requests, T) = CountIn(requests', T) + (IF Head(requests) \in T THEN 1 ELSE 0)
  BY <1>1, <1>2, CountTail
<1>4. /\ requests' \in Seq(Callers \union {Exit}) /\ Head(requests) \in Callers \union {Exit}
      /\ Len(requests) \in Nat /\ Len(requests) >= 1 /\ Len(requests') = Len(requests) - 1
      /\ \A i \in 1..Len(requests') : requests'[i] = requests[i + 1]
      /\ Head(requests) = requests[1]
  BY <1>1, <1>2
<1>5. \A i \in 1..Len(requests') : \E j \in 1..Len(requests) : requests'[i] = requests[j]
  BY <1>4
<1>6. 1 \in 1..Len(requests)
  BY <1>4
<1> QED
  BY <1>1, <1>3, <1>4, <1>5, <1>6 DEF Received, IsExit

LEMMA ReplyFacts ==
    ASSUME Shape, Reply
    PROVE  /\ UNCHANGED <<requests, uploadPC, swaps, supervisor, panics, mixed>>
           /\ applet.pc = "busy" /\ applet.call \in Callers
           /\ applet' = [applet EXCEPT !.pc = "sent", !.call = Nobody]
           /\ \/ /\ waiters # <<>> /\ Head(waiters) \in Outstanding
                 /\ Collects(Head(waiters), applet.call)
                 /\ waiters' = Tail(waiters) /\ replies' = replies
              \/ /\ waiters = <<>> /\ UNCHANGED <<callerPC, got, waiters>>
                 /\ replies' = Append(replies, applet.call)
                 /\ \A T : CountIn(replies', T)
                             = CountIn(replies, T) + (IF applet.call \in T THEN 1 ELSE 0)
                 /\ Len(replies') = Len(replies) + 1 /\ replies' \in Seq(Callers)
<1>1. /\ UNCHANGED <<requests, uploadPC, swaps, supervisor, panics, mixed>>
      /\ applet.pc = "busy" /\ applet' = [applet EXCEPT !.pc = "sent", !.call = Nobody]
      /\ Deliver
  BY DEF Reply
<1>2. applet.call \in Callers
  BY <1>1 DEF Shape, Busy
<1>3. CASE waiters # <<>>
  <2>1. /\ Collects(Head(waiters), applet.call) /\ waiters' = Tail(waiters) /\ replies' = replies
    BY <1>1, <1>3 DEF Deliver, Collects
  <2>2. Head(waiters) = waiters[1] /\ waiters[1] \in Callers /\ 1 \in 1..Len(waiters)
    <3>1. waiters \in Seq(Callers)
      BY DEF Shape, TypeOK
    <3> QED
      BY <1>3, <3>1
  <2>3. Head(waiters) \in Outstanding
    BY <2>2 DEF Shape, Outstanding
  <2> QED
    BY <1>1, <1>2, <1>3, <2>1, <2>3
<1>4. CASE waiters = <<>>
  <2>1. UNCHANGED <<callerPC, got, waiters>> /\ replies' = Append(replies, applet.call)
    BY <1>1, <1>4 DEF Deliver
  <2>2. replies \in Seq(Callers)
    BY DEF Shape, TypeOK
  <2>3. \A T : CountIn(replies', T) = CountIn(replies, T) + (IF applet.call \in T THEN 1 ELSE 0)
    BY <1>2, <2>1, <2>2, CountAppend
  <2>4. Len(replies') = Len(replies) + 1 /\ replies' \in Seq(Callers)
    BY <1>2, <2>1, <2>2
  <2> QED
    BY <1>1, <1>2, <1>4, <2>1, <2>3, <2>4
<1> QED
  BY <1>3, <1>4

LEMMA SwapFacts ==
    ASSUME Shape, TakeSwap
    PROVE  /\ UNCHANGED <<callerPC, got, replies, waiters, uploadPC, applet, panics, mixed>>
           /\ supervisor.pc = "select" /\ supervisor'.pc = "exiting"
           /\ supervisor' \in [pc : {"select", "exiting", "fatal"}, elf : Uploads \union {Embedded}]
           /\ swaps' \in Seq(Uploads)
           /\ requests' = Append(requests, Exit) /\ requests' \in Seq(Callers \union {Exit})
           /\ \A T : CountIn(requests', T) = CountIn(requests, T) + (IF Exit \in T THEN 1 ELSE 0)
<1>1. requests \in Seq(Callers \union {Exit}) /\ swaps \in Seq(Uploads)
  BY DEF Shape, TypeOK
<1>2. /\ UNCHANGED <<callerPC, got, replies, waiters, uploadPC, applet, panics, mixed>>
      /\ supervisor.pc = "select" /\ supervisor' = [pc |-> "exiting", elf |-> Head(swaps)]
      /\ swaps # <<>> /\ swaps' = Tail(swaps) /\ requests' = Append(requests, Exit)
  BY DEF TakeSwap
<1>3. Head(swaps) \in Uploads /\ swaps' \in Seq(Uploads)
  BY <1>1, <1>2
<1>4. ASSUME NEW T
      PROVE  CountIn(requests', T) = CountIn(requests, T) + (IF Exit \in T THEN 1 ELSE 0)
  <2> DEFINE S == Callers \union {Exit}
  <2>1. requests \in Seq(S) /\ Exit \in S
    BY <1>1
  <2> HIDE DEF S
  <2> QED
    BY <1>2, <2>1, CountAppend
<1>5. requests' \in Seq(Callers \union {Exit})
  BY <1>1, <1>2
<1> QED
  BY <1>2, <1>3, <1>4, <1>5

-----------------------------------------------------------------------------
\* The steps keep the invariant.

\* The steps that move neither a call nor a reply.
Quiet ==
    \/ \E u \in Uploads : AcceptUpload(u) \/ PushUpload(u)
    \/ LoadApplet \/ LoadFails \/ NextIteration \/ Panic

LEMMA Steps ==
    ASSUME [Next]_vars
    PROVE  \/ \E c \in Callers : SendCall(c) \/ AwaitReply(c)
           \/ TakeSwap \/ Recv \/ Reply \/ Quiet \/ UNCHANGED vars
BY DEF Next, CallerStep, UploadStep, SupervisorStep, AppletStep, Quiet

LEMMA QuietFacts ==
    ASSUME Shape, Quiet
    PROVE  /\ UNCHANGED <<callerPC, got, requests, replies, waiters, mixed>>
           /\ Busy' => Busy /\ applet' = applet
           /\ panics' >= panics /\ panics \in Nat /\ panics' \in 0..MaxPanics
           /\ panics' = 0 => panics = 0 /\ (Busy => Busy')
           /\ applet' \in [pc : {"recv", "busy", "sent", "stopped"},
                           call : Callers \union {Nobody}, elf : Uploads \union {Embedded}]
           /\ supervisor' \in [pc : {"select", "exiting", "fatal"}, elf : Uploads \union {Embedded}]
           /\ applet'.pc # "sent" => applet.pc # "sent" \/ Len(replies) <= 1
           /\ Outstanding' = Outstanding /\ \A c \in Callers : HoldersOf(c)' = HoldersOf(c)
<1>1. UNCHANGED <<callerPC, got, requests, replies, waiters, mixed>>
  BY DEF Quiet, AcceptUpload, PushUpload, LoadApplet, LoadFails, NextIteration, Panic
<1>2. /\ applet \in [pc : {"recv", "busy", "sent", "stopped"},
                     call : Callers \union {Nobody}, elf : Uploads \union {Embedded}]
      /\ supervisor \in [pc : {"select", "exiting", "fatal"}, elf : Uploads \union {Embedded}]
      /\ panics \in 0..MaxPanics /\ panics \in Nat /\ MaxPanics \in Nat
  BY BridgeAssumption DEF Shape, TypeOK
<1>3. \/ \E u \in Uploads : AcceptUpload(u) \/ PushUpload(u)
      \/ LoadApplet \/ LoadFails \/ NextIteration \/ Panic
  BY DEF Quiet
<1>4. /\ Busy' => Busy /\ applet' = applet
      /\ panics' >= panics /\ panics' \in 0..MaxPanics
      /\ panics' = 0 => panics = 0 /\ (Busy => Busy')
  BY <1>2, <1>3 DEF AcceptUpload, PushUpload, LoadApplet, LoadFails, NextIteration, Panic, Busy,
     ReadyToLoad
<1>5. /\ applet' \in [pc : {"recv", "busy", "sent", "stopped"},
                      call : Callers \union {Nobody}, elf : Uploads \union {Embedded}]
      /\ supervisor' \in [pc : {"select", "exiting", "fatal"}, elf : Uploads \union {Embedded}]
  BY <1>2, <1>3 DEF AcceptUpload, PushUpload, LoadApplet, LoadFails, NextIteration, Panic
<1>6. applet'.pc # "sent" => applet.pc # "sent" \/ Len(replies) <= 1
  BY <1>3 DEF AcceptUpload, PushUpload, LoadApplet, LoadFails, NextIteration, Panic, ReadyToLoad
<1>7. Outstanding' = Outstanding /\ \A c \in Callers : HoldersOf(c)' = HoldersOf(c)
  BY <1>1 DEF Outstanding, HoldersOf
<1> QED
  BY <1>1, <1>2, <1>4, <1>5, <1>6, <1>7

LEMMA ShapeStep ==
    ASSUME Shape, [Next]_vars
    PROVE  Shape'
<1>1. TypeOK
  BY DEF Shape
<1>2. ASSUME NEW c \in Callers, SendCall(c) PROVE Shape'
  <2>1. requests' \in Seq(Callers \union {Exit})
    <3>1. requests \in Seq(Callers \union {Exit}) /\ requests' = Append(requests, c)
      BY <1>1, <1>2, SendFacts DEF TypeOK
    <3> QED
      BY <3>1
  <2>2. mixed' \in BOOLEAN
    BY <1>1, <1>2, SendFacts DEF TypeOK
  <2>3. TypeOK'
    BY <1>1, <1>2, <2>1, <2>2, SendFacts DEF TypeOK
  <2>4. \A i \in 1..Len(waiters) : callerPC'[waiters[i]] = "waiting"
    BY <1>1, <1>2, SendFacts DEF Shape, TypeOK
  <2>5. \A d \in Callers : (got'[d] # Nobody) <=> (callerPC'[d] = "answered")
    BY <1>1, <1>2, SendFacts DEF Shape
  <2> QED
    BY <1>2, <2>3, <2>4, <2>5, SendFacts DEF Shape, Busy
<1>3. ASSUME NEW c \in Callers, AwaitReply(c), replies # <<>> PROVE Shape'
  <2>1. /\ UNCHANGED <<requests, uploadPC, swaps, supervisor, applet, panics, mixed, waiters>>
        /\ Head(replies) \in Callers /\ Collects(c, Head(replies)) /\ c \in Outstanding
        /\ Len(replies') = Len(replies) - 1 /\ replies' \in Seq(Callers)
        /\ callerPC[c] = "sent" /\ waiters = <<>> /\ Len(replies) \in Nat
    BY <1>1, <1>3, AwaitFacts, Counts DEF Shape
  <2>2. TypeOK'
    BY <1>1, <2>1, CollectFacts DEF TypeOK
  <2>3. \A d \in Callers : (got'[d] # Nobody) <=> (callerPC'[d] = "answered")
    BY <2>1, CollectFacts DEF Shape
  <2>4. (applet'.pc # "sent" => Len(replies') <= 1) /\ Len(waiters') = 0
    BY <2>1 DEF Shape
  <2> QED
    BY <2>1, <2>2, <2>3, <2>4 DEF Shape, Busy
<1>4. ASSUME NEW c \in Callers, AwaitReply(c), replies = <<>> PROVE Shape'
  <2>1. /\ UNCHANGED <<requests, uploadPC, swaps, supervisor, applet, panics, mixed, got, replies>>
        /\ waiters' = Append(waiters, c) /\ callerPC' = [callerPC EXCEPT ![c] = "waiting"]
        /\ callerPC[c] = "sent" /\ waiters \in Seq(Callers)
    BY <1>1, <1>4, AwaitFacts DEF TypeOK
  <2>2. waiters' \in Seq(Callers)
    BY <2>1
  <2>3. /\ callerPC' \in [Callers -> {"idle", "sent", "waiting", "answered"}]
        /\ callerPC'[c] = "waiting" /\ \A d \in Callers \ {c} : callerPC'[d] = callerPC[d]
    BY <1>1, <2>1 DEF TypeOK
  <2>4. TypeOK'
    BY <1>1, <2>1, <2>2, <2>3 DEF TypeOK
  <2>5. /\ Len(waiters) \in Nat /\ Len(waiters') = Len(waiters) + 1
        /\ waiters'[Len(waiters) + 1] = c
        /\ \A i \in 1..Len(waiters) : waiters'[i] = waiters[i] /\ waiters[i] \in Callers /\ waiters[i] # c
    BY <2>1 DEF Shape
  <2>6. \A i \in 1..Len(waiters') : callerPC'[waiters'[i]] = "waiting"
    BY <2>3, <2>5 DEF Shape
  <2>7. \A i, j \in 1..Len(waiters') : waiters'[i] = waiters'[j] => i = j
    BY <2>5 DEF Shape
  <2>8. \A d \in Callers : (got'[d] # Nobody) <=> (callerPC'[d] = "answered")
    BY <2>1, <2>3 DEF Shape
  <2> QED
    BY <1>4, <2>1, <2>4, <2>6, <2>7, <2>8 DEF Shape, Busy
<1>5. CASE TakeSwap
  <2>1. TypeOK'
    BY <1>1, <1>5, SwapFacts DEF TypeOK
  <2> QED
    BY <1>5, <2>1, SwapFacts DEF Shape, Busy
<1>6. CASE Recv
  <2>1. applet' \in [pc : {"recv", "busy", "sent", "stopped"},
                     call : Callers \union {Nobody}, elf : Uploads \union {Embedded}]
        /\ (Busy' => applet'.call \in Callers) /\ applet'.pc # "sent"
    BY <1>1, <1>6, RecvFacts DEF TypeOK, Busy
  <2>2. TypeOK'
    BY <1>1, <1>6, <2>1, RecvFacts DEF TypeOK
  <2> QED
    BY <1>6, <2>1, <2>2, RecvFacts DEF Shape
<1>7. ASSUME Reply, waiters # <<>> PROVE Shape'
  <2> DEFINE d == Head(waiters)
  <2>1. /\ UNCHANGED <<requests, uploadPC, swaps, supervisor, panics, mixed, replies>>
        /\ applet.call \in Callers /\ applet' = [applet EXCEPT !.pc = "sent", !.call = Nobody]
        /\ d \in Outstanding /\ Collects(d, applet.call) /\ waiters' = Tail(waiters)
        /\ waiters \in Seq(Callers) /\ replies = <<>>
    BY <1>1, <1>7, ReplyFacts DEF TypeOK, Shape
  <2>2. /\ waiters' \in Seq(Callers) /\ Len(waiters) \in Nat /\ Len(waiters) >= 1
        /\ Len(waiters') = Len(waiters) - 1
        /\ \A i \in 1..Len(waiters') : waiters'[i] = waiters[i + 1]
        /\ d = waiters[1]
    BY <1>7, <2>1
  <2>3. applet' \in [pc : {"recv", "busy", "sent", "stopped"},
                     call : Callers \union {Nobody}, elf : Uploads \union {Embedded}]
        /\ ~Busy' /\ applet'.pc = "sent"
    BY <1>1, <2>1 DEF TypeOK, Busy
  <2>4. TypeOK'
    BY <1>1, <2>1, <2>2, <2>3, CollectFacts DEF TypeOK
  <2>5. \A i, j \in 1..Len(waiters') : waiters'[i] = waiters'[j] => i = j
    BY <2>2 DEF Shape
  <2>6. ASSUME NEW i \in 1..Len(waiters') PROVE callerPC'[waiters'[i]] = "waiting"
    <3>1. i + 1 \in 1..Len(waiters) /\ 1 \in 1..Len(waiters) /\ i + 1 # 1
      BY <2>2
    <3>2. waiters[i + 1] # d /\ waiters[i + 1] \in Callers /\ callerPC[waiters[i + 1]] = "waiting"
      BY <2>1, <2>2, <3>1 DEF Shape
    <3> QED
      BY <2>1, <2>2, <3>2, CollectFacts
  <2>7. \A e \in Callers : (got'[e] # Nobody) <=> (callerPC'[e] = "answered")
    BY <2>1, CollectFacts DEF Shape
  <2> QED
    BY <2>1, <2>3, <2>4, <2>5, <2>6, <2>7 DEF Shape
<1>8. ASSUME Reply, waiters = <<>> PROVE Shape'
  <2>1. /\ UNCHANGED <<requests, uploadPC, swaps, supervisor, panics, mixed, callerPC, got, waiters>>
        /\ applet.pc = "busy" /\ applet' = [applet EXCEPT !.pc = "sent", !.call = Nobody]
        /\ Len(replies') = Len(replies) + 1 /\ replies' \in Seq(Callers)
        /\ Len(replies) <= 1 /\ Len(replies) \in Nat
    BY <1>1, <1>8, ReplyFacts, Counts DEF Shape
  <2>2. applet' \in [pc : {"recv", "busy", "sent", "stopped"},
                     call : Callers \union {Nobody}, elf : Uploads \union {Embedded}]
        /\ ~Busy' /\ applet'.pc = "sent"
    BY <1>1, <2>1 DEF TypeOK, Busy
  <2>3. TypeOK'
    BY <1>1, <2>1, <2>2 DEF TypeOK
  <2> QED
    BY <1>8, <2>1, <2>2, <2>3 DEF Shape
<1>9. CASE Quiet
  <2>1. /\ uploadPC' \in [Uploads -> {"idle", "accepted", "pushed", "loaded"}]
        /\ swaps' \in Seq(Uploads)
    <3>1. /\ uploadPC \in [Uploads -> {"idle", "accepted", "pushed", "loaded"}]
          /\ swaps \in Seq(Uploads)
      BY <1>1 DEF TypeOK
    <3> QED
      BY <1>9, <3>1 DEF Quiet, AcceptUpload, PushUpload, LoadApplet, LoadFails,
         NextIteration, Panic
  <2>2. TypeOK'
    BY <1>1, <1>9, <2>1, QuietFacts DEF TypeOK
  <2> QED
    BY <1>9, <2>2, QuietFacts DEF Shape
<1>10. CASE UNCHANGED vars
  BY <1>10 DEF vars, Shape, TypeOK, Busy
<1> QED
  BY <1>2, <1>3, <1>4, <1>5, <1>6, <1>7, <1>8, <1>9, <1>10, Steps

\* Exit is no call.
LEMMA ExitIsNoCall ==
    Exit \notin Callers /\ Nobody \notin Callers /\ Exiters \subseteq Callers
BY BridgeAssumption

LEMMA FlowStep ==
    ASSUME Shape, Flow, [Next]_vars
    PROVE  Flow'
<1>1. /\ TypeOK /\ CountIn(requests, Callers) \in Nat /\ Len(replies) \in Nat
      /\ Cardinality(Outstanding) \in Nat
  BY Counts DEF Shape
<1>2. ASSUME NEW c \in Callers, SendCall(c) PROVE Flow'
  <2>1. /\ CountIn(requests', Callers) = CountIn(requests, Callers) + 1
        /\ Cardinality(Outstanding') = Cardinality(Outstanding) + 1
        /\ UNCHANGED <<replies, applet, panics>>
    BY <1>1, <1>2, SendFacts
  <2>2. Busy' <=> Busy
    BY <2>1 DEF Busy
  <2> QED
    BY <1>1, <2>1, <2>2 DEF Flow
<1>3. ASSUME NEW c \in Callers, AwaitReply(c) PROVE Flow'
  <2>1. CASE replies # <<>>
    <3>1. /\ Collects(c, Head(replies)) /\ c \in Outstanding /\ Head(replies) \in Callers
          /\ Len(replies') = Len(replies) - 1
          /\ UNCHANGED <<requests, applet, panics>>
      BY <1>3, <2>1, AwaitFacts
    <3>2. Cardinality(Outstanding') = Cardinality(Outstanding) - 1 /\ (Busy' <=> Busy)
      BY <3>1, CollectFacts DEF Busy
    <3> QED
      BY <1>1, <3>1, <3>2 DEF Flow
  <2>2. CASE replies = <<>>
    BY <1>1, <1>3, <2>2, AwaitFacts DEF Flow, Busy
  <2> QED
    BY <2>1, <2>2
<1>4. CASE TakeSwap
  <2>1. CountIn(requests', Callers) = CountIn(requests, Callers)
    BY <1>1, <1>4, SwapFacts, ExitIsNoCall
  <2>2. Outstanding' = Outstanding
    BY <1>4, SwapFacts DEF Outstanding
  <2> QED
    BY <1>4, <2>1, <2>2, SwapFacts DEF Flow, Busy
<1>5. CASE Recv
  <2>1. Outstanding' = Outstanding /\ UNCHANGED <<replies, panics>>
    BY <1>5, RecvFacts DEF Outstanding
  <2>2. CountIn(requests', Callers) \in Nat
    BY <1>5, RecvFacts, CountType
  <2>3. ~Busy /\ applet \in [pc : {"recv", "busy", "sent", "stopped"},
                     call : Callers \union {Nobody}, elf : Uploads \union {Embedded}]
    BY <1>1, <1>5, RecvFacts DEF Busy, TypeOK
  <2>4. Busy' => Head(requests) \in Callers
    BY <1>5, <2>3, RecvFacts DEF Busy
  <2>5. CountIn(requests, Callers) >= CountIn(requests', Callers) + (IF Busy' THEN 1 ELSE 0)
    BY <1>5, <2>2, <2>4, RecvFacts
  <2> QED
    BY <1>1, <2>1, <2>2, <2>3, <2>5 DEF Flow
<1>6. CASE Reply
  <2>1. Busy /\ ~Busy' /\ UNCHANGED <<requests, panics>>
    BY <1>1, <1>6, ReplyFacts DEF Busy, TypeOK
  <2>2. CASE waiters # <<>>
    BY <1>1, <1>6, <2>1, <2>2, ReplyFacts, CollectFacts DEF Flow
  <2>3. CASE waiters = <<>>
    <3>1. Outstanding' = Outstanding /\ Len(replies') = Len(replies) + 1
      BY <1>6, <2>3, ReplyFacts DEF Outstanding
    <3> QED
      BY <1>1, <2>1, <3>1 DEF Flow
  <2> QED
    BY <2>2, <2>3
<1>7. CASE Quiet
  BY <1>1, <1>7, QuietFacts DEF Flow
<1>8. CASE UNCHANGED vars
  BY <1>8 DEF vars, Flow, Busy, Outstanding
<1> QED
  BY <1>2, <1>3, <1>4, <1>5, <1>6, <1>7, <1>8, Steps

\* Only a client's __exit and a panic disturb.
LEMMA StillUndisturbed ==
    ASSUME Shape, [Next]_vars, Undisturbed'
    PROVE  /\ Undisturbed
           /\ \A c \in Callers : SendCall(c) => c \notin Exiters
<1>1. /\ TypeOK /\ Exiters \subseteq Callers /\ panics \in Nat
      /\ panics' = 0 /\ \A c \in Exiters : callerPC'[c] = "idle"
  BY BridgeAssumption DEF Shape, TypeOK, Undisturbed
<1>2. panics = 0
  <2>1. panics' = panics \/ panics' = panics + 1
    BY DEF Next, vars, SendCall, CallerStep, AwaitReply, AcceptUpload, UploadStep, PushUpload,
       SupervisorStep, TakeSwap, LoadApplet, LoadFails, AppletStep, Recv, Reply, NextIteration,
       Panic
  <2> QED
    BY <1>1, <2>1
<1>3. ASSUME NEW e \in Exiters PROVE callerPC[e] = "idle" /\ ~SendCall(e)
  <2>0. e \in Callers /\ callerPC'[e] = "idle"
    BY <1>1, <1>3
  <2>1. ASSUME NEW c \in Callers, SendCall(c) PROVE callerPC[e] = "idle" /\ c # e
    BY <2>0, <2>1, SendFacts
  <2>2. ASSUME NEW c \in Callers, AwaitReply(c) PROVE callerPC[e] = "idle"
    <3>1. CASE replies # <<>>
      <4>1. callerPC'[c] = "answered" /\ \A d \in Callers \ {c} : callerPC'[d] = callerPC[d]
        BY <2>2, <3>1, AwaitFacts, CollectFacts
      <4> QED
        BY <2>0, <4>1
    <3>2. CASE replies = <<>>
      <4>1. callerPC' = [callerPC EXCEPT ![c] = "waiting"]
        BY <2>2, <3>2, AwaitFacts
      <4> QED
        BY <1>1, <2>0, <4>1 DEF TypeOK
    <3> QED
      BY <3>1, <3>2
  <2>3. ASSUME TakeSwap \/ Recv \/ Quiet \/ UNCHANGED vars PROVE callerPC[e] = "idle"
    BY <2>0, <2>3, SwapFacts, RecvFacts, QuietFacts DEF vars
  <2>4. ASSUME Reply PROVE callerPC[e] = "idle"
    <3>1. CASE waiters # <<>>
      <4> DEFINE d == Head(waiters)
      <4>1. callerPC'[d] = "answered" /\ \A c \in Callers \ {d} : callerPC'[c] = callerPC[c]
        BY <2>4, <3>1, ReplyFacts, CollectFacts
      <4> QED
        BY <2>0, <4>1
    <3>2. CASE waiters = <<>>
      BY <2>0, <2>4, <3>2, ReplyFacts
    <3> QED
      BY <3>1, <3>2
  <2>5. callerPC[e] = "idle"
    BY <2>1, <2>2, <2>3, <2>4, Steps
  <2>6. ~SendCall(e)
    BY <2>0, <2>1
  <2> QED
    BY <2>5, <2>6
<1> QED
  BY <1>2, <1>3 DEF Undisturbed

LEMMA OneExitStep ==
    ASSUME Shape, OneExit, Conserved, [Next]_vars
    PROVE  OneExit'
<1> SUFFICES ASSUME Undisturbed'
             PROVE  CountIn(requests', {Exit}) + (IF applet'.pc = "stopped" THEN 1 ELSE 0)
                      = IF supervisor'.pc = "select" THEN 0 ELSE 1
  BY DEF OneExit
<1> DEFINE Goal == CountIn(requests', {Exit}) + (IF applet'.pc = "stopped" THEN 1 ELSE 0)
                      = IF supervisor'.pc = "select" THEN 0 ELSE 1
<1>1. TypeOK /\ CountIn(requests, {Exit}) \in Nat
  BY Counts DEF Shape
<1>u. Undisturbed
  BY StillUndisturbed
<1>o. CountIn(requests, {Exit}) + (IF applet.pc = "stopped" THEN 1 ELSE 0)
        = IF supervisor.pc = "select" THEN 0 ELSE 1
  BY <1>u DEF OneExit
<1>2. ASSUME NEW c \in Callers, SendCall(c) PROVE Goal
  <2>1. CountIn(requests', {Exit}) = CountIn(requests, {Exit})
    BY <1>1, <1>2, SendFacts, ExitIsNoCall
  <2> QED
    BY <1>2, <1>o, <2>1, SendFacts
<1>3. ASSUME NEW c \in Callers, AwaitReply(c) PROVE Goal
  BY <1>3, <1>o, AwaitFacts
<1>4. CASE TakeSwap
  BY <1>1, <1>4, <1>o, SwapFacts
<1>5. CASE Recv
  <2>1. CountIn(requests', {Exit}) \in Nat
    BY <1>5, RecvFacts, CountType
  \* No client's __exit is queued.
  <2>2. Head(requests) \notin Exiters
    <3> SUFFICES ASSUME Head(requests) \in Exiters PROVE FALSE
      OBVIOUS
    <3> DEFINE e == Head(requests)
    <3>1. e \in Callers /\ callerPC[e] = "idle"
      BY <1>u, ExitIsNoCall DEF Undisturbed
    <3>2. Places(e) = 0
      BY <3>1 DEF Conserved
    <3>3. CountIn(requests, {e}) = CountIn(requests', {e}) + 1
      BY <1>5, RecvFacts
    <3>4. CountIn(requests', {e}) \in Nat
      BY <1>5, RecvFacts, CountType
    <3>5. /\ CountIn(requests, {e}) \in Nat /\ CountIn(replies, {e}) \in Nat
          /\ Cardinality(HoldersOf(e)) \in Nat
      BY <1>1, <3>1, Counts
    <3>6. Places(e) = CountIn(requests, {e}) + (IF applet.call = e /\ Busy THEN 1 ELSE 0)
                      + CountIn(replies, {e}) + Cardinality(HoldersOf(e))
      BY <3>1, PlacesIs
    <3> HIDE DEF e
    <3> QED
      BY <3>2, <3>3, <3>4, <3>5, <3>6
  <2>3. /\ applet.pc = "recv" /\ UNCHANGED <<panics, supervisor>>
        /\ (applet'.pc = "stopped") <=> (Head(requests) = Exit)
    BY <1>1, <1>5, <2>2, RecvFacts, ExitIsNoCall DEF TypeOK, IsExit
  <2> QED
    BY <1>1, <1>5, <1>o, <2>1, <2>3, RecvFacts
<1>6. CASE Reply
  <2>1. /\ applet.pc # "stopped" /\ applet'.pc # "stopped"
        /\ UNCHANGED <<requests, panics, supervisor>>
    BY <1>1, <1>6, ReplyFacts DEF TypeOK
  <2> QED
    BY <1>o, <2>1
<1>7. CASE Quiet
  <2>1. ASSUME NEW u \in Uploads, AcceptUpload(u) \/ PushUpload(u) PROVE Goal
    BY <1>o, <2>1 DEF AcceptUpload, PushUpload
  <2>2. CASE LoadApplet
    <3>1. /\ supervisor.pc = "exiting" /\ supervisor'.pc = "select" /\ applet.pc = "stopped"
          /\ applet'.pc = "recv" /\ UNCHANGED <<requests, panics>>
      BY <1>1, <2>2 DEF LoadApplet, ReadyToLoad, TypeOK
    <3> QED
      BY <1>1, <1>o, <3>1
  <2>3. CASE LoadFails
    <3>1. /\ supervisor.pc = "exiting" /\ supervisor'.pc = "fatal"
          /\ UNCHANGED <<requests, panics, applet>>
      BY <1>1, <2>3 DEF LoadFails, TypeOK
    <3> QED
      BY <1>o, <3>1
  <2>4. CASE NextIteration
    <3>1. applet.pc = "sent" /\ applet'.pc = "recv" /\ UNCHANGED <<requests, panics, supervisor>>
      BY <1>1, <2>4 DEF NextIteration, TypeOK
    <3> QED
      BY <1>o, <3>1
  <2>5. CASE Panic
    <3>1. panics' # 0
      BY <1>1, <2>5, BridgeAssumption DEF Panic, TypeOK
    <3> QED
      BY <3>1 DEF Undisturbed
  <2> QED
    BY <1>7, <2>1, <2>2, <2>3, <2>4, <2>5 DEF Quiet
<1>8. CASE UNCHANGED vars
  BY <1>8, <1>o DEF vars
<1> QED
  BY <1>2, <1>3, <1>4, <1>5, <1>6, <1>7, <1>8, Steps

LEMMA NoExitReplyStep ==
    ASSUME Shape, NoExitReply, [Next]_vars
    PROVE  NoExitReply'
<1>1. TypeOK /\ replies \in Seq(Callers) /\ got \in [Callers -> Callers \union {Nobody}]
  BY DEF Shape, TypeOK
<1>2. ASSUME NEW c \in Callers, SendCall(c) PROVE NoExitReply'
  BY <1>2, SendFacts DEF NoExitReply, Busy
<1>3. ASSUME NEW c \in Callers, AwaitReply(c), replies # <<>> PROVE NoExitReply'
  <2>1. /\ UNCHANGED applet /\ Collects(c, Head(replies)) /\ c \in Outstanding
        /\ Head(replies) \in Callers /\ replies' = Tail(replies)
    BY <1>3, AwaitFacts
  <2>2. /\ Head(replies) = replies[1] /\ 1 \in 1..Len(replies)
        /\ \A i \in 1..Len(replies') : i + 1 \in 1..Len(replies) /\ replies'[i] = replies[i + 1]
    BY <1>1, <1>3, <2>1
  <2>3. got'[c] \notin Exiters /\ \A d \in Callers \ {c} : got'[d] = got[d]
    BY <2>1, <2>2, CollectFacts DEF NoExitReply
  <2> QED
    BY <2>1, <2>2, <2>3 DEF NoExitReply, Busy
<1>4. ASSUME NEW c \in Callers, AwaitReply(c), replies = <<>> PROVE NoExitReply'
  BY <1>4, AwaitFacts DEF NoExitReply, Busy
<1>5. CASE TakeSwap
  BY <1>5, SwapFacts DEF NoExitReply, Busy
<1>6. CASE Recv
  <2>1. applet.pc = "recv" /\ UNCHANGED <<got, replies>>
    BY <1>6, RecvFacts
  <2>2. Busy' => applet'.call \notin Exiters
    BY <1>1, <1>6, RecvFacts DEF TypeOK, Busy
  <2> QED
    BY <2>1, <2>2 DEF NoExitReply
<1>7. ASSUME Reply, waiters # <<>> PROVE NoExitReply'
  <2> DEFINE d == Head(waiters)
  <2>1. /\ Busy /\ ~Busy' /\ applet.call \in Callers /\ UNCHANGED replies
        /\ d \in Outstanding /\ Collects(d, applet.call)
    BY <1>1, <1>7, ReplyFacts DEF Busy, TypeOK
  <2>2. got'[d] \notin Exiters /\ \A c \in Callers \ {d} : got'[c] = got[c]
    BY <2>1, CollectFacts DEF NoExitReply
  <2> QED
    BY <2>1, <2>2 DEF NoExitReply
<1>8. ASSUME Reply, waiters = <<>> PROVE NoExitReply'
  <2>1. /\ Busy /\ ~Busy' /\ applet.call \in Callers /\ UNCHANGED got
        /\ replies' = Append(replies, applet.call)
    BY <1>1, <1>8, ReplyFacts DEF Busy, TypeOK
  <2>2. \A i \in 1..Len(replies') : replies'[i] = applet.call
                                     \/ (i \in 1..Len(replies) /\ replies'[i] = replies[i])
    BY <1>1, <2>1
  <2> QED
    BY <2>1, <2>2 DEF NoExitReply
<1>9. CASE Quiet
  <2>1. UNCHANGED <<got, replies>>
    BY <1>9, QuietFacts
  <2>2. Busy' => Busy /\ applet' = applet
    BY <1>9, QuietFacts
  <2> QED
    BY <2>1, <2>2 DEF NoExitReply
<1>10. CASE UNCHANGED vars
  BY <1>10 DEF vars, NoExitReply, Busy
<1> QED
  BY <1>2, <1>3, <1>4, <1>5, <1>6, <1>7, <1>8, <1>9, <1>10, Steps

LEMMA ConservedStep ==
    ASSUME Shape, Conserved, [Next]_vars, NEW c \in Callers
    PROVE  /\ Places(c)' <= 1
           /\ callerPC'[c] = "idle" => Places(c)' = 0
           /\ (callerPC'[c] # "idle" /\ c \notin Exiters /\ panics' = 0) => Places(c)' = 1
<1> DEFINE Goal == /\ Places(c)' <= 1
                   /\ callerPC'[c] = "idle" => Places(c)' = 0
                   /\ (callerPC'[c] # "idle" /\ c \notin Exiters /\ panics' = 0) => Places(c)' = 1
<1>1. /\ TypeOK /\ CountIn(requests, {c}) \in Nat /\ CountIn(replies, {c}) \in Nat
      /\ Cardinality(HoldersOf(c)) \in Nat
  BY Counts DEF Shape
<1>2. /\ CountIn(requests', {c}) \in Nat /\ CountIn(replies', {c}) \in Nat
      /\ Cardinality(HoldersOf(c)') \in Nat
  <2>1. requests' \in Seq(Callers \union {Exit}) /\ replies' \in Seq(Callers)
    BY ShapeStep DEF Shape, TypeOK
  <2>2. IsFiniteSet(HoldersOf(c)')
    <3>1. HoldersOf(c)' \in SUBSET Callers /\ IsFiniteSet(Callers)
      BY BridgeAssumption DEF HoldersOf
    <3> QED
      BY <3>1, FS_Subset
  <2> QED
    BY <2>1, <2>2, CountType, FS_CardinalityType
<1>3. /\ Places(c) <= 1 /\ Places(c) \in Nat
      /\ callerPC[c] = "idle" => Places(c) = 0
      /\ (callerPC[c] # "idle" /\ c \notin Exiters /\ panics = 0) => Places(c) = 1
  BY <1>1, PlacesIs DEF Conserved
<1>4. ASSUME Places(c)' = Places(c), panics' = panics, callerPC'[c] = "idle" <=> callerPC[c] = "idle"
      PROVE  Goal
  BY <1>3, <1>4
<1>5. ASSUME NEW d \in Callers, SendCall(d) PROVE Goal
  <2>1. /\ CountIn(requests', {c}) = CountIn(requests, {c}) + (IF c = d THEN 1 ELSE 0)
        /\ UNCHANGED <<got, replies, applet, panics>>
    BY <1>1, <1>5, SendFacts
  <2>2. Places(c)' = Places(c) + (IF c = d THEN 1 ELSE 0)
    <3>1. HoldersOf(c)' = HoldersOf(c) /\ (Busy' <=> Busy)
      BY <2>1 DEF HoldersOf, Busy
    <3> QED
      BY <1>1, <2>1, <3>1, PlacesIs
  <2>3. CASE c = d
    BY <1>3, <1>5, <2>2, <2>3, SendFacts
  <2>4. CASE c # d
    BY <1>3, <1>5, <2>1, <2>2, <2>4, SendFacts
  <2> QED
    BY <2>3, <2>4
<1>6. ASSUME NEW d \in Callers, AwaitReply(d), replies # <<>> PROVE Goal
  <2>1. /\ UNCHANGED <<requests, applet, panics>>
        /\ Head(replies) \in Callers /\ Collects(d, Head(replies)) /\ d \in Outstanding
        /\ CountIn(replies, {c}) = CountIn(replies', {c}) + (IF Head(replies) = c THEN 1 ELSE 0)
        /\ callerPC[d] = "sent"
    BY <1>6, AwaitFacts
  <2>2. Cardinality(HoldersOf(c)') = Cardinality(HoldersOf(c)) + (IF c = Head(replies) THEN 1 ELSE 0)
    BY <2>1, CollectFacts
  <2>3. Places(c)' = Places(c)
    BY <1>1, <1>2, <2>1, <2>2, PlacesIs DEF Busy
  <2>4. callerPC'[c] = "idle" <=> callerPC[c] = "idle"
    BY <2>1, CollectFacts
  <2> QED
    BY <1>4, <2>1, <2>3, <2>4
<1>7. ASSUME NEW d \in Callers, AwaitReply(d), replies = <<>> PROVE Goal
  <2>1. /\ UNCHANGED <<requests, applet, panics, got, replies>> /\ callerPC[d] = "sent"
        /\ callerPC' = [callerPC EXCEPT ![d] = "waiting"]
    BY <1>7, AwaitFacts
  <2>2. Places(c)' = Places(c)
    BY <2>1 DEF Places
  <2>3. callerPC'[c] = "idle" <=> callerPC[c] = "idle"
    BY <1>1, <2>1 DEF TypeOK
  <2> QED
    BY <1>4, <2>1, <2>2, <2>3
<1>8. CASE TakeSwap
  <2>1. /\ UNCHANGED <<applet, panics, got, replies, callerPC>>
        /\ CountIn(requests', {c}) = CountIn(requests, {c})
    BY <1>1, <1>8, SwapFacts, ExitIsNoCall
  <2>2. Places(c)' = Places(c)
    <3>1. HoldersOf(c)' = HoldersOf(c) /\ (Busy' <=> Busy)
      BY <2>1 DEF HoldersOf, Busy
    <3> QED
      BY <2>1, <3>1, PlacesIs
  <2> QED
    BY <1>4, <2>1, <2>2
<1>9. CASE Recv
  <2>1. /\ UNCHANGED <<panics, got, replies, callerPC>> /\ ~Busy
        /\ CountIn(requests, {c}) = CountIn(requests', {c}) + (IF Head(requests) = c THEN 1 ELSE 0)
    BY <1>9, RecvFacts DEF Busy
  <2>2. /\ (Busy' /\ applet'.call = c) => Head(requests) = c
        /\ (Head(requests) = c /\ c \notin Exiters) => (Busy' /\ applet'.call = c)
    BY <1>1, <1>9, RecvFacts, ExitIsNoCall DEF Busy, TypeOK, IsExit
  <2>3. /\ Places(c)' <= Places(c) /\ Places(c)' \in Nat
        /\ c \notin Exiters => Places(c)' = Places(c)
    <3>1. HoldersOf(c)' = HoldersOf(c)
      BY <2>1 DEF HoldersOf
    <3> QED
      BY <1>1, <1>2, <2>1, <2>2, <3>1, PlacesIs
  <2> QED
    BY <1>3, <2>1, <2>3
<1>10. CASE Reply
  <2>1. /\ Busy /\ ~Busy' /\ UNCHANGED <<requests, panics>> /\ applet.call \in Callers
    BY <1>1, <1>10, ReplyFacts DEF Busy, TypeOK
  <2>2. CASE waiters # <<>>
    <3>1. /\ Head(waiters) \in Outstanding /\ Collects(Head(waiters), applet.call)
          /\ UNCHANGED replies
      BY <1>10, <2>2, ReplyFacts
    <3>2. Cardinality(HoldersOf(c)') = Cardinality(HoldersOf(c)) + (IF c = applet.call THEN 1 ELSE 0)
      BY <2>1, <3>1, CollectFacts
    <3>3. Places(c)' = Places(c)
      BY <1>1, <1>2, <2>1, <3>1, <3>2, PlacesIs
    <3>4. callerPC'[c] = "idle" <=> callerPC[c] = "idle"
      BY <2>1, <3>1, CollectFacts DEF Outstanding
    <3> QED
      BY <1>4, <2>1, <3>3, <3>4
  <2>3. CASE waiters = <<>>
    <3>1. /\ UNCHANGED <<callerPC, got>>
          /\ CountIn(replies', {c}) = CountIn(replies, {c}) + (IF applet.call = c THEN 1 ELSE 0)
      BY <1>10, <2>3, ReplyFacts
    <3>2. Places(c)' = Places(c)
      BY <1>1, <1>2, <2>1, <3>1, PlacesIs DEF HoldersOf
    <3> QED
      BY <1>4, <2>1, <3>1, <3>2
  <2> QED
    BY <2>2, <2>3
<1>11. CASE Quiet
  <2>1. /\ UNCHANGED <<callerPC, requests, replies>> /\ HoldersOf(c)' = HoldersOf(c)
        /\ Busy' => Busy /\ applet' = applet
        /\ panics' = 0 => panics = 0 /\ (Busy => Busy')
    BY <1>11, QuietFacts
  <2>2. Places(c)' <= Places(c) /\ Places(c)' \in Nat /\ (panics' = 0 => Places(c)' = Places(c))
    BY <1>1, <2>1, PlacesIs
  <2> QED
    BY <1>3, <2>1, <2>2
<1>12. CASE UNCHANGED vars
  <2>1. UNCHANGED <<Places(c), panics, callerPC>>
    BY <1>12 DEF vars, Places
  <2> QED
    BY <1>4, <2>1
<1> QED
  BY <1>5, <1>6, <1>7, <1>8, <1>9, <1>10, <1>11, <1>12, Steps

-----------------------------------------------------------------------------
\* Calls that do not overlap.

LEMMA NoCalls ==
    ASSUME Shape, CountIn(requests, Callers) = 0, NEW i \in 1..Len(requests)
    PROVE  requests[i] = Exit
<1>1. requests \in Seq(Callers \union {Exit})
  BY DEF Shape, TypeOK
<1>2. At(requests, Callers) = {}
  BY <1>1, CountType, FS_EmptySet DEF CountIn
<1> QED
  BY <1>1, <1>2 DEF At

LEMMA OnlyOne ==
    ASSUME NEW d \in Outstanding, \A a, b \in Outstanding : a = b
    PROVE  Outstanding = {d} /\ Cardinality(Outstanding) = 1
<1>1. Outstanding = {d}
  OBVIOUS
<1> QED
  BY <1>1, FS_Singleton

\* The parts of Serial that speak of what is on its way.
Owned(S) ==
    /\ \A i \in 1..Len(requests) : requests[i] \in S \union {Exit}
    /\ Busy => applet.call \in S
    /\ \A i \in 1..Len(replies) : replies[i] \in S

LEMMA SerialStep ==
    ASSUME Shape, Flow, Serial, [Next]_vars, ~mixed'
    PROVE  /\ \A a, b \in Outstanding' : a = b
           /\ panics' = 0 => /\ \A c \in Callers : got'[c] \in {c, Nobody}
                             /\ Owned(Outstanding)'
<1> DEFINE Goal == /\ \A a, b \in Outstanding' : a = b
                   /\ panics' = 0 => /\ \A c \in Callers : got'[c] \in {c, Nobody}
                                     /\ Owned(Outstanding)'
<1>1. /\ TypeOK /\ CountIn(requests, Callers) \in Nat /\ Len(replies) \in Nat
      /\ Cardinality(Outstanding) \in Nat
      /\ requests \in Seq(Callers \union {Exit}) /\ replies \in Seq(Callers)
  BY Counts DEF Shape, TypeOK
<1>2. ~mixed =>
        /\ \A a, b \in Outstanding : a = b
        /\ panics = 0 => (\A c \in Callers : got[c] \in {c, Nobody}) /\ Owned(Outstanding)
  BY DEF Serial, Owned
<1>3. ASSUME NEW c \in Callers, SendCall(c) PROVE Goal
  <2>1. /\ ~mixed /\ Outstanding = {} /\ Outstanding' = {c}
        /\ UNCHANGED <<got, replies, applet, panics>> /\ requests' = Append(requests, c)
    BY <1>3, SendFacts
  <2>2. ASSUME panics = 0
        PROVE  /\ \A i \in 1..Len(requests) : requests[i] = Exit
               /\ ~Busy /\ Len(replies) = 0
    <3>1. CountIn(requests, Callers) = 0 /\ ~Busy /\ Len(replies) = 0
      BY <1>1, <2>1, <2>2, FS_EmptySet DEF Flow
    <3> QED
      BY <3>1, NoCalls
  <2>3. ASSUME panics = 0 PROVE Owned(Outstanding)'
    <3>1. \A i \in 1..Len(requests') : requests'[i] \in {c, Exit}
      BY <1>1, <2>1, <2>2, <2>3
    <3> QED
      BY <2>1, <2>2, <2>3, <3>1 DEF Owned, Busy
  <2> QED
    BY <1>2, <2>1, <2>3
\* The one caller collects the one reply, and nothing is left.
<1>4. ASSUME NEW d \in Outstanding, NEW v \in Callers, Collects(d, v), ~mixed,
             UNCHANGED <<requests, panics>>, panics = 0 => v \in Outstanding,
             panics = 0 => CountIn(requests, Callers) = 0 /\ ~Busy' /\ Len(replies') = 0
      PROVE  Goal
  <2>1. Outstanding = {d} /\ Outstanding' = {}
    BY <1>2, <1>4, OnlyOne, CollectFacts
  <2>2. ASSUME panics = 0
        PROVE  \A c \in Callers : got'[c] \in {c, Nobody}
    BY <1>2, <1>4, <2>1, <2>2, CollectFacts
  <2>3. ASSUME panics = 0 PROVE Owned(Outstanding)'
    <3>1. \A i \in 1..Len(requests') : requests'[i] = Exit
      BY <1>4, <2>3, NoCalls
    <3> QED
      BY <1>4, <2>3, <3>1 DEF Owned
  <2> QED
    BY <1>4, <2>1, <2>2, <2>3
<1>5. ASSUME NEW d \in Outstanding, ~mixed, panics = 0
      PROVE  CountIn(requests, Callers) + (IF Busy THEN 1 ELSE 0) + Len(replies) <= 1
  BY <1>2, <1>5, OnlyOne DEF Flow
<1>6. ASSUME NEW c \in Callers, AwaitReply(c), replies # <<>> PROVE Goal
  <2>1. /\ Collects(c, Head(replies)) /\ c \in Outstanding /\ Head(replies) \in Callers
        /\ Len(replies') = Len(replies) - 1
        /\ UNCHANGED <<requests, applet, panics, mixed>>
    BY <1>6, AwaitFacts
  <2>2. Len(replies) >= 1 /\ Head(replies) = replies[1] /\ 1 \in 1..Len(replies)
    BY <1>1, <1>6
  <2>3. panics = 0 => Head(replies) \in Outstanding
    BY <1>2, <2>1, <2>2 DEF Owned
  <2>4. panics = 0 => CountIn(requests, Callers) = 0 /\ ~Busy /\ Len(replies') = 0
    BY <1>1, <1>5, <2>1, <2>2
  <2>5. Busy' <=> Busy
    BY <2>1 DEF Busy
  <2> QED
    BY <1>4, <2>1, <2>3, <2>4, <2>5
<1>7. ASSUME NEW c \in Callers, AwaitReply(c), replies = <<>> PROVE Goal
  <2>1. /\ UNCHANGED <<requests, replies, applet, panics, mixed, got>>
        /\ Outstanding' = Outstanding
    BY <1>7, AwaitFacts
  <2> QED
    BY <1>2, <2>1 DEF Owned, Busy
<1>8. CASE TakeSwap
  <2>1. /\ UNCHANGED <<got, replies, applet, panics, mixed>>
        /\ requests' = Append(requests, Exit)
    BY <1>8, SwapFacts
  <2>2. Outstanding' = Outstanding
    BY <1>8, SwapFacts DEF Outstanding
  <2>3. /\ \A i \in 1..Len(requests) : requests'[i] = requests[i]
        /\ Len(requests') = Len(requests) + 1 /\ requests'[Len(requests) + 1] = Exit
        /\ Len(requests) \in Nat
    BY <1>1, <2>1
  <2> QED
    BY <1>2, <2>1, <2>2, <2>3 DEF Owned, Busy
<1>9. CASE Recv
  <2>1. /\ UNCHANGED <<got, replies, panics, mixed>> /\ Outstanding' = Outstanding
        /\ \A i \in 1..Len(requests') : \E j \in 1..Len(requests) : requests'[i] = requests[j]
    BY <1>9, RecvFacts DEF Outstanding
  <2>2. Busy' => applet'.call = requests[1] /\ requests[1] # Exit /\ 1 \in 1..Len(requests)
    <3>1. applet \in [pc : {"recv", "busy", "sent", "stopped"},
                      call : Callers \union {Nobody}, elf : Uploads \union {Embedded}]
          /\ Head(requests) = requests[1] /\ 1 \in 1..Len(requests)
      BY <1>1, <1>9, RecvFacts DEF TypeOK
    <3>2. CASE IsExit(Head(requests))
      BY <1>9, <3>1, <3>2, RecvFacts, ExitIsNoCall DEF Busy, IsExit
    <3>3. CASE ~IsExit(Head(requests))
      <4>1. applet' = [applet EXCEPT !.pc = "busy", !.call = Head(requests)]
        BY <1>9, <3>3, RecvFacts
      <4> QED
        BY <3>1, <3>3, <4>1 DEF IsExit
    <3> QED
      BY <3>2, <3>3
  <2> QED
    BY <1>2, <2>1, <2>2 DEF Owned
<1>10. CASE Reply
  <2>1. /\ Busy /\ ~Busy' /\ UNCHANGED <<requests, panics, mixed>> /\ applet.call \in Callers
    BY <1>1, <1>10, ReplyFacts DEF Busy, TypeOK
  <2>2. CASE waiters # <<>>
    <3>1. /\ Head(waiters) \in Outstanding /\ Collects(Head(waiters), applet.call)
          /\ UNCHANGED replies
      BY <1>10, <2>2, ReplyFacts
    <3>2. panics = 0 => CountIn(requests, Callers) = 0 /\ Len(replies') = 0
      BY <1>1, <1>5, <2>1, <3>1
    <3>3. panics = 0 => applet.call \in Outstanding
      BY <1>2, <2>1 DEF Owned
    <3> QED
      BY <1>4, <2>1, <3>1, <3>2, <3>3
  <2>3. CASE waiters = <<>>
    <3>1. UNCHANGED <<callerPC, got>> /\ replies' = Append(replies, applet.call)
      BY <1>10, <2>3, ReplyFacts
    <3>2. Outstanding' = Outstanding
      BY <3>1 DEF Outstanding
    <3>3. /\ \A i \in 1..Len(replies) : replies'[i] = replies[i]
          /\ Len(replies') = Len(replies) + 1 /\ replies'[Len(replies) + 1] = applet.call
      BY <1>1, <2>1, <3>1
    <3> QED
      BY <1>1, <1>2, <2>1, <3>1, <3>2, <3>3 DEF Owned
  <2> QED
    BY <2>2, <2>3
<1>11. CASE Quiet
  <2>1. /\ UNCHANGED <<got, requests, replies, mixed>> /\ Outstanding' = Outstanding
        /\ Busy' => Busy /\ applet' = applet
        /\ panics' = 0 => panics = 0
    BY <1>11, QuietFacts
  <2> QED
    BY <1>2, <2>1 DEF Owned
<1>12. CASE UNCHANGED vars
  <2>1. UNCHANGED <<got, requests, replies, mixed, applet, panics, Outstanding>>
    BY <1>12 DEF vars, Outstanding
  <2> QED
    BY <1>2, <2>1 DEF Owned, Busy
<1> QED
  BY <1>3, <1>6, <1>7, <1>8, <1>9, <1>10, <1>11, <1>12, Steps

-----------------------------------------------------------------------------
\* The theorems.

LEMMA InitInv == Init => BridgeInv
<1> SUFFICES ASSUME Init PROVE BridgeInv
  OBVIOUS
<1>1. /\ callerPC = [c \in Callers |-> "idle"] /\ got = [c \in Callers |-> Nobody]
      /\ requests = <<>> /\ replies = <<>> /\ waiters = <<>> /\ swaps = <<>>
      /\ uploadPC = [u \in Uploads |-> "idle"]
      /\ supervisor = [pc |-> "select", elf |-> Embedded]
      /\ applet = [pc |-> "recv", call |-> Nobody, elf |-> Embedded]
      /\ panics = 0 /\ mixed = FALSE
  BY DEF Init
<1>2. TypeOK
  <2>1. /\ requests \in Seq(Callers \union {Exit}) /\ replies \in Seq(Callers)
        /\ waiters \in Seq(Callers) /\ swaps \in Seq(Uploads) /\ Len(replies) = 0
    BY <1>1
  <2>2. panics \in 0..MaxPanics
    BY <1>1, BridgeAssumption
  <2>3. /\ callerPC \in [Callers -> {"idle", "sent", "waiting", "answered"}]
        /\ got \in [Callers -> Callers \union {Nobody}]
        /\ uploadPC \in [Uploads -> {"idle", "accepted", "pushed", "loaded"}]
    BY <1>1
  <2>4. /\ supervisor \in [pc : {"select", "exiting", "fatal"}, elf : Uploads \union {Embedded}]
        /\ applet \in [pc : {"recv", "busy", "sent", "stopped"},
                       call : Callers \union {Nobody}, elf : Uploads \union {Embedded}]
    BY <1>1
  <2>5. mixed \in BOOLEAN
    BY <1>1, Zenon
  <2>6. Len(replies) <= 2
    BY <2>1
  <2> QED
    BY <2>1, <2>2, <2>3, <2>4, <2>5, <2>6 DEF TypeOK
<1>3. Outstanding = {} /\ \A c \in Callers : HoldersOf(c) = {}
  BY <1>1, ExitIsNoCall DEF Outstanding, HoldersOf
<1>4. /\ Len(replies) = 0 /\ Len(requests) = 0 /\ Len(waiters) = 0 /\ ~Busy
      /\ \A T : CountIn(requests, T) = 0 /\ CountIn(replies, T) = 0
      /\ Cardinality(Outstanding) = 0 /\ \A c \in Callers : Cardinality(HoldersOf(c)) = 0
  BY <1>1, <1>3, CountNone, FS_EmptySet DEF Busy
<1>5. Shape
  BY <1>1, <1>2, <1>4, ExitIsNoCall DEF Shape
<1>6. Flow
  BY <1>4 DEF Flow
<1>7. OneExit
  BY <1>1, <1>4 DEF OneExit
<1>8. \A c \in Callers : Places(c) = 0
  <2> SUFFICES ASSUME NEW c \in Callers PROVE Places(c) = 0
    OBVIOUS
  <2>1. Places(c) = CountIn(requests, {c}) + (IF applet.call = c /\ Busy THEN 1 ELSE 0)
                    + CountIn(replies, {c}) + Cardinality(HoldersOf(c))
    BY PlacesIs
  <2> QED
    BY <1>4, <2>1
<1>9. Conserved
  BY <1>1, <1>8 DEF Conserved
<1>10. Serial
  BY <1>1, <1>3, <1>4 DEF Serial
<1>11. NoExitReply
  BY <1>1, <1>4, ExitIsNoCall DEF NoExitReply
<1> QED
  BY <1>5, <1>6, <1>7, <1>9, <1>10, <1>11 DEF BridgeInv

LEMMA NextInv ==
    ASSUME BridgeInv, [Next]_vars
    PROVE  BridgeInv'
<1>1. Shape'
  BY ShapeStep DEF BridgeInv
<1>2. Flow'
  BY FlowStep DEF BridgeInv
<1>3. OneExit'
  BY OneExitStep DEF BridgeInv
<1>4. Conserved'
  BY ConservedStep DEF BridgeInv, Conserved
<1>5. Serial'
  BY SerialStep DEF BridgeInv, Serial, Owned
<1>6. NoExitReply'
  BY NoExitReplyStep DEF BridgeInv
<1> QED
  BY <1>1, <1>2, <1>3, <1>4, <1>5, <1>6 DEF BridgeInv

LEMMA SpecInv == Spec => []BridgeInv
BY InitInv, NextInv, PTL DEF Spec

\* Channels, supervisor and applet keep their types, and the reply channel of rpc.go
\* never holds more than one reply and the one being sent.
THEOREM BridgeTyped == Spec => []TypeOK
<1>1. BridgeInv => TypeOK
  BY DEF BridgeInv, Shape
<1> QED
  BY <1>1, SpecInv, PTL

\* CallApplet's two channels neither lose, duplicate nor invent a reply, however
\* calls overlap each other, the hot swaps, the applet's panics and the __exit calls
\* that clients send, which are consumed without a reply.
THEOREM ConservationTheorem == Spec => []RepliesAreConserved
<1>1. BridgeInv => RepliesAreConserved
  BY DEF BridgeInv, Shape, Conserved, NoExitReply, RepliesAreConserved
<1> QED
  BY <1>1, SpecInv, PTL

\* Calls that do not overlap get their own reply from CallApplet, also when
\* superviseApplet swaps the applet between sending and receiving.
THEOREM SerialTheorem == Spec => []SerialCallsMatch
<1>1. BridgeInv => SerialCallsMatch
  BY DEF BridgeInv, Serial, SerialCallsMatch
<1> QED
  BY <1>1, SpecInv, PTL

\* No goroutine is parked on appletReplyCh beside a reply, and no reply is left for
\* a caller that does not come.
THEOREM StrandedTheorem == Spec => []NoReplyIsStranded
<1>1. ASSUME BridgeInv PROVE NoReplyIsStranded
  <2>1. /\ CountIn(requests, Callers) \in Nat /\ Len(replies) \in Nat
        /\ Cardinality(Outstanding) \in Nat
    BY <1>1, Counts DEF BridgeInv, Shape
  <2>2. Len(replies) <= Cardinality(Outstanding)
    BY <1>1, <2>1 DEF BridgeInv, Flow
  <2> QED
    BY <1>1, <2>2 DEF BridgeInv, Shape, NoReplyIsStranded
<1> QED
  BY <1>1, SpecInv, PTL

\* The __exit that superviseApplet sends stops the applet it was meant for, as long
\* as no handler panics and no client sends an __exit of its own.
THEOREM ExitTheorem == Spec => []ExitHitsItsTarget
<1>1. ASSUME BridgeInv PROVE ExitHitsItsTarget
  <2>1. /\ At(requests, {Exit}) = {i \in 1..Len(requests) : requests[i] = Exit}
        /\ CountIn(requests, {Exit}) \in Nat
    BY <1>1, Counts DEF BridgeInv, Shape, At
  <2>2. Undisturbed => CountIn(requests, {Exit}) <= 1
    BY <1>1, <2>1 DEF BridgeInv, OneExit
  <2>3. Undisturbed /\ supervisor.pc = "select" =>
          CountIn(requests, {Exit}) = 0 /\ applet.pc # "stopped"
    BY <1>1, <2>1 DEF BridgeInv, OneExit
  <2>4. CountIn(requests, {Exit}) = 0 => ~InChannel(Exit, requests)
    <3>1. requests \in Seq(Callers \union {Exit})
      BY <1>1 DEF BridgeInv, Shape, TypeOK
    <3>2. CountIn(requests, {Exit}) = 0 => At(requests, {Exit}) = {}
      BY <3>1, CountType, FS_EmptySet DEF CountIn
    <3> QED
      BY <2>1, <3>2 DEF InChannel
  <2> QED
    BY <2>1, <2>2, <2>3, <2>4 DEF ExitHitsItsTarget, CountIn
<1> QED
  BY <1>1, SpecInv, PTL
=============================================================================
