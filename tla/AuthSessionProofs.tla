-------------------------- MODULE AuthSessionProofs --------------------------
(***************************************************************************)
(* Sign-in of AuthSession holds for any number of users, nonces and        *)
(* attempts, and for every lifetime of nonces and tokens.                  *)
(***************************************************************************)
EXTENDS AuthSession, TLAPS

-----------------------------------------------------------------------------
\* The inductive invariant, about the nonces and about the roles.

\* A nonce in the store runs out one NonceTTL after its draw and has bought nothing.
StoreIsUnspent ==
    \A n \in Nonces : store[n] # Absent =>
        /\ drawn[n] # Absent
        /\ store[n] = drawn[n] + NonceTTL
        /\ \A q \in Attempts : SignedIn(q) => attempt[q].msg.nonce # n

\* A nonce of this process that left the store ran out or bought a session.
GoneForAReason ==
    \A n \in Nonces : drawn[n] # Absent /\ booted[n] /\ store[n] = Absent =>
        \/ now >= drawn[n] + NonceTTL
        \/ \E p \in Attempts : SignedIn(p) /\ attempt[p].msg.nonce = n

NonceInv ==
    /\ StoreIsUnspent
    /\ GoneForAReason
    /\ NonceBuysOneSession
    /\ GoodNonceIsHonoured

\* The role the file gives now was last given now, and none was given later.
HeldIsCurrent ==
    \A u \in Users :
        /\ held[u][RoleOf(u)] = now
        /\ \A r \in Roles : held[u][r] <= now

\* A token's role was given when the token was made, or later.
TokensAreBacked ==
    \A q \in Attempts : SignedIn(q) =>
        LET t == attempt[q].token IN
        /\ t.iat <= held[t.sub][t.role]
        /\ t.exp = t.iat + TokenLife

RoleInv ==
    /\ HeldIsCurrent
    /\ TokensAreBacked
    /\ RoleIsRecent

AuthInv ==
    /\ AuthTypeOK
    /\ NonceInv
    /\ RoleInv

-----------------------------------------------------------------------------
\* Types.

Signed ==
    [pc : {"naming", "answered", "lost"}, msg : Messages, at : 1..MaxTime, token : Tokens]

Refusals ==
    [pc : {"refused"}, msg : Messages, at : 1..MaxTime, token : {NoToken}]

LEMMA AttemptTypes ==
    ASSUME AuthTypeOK, NEW q \in Attempts
    PROVE  /\ attempt[q] \in Signed \union Refusals \union {Idle}
           /\ SignedIn(q) => attempt[q] \in Signed
           /\ attempt[q].pc = "refused" => attempt[q] \in Refusals
           /\ SignedIn(q) => attempt[q] # Idle
           /\ attempt[q].pc = "refused" => attempt[q] # Idle
<1>1. attempt[q] \in Signed \union Refusals \union {Idle}
  BY DEF AuthTypeOK, Signed, Refusals
<1>2. Idle.pc = "idle"
  BY DEF Idle
<1>3. \A r \in Refusals : r.pc = "refused"
  BY DEF Refusals
<1>4. \A r \in Signed : r.pc \in {"naming", "answered", "lost"}
  BY DEF Signed
<1> QED
  BY <1>1, <1>2, <1>3, <1>4 DEF SignedIn

LEMMA TimeFacts ==
    ASSUME AuthTypeOK
    PROVE  /\ now \in 1..MaxTime /\ now \in Nat /\ now # 0
           /\ MaxTime \in Nat /\ NonceTTL \in Nat /\ TokenLife \in Nat
           /\ NonceTTL # 0 /\ TokenLife # 0
BY AuthAssumption DEF AuthTypeOK

LEMMA RoleTypes ==
    ASSUME AuthTypeOK, NEW u \in Users
    PROVE  RoleOf(u) \in Roles
BY AuthAssumption DEF AuthTypeOK, RoleOf

LEMMA InitTyped == Init => AuthTypeOK
<1> SUFFICES ASSUME Init PROVE AuthTypeOK
  OBVIOUS
<1>1. now \in 1..MaxTime /\ now = 1
  BY AuthAssumption DEF Init
<1>2. attempt \in [Attempts -> {Idle}]
  BY DEF Init
<1>3. held \in [Users -> [Roles -> 0..MaxTime]]
  <2>1. now \in 0..MaxTime /\ 0 \in 0..MaxTime
    BY <1>1, AuthAssumption
  <2> QED
    BY <2>1 DEF Init
<1>4. store \in [Nonces -> Nat] /\ drawn \in [Nonces -> 0..MaxTime] /\ booted \in [Nonces -> BOOLEAN]
  BY AuthAssumption DEF Init, Absent
<1>5. /\ roles \in [Users -> Roles \union {"unlisted"}]
      /\ readable \in BOOLEAN
      /\ secret \in Secrets
      /\ restarts \in 0..MaxRestarts
      /\ served \in {Nothing}
  BY AuthAssumption DEF Init
<1> QED
  BY <1>1, <1>2, <1>3, <1>4, <1>5 DEF AuthTypeOK

LEMMA EvictedTyped ==
    ASSUME AuthTypeOK
    PROVE  /\ Evicted \in [Nonces -> Nat]
           /\ \A n \in Nonces : Consumed(n) \in [Nonces -> Nat]
BY DEF AuthTypeOK, Evicted, Consumed, Absent

\* The history of the roles stays a history.
LEMMA RememberTyped ==
    ASSUME AuthTypeOK, now' \in 0..MaxTime, Remember
    PROVE  held' \in [Users -> [Roles -> 0..MaxTime]]
<1>1. now \in 0..MaxTime
  BY TimeFacts
<1>2. held' = [u \in Users |-> [r \in Roles |->
               IF RoleOf(u)' = r THEN now' ELSE IF RoleOf(u) = r THEN now ELSE held[u][r]]]
  BY DEF Remember
<1>3. \A u \in Users : \A r \in Roles : held[u][r] \in 0..MaxTime
  BY DEF AuthTypeOK
<1> QED
  BY <1>1, <1>2, <1>3

LEMMA TokenTyped ==
    ASSUME AuthTypeOK, NEW u \in Users
    PROVE  Token(u) \in Tokens
<1>1. RoleOf(u) \in Roles /\ secret \in Secrets /\ now \in 1..MaxTime
  BY RoleTypes, TimeFacts DEF AuthTypeOK
<1>2. now + TokenLife \in Nat
  BY TimeFacts
<1> QED
  BY <1>1, <1>2 DEF Token, Tokens

\* What POST /auth/verify leaves of an attempt.
Accepted(msg) == [pc |-> "naming", msg |-> msg, at |-> now, token |-> Token(msg.address)]

LEMMA VerifyTyped ==
    ASSUME AuthTypeOK, NEW msg \in Messages
    PROVE  Accepted(msg) \in Signed /\ Refused(msg) \in Refusals
<1>1. msg.address \in Users
  BY DEF Messages
<1>2. Token(msg.address) \in Tokens /\ now \in 1..MaxTime
  BY <1>1, TokenTyped, TimeFacts
<1> QED
  BY <1>2 DEF Accepted, Refused, Signed, Refusals

LEMMA VerifyCases ==
    ASSUME NEW q \in Attempts, NEW msg \in Messages, Verify(q, msg)
    PROVE  /\ attempt[q].pc = "idle"
           /\ UNCHANGED <<now, roles, readable, secret, restarts, drawn, booted, held, served>>
           /\ \/ /\ ~SiweGood(msg)
                 /\ attempt' = [attempt EXCEPT ![q] = Refused(msg)]
                 /\ store' = store
              \/ /\ SiweGood(msg) /\ ~NonceGood(msg.nonce)
                 /\ attempt' = [attempt EXCEPT ![q] = Refused(msg)]
                 /\ store' = Consumed(msg.nonce)
              \/ /\ SiweGood(msg) /\ NonceGood(msg.nonce)
                 /\ attempt' = [attempt EXCEPT ![q] = Accepted(msg)]
                 /\ store' = Consumed(msg.nonce)
BY Zenon DEF Verify, Accepted, files, history

LEMMA StepTyped ==
    ASSUME AuthTypeOK, [Next]_vars
    PROVE  AuthTypeOK'
<1> DEFINE Locals == Signed \union Refusals \union {Idle}
<1>a. ASSUME attempt' \in [Attempts -> Locals] PROVE
      attempt' \in
         [Attempts ->
            [pc : {"naming", "answered", "lost"}, msg : Messages, at : 1..MaxTime,
             token : Tokens]
            \union [pc : {"refused"}, msg : Messages, at : 1..MaxTime, token : {NoToken}]
            \union {Idle}]
  BY <1>a DEF Signed, Refusals
<1>b. attempt \in [Attempts -> Locals]
  BY DEF AuthTypeOK, Signed, Refusals
<1> HIDE DEF Locals
<1>1. CASE EditRoles
  <2>1. held' \in [Users -> [Roles -> 0..MaxTime]]
    BY <1>1, RememberTyped, TimeFacts DEF EditRoles
  <2> QED
    BY <1>1, <2>1 DEF AuthTypeOK, EditRoles
<1>2. CASE Tick
  <2>1. now' \in 1..MaxTime
    BY <1>2, TimeFacts DEF Tick
  <2>2. now' \in 0..MaxTime
    BY <2>1, TimeFacts
  <2>3. held' \in [Users -> [Roles -> 0..MaxTime]]
    BY <1>2, <2>2, RememberTyped DEF Tick
  <2> QED
    BY <1>2, <2>1, <2>3 DEF AuthTypeOK, Tick, files
<1>3. CASE Restart
  <2>1. ASSUME NEW q \in Attempts
        PROVE  (IF attempt[q].pc = "naming" THEN [attempt[q] EXCEPT !.pc = "lost"]
                ELSE attempt[q]) \in Locals
    <3>1. CASE attempt[q].pc = "naming"
      <4>1. attempt[q] \in Signed
        BY <3>1, AttemptTypes DEF SignedIn
      <4>2. [attempt[q] EXCEPT !.pc = "lost"] \in Signed
        BY <4>1 DEF Signed
      <4> QED
        BY <3>1, <4>2 DEF Locals
    <3>2. CASE attempt[q].pc # "naming"
      BY <3>2, <1>b
    <3> QED
      BY <3>1, <3>2
  <2>2. attempt' \in [Attempts -> Locals]
    BY <1>3, <2>1 DEF Restart
  <2>3. restarts' \in 0..MaxRestarts
    BY <1>3, AuthAssumption DEF Restart, AuthTypeOK
  <2>4. store' \in [Nonces -> Nat] /\ booted' \in [Nonces -> BOOLEAN]
    BY <1>3 DEF Restart, Absent
  <2> QED
    BY <1>3, <1>a, <2>2, <2>3, <2>4 DEF Restart, AuthTypeOK, files
<1>4. ASSUME NEW n \in Nonces, GetNonce(n)
      PROVE  AuthTypeOK'
  <2>1. now + NonceTTL \in Nat /\ now \in 0..MaxTime
    BY TimeFacts
  <2>2. store' \in [Nonces -> Nat]
    BY <1>4, <2>1, EvictedTyped DEF GetNonce
  <2>3. drawn' \in [Nonces -> 0..MaxTime] /\ booted' \in [Nonces -> BOOLEAN]
    BY <1>4, <2>1 DEF GetNonce, AuthTypeOK
  <2> QED
    BY <1>4, <2>2, <2>3 DEF GetNonce, AuthTypeOK, files
<1>5. ASSUME NEW q \in Attempts, NEW msg \in Messages, Verify(q, msg)
      PROVE  AuthTypeOK'
  <2>1. msg.nonce \in Nonces
    BY DEF Messages
  <2>2. store' \in [Nonces -> Nat]
    BY <1>5, <2>1, VerifyCases, EvictedTyped DEF AuthTypeOK
  <2>3. attempt' \in [Attempts -> Locals]
    BY <1>5, <1>b, VerifyCases, VerifyTyped DEF Locals
  <2> QED
    BY <1>5, <1>a, <2>2, <2>3, VerifyCases DEF AuthTypeOK
<1>6. ASSUME NEW q \in Attempts, Answer(q)
      PROVE  AuthTypeOK'
  <2>1. PICK pc \in {"answered", "lost"} : attempt' = [attempt EXCEPT ![q].pc = pc]
    BY <1>6, Zenon DEF Answer
  <2>2. attempt[q] \in Signed
    BY <1>6, AttemptTypes DEF Answer, SignedIn
  <2>3. [attempt[q] EXCEPT !.pc = pc] \in Signed
    BY <2>2 DEF Signed
  <2>4. attempt' \in [Attempts -> Locals]
    BY <2>1, <2>3, <1>b DEF Locals
  <2> QED
    BY <1>6, <1>a, <2>4 DEF Answer, AuthTypeOK, files, history
<1>7. ASSUME NEW q \in Attempts, NEW allowed \in Guards, Use(q, allowed)
      PROVE  AuthTypeOK'
  <2>1. attempt[q].token \in Tokens
    BY <1>7, AttemptTypes DEF Use, SignedIn, Signed
  <2>2. attempt[q].token.sub \in Users /\ now \in 1..MaxTime
    BY <2>1, TimeFacts DEF Tokens
  <2>3. served' = [kind |-> "served", user |-> attempt[q].token.sub,
                   allowed |-> allowed, at |-> now]
    BY <1>7 DEF Use
  <2>4. served' \in [kind : {"served"}, user : Users, allowed : Guards, at : 1..MaxTime]
    BY <2>2, <2>3
  <2> QED
    BY <1>7, <2>4 DEF Use, AuthTypeOK, files, history
<1>8. CASE UNCHANGED vars
  BY <1>8 DEF vars, AuthTypeOK
<1> QED
  BY <1>1, <1>2, <1>3, <1>4, <1>5, <1>6, <1>7, <1>8, Zenon DEF Next

-----------------------------------------------------------------------------
\* The nonces.

\* A step that neither opens nor refuses a sign-in leaves of it what the properties
\* look at.
Same(q) ==
    /\ SignedIn(q)' <=> SignedIn(q)
    /\ attempt'[q].pc = "refused" <=> attempt[q].pc = "refused"
    /\ SignedIn(q) \/ attempt[q].pc = "refused" =>
         attempt'[q].msg = attempt[q].msg /\ attempt'[q].at = attempt[q].at

LEMMA NoncesKept ==
    ASSUME AuthTypeOK, NonceInv, now' \in Nat, now <= now', UNCHANGED <<store, drawn, booted>>,
           \A q \in Attempts : Same(q)
    PROVE  NonceInv'
<1>1. now \in Nat /\ NonceTTL \in Nat /\ drawn \in [Nonces -> 0..MaxTime] /\ MaxTime \in Nat
  BY TimeFacts DEF AuthTypeOK
<1>2. StoreIsUnspent'
  BY DEF NonceInv, StoreIsUnspent, Same
<1>3. GoneForAReason'
  <2> SUFFICES ASSUME NEW n \in Nonces, drawn[n] # Absent, booted[n], store[n] = Absent
               PROVE  \/ now' >= drawn[n] + NonceTTL
                      \/ \E p \in Attempts : SignedIn(p)' /\ attempt'[p].msg.nonce = n
    BY DEF GoneForAReason
  <2>1. CASE now >= drawn[n] + NonceTTL
    <3>1. drawn[n] \in Nat
      BY <1>1
    <3> QED
      BY <2>1, <3>1, <1>1
  <2>2. CASE \E p \in Attempts : SignedIn(p) /\ attempt[p].msg.nonce = n
    BY <2>2 DEF Same
  <2> QED
    BY <2>1, <2>2 DEF NonceInv, GoneForAReason
<1>4. NonceBuysOneSession'
  BY DEF NonceInv, NonceBuysOneSession, Same
<1>5. GoodNonceIsHonoured'
  <2> SUFFICES ASSUME NEW q \in Attempts, attempt'[q].pc = "refused", SiweGood(attempt'[q].msg)
               PROVE  LET n == attempt'[q].msg.nonce IN
                      \/ drawn[n] = Absent
                      \/ attempt'[q].at >= drawn[n] + NonceTTL
                      \/ ~booted[n]
                      \/ \E p \in Attempts \ {q} : SignedIn(p)' /\ attempt'[p].msg.nonce = n
    BY DEF GoodNonceIsHonoured
  <2>1. attempt[q].pc = "refused" /\ attempt'[q].msg = attempt[q].msg /\ attempt'[q].at = attempt[q].at
    BY DEF Same
  <2>2. LET n == attempt[q].msg.nonce IN
        \/ drawn[n] = Absent
        \/ attempt[q].at >= drawn[n] + NonceTTL
        \/ ~booted[n]
        \/ \E p \in Attempts \ {q} : SignedIn(p) /\ attempt[p].msg.nonce = n
    BY <2>1 DEF NonceInv, GoodNonceIsHonoured
  <2> QED
    BY <2>1, <2>2 DEF Same
<1> QED
  BY <1>2, <1>3, <1>4, <1>5 DEF NonceInv

\* GET /auth/nonce: nobody has named the nonce, and what it evicts ran out.
LEMMA GetNonceNonces ==
    ASSUME AuthTypeOK, NonceInv, NEW n \in Nonces, GetNonce(n)
    PROVE  NonceInv'
<1>1. /\ now \in Nat /\ now # 0 /\ NonceTTL \in Nat
      /\ \A m \in Nonces : drawn[m] \in Nat /\ store[m] \in Nat
  BY TimeFacts DEF AuthTypeOK
<1>2. /\ drawn[n] = Absent
      /\ \A q \in Attempts : SignedIn(q) \/ attempt[q].pc = "refused" => attempt[q].msg.nonce # n
  BY AttemptTypes DEF GetNonce
<1>3. /\ UNCHANGED <<now, attempt>>
      /\ drawn'[n] = now /\ store'[n] = now + NonceTTL
      /\ \A m \in Nonces \ {n} : /\ drawn'[m] = drawn[m] /\ booted'[m] = booted[m]
                                 /\ store'[m] = Evicted[m]
  BY DEF GetNonce, AuthTypeOK, Evicted
<1>4. \A m \in Nonces : Evicted[m] = Absent \/ Evicted[m] = store[m]
  BY DEF Evicted
<1>5. \A q \in Attempts : SignedIn(q)' <=> SignedIn(q)
  BY <1>3 DEF SignedIn
<1>6. StoreIsUnspent'
  BY <1>1, <1>2, <1>3, <1>4, <1>5 DEF NonceInv, StoreIsUnspent, Absent
<1>7. GoneForAReason'
  <2> SUFFICES ASSUME NEW m \in Nonces, drawn'[m] # Absent, booted'[m], store'[m] = Absent
               PROVE  \/ now >= drawn'[m] + NonceTTL
                      \/ \E p \in Attempts : SignedIn(p) /\ attempt[p].msg.nonce = m
    BY <1>3, <1>5 DEF GoneForAReason
  <2>1. m # n
    BY <1>1, <1>3 DEF Absent
  <2>2. drawn[m] # Absent /\ booted[m] /\ drawn'[m] = drawn[m] /\ Evicted[m] = Absent
    BY <1>3, <2>1
  <2>3. store[m] = Absent \/ store[m] <= now
    BY <2>2 DEF Evicted
  <2>4. CASE store[m] = Absent
    BY <2>2, <2>4 DEF NonceInv, GoneForAReason
  <2>5. CASE store[m] # Absent
    BY <2>2, <2>3, <2>5 DEF NonceInv, StoreIsUnspent
  <2> QED
    BY <2>4, <2>5
<1>8. NonceBuysOneSession'
  BY <1>2, <1>3, <1>5, AttemptTypes DEF NonceInv, NonceBuysOneSession, Signed, Messages
<1>9. GoodNonceIsHonoured'
  <2> SUFFICES ASSUME NEW q \in Attempts, attempt[q].pc = "refused", SiweGood(attempt[q].msg)
               PROVE  LET m == attempt[q].msg.nonce IN
                      \/ drawn'[m] = Absent
                      \/ attempt[q].at >= drawn'[m] + NonceTTL
                      \/ ~booted'[m]
                      \/ \E p \in Attempts \ {q} : SignedIn(p) /\ attempt[p].msg.nonce = m
    BY <1>3, <1>5 DEF GoodNonceIsHonoured
  <2>1. attempt[q].msg.nonce \in Nonces \ {n}
    BY <1>2, AttemptTypes DEF Refusals, Messages
  <2> QED
    BY <2>1, <1>3 DEF NonceInv, GoodNonceIsHonoured
<1> QED
  BY <1>6, <1>7, <1>8, <1>9 DEF NonceInv

\* POST /auth/verify.
LEMMA VerifyNonces ==
    ASSUME AuthTypeOK, NonceInv, NEW q \in Attempts, NEW msg \in Messages, Verify(q, msg)
    PROVE  NonceInv'
<1> DEFINE n == msg.nonce
<1>1. /\ now \in Nat /\ NonceTTL \in Nat
      /\ \A m \in Nonces : drawn[m] \in Nat /\ store[m] \in Nat
  BY TimeFacts DEF AuthTypeOK
<1>2. n \in Nonces
  BY DEF Messages
<1>3. attempt[q].pc = "idle" /\ ~SignedIn(q) /\ UNCHANGED <<now, drawn, booted>>
  BY VerifyCases DEF SignedIn
<1>4. /\ \A p \in Attempts \ {q} : attempt'[p] = attempt[p]
      /\ attempt'[q] \in {Accepted(msg), Refused(msg)}
  BY VerifyCases DEF AuthTypeOK
<1>5. /\ attempt'[q].msg = msg /\ attempt'[q].at = now
      /\ \A p \in Attempts \ {q} : SignedIn(p)' <=> SignedIn(p)
  BY <1>4 DEF Accepted, Refused, SignedIn
\* A nonce that is gone or that has run out is so for a reason.
<1>6. ASSUME NEW m \in Nonces, drawn[m] # Absent, booted[m], store[m] = Absent \/ store[m] <= now
      PROVE  \/ now >= drawn[m] + NonceTTL
             \/ \E p \in Attempts \ {q} : SignedIn(p) /\ attempt[p].msg.nonce = m
  <2>1. CASE store[m] = Absent
    BY <1>3, <1>6, <2>1 DEF NonceInv, GoneForAReason
  <2>2. CASE store[m] # Absent
    BY <1>6, <2>2 DEF NonceInv, StoreIsUnspent
  <2> QED
    BY <2>1, <2>2
<1>7. Consumed(n)[n] = Absent /\ \A m \in Nonces \ {n} : Consumed(n)[m] = Evicted[m]
  BY <1>2 DEF Consumed, Evicted
<1>8. \A m \in Nonces : Evicted[m] = IF store[m] <= now THEN Absent ELSE store[m]
  BY DEF Evicted
<1> HIDE DEF n
<1>9. CASE SiweGood(msg) /\ NonceGood(n)
  <2>1. attempt'[q] = Accepted(msg) /\ store' = Consumed(n)
    BY <1>9, VerifyCases DEF n, AuthTypeOK
  <2>2. SignedIn(q)' /\ attempt'[q].pc = "naming"
    BY <2>1 DEF Accepted, SignedIn
  <2>3. store[n] # Absent /\ now < store[n]
    BY <1>2, <1>8, <1>9 DEF NonceGood
  <2>4. drawn[n] # Absent /\ now < drawn[n] + NonceTTL
        /\ \A p \in Attempts : SignedIn(p) => attempt[p].msg.nonce # n
    BY <1>2, <2>3 DEF NonceInv, StoreIsUnspent
  <2>5. StoreIsUnspent'
    BY <1>2, <1>3, <1>4, <1>5, <1>7, <1>8, <2>1 DEF NonceInv, StoreIsUnspent, n
  <2>6. GoneForAReason'
    <3> SUFFICES ASSUME NEW m \in Nonces, drawn[m] # Absent, booted[m], store'[m] = Absent
                 PROVE  \/ now >= drawn[m] + NonceTTL
                        \/ \E p \in Attempts : SignedIn(p)' /\ attempt'[p].msg.nonce = m
      BY <1>3 DEF GoneForAReason
    <3>1. CASE m = n
      BY <1>5, <2>2, <3>1 DEF n
    <3>2. CASE m # n
      <4>1. store[m] = Absent \/ store[m] <= now
        BY <1>7, <1>8, <2>1, <3>2
      <4> QED
        BY <1>4, <1>5, <1>6, <4>1
    <3> QED
      BY <3>1, <3>2
  <2>7. NonceBuysOneSession'
    BY <1>3, <1>4, <1>5, <2>4 DEF NonceInv, NonceBuysOneSession, n
  <2>8. GoodNonceIsHonoured'
    BY <1>3, <1>4, <1>5, <2>2 DEF NonceInv, GoodNonceIsHonoured
  <2> QED
    BY <2>5, <2>6, <2>7, <2>8 DEF NonceInv
<1>10. CASE ~(SiweGood(msg) /\ NonceGood(n))
  <2>1. /\ attempt'[q] = Refused(msg)
        /\ \/ store' = store
           \/ store' = Consumed(n) /\ SiweGood(msg) /\ ~NonceGood(n)
        /\ SiweGood(msg) => ~NonceGood(n)
    BY <1>10, VerifyCases DEF n, AuthTypeOK
  <2>2. ~SignedIn(q)' /\ attempt'[q].pc = "refused"
    BY <2>1 DEF Refused, SignedIn
  <2>3. SiweGood(msg) => store[n] = Absent \/ store[n] <= now
    BY <1>1, <1>2, <1>8, <2>1 DEF NonceGood
  <2>4. ASSUME NEW m \in Nonces
        PROVE  /\ store'[m] = store[m] \/ store'[m] = Absent
               /\ store'[m] = Absent => store[m] = Absent \/ store[m] <= now
    BY <1>7, <1>8, <2>1, <2>3
  <2>5. StoreIsUnspent'
    BY <1>3, <1>4, <1>5, <2>2, <2>4 DEF NonceInv, StoreIsUnspent
  <2>6. GoneForAReason'
    BY <1>3, <1>4, <1>5, <1>6, <2>4 DEF GoneForAReason
  <2>7. NonceBuysOneSession'
    BY <1>3, <1>4, <1>5, <2>2 DEF NonceInv, NonceBuysOneSession
  <2>8. GoodNonceIsHonoured'
    <3> SUFFICES ASSUME NEW r \in Attempts, attempt'[r].pc = "refused", SiweGood(attempt'[r].msg)
                 PROVE  LET m == attempt'[r].msg.nonce IN
                        \/ drawn[m] = Absent
                        \/ attempt'[r].at >= drawn[m] + NonceTTL
                        \/ ~booted[m]
                        \/ \E p \in Attempts \ {r} : SignedIn(p)' /\ attempt'[p].msg.nonce = m
      BY <1>3 DEF GoodNonceIsHonoured
    <3>1. CASE r = q
      BY <1>2, <1>4, <1>5, <1>6, <2>3, <3>1 DEF n
    <3>2. CASE r # q
      <4>1. attempt'[r] = attempt[r]
        BY <1>4, <3>2
      <4>2. LET m == attempt[r].msg.nonce IN
            \/ drawn[m] = Absent
            \/ attempt[r].at >= drawn[m] + NonceTTL
            \/ ~booted[m]
            \/ \E p \in Attempts \ {r} : SignedIn(p) /\ attempt[p].msg.nonce = m
        BY <4>1 DEF NonceInv, GoodNonceIsHonoured
      <4> QED
        BY <1>3, <1>4, <1>5, <4>1, <4>2
    <3> QED
      BY <3>1, <3>2
  <2> QED
    BY <2>5, <2>6, <2>7, <2>8 DEF NonceInv
<1> QED
  BY <1>9, <1>10

LEMMA RestartNonces ==
    ASSUME AuthTypeOK, NonceInv, Restart
    PROVE  NonceInv'
<1>1. /\ \A n \in Nonces : store'[n] = Absent /\ booted'[n] = FALSE
      /\ UNCHANGED <<now, drawn>>
  BY DEF Restart
<1>2. ASSUME NEW q \in Attempts PROVE Same(q)
  <2>1. attempt'[q] = IF attempt[q].pc = "naming" THEN [attempt[q] EXCEPT !.pc = "lost"]
                      ELSE attempt[q]
    BY DEF Restart
  <2>2. CASE attempt[q].pc = "naming"
    <3>1. attempt[q] \in Signed
      BY <2>2, AttemptTypes DEF SignedIn
    <3> QED
      BY <2>1, <2>2, <3>1 DEF Same, SignedIn, Signed
  <2>3. CASE attempt[q].pc # "naming"
    BY <2>1, <2>3 DEF Same, SignedIn
  <2> QED
    BY <2>2, <2>3
<1>3. StoreIsUnspent' /\ GoneForAReason'
  BY <1>1 DEF StoreIsUnspent, GoneForAReason
<1>4. NonceBuysOneSession'
  BY <1>1, <1>2 DEF NonceInv, NonceBuysOneSession, Same
<1>5. GoodNonceIsHonoured'
  <2> SUFFICES ASSUME NEW q \in Attempts, attempt'[q].pc = "refused"
               PROVE  ~booted'[attempt'[q].msg.nonce]
    BY DEF GoodNonceIsHonoured
  <2>1. attempt[q].pc = "refused" /\ attempt'[q].msg = attempt[q].msg
    BY <1>2 DEF Same
  <2>2. attempt[q].msg.nonce \in Nonces
    BY <2>1, AttemptTypes DEF Refusals, Messages
  <2> QED
    BY <1>1, <2>1, <2>2
<1> QED
  BY <1>3, <1>4, <1>5 DEF NonceInv

LEMMA NonceStep ==
    ASSUME AuthTypeOK, NonceInv, [Next]_vars
    PROVE  NonceInv'
<1>1. now \in Nat
  BY TimeFacts
<1>2. CASE UNCHANGED <<store, attempt, drawn, booted>> /\ now' \in {now, now + 1}
  <2>1. \A q \in Attempts : Same(q)
    BY <1>2 DEF Same, SignedIn
  <2> QED
    BY <1>1, <1>2, <2>1, NoncesKept
<1>3. ASSUME NEW q \in Attempts, Answer(q) PROVE NonceInv'
  <2>1. PICK pc \in {"answered", "lost"} : attempt' = [attempt EXCEPT ![q].pc = pc]
    BY <1>3, Zenon DEF Answer
  <2>2. attempt[q] \in Signed /\ attempt[q].pc = "naming"
    BY <1>3, AttemptTypes DEF Answer, SignedIn
  <2>3. attempt'[q] = [attempt[q] EXCEPT !.pc = pc]
        /\ \A p \in Attempts \ {q} : attempt'[p] = attempt[p]
    BY <2>1 DEF AuthTypeOK
  <2>4. attempt'[q].pc = pc /\ attempt'[q].msg = attempt[q].msg /\ attempt'[q].at = attempt[q].at
    BY <2>2, <2>3 DEF Signed
  <2>5. Same(q)
    BY <2>2, <2>4 DEF Same, SignedIn
  <2>6. \A p \in Attempts \ {q} : Same(p)
    BY <2>3 DEF Same, SignedIn
  <2>7. UNCHANGED <<now, store, drawn, booted>>
    BY <1>3 DEF Answer, history
  <2> QED
    BY <1>1, <2>5, <2>6, <2>7, NoncesKept
<1>4. ASSUME NEW q \in Attempts, NEW allowed \in Guards, Use(q, allowed) PROVE NonceInv'
  BY <1>2, <1>4 DEF Use, history
<1>5. CASE EditRoles
  BY <1>2, <1>5 DEF EditRoles
<1>6. CASE Tick
  BY <1>2, <1>6 DEF Tick
<1>7. CASE UNCHANGED vars
  BY <1>2, <1>7 DEF vars
<1> QED
  BY <1>3, <1>4, <1>5, <1>6, <1>7, GetNonceNonces, VerifyNonces, RestartNonces, Zenon DEF Next

-----------------------------------------------------------------------------
\* The roles.

\* What was given is remembered, and what is given now is dated now.
LEMMA RememberFacts ==
    ASSUME AuthTypeOK, AuthTypeOK', HeldIsCurrent, Remember, now <= now'
    PROVE  /\ HeldIsCurrent'
           /\ \A u \in Users, r \in Roles : held[u][r] <= held'[u][r]
<1>1. now \in Nat /\ now' \in Nat
  BY TimeFacts, AuthAssumption DEF AuthTypeOK
<1>2. ASSUME NEW u \in Users, NEW r \in Roles
      PROVE  held'[u][r] = IF RoleOf(u)' = r THEN now'
                           ELSE IF RoleOf(u) = r THEN now ELSE held[u][r]
  BY DEF Remember
<1>3. ASSUME NEW u \in Users, NEW r \in Roles
      PROVE  held[u][r] \in Nat /\ held[u][r] <= now
  BY AuthAssumption DEF AuthTypeOK, HeldIsCurrent
<1>4. \A u \in Users : RoleOf(u)' \in Roles
  BY AuthAssumption DEF AuthTypeOK, RoleOf
<1>5. HeldIsCurrent'
  <2>1. ASSUME NEW u \in Users PROVE held'[u][RoleOf(u)'] = now'
    BY <1>2, <1>4
  <2>2. ASSUME NEW u \in Users, NEW r \in Roles PROVE held'[u][r] <= now'
    BY <1>1, <1>2, <1>3
  <2> QED
    BY <2>1, <2>2 DEF HeldIsCurrent
<1>6. ASSUME NEW u \in Users, NEW r \in Roles PROVE held[u][r] <= held'[u][r]
  BY <1>1, <1>2, <1>3
<1> QED
  BY <1>5, <1>6

LEMMA HeldIsPast ==
    ASSUME AuthTypeOK, RoleInv, NEW q \in Attempts, SignedIn(q)
    PROVE  /\ attempt[q].token.sub \in Users
           /\ attempt[q].token.role \in Roles
           /\ attempt[q].token.iat \in Nat /\ attempt[q].token.iat # 0
           /\ attempt[q].token.exp \in Nat
<1>1. attempt[q].token \in Tokens
  BY AttemptTypes DEF Signed
<1>2. /\ attempt[q].token.sub \in Users /\ attempt[q].token.role \in Roles
      /\ attempt[q].token.exp \in Nat /\ attempt[q].token.iat \in 1..MaxTime
  BY <1>1 DEF Tokens
<1>3. MaxTime \in Nat
  BY AuthAssumption
<1> QED
  BY <1>2, <1>3

\* Attempts keep their tokens; a role is remembered or given anew.
LEMMA RolesKept ==
    ASSUME AuthTypeOK, AuthTypeOK', RoleInv, HeldIsCurrent',
           \A u \in Users, r \in Roles : held[u][r] <= held'[u][r],
           \A q \in Attempts : SignedIn(q)' => SignedIn(q) /\ attempt'[q].token = attempt[q].token,
           UNCHANGED served
    PROVE  RoleInv'
<1>1. /\ \A u \in Users, r \in Roles : held[u][r] \in Nat /\ held'[u][r] \in Nat
      /\ TokenLife \in Nat /\ MaxTime \in Nat
  BY AuthAssumption DEF AuthTypeOK
<1>2. TokensAreBacked'
  <2> SUFFICES ASSUME NEW q \in Attempts, SignedIn(q)'
               PROVE  LET t == attempt'[q].token IN
                      /\ t.iat <= held'[t.sub][t.role]
                      /\ t.exp = t.iat + TokenLife
    BY DEF TokensAreBacked
  <2>1. SignedIn(q) /\ attempt'[q].token = attempt[q].token
    OBVIOUS
  <2>2. LET t == attempt[q].token IN
        /\ t.iat <= held[t.sub][t.role]
        /\ t.exp = t.iat + TokenLife
    BY <2>1 DEF RoleInv, TokensAreBacked
  <2> QED
    BY <1>1, <2>1, <2>2, HeldIsPast
<1>3. RoleIsRecent'
  <2> SUFFICES ASSUME served.kind = "served"
               PROVE  \E r \in served.allowed :
                        /\ held'[served.user][r] # 0
                        /\ served.at < held'[served.user][r] + TokenLife
    BY DEF RoleIsRecent
  <2>1. PICK r \in served.allowed :
            /\ held[served.user][r] # 0
            /\ served.at < held[served.user][r] + TokenLife
    BY DEF RoleInv, RoleIsRecent
  <2>2. served \in [kind : {"served"}, user : Users, allowed : Guards, at : 1..MaxTime]
    BY DEF AuthTypeOK, Nothing
  <2>3. served.user \in Users /\ r \in Roles /\ served.at \in Nat
    BY <2>2, AuthAssumption
  <2>4. held[served.user][r] <= held'[served.user][r]
    BY <2>3
  <2> QED
    BY <1>1, <2>1, <2>3, <2>4
<1> QED
  BY <1>2, <1>3 DEF RoleInv

\* A token is made with the role of the moment.
LEMMA VerifyRoles ==
    ASSUME AuthTypeOK, AuthTypeOK', RoleInv, NEW q \in Attempts, NEW msg \in Messages,
           Verify(q, msg)
    PROVE  RoleInv'
<1>1. /\ attempt[q].pc = "idle" /\ UNCHANGED <<now, roles, readable, held, served>>
      /\ \A p \in Attempts \ {q} : attempt'[p] = attempt[p]
      /\ attempt'[q] \in {Accepted(msg), Refused(msg)}
  BY VerifyCases DEF AuthTypeOK
<1>2. HeldIsCurrent' /\ RoleIsRecent'
  BY <1>1 DEF RoleInv, HeldIsCurrent, RoleOf, RoleIsRecent
<1>3. TokensAreBacked'
  <2> SUFFICES ASSUME NEW p \in Attempts, SignedIn(p)'
               PROVE  LET t == attempt'[p].token IN
                      /\ t.iat <= held[t.sub][t.role]
                      /\ t.exp = t.iat + TokenLife
    BY <1>1 DEF TokensAreBacked
  <2>1. CASE p = q
    <3>1. attempt'[q] = Accepted(msg)
      BY <1>1, <2>1 DEF Refused, SignedIn
    <3>2. attempt'[q].token = Token(msg.address) /\ msg.address \in Users
      BY <3>1 DEF Accepted, Messages
    <3>3. held[msg.address][RoleOf(msg.address)] = now
      BY <3>2 DEF RoleInv, HeldIsCurrent
    <3> QED
      BY <2>1, <3>2, <3>3, TimeFacts DEF Token
  <2>2. CASE p # q
    <3>1. attempt'[p] = attempt[p] /\ SignedIn(p)
      BY <1>1, <2>2 DEF SignedIn
    <3> QED
      BY <3>1 DEF RoleInv, TokensAreBacked
  <2> QED
    BY <2>1, <2>2
<1> QED
  BY <1>2, <1>3 DEF RoleInv

\* A guard lets through the bearer of a token that is younger than TokenLife.
LEMMA UseRoles ==
    ASSUME AuthTypeOK, RoleInv, NEW q \in Attempts, NEW allowed \in Guards, Use(q, allowed)
    PROVE  RoleInv'
<1> DEFINE t == attempt[q].token
<1>1. UNCHANGED <<now, roles, readable, attempt, held>>
  BY DEF Use, files, history
<1>2. SignedIn(q) /\ t.role \in allowed /\ now < t.exp
  BY DEF Use, SignedIn, Decodes
<1>3. served'.user = t.sub /\ served'.allowed = allowed /\ served'.at = now
  BY DEF Use
<1>4. t.iat <= held[t.sub][t.role] /\ t.exp = t.iat + TokenLife
  BY <1>2 DEF RoleInv, TokensAreBacked
<1>5. /\ t.sub \in Users /\ t.role \in Roles /\ t.iat \in Nat /\ t.iat # 0
  BY <1>2, HeldIsPast
<1>6. held[t.sub][t.role] \in Nat /\ now \in Nat /\ TokenLife \in Nat
  BY <1>5, TimeFacts, AuthAssumption DEF AuthTypeOK
<1> HIDE DEF t
<1>7. held[t.sub][t.role] # 0 /\ now < held[t.sub][t.role] + TokenLife
  BY <1>2, <1>4, <1>5, <1>6
<1>8. RoleIsRecent'
  BY <1>1, <1>2, <1>3, <1>7 DEF RoleIsRecent
<1>9. HeldIsCurrent' /\ TokensAreBacked'
  BY <1>1 DEF RoleInv, HeldIsCurrent, RoleOf, TokensAreBacked, SignedIn
<1> QED
  BY <1>8, <1>9 DEF RoleInv

LEMMA RoleStep ==
    ASSUME AuthTypeOK, AuthTypeOK', RoleInv, [Next]_vars
    PROVE  RoleInv'
<1>1. now \in Nat /\ \A u \in Users, r \in Roles : held[u][r] \in Nat
  BY TimeFacts, AuthAssumption DEF AuthTypeOK
<1>2. ASSUME Remember, now' \in {now, now + 1}, UNCHANGED <<attempt, served>>
      PROVE  RoleInv'
  <2>1. HeldIsCurrent' /\ \A u \in Users, r \in Roles : held[u][r] <= held'[u][r]
    BY <1>1, <1>2, RememberFacts DEF RoleInv
  <2>2. \A q \in Attempts : SignedIn(q)' => SignedIn(q) /\ attempt'[q].token = attempt[q].token
    BY <1>2 DEF SignedIn
  <2> QED
    BY <1>2, <2>1, <2>2, RolesKept
<1>3. ASSUME UNCHANGED <<now, roles, readable, held, served>>,
             \A q \in Attempts : SignedIn(q)' =>
                SignedIn(q) /\ attempt'[q].token = attempt[q].token
      PROVE  RoleInv'
  <2>1. HeldIsCurrent'
    BY <1>3 DEF RoleInv, HeldIsCurrent, RoleOf
  <2>2. \A u \in Users, r \in Roles : held[u][r] <= held'[u][r]
    BY <1>1, <1>3
  <2> QED
    BY <1>3, <2>1, <2>2, RolesKept
<1>4. CASE EditRoles
  BY <1>2, <1>4 DEF EditRoles
<1>5. CASE Tick
  BY <1>2, <1>5 DEF Tick
<1>6. CASE Restart
  <2>1. ASSUME NEW q \in Attempts, SignedIn(q)'
        PROVE  SignedIn(q) /\ attempt'[q].token = attempt[q].token
    <3>1. attempt'[q] = IF attempt[q].pc = "naming" THEN [attempt[q] EXCEPT !.pc = "lost"]
                        ELSE attempt[q]
      BY <1>6 DEF Restart
    <3>2. CASE attempt[q].pc = "naming"
      <4>1. attempt[q] \in Signed
        BY <3>2, AttemptTypes DEF SignedIn
      <4> QED
        BY <3>1, <3>2, <4>1 DEF Signed, SignedIn
    <3>3. CASE attempt[q].pc # "naming"
      BY <2>1, <3>1, <3>3 DEF SignedIn
    <3> QED
      BY <3>2, <3>3
  <2>2. UNCHANGED <<now, roles, readable, held, served>>
    BY <1>6 DEF Restart, files
  <2> QED
    BY <1>3, <2>1, <2>2
<1>7. ASSUME NEW n \in Nonces, GetNonce(n) PROVE RoleInv'
  <2>1. UNCHANGED <<now, roles, readable, held, served, attempt>>
    BY <1>7 DEF GetNonce, files
  <2> QED
    BY <1>3, <2>1 DEF SignedIn
<1>8. ASSUME NEW q \in Attempts, Answer(q) PROVE RoleInv'
  <2>1. PICK pc \in {"answered", "lost"} : attempt' = [attempt EXCEPT ![q].pc = pc]
    BY <1>8, Zenon DEF Answer
  <2>2. attempt[q] \in Signed /\ SignedIn(q)
    BY <1>8, AttemptTypes DEF Answer, SignedIn
  <2>3. attempt'[q] = [attempt[q] EXCEPT !.pc = pc]
        /\ \A p \in Attempts \ {q} : attempt'[p] = attempt[p]
    BY <2>1 DEF AuthTypeOK
  <2>4. attempt'[q].token = attempt[q].token
    BY <2>2, <2>3 DEF Signed
  <2>5. UNCHANGED <<now, roles, readable, held, served>>
    BY <1>8 DEF Answer, files, history
  <2> QED
    BY <1>3, <2>2, <2>3, <2>4, <2>5 DEF SignedIn
<1>9. CASE UNCHANGED vars
  <2>1. UNCHANGED <<now, roles, readable, held, served, attempt>>
    BY <1>9 DEF vars
  <2> QED
    BY <1>3, <2>1 DEF SignedIn
<1> QED
  BY <1>4, <1>5, <1>6, <1>7, <1>8, <1>9, VerifyRoles, UseRoles, Zenon DEF Next

-----------------------------------------------------------------------------
LEMMA InitInv == Init => AuthInv
<1> SUFFICES ASSUME Init PROVE AuthInv
  OBVIOUS
<1>1. AuthTypeOK
  BY InitTyped
<1>2. \A q \in Attempts : ~SignedIn(q) /\ attempt[q].pc # "refused"
  BY DEF Init, Idle, SignedIn
<1>3. \A n \in Nonces : store[n] = Absent /\ drawn[n] = Absent
  BY DEF Init
<1>4. NonceInv
  BY <1>2, <1>3
  DEF NonceInv, StoreIsUnspent, GoneForAReason, NonceBuysOneSession, GoodNonceIsHonoured
<1>5. HeldIsCurrent
  <2>1. now = 1 /\ held = [u \in Users |-> [r \in Roles |-> IF RoleOf(u) = r THEN now ELSE 0]]
    BY DEF Init
  <2>2. \A u \in Users : RoleOf(u) \in Roles
    BY <1>1, RoleTypes
  <2> QED
    BY <2>1, <2>2 DEF HeldIsCurrent
<1>6. RoleInv
  BY <1>2, <1>5 DEF Init, Nothing, RoleInv, TokensAreBacked, RoleIsRecent
<1> QED
  BY <1>1, <1>4, <1>6 DEF AuthInv

THEOREM SpecInv == Spec => []AuthInv
<1>1. Init => AuthInv
  BY InitInv
<1>2. AuthInv /\ [Next]_vars => AuthInv'
  BY StepTyped, NonceStep, RoleStep DEF AuthInv
<1> QED
  BY <1>1, <1>2, PTL DEF Spec

-----------------------------------------------------------------------------
\* The nonce store, the tokens and the locals of POST /auth/verify keep their types.
THEOREM AuthTyped == Spec => []AuthTypeOK
<1>1. AuthInv => AuthTypeOK
  BY DEF AuthInv
<1> QED
  BY <1>1, SpecInv, PTL

\* As consume_nonce pops the nonce before the handler's first await, a nonce buys one
\* session, within its lifetime, for any number of sign-ins that overlap or are sent
\* again, and over restarts.
THEOREM OneSessionTheorem == Spec => []NonceBuysOneSession
<1>1. AuthInv => NonceBuysOneSession
  BY DEF AuthInv, NonceInv
<1> QED
  BY <1>1, SpecInv, PTL

\* As the signature is verified before consume_nonce, only a signed message can use a
\* nonce up: other requests never spoil it.
THEOREM HonouredTheorem == Spec => []GoodNonceIsHonoured
<1>1. AuthInv => GoodNonceIsHonoured
  BY DEF AuthInv, NonceInv
<1> QED
  BY <1>1, SpecInv, PTL

\* RoleChecker reads the role from the token: whatever roles.json was in between, the
\* file gave a role it allows less than JWT_EXPIRE_SECONDS before.
THEOREM RecentRoleTheorem == Spec => []RoleIsRecent
<1>1. AuthInv => RoleIsRecent
  BY DEF AuthInv, RoleInv
<1> QED
  BY <1>1, SpecInv, PTL
=============================================================================
