------------------------------ MODULE AuthSession ------------------------------
(***************************************************************************)
(* Sign-in with Ethereum and the sessions it opens: GET /auth/nonce and    *)
(* POST /auth/verify (gigaservice/api/auth.py), the nonce store, the role  *)
(* lookup and the JWT (services/auth.py), and the guards of api/deps.py.   *)
(* The nonce store is a dict of the process and dies with it; tokens are   *)
(* the clients' and stay valid over a restart. Time counts whole seconds.  *)
(* Signatures and random draws do what they are for: a signature names its *)
(* signer, and no nonce is drawn twice.                                    *)
(***************************************************************************)
EXTENDS Integers, FiniteSets

CONSTANTS
    Users,          \* wallet addresses
    Nonces,         \* the nonces that get drawn
    Attempts,       \* POST /auth/verify requests
    Roles,          \* the roles of config/roles.json
    Guards,         \* the allowed_roles of the guarded routes
    Secrets,        \* the values JWT_SECRET may have
    NonceTTL,       \* NONCE_TTL_SECONDS
    TokenLife,      \* JWT_EXPIRE_SECONDS
    MaxTime,        \* bound: the clock
    MaxRestarts     \* bound: process restarts

ASSUME AuthAssumption ==
    /\ "user" \in Roles
    /\ Guards \subseteq SUBSET Roles
    /\ NonceTTL \in Nat \ {0}
    /\ TokenLife \in Nat \ {0}
    /\ MaxTime \in Nat \ {0}
    /\ MaxRestarts \in Nat

VARIABLES
    now,        \* the clock
    store,      \* _nonce_store: nonce -> its expiry, or Absent
    roles,      \* roles.json: address -> its role, or "unlisted"
    readable,   \* roles.json exists and parses
    secret,     \* JWT_SECRET of this process
    attempt,    \* request -> the locals of its coroutine, and its outcome
    restarts,   \* process restarts so far
    drawn,      \* history: nonce -> when it was drawn, or Absent
    booted,     \* history: nonce -> it was drawn by this process
    held,       \* history: address -> role -> when the file last gave it
    served      \* history: the last request that a guard let through

vars == <<now, store, roles, readable, secret, attempt, restarts,
          drawn, booted, held, served>>
files == <<roles, readable>>
history == <<drawn, booted, held>>

Absent == 0
Idle == [pc |-> "idle"]
NoToken == [issued |-> FALSE]
Nothing == [kind |-> "nothing"]

-----------------------------------------------------------------------------
\* The role lookup.

\* get_role: "user" for whoever is not listed, and for all while the file cannot
\* be read.
RoleOf(u) == IF readable /\ roles[u] # "unlisted" THEN roles[u] ELSE "user"

\* The history of the roles, brought up to the next state.
Remember ==
    held' = [u \in Users |-> [r \in Roles |->
               IF RoleOf(u)' = r THEN now' ELSE IF RoleOf(u) = r THEN now ELSE held[u][r]]]

\* roles.json is edited by hand, in place.
EditRoles ==
    /\ roles' \in [Users -> Roles \union {"unlisted"}]
    /\ readable' \in BOOLEAN
    /\ UNCHANGED <<now, store, secret, attempt, restarts, drawn, booted, served>>
    /\ Remember

-----------------------------------------------------------------------------
\* The nonce store.

\* _evict_expired_nonces.
Evicted == [n \in Nonces |-> IF store[n] <= now THEN Absent ELSE store[n]]

\* GET /auth/nonce. Nobody has named the nonce before it is drawn.
GetNonce(n) ==
    /\ drawn[n] = Absent
    /\ \A q \in Attempts : attempt[q] # Idle => attempt[q].msg.nonce # n
    /\ store' = [Evicted EXCEPT ![n] = now + NonceTTL]
    /\ drawn' = [drawn EXCEPT ![n] = now]
    /\ booted' = [booted EXCEPT ![n] = TRUE]
    /\ UNCHANGED <<now, files, secret, attempt, restarts, held, served>>

\* Fault: the nonce is looked up and stays in the store.
LookedUp(n) == Evicted

\* The store after consume_nonce, which pops the nonce whether or not it expired.
Consumed(n) == [Evicted EXCEPT ![n] = Absent]

\* What consume_nonce returns.
NonceGood(n) == Evicted[n] # Absent /\ now < store[n]

-----------------------------------------------------------------------------
\* Tokens.

\* create_jwt.
Token(u) ==
    [issued |-> TRUE, sub |-> u, role |-> RoleOf(u), exp |-> now + TokenLife,
     iat |-> now, secret |-> secret]

\* Fault: exp is not required.
SignedWithSecret(t) == t.secret = secret

\* decode_jwt accepts it.
Decodes(t) == t.secret = secret /\ now < t.exp

-----------------------------------------------------------------------------
\* POST /auth/verify.

\* A SIWE message, with its signature: signed says that the recovered signer is the
\* address in it. Whatever does not parse or recover is not signed.
Messages == [address : Users, nonce : Nonces, signed : BOOLEAN]

\* SiweMessage and its verify accept it.
SiweGood(msg) == msg.signed

Refused(msg) == [pc |-> "refused", msg |-> msg, at |-> now, token |-> NoToken]

\* Fault: the nonce is consumed before the signature is looked at.
VerifyNonceFirst(q, msg) ==
    /\ attempt[q].pc = "idle"
    /\ store' = Consumed(msg.nonce)
    /\ attempt' = [attempt EXCEPT ![q] =
                     IF SiweGood(msg) /\ NonceGood(msg.nonce)
                     THEN [pc |-> "naming", msg |-> msg, at |-> now,
                           token |-> Token(msg.address)]
                     ELSE Refused(msg)]
    /\ UNCHANGED <<now, files, secret, restarts, history, served>>

\* The handler runs without an await up to the reverse ENS lookup: a message that is
\* not signed leaves the nonce alone; else the nonce is consumed, the role looked up
\* and the token made.
Verify(q, msg) ==
    /\ attempt[q].pc = "idle"
    /\ \/ /\ ~SiweGood(msg)
          /\ attempt' = [attempt EXCEPT ![q] = Refused(msg)]
          /\ UNCHANGED store
       \/ /\ SiweGood(msg) /\ ~NonceGood(msg.nonce)
          /\ attempt' = [attempt EXCEPT ![q] = Refused(msg)]
          /\ store' = Consumed(msg.nonce)
       \/ /\ SiweGood(msg) /\ NonceGood(msg.nonce)
          /\ attempt' = [attempt EXCEPT ![q] =
                           [pc |-> "naming", msg |-> msg, at |-> now,
                            token |-> Token(msg.address)]]
          /\ store' = Consumed(msg.nonce)
    /\ UNCHANGED <<now, files, secret, restarts, history, served>>

\* The lookup of the ENS name returns, with a name or without; the answer reaches
\* the client or is lost.
Answer(q) ==
    /\ attempt[q].pc = "naming"
    /\ \E pc \in {"answered", "lost"} : attempt' = [attempt EXCEPT ![q].pc = pc]
    /\ UNCHANGED <<now, store, files, secret, restarts, history, served>>

-----------------------------------------------------------------------------
\* A request with the bearer token of sign-in q to a route that allows these roles:
\* get_current_user and RoleChecker. Whom they refuse leaves no trace.
Use(q, allowed) ==
    LET t == attempt[q].token IN
    /\ attempt[q].pc = "answered"
    /\ Decodes(t)
    /\ t.role \in allowed
    /\ served' = [kind |-> "served", user |-> t.sub, allowed |-> allowed, at |-> now]
    /\ UNCHANGED <<now, store, files, secret, attempt, restarts, history>>

-----------------------------------------------------------------------------
Tick ==
    /\ now < MaxTime
    /\ now' = now + 1
    /\ UNCHANGED <<store, files, secret, attempt, restarts, drawn, booted, served>>
    /\ Remember

\* The process is restarted, perhaps with another secret.
Restart ==
    /\ restarts < MaxRestarts
    /\ restarts' = restarts + 1
    /\ secret' \in Secrets
    /\ store' = [n \in Nonces |-> Absent]
    /\ booted' = [n \in Nonces |-> FALSE]
    /\ attempt' = [q \in Attempts |->
                     IF attempt[q].pc = "naming" THEN [attempt[q] EXCEPT !.pc = "lost"]
                     ELSE attempt[q]]
    /\ UNCHANGED <<now, files, drawn, held, served>>

Init ==
    /\ now = 1
    /\ store = [n \in Nonces |-> Absent]
    /\ roles \in [Users -> Roles \union {"unlisted"}]
    /\ readable \in BOOLEAN
    /\ secret \in Secrets
    /\ attempt = [q \in Attempts |-> Idle]
    /\ restarts = 0
    /\ drawn = [n \in Nonces |-> Absent]
    /\ booted = [n \in Nonces |-> FALSE]
    /\ held = [u \in Users |-> [r \in Roles |-> IF RoleOf(u) = r THEN now ELSE 0]]
    /\ served = Nothing

Next ==
    \/ EditRoles \/ Tick \/ Restart
    \/ \E n \in Nonces : GetNonce(n)
    \/ \E q \in Attempts :
         \/ \E msg \in Messages : Verify(q, msg)
         \/ Answer(q)
         \/ \E allowed \in Guards : Use(q, allowed)

Spec == Init /\ [][Next]_vars

-----------------------------------------------------------------------------
\* Properties.

Tokens ==
    [issued : {TRUE}, sub : Users, role : Roles, exp : Nat, iat : 1..MaxTime,
     secret : Secrets]

AuthTypeOK ==
    /\ now \in 1..MaxTime
    /\ store \in [Nonces -> Nat]
    /\ roles \in [Users -> Roles \union {"unlisted"}]
    /\ readable \in BOOLEAN
    /\ secret \in Secrets
    /\ attempt \in
         [Attempts ->
            [pc : {"naming", "answered", "lost"}, msg : Messages, at : 1..MaxTime,
             token : Tokens]
            \union [pc : {"refused"}, msg : Messages, at : 1..MaxTime, token : {NoToken}]
            \union {Idle}]
    /\ restarts \in 0..MaxRestarts
    /\ drawn \in [Nonces -> 0..MaxTime]
    /\ booted \in [Nonces -> BOOLEAN]
    /\ held \in [Users -> [Roles -> 0..MaxTime]]
    /\ served \in [kind : {"served"}, user : Users, allowed : Guards, at : 1..MaxTime]
                  \union {Nothing}

SignedIn(q) == attempt[q].pc \in {"naming", "answered", "lost"}

\* A nonce buys one session, within NONCE_TTL_SECONDS of its draw, whichever
\* sign-ins overlap, are sent again or are cut short by a restart.
NonceBuysOneSession ==
    \A p, q \in Attempts :
        SignedIn(p) /\ SignedIn(q) /\ attempt[p].msg.nonce = attempt[q].msg.nonce =>
            /\ p = q
            /\ LET n == attempt[q].msg.nonce IN
               /\ drawn[n] # Absent
               /\ attempt[q].at < drawn[n] + NonceTTL

\* Nobody else's requests spoil a nonce: a signed message is refused only when its
\* nonce was never drawn, ran out, was drawn before a restart, or was used by another
\* message that was signed as well.
GoodNonceIsHonoured ==
    \A q \in Attempts :
        attempt[q].pc = "refused" /\ SiweGood(attempt[q].msg) =>
            LET n == attempt[q].msg.nonce IN
            \/ drawn[n] = Absent
            \/ attempt[q].at >= drawn[n] + NonceTTL
            \/ ~booted[n]
            \/ \E p \in Attempts \ {q} : SignedIn(p) /\ attempt[p].msg.nonce = n

\* A change of roles.json takes effect within JWT_EXPIRE_SECONDS although the role is
\* read from the token: whom a guard lets through was given a role it allows by the
\* file, or by the default, less than one token's life before.
RoleIsRecent ==
    served.kind = "served" =>
        \E r \in served.allowed :
            /\ held[served.user][r] # 0
            /\ served.at < held[served.user][r] + TokenLife
===============================================================================
