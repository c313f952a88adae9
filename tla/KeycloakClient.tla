--------------------------- MODULE KeycloakClient ---------------------------
(***************************************************************************)
(* How the gateway talks to Keycloak: the access token that all calls share *)
(* and renew one at a time, the two attempts of a request, and the resource *)
(* server's UUID, which is looked up under a lock of its own.               *)
(*                                                                          *)
(* internal/keycloak/{token,client}.go, under the contexts of               *)
(* internal/api/server.go and internal/authz/shadow.go; Keycloak is external. *)
(***************************************************************************)
EXTENDS Integers, Sequences

CONSTANTS
    Proc,               \* goroutines that call Keycloak
    Timeout,            \* the budget of an authorization's context (shadowTimeout, AuthzTimeout)
    ReadyTimeout,       \* that of a readiness check (30 s)
    HTTPTimeout,        \* http.Client.Timeout of one request (3 s)
    Skew,               \* refreshSkew (30 s)
    Lifetime,           \* the expires_in that Keycloak may answer
    MaxNow,             \* bound on the clock
    MaxTokens           \* bound on the tokens that Keycloak issues

ASSUME TimesAssumption ==
    /\ {Timeout, ReadyTimeout, HTTPTimeout, Skew, MaxNow, MaxTokens} \subseteq Nat
    /\ Lifetime \subseteq Nat
\* A token request and an admin request fit into the skew.
ASSUME SkewAssumption == 2 * HTTPTimeout <= Skew

VARIABLES
    now,                \* the clock
    mu,                 \* tokenSource.mu: its holder, then who waits for it, in order
    token,              \* tokenSource.token and expiresAt
    uuidMu,             \* Client.uuidMu: its holder, then who waits for it
    uuid,               \* the resource server's UUID is known
    call,               \* call[p]: the call that p is in, or how it ended
    issued              \* the tokens that Keycloak has issued are 1 .. issued

vars == <<now, mu, token, uuidMu, uuid, call, issued>>

\* An access token: its number, its lifetime, and until when Keycloak accepts it.
AccessToken == [n : Nat, life : Nat, until : Nat]
NoToken == [n |-> 0, life |-> 0, until |-> 0]
Cached == [tok : AccessToken, expiresAt : Nat]
NotCached == [tok |-> NoToken, expiresAt |-> 0]

\* What a call does: one admin request (UserID), the UUID and then an admin
\* request (Evaluate, AllowedRefs), or only the UUID (Ready of /readyz).
Kind == {"request", "evaluate", "ready"}
Resting == {"idle", "done", "failed"}
Waiting == {"uuidMu", "mu", "invalidate"}
InFlight == {"token", "admin"}

\* inner: its request is the one of ResourceServerUUID, which holds uuidMu.
\* begun, since: when the call began and when its present request was sent.
\* rejected: the token that a 401 rejected, 0 for none.
Call == [pc : Resting \cup Waiting \cup InFlight, kind : Kind, inner : BOOLEAN,
         begun : Nat, since : Nat, attempt : 0 .. 1, tok : AccessToken, rejected : Nat]
NoCall == [pc |-> "idle", kind |-> "request", inner |-> FALSE,
           begun |-> 0, since |-> 0, attempt |-> 0, tok |-> NoToken, rejected |-> 0]

Init ==
    /\ now = 0
    /\ mu = << >> /\ uuidMu = << >>
    /\ token = NotCached
    /\ uuid = FALSE
    /\ call = [p \in Proc |-> NoCall]
    /\ issued = 0

-----------------------------------------------------------------------------
(* Locks are FIFO: a sync.Mutex goes to whoever has waited longest, if longer  *)
(* than a millisecond. Nobody who waits for one looks at the context.          *)

Holds(lock, p) == lock # << >> /\ Head(lock) = p

\* When the context of p's call ends.
Deadline(p) == call[p].begun + IF call[p].kind = "ready" THEN ReadyTimeout ELSE Timeout

\* The context has not ended and http.Client has not given up.
Limit(p) == IF Deadline(p) < call[p].since + HTTPTimeout
            THEN Deadline(p) ELSE call[p].since + HTTPTimeout
InTime(p) == now <= Limit(p)

\* The first attempt of `do`.
Do(p, inner) == [call[p] EXCEPT !.pc = "mu", !.inner = inner, !.since = 0,
                                !.attempt = 0, !.tok = NoToken, !.rejected = 0]

End(pc) == [NoCall EXCEPT !.pc = pc]

\* The mutex q after p has left it.
Leave(q, p) == IF Holds(q, p) THEN Tail(q) ELSE q

\* The call of p ends in error; with the UUID's lookup goes its lock.
Fail(p, q) ==
    /\ call' = [call EXCEPT ![p] = End("failed")]
    /\ uuidMu' = Leave(uuidMu, p)
    /\ mu' = q

\* The attempt has failed: the second one follows, or an error. (q: mu by then.)
Retry(p, q) ==
    \/ /\ call[p].attempt = 0
       /\ call' = [call EXCEPT ![p] = [call[p] EXCEPT
             !.pc = "mu", !.attempt = 1, !.since = 0, !.tok = NoToken]]
       /\ mu' = Append(q, p)
       /\ UNCHANGED uuidMu
    \/ /\ call[p].attempt = 1
       /\ Fail(p, q)

-----------------------------------------------------------------------------
(* A call.                                                                   *)

\* A call begins with a fresh context. (The calls of one `evaluate` share theirs, so
\* a later one has less time; no property rests on a deadline that is far.)
Begin(p) ==
    /\ call[p].pc \in Resting
    /\ \E k \in Kind :
          LET c == [NoCall EXCEPT !.kind = k, !.begun = now]
          IN \/ /\ k = "request"
                /\ call' = [call EXCEPT ![p] = [c EXCEPT !.pc = "mu"]]
                /\ mu' = Append(mu, p)
                /\ UNCHANGED uuidMu
             \/ /\ k # "request"
                /\ call' = [call EXCEPT ![p] = [c EXCEPT !.pc = "uuidMu"]]
                /\ uuidMu' = Append(uuidMu, p)
                /\ UNCHANGED mu
    /\ UNCHANGED <<now, token, uuid, issued>>

\* What follows once the UUID is known: Ready is done, the others ask.
WithUUID(p) ==
    /\ uuidMu' = Tail(uuidMu)
    /\ \/ /\ call[p].kind = "ready"
          /\ call' = [call EXCEPT ![p] = End("done")]
          /\ UNCHANGED mu
       \/ /\ call[p].kind = "evaluate"
          /\ call' = [call EXCEPT ![p] = [Do(p, FALSE) EXCEPT !.kind = "request"]]
          /\ mu' = Append(mu, p)

\* ResourceServerUUID has its lock: the UUID is known, or is asked for.
ResourceServerUUID(p) ==
    /\ call[p].pc = "uuidMu" /\ Holds(uuidMu, p)
    /\ \/ uuid /\ WithUUID(p)
       \/ /\ ~uuid
          /\ call' = [call EXCEPT ![p] = Do(p, TRUE)]
          /\ mu' = Append(mu, p)
          /\ UNCHANGED uuidMu
    /\ UNCHANGED <<now, token, uuid, issued>>

\* The request of `do` goes out with token t.
Send(p, t) == call' = [call EXCEPT ![p] = [call[p] EXCEPT !.pc = "admin", !.since = now, !.tok = t]]

\* Token has its lock: the cached token, or a request for a new one.
Token(p) ==
    /\ call[p].pc = "mu" /\ Holds(mu, p)
    /\ \/ /\ token.tok.n # 0 /\ now < token.expiresAt
          /\ Send(p, token.tok)
          /\ mu' = Tail(mu)
       \/ /\ ~(token.tok.n # 0 /\ now < token.expiresAt)
          /\ call' = [call EXCEPT ![p] = [call[p] EXCEPT !.pc = "token", !.since = now]]
          /\ UNCHANGED mu
    /\ UNCHANGED <<now, token, uuidMu, uuid, issued>>

\* Mutant: expires_in is taken as it is.
KeepWhole(life) == life

\* How long a token is kept. One that lives no longer than the skew is not
\* shortened.
Keep(life) == IF life > Skew THEN life - Skew ELSE life

\* The token endpoint answers: the token was issued some time since the request
\* was sent, its lifetime is counted from now.
TokenAnswer(p) ==
    /\ call[p].pc = "token" /\ InTime(p)
    /\ issued < MaxTokens
    /\ \E life \in Lifetime, at \in call[p].since .. now :
          LET t == [n |-> issued + 1, life |-> life, until |-> at + life]
          IN /\ token' = [tok |-> t, expiresAt |-> now + Keep(life)]
             /\ Send(p, t)
    /\ issued' = issued + 1
    /\ mu' = Tail(mu)
    /\ UNCHANGED <<now, uuidMu, uuid>>

\* Mutant: the error path returns without the deferred Unlock.
TokenFailsLocked(p) ==
    /\ call[p].pc = "token"
    /\ Retry(p, mu)
    /\ UNCHANGED <<now, token, uuid, issued>>

\* No answer, another status than 200, or a body without a token.
TokenFails(p) ==
    /\ call[p].pc = "token"
    /\ Retry(p, Tail(mu))
    /\ UNCHANGED <<now, token, uuid, issued>>

\* A 2xx. The list of clients has this client's UUID or it has not; any other
\* body is what the call wanted or cannot be read.
Success(p) ==
    /\ call[p].pc = "admin" /\ InTime(p)
    /\ now <= call[p].tok.until
    /\ \/ /\ call[p].inner
          /\ uuid' = TRUE
          /\ WithUUID(p)
       \/ /\ ~call[p].inner
          /\ call' = [call EXCEPT ![p] = End("done")]
          /\ UNCHANGED <<mu, uuidMu, uuid>>
       \/ Fail(p, mu) /\ UNCHANGED uuid
    /\ UNCHANGED <<now, token, issued>>

\* A 401: the token has expired, was revoked, or Keycloak came back with other
\* keys. Invalidate has to wait for the token's mutex.
Unauthorized(p) ==
    /\ call[p].pc = "admin" /\ InTime(p)
    /\ call' = [call EXCEPT ![p] = [call[p] EXCEPT !.pc = "invalidate", !.since = 0,
                                                   !.tok = NoToken, !.rejected = call[p].tok.n]]
    /\ mu' = Append(mu, p)
    /\ UNCHANGED <<now, token, uuidMu, uuid, issued>>

\* Mutant: the rejected token stays in the cache.
InvalidateNothing(p) ==
    /\ call[p].pc = "invalidate" /\ Holds(mu, p)
    /\ Retry(p, Tail(mu))
    /\ UNCHANGED <<now, token, uuid, issued>>

\* Whatever token is cached by now is dropped.
Invalidate(p) ==
    /\ call[p].pc = "invalidate" /\ Holds(mu, p)
    /\ token' = NotCached
    /\ Retry(p, Tail(mu))
    /\ UNCHANGED <<now, uuid, issued>>

\* A 5xx, a connection error, or no answer in time; a 4xx ends the call at once.
RequestFails(p) ==
    /\ call[p].pc = "admin"
    /\ Retry(p, mu) \/ (InTime(p) /\ Fail(p, mu))
    /\ UNCHANGED <<now, token, uuid, issued>>

-----------------------------------------------------------------------------
(* The clock.                                                                *)

\* Nobody holds a lock without acting on it, no request outlasts its limit.
Tick ==
    /\ now < MaxNow
    /\ \A p \in Proc :
          /\ call[p].pc \in InFlight => now < Limit(p)
          /\ call[p].pc = "uuidMu" => ~Holds(uuidMu, p)
          /\ call[p].pc \in {"mu", "invalidate"} => ~Holds(mu, p)
    /\ now' = now + 1
    /\ UNCHANGED <<mu, token, uuidMu, uuid, call, issued>>

Step(p) == \/ ResourceServerUUID(p) \/ Token(p) \/ TokenAnswer(p) \/ TokenFails(p)
           \/ Success(p) \/ Unauthorized(p) \/ Invalidate(p) \/ RequestFails(p)

Next == (\E p \in Proc : Begin(p) \/ Step(p)) \/ Tick

\* Requests end in time, and who gets a lock runs.
Fairness == \A p \in Proc : WF_vars(Step(p))

Spec == Init /\ [][Next]_vars /\ Fairness

-----------------------------------------------------------------------------
(* Properties.                                                             *)

(* Every variable has its type. *)
TypeOK ==
    /\ now \in Nat
    /\ mu \in Seq(Proc) /\ uuidMu \in Seq(Proc)
    /\ token \in Cached
    /\ uuid \in BOOLEAN
    /\ call \in [Proc -> Call]
    /\ issued \in Nat

(* "A 401 additionally invalidates the cached token before its retry": the retry
   goes out with a token that Keycloak issued later than the one it rejected,
   also when other calls renew or drop the token in between. *)
RetryCarriesNewToken ==
    \A p \in Proc : call[p].pc = "admin" => call[p].tok.n > call[p].rejected

(* "so an in-flight request never carries a token that expires mid-call": true of
   tokens that live longer than refreshSkew. *)
InFlightTokenValid ==
    \A p \in Proc : call[p].pc = "admin" /\ call[p].tok.life > Skew =>
        now <= call[p].tok.until

-----------------------------------------------------------------------------
(* Why the properties hold.                                                *)

InQueue(q, p) == \E i \in DOMAIN q : q[i] = p
Distinct(q) == \A i, j \in DOMAIN q : q[i] = q[j] => i = j

\* The calls that have a place in the queue of a mutex.
WantsMu(c) == c.pc \in {"mu", "token", "invalidate"}
WantsUUID(c) == c.pc = "uuidMu" \/ (c.pc \notin Resting /\ c.inner)

\* A mutex is held or waited for by exactly the calls that want it, by each once:
\* none is left locked by a call that ended, and none is unlocked by another. A
\* token is asked for under mu, the UUID under uuidMu.
LocksInOrder ==
    /\ Distinct(mu) /\ Distinct(uuidMu)
    /\ \A p \in Proc :
          /\ InQueue(mu, p) <=> WantsMu(call[p])
          /\ InQueue(uuidMu, p) <=> WantsUUID(call[p])
          /\ call[p].pc = "token" => Holds(mu, p)
          /\ call[p].pc \notin Resting /\ call[p].inner => Holds(uuidMu, p)

\* Keycloak has issued every token that is cached, used or rejected; and who has
\* dropped a rejected token finds none, or a later one.
TokensInOrder ==
    /\ token.tok.n <= issued
    /\ \A p \in Proc :
          /\ call[p].tok.n <= issued /\ call[p].rejected <= issued
          /\ call[p].pc \in {"mu"} \cup InFlight =>
                token.tok.n = 0 \/ token.tok.n > call[p].rejected

\* A token is issued at most one request before its lifetime is counted, and a
\* request takes HTTPTimeout at most.
TokensLast ==
    /\ token.tok.life > Skew => token.expiresAt + Skew <= token.tok.until + HTTPTimeout
    /\ \A p \in Proc :
          /\ call[p].pc \in InFlight =>
                call[p].since <= now /\ now <= call[p].since + HTTPTimeout
          /\ call[p].pc = "admin" /\ call[p].tok.life > Skew =>
                call[p].since + HTTPTimeout <= call[p].tok.until

(* The inductive invariant: the type, who is in which queue, the order in which
   tokens were issued, and how long they last. *)
IndInv == TypeOK /\ LocksInOrder /\ TokensInOrder /\ TokensLast /\ RetryCarriesNewToken

(* Every call ends, although it may hold one lock while it waits for the other. *)
CallsEnd == \A p \in Proc : call[p].pc \notin Resting ~> call[p].pc \in Resting

(* "shadowTimeout bounds the shadow call so validation can never stall a real
   deploy", "AuthzTimeout bounds one whole authorization": no call outlasts its
   context. *)
BoundedByContext ==
    \A p \in Proc : call[p].pc \notin Resting => now <= Deadline(p)
=============================================================================
