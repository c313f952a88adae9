----------------------------- MODULE Authorizer -----------------------------
(***************************************************************************)
(* Authorization by Keycloak: the caches of decisions, ref constraints and  *)
(* user ids, the concurrent Authorize calls that read and fill them, and a  *)
(* Keycloak whose policy changes and whose calls fail.                      *)
(*                                                                          *)
(* internal/keycloak/{authorizer,cache,client}.go and the budget that       *)
(* internal/api/server.go gives a decision; Keycloak is external.           *)
(***************************************************************************)
EXTENDS Integers

CONSTANTS
    Proc,               \* concurrent Authorize calls
    Request,            \* what they ask: repository, action, resource and ref
    Repository,         \* repositories, each a Keycloak user
    Scope,              \* an action on a resource
    Ref,                \* git refs
    RequestOf,          \* RequestOf[p]: what the call p asks
    RepositoryOf, ScopeOf, RefOf,   \* the parts of a request
    DecisionTTL,        \* decisionTTL (30 s)
    StaleFor,           \* decisionStaleFor (5 min)
    RefsTTL,            \* refsTTL, pinned to decisionTTL
    UserIDTTL,          \* userIDTTL (10 min)
    Budget,             \* AuthzTimeout, the time a decision may take (7 s)
    MaxNow,             \* bound on the clock
    MaxChanges          \* bound on the changes of the policy

ASSUME RequestAssumption ==
    /\ RequestOf \in [Proc -> Request]
    /\ RepositoryOf \in [Request -> Repository]
    /\ ScopeOf \in [Request -> Scope]
    /\ RefOf \in [Request -> Ref]
ASSUME TimesAssumption ==
    {DecisionTTL, StaleFor, RefsTTL, UserIDTTL, Budget, MaxNow, MaxChanges} \subseteq Nat

VARIABLES
    now,                \* the clock
    subject,            \* subject[u]: repository u has a Keycloak user
    grant,              \* grant[<<u, s>>]: u is granted s
    allowed,            \* allowed[<<s, r>>]: the ref constraint of s admits r
    decisions,          \* decisions[q]: the cached PERMIT of request q
    refs,               \* refs[s]: the cached ref constraint of s
    userIDs,            \* userIDs[u]: the cached user id of u
    proc,               \* proc[p]: where the call p is, or what it answered
    changes             \* how often the policy has changed

vars == <<now, subject, grant, allowed, decisions, refs, userIDs, proc, changes>>

\* A fact of the policy, and when it last changed.
Fact == [is : BOOLEAN, since : Nat]

\* The fact held, or did not hold, at some moment from t on.
Held(f, t)   == f.is \/ f.since >= t
Lacked(f, t) == ~f.is \/ f.since >= t

\* A cache entry: whether there is one, and when it was stored.
Entry == [set : BOOLEAN, at : Nat]
NoEntry == [set |-> FALSE, at |-> 0]
Stored == [set |-> TRUE, at |-> now]
RefsEntry == [set : BOOLEAN, at : Nat, refs : SUBSET Ref]
NoConstraint == [set |-> FALSE, at |-> 0, refs |-> {}]
ConstraintOf(R) == [set |-> TRUE, at |-> now, refs |-> R]

\* The requests to Keycloak a call makes one after the other, and its answers.
Asking == {"user", "grant", "refs"}
Answer == {"permit", "stale", "deny", "error"}

\* A call: when it began, and when it sent its present request or gave its answer.
Call == [pc : {"idle"} \cup Asking \cup Answer, begun : Nat, at : Nat]
CallAt(pc, begun) == [pc |-> pc, begun |-> begun, at |-> now]
NoCall == [pc |-> "idle", begun |-> 0, at |-> 0]

Init ==
    /\ now = 0
    /\ subject \in [Repository -> [is : BOOLEAN, since : {0}]]
    /\ grant \in [Repository \X Scope -> [is : BOOLEAN, since : {0}]]
    /\ allowed \in [Scope \X Ref -> [is : BOOLEAN, since : {0}]]
    /\ decisions = [q \in Request |-> NoEntry]
    /\ refs = [s \in Scope |-> NoConstraint]
    /\ userIDs = [u \in Repository |-> NoEntry]
    /\ proc = [p \in Proc |-> NoCall]
    /\ changes = 0

-----------------------------------------------------------------------------
(* What a call asks, and the facts that a request depends on.              *)

Q(p) == RequestOf[p]

Subject(q) == subject[RepositoryOf[q]]
Grant(q)   == grant[<<RepositoryOf[q], ScopeOf[q]>>]
Admits(q)  == allowed[<<ScopeOf[q], RefOf[q]>>]

\* Mutant: the age is compared with the wrong end of the interval.
FreshOneMore(e, maxAge) == e.set /\ now - e.at <= maxAge + 1

\* cache.get: an entry no older than maxAge.
Fresh(e, maxAge) == e.set /\ now - e.at <= maxAge

GoTo(p, pc) == proc' = [proc EXCEPT ![p] = CallAt(pc, proc[p].begun)]

\* The decision's context, and so every answer it takes from Keycloak, is in time.
InTime(p) == now <= proc[p].begun + Budget

-----------------------------------------------------------------------------
(* Authorize. What a call finds in a cache right after an answer is part of the *)
(* step that takes the answer; time passes only while Keycloak is being asked.  *)
(* An answer tells what was so at some moment since the request was sent.       *)

\* The next request of a caller. A fresh PERMIT answers at once; otherwise evaluate starts with UserID, which
\* asks Keycloak unless it has the id in its cache.
Authorize(p) ==
    /\ proc[p].pc \notin Asking
    /\ \E pc \in {"permit", "grant", "user"} :
          /\ pc = IF Fresh(decisions[Q(p)], DecisionTTL) THEN "permit"
                  ELSE IF Fresh(userIDs[RepositoryOf[Q(p)]], UserIDTTL) THEN "grant" ELSE "user"
          /\ proc' = [proc EXCEPT ![p] = CallAt(pc, now)]
    /\ UNCHANGED <<now, subject, grant, allowed, decisions, refs, userIDs, changes>>

\* Mutant: a repository without a user is looked up with a user id all the same.
UserIDAlways(p) ==
    /\ proc[p].pc = "user"
    /\ InTime(p)
    /\ userIDs' = [userIDs EXCEPT ![RepositoryOf[Q(p)]] = Stored]
    /\ GoTo(p, "grant")
    /\ UNCHANGED <<now, subject, grant, allowed, decisions, refs, changes>>

\* UserID answers: the id is cached; a repository without a user is denied.
UserID(p) ==
    /\ proc[p].pc = "user"
    /\ InTime(p)
    /\ \/ /\ Held(Subject(Q(p)), proc[p].at)
          /\ userIDs' = [userIDs EXCEPT ![RepositoryOf[Q(p)]] = Stored]
          /\ GoTo(p, "grant")
       \/ /\ Lacked(Subject(Q(p)), proc[p].at)
          /\ GoTo(p, "deny")
          /\ UNCHANGED userIDs
    /\ UNCHANGED <<now, subject, grant, allowed, decisions, refs, changes>>

\* Mutant: the ref is not compared with the constraint.
DecideAnyRef(p, R) ==
    GoTo(p, "permit") /\ decisions' = [decisions EXCEPT ![Q(p)] = Stored]

\* MatchRef on what AllowedRefs returned; a PERMIT is cached, a DENY is not.
Decide(p, R) ==
    IF RefOf[Q(p)] \in R
    THEN GoTo(p, "permit") /\ decisions' = [decisions EXCEPT ![Q(p)] = Stored]
    ELSE GoTo(p, "deny") /\ UNCHANGED decisions

\* Evaluate answers DENY; or PERMIT, and AllowedRefs has the constraint in its
\* cache or goes on to ask for it.
Evaluate(p) ==
    /\ proc[p].pc = "grant"
    /\ InTime(p)
    /\ \/ /\ Lacked(Grant(Q(p)), proc[p].at)
          /\ GoTo(p, "deny")
          /\ UNCHANGED decisions
       \/ /\ Held(Grant(Q(p)), proc[p].at)
          /\ IF Fresh(refs[ScopeOf[Q(p)]], RefsTTL)
             THEN Decide(p, refs[ScopeOf[Q(p)]].refs)
             ELSE GoTo(p, "refs") /\ UNCHANGED decisions
    /\ UNCHANGED <<now, subject, grant, allowed, refs, userIDs, changes>>

\* AllowedRefs answers and evaluate ends. The set of the refs that a constraint
\* matches stands for it: all of them for none at all, no ref for a malformed one.
AllowedRefs(p) ==
    /\ proc[p].pc = "refs"
    /\ InTime(p)
    /\ \E R \in SUBSET Ref :
          /\ \A r \in R : Held(allowed[<<ScopeOf[Q(p)], r>>], proc[p].at)
          /\ \A r \in Ref \ R : Lacked(allowed[<<ScopeOf[Q(p)], r>>], proc[p].at)
          /\ refs' = [refs EXCEPT ![ScopeOf[Q(p)]] = ConstraintOf(R)]
          /\ Decide(p, R)
    /\ UNCHANGED <<now, subject, grant, allowed, userIDs, changes>>

\* Mutant: a failed call is taken for a denial.
FailDenies(p) ==
    /\ proc[p].pc \in Asking
    /\ proc' = [proc EXCEPT ![p] = CallAt("deny", proc[p].begun)]
    /\ UNCHANGED <<now, subject, grant, allowed, decisions, refs, userIDs, changes>>

\* Mutant: any PERMIT ever cached is served, however old.
FailServesAny(p) ==
    /\ proc[p].pc \in Asking
    /\ proc' = [proc EXCEPT ![p] = CallAt(
          IF decisions[Q(p)].set THEN "stale" ELSE "error", proc[p].begun)]
    /\ UNCHANGED <<now, subject, grant, allowed, decisions, refs, userIDs, changes>>

\* The request to Keycloak fails: no connection, no answer in time, or an answer
\* that is none (a 4xx, an unknown status, a body that does not decode); it may
\* take longer than the context, whose end a wait for the token's or the uuid's
\* mutex does not notice. Then a PERMIT within the grace period is served, else
\* the caller gets an error.
Fail(p) ==
    /\ proc[p].pc \in Asking
    /\ proc' = [proc EXCEPT ![p] = CallAt(
          IF Fresh(decisions[Q(p)], DecisionTTL + StaleFor) THEN "stale" ELSE "error",
          proc[p].begun)]
    /\ UNCHANGED <<now, subject, grant, allowed, decisions, refs, userIDs, changes>>

-----------------------------------------------------------------------------
(* Keycloak's administrators, and the clock.                               *)

Flip(f) == [is |-> ~f.is, since |-> now]

ChangePolicy ==
    /\ changes < MaxChanges
    /\ changes' = changes + 1
    /\ \/ /\ \E u \in Repository : subject' = [subject EXCEPT ![u] = Flip(subject[u])]
          /\ UNCHANGED <<grant, allowed>>
       \/ /\ \E x \in Repository \X Scope : grant' = [grant EXCEPT ![x] = Flip(grant[x])]
          /\ UNCHANGED <<subject, allowed>>
       \/ /\ \E x \in Scope \X Ref : allowed' = [allowed EXCEPT ![x] = Flip(allowed[x])]
          /\ UNCHANGED <<subject, grant>>
    /\ UNCHANGED <<now, decisions, refs, userIDs, proc>>

Tick ==
    /\ now < MaxNow
    /\ now' = now + 1
    /\ UNCHANGED <<subject, grant, allowed, decisions, refs, userIDs, proc, changes>>

Step(p) == \/ Authorize(p) \/ UserID(p) \/ Evaluate(p)
           \/ AllowedRefs(p) \/ Fail(p)

Next == (\E p \in Proc : Step(p)) \/ ChangePolicy \/ Tick

Spec == Init /\ [][Next]_vars

-----------------------------------------------------------------------------
(* Properties.                                                             *)

(* Every variable has its type. *)
TypeOK ==
    /\ now \in Nat
    /\ subject \in [Repository -> Fact]
    /\ grant \in [Repository \X Scope -> Fact]
    /\ allowed \in [Scope \X Ref -> Fact]
    /\ decisions \in [Request -> Entry]
    /\ refs \in [Scope -> RefsEntry]
    /\ userIDs \in [Repository -> Entry]
    /\ proc \in [Proc -> Call]
    /\ changes \in Nat

\* How old the decision behind an answer may be.
MaxAge(p) == IF proc[p].pc = "stale" THEN DecisionTTL + StaleFor ELSE DecisionTTL

Permits(p) == proc[p].pc \in {"permit", "stale"}

(* README, "revoking a grant: within 30s; up to 5m30s during an outage": a request
   is let through only if its grant held not longer ago than the decision TTL,
   plus the grace period when a call to Keycloak failed, plus what the decision
   took; whatever order concurrent calls fill the cache in. *)
RevocationTakesEffect ==
    \A p \in Proc : Permits(p) => Held(Grant(Q(p)), proc[p].at - MaxAge(p) - Budget)

(* How long a narrowed ref constraint can go unnoticed: a decision may be made
   from a constraint cached for refsTTL and is then itself reused. *)
NarrowingTakesEffect ==
    \A p \in Proc : Permits(p) =>
        Held(Admits(Q(p)), proc[p].at - MaxAge(p) - RefsTTL - Budget)

(* README, "deleting a repository's Keycloak user: up to 10m30s; up to 15m30s
   during an outage": the user id's TTL on top of the decision's. *)
DeletionTakesEffect ==
    \A p \in Proc : Permits(p) =>
        Held(Subject(Q(p)), proc[p].at - MaxAge(p) - UserIDTTL - 2 * Budget)

\* Something that request q needs was missing at t or later; a ref constraint
\* may be known from a cache.
Lacking(q, t) == \/ Lacked(Subject(q), t)
                 \/ Lacked(Grant(q), t)
                 \/ Lacked(Admits(q), t - RefsTTL - Budget)

(* "Denials are never cached, so granting access is immediate": a request is
   denied only if, while it was being decided, it had no user or no grant, or its
   ref was outside the constraint no longer ago than refsTTL. A failed call
   never becomes a denial. *)
GrantingIsImmediate == \A p \in Proc : proc[p].pc = "deny" => Lacking(Q(p), proc[p].begun)

(***************************************************************************)
(* The inductive invariant: what each cache entry and each half-made decision *)
(* still rests on. An entry stored at t rests on what held at t - Budget or  *)
(* later, because the call that stored it began no earlier; a PERMIT on top  *)
(* of that on entries up to a TTL older than itself.                        *)
(***************************************************************************)

\* What a PERMIT that dates from t rests on.
Justified(q, t) ==
    /\ Held(Grant(q), t - Budget)
    /\ Held(Admits(q), t - RefsTTL - Budget)
    /\ Held(Subject(q), t - UserIDTTL - 2 * Budget)

DecisionInv(q) == decisions[q].set => decisions[q].at <= now /\ Justified(q, decisions[q].at)

UserIDInv(u) == userIDs[u].set => userIDs[u].at <= now /\ Held(subject[u], userIDs[u].at - Budget)

RefsInv(s) == refs[s].set =>
    /\ refs[s].at <= now
    /\ \A r \in Ref : IF r \in refs[s].refs THEN Held(allowed[<<s, r>>], refs[s].at - Budget)
                                            ELSE Lacked(allowed[<<s, r>>], refs[s].at - Budget)

CallInv(p) ==
    /\ proc[p].begun <= proc[p].at /\ proc[p].at <= now
    /\ proc[p].pc \in {"grant", "refs"} =>
          Held(Subject(Q(p)), proc[p].begun - UserIDTTL - Budget)
    /\ proc[p].pc = "refs" => Held(Grant(Q(p)), proc[p].begun)
    /\ Permits(p) => Justified(Q(p), proc[p].at - MaxAge(p))
    /\ proc[p].pc = "deny" => Lacking(Q(p), proc[p].begun)

IndInv ==
    /\ TypeOK
    /\ \A q \in Request : DecisionInv(q)
    /\ \A u \in Repository : UserIDInv(u)
    /\ \A s \in Scope : RefsInv(s)
    /\ \A p \in Proc : CallInv(p)

(* README: "narrowing a ref constraint: within 30s", and "there is no second,
   longer delay hiding behind within 30s". *)
NarrowingWithinDecisionTTL ==
    \A p \in Proc : proc[p].pc = "permit" =>
        Held(Admits(Q(p)), proc[p].at - DecisionTTL - Budget)
=============================================================================
