-------------------------- MODULE AuthorizerProofs --------------------------
(***************************************************************************)
(* Proofs about Authorizer: its types, its inductive invariant and the      *)
(* bounds on how long a cached permit outlives what it rests on, for every  *)
(* number of calls, requests and refs and all lengths of the TTLs.          *)
(***************************************************************************)
EXTENDS Authorizer, TLAPS

-----------------------------------------------------------------------------
(* Facts of the policy, and the records of the model.                      *)

(* What held since t held since any earlier moment. *)
LEMMA Earlier ==
    ASSUME NEW f \in Fact, NEW t \in Int, NEW u \in Int, u <= t
    PROVE  /\ Held(f, t) => Held(f, u)
           /\ Lacked(f, t) => Lacked(f, u)
  BY DEF Fact, Held, Lacked

(* A fact that changes now held, and did not hold, at a moment since any t. *)
LEMMA Flipped ==
    ASSUME NEW f \in Fact, NEW t \in Int, now \in Nat, t <= now
    PROVE  Flip(f) \in Fact /\ Held(Flip(f), t) /\ Lacked(Flip(f), t)
  BY DEF Fact, Held, Lacked, Flip

(* The fields of a call. *)
LEMMA CallFacts ==
    ASSUME NEW pc, NEW b
    PROVE  /\ CallAt(pc, b).pc = pc
           /\ CallAt(pc, b).begun = b
           /\ CallAt(pc, b).at = now
           /\ now \in Nat /\ b \in Nat /\ pc \in {"idle"} \cup Asking \cup Answer
                => CallAt(pc, b) \in Call
  BY DEF CallAt, Call

(* What a step that moves the call p on makes of it, and of the others. *)
LEMMA CallMoves ==
    ASSUME proc \in [Proc -> Call], NEW p \in Proc, NEW pc, NEW b,
           proc' = [proc EXCEPT ![p] = CallAt(pc, b)]
    PROVE  /\ proc'[p].pc = pc /\ proc'[p].begun = b /\ proc'[p].at = now
           /\ \A x \in Proc : x # p => proc'[x] = proc[x]
<1>1. proc'[p] = CallAt(pc, b)
  OBVIOUS
<1> QED BY <1>1, CallFacts

(* A cache entry stored now. *)
LEMMA EntryFacts ==
    /\ Stored.set = TRUE /\ Stored.at = now
    /\ now \in Nat => Stored \in Entry
  BY DEF Stored, Entry

(* A ref constraint stored now. *)
LEMMA ConstraintFacts ==
    ASSUME NEW R \in SUBSET Ref
    PROVE  /\ ConstraintOf(R).set = TRUE /\ ConstraintOf(R).at = now /\ ConstraintOf(R).refs = R
           /\ now \in Nat => ConstraintOf(R) \in RefsEntry
  BY DEF ConstraintOf, RefsEntry

(* The records of the initial state. *)
LEMMA EmptyFacts ==
    /\ NoCall \in Call /\ NoCall.pc = "idle" /\ NoCall.begun = 0 /\ NoCall.at = 0
    /\ NoEntry \in Entry /\ NoEntry.set = FALSE
    /\ NoConstraint \in RefsEntry /\ NoConstraint.set = FALSE
  BY DEF NoCall, Call, NoEntry, Entry, NoConstraint, RefsEntry, Asking, Answer

-----------------------------------------------------------------------------
(* Types.                                                                  *)

(* The initial states are well typed. *)
LEMMA TypeInit == Init => TypeOK
  BY EmptyFacts DEF Init, TypeOK, Fact

(* No step of a call, of the policy or of the clock breaks a type. *)
LEMMA TypeStep ==
    ASSUME TypeOK, [Next]_vars
    PROVE  TypeOK'
<1> USE RequestAssumption DEF TypeOK
<1>0. ASSUME NEW p \in Proc, NEW pc \in Asking \cup Answer, GoTo(p, pc)
      PROVE  proc' \in [Proc -> Call]
  <2>1. proc[p].begun \in Nat
    BY DEF Call
  <2>2. CallAt(pc, proc[p].begun) \in Call
    BY <2>1, CallFacts
  <2> QED BY <1>0, <2>2 DEF GoTo
<1>D. ASSUME NEW p \in Proc, NEW R, Decide(p, R)
      PROVE  proc' \in [Proc -> Call] /\ decisions' \in [Request -> Entry]
  <2>1. CASE RefOf[Q(p)] \in R
    BY <1>D, <2>1, <1>0, EntryFacts DEF Decide, Answer
  <2>2. CASE RefOf[Q(p)] \notin R
    BY <1>D, <2>2, <1>0 DEF Decide, Answer
  <2> QED BY <2>1, <2>2
<1>1. ASSUME NEW p \in Proc, Authorize(p) PROVE TypeOK'
  <2>1. PICK pc \in {"permit", "grant", "user"} : proc' = [proc EXCEPT ![p] = CallAt(pc, now)]
    BY <1>1 DEF Authorize
  <2>2. CallAt(pc, now) \in Call
    BY CallFacts DEF Asking, Answer
  <2> QED BY <1>1, <2>1, <2>2 DEF Authorize
<1>2. ASSUME NEW p \in Proc, UserID(p) PROVE TypeOK'
  <2>1. proc' \in [Proc -> Call]
    BY <1>2, <1>0 DEF UserID, Asking, Answer
  <2>2. userIDs' \in [Repository -> Entry]
    BY <1>2, EntryFacts DEF UserID
  <2> QED BY <1>2, <2>1, <2>2 DEF UserID
<1>3. ASSUME NEW p \in Proc, Evaluate(p) PROVE TypeOK'
  <2>1. proc' \in [Proc -> Call] /\ decisions' \in [Request -> Entry]
    BY <1>3, <1>0, <1>D DEF Evaluate, Asking, Answer
  <2> QED BY <1>3, <2>1 DEF Evaluate
<1>4. ASSUME NEW p \in Proc, AllowedRefs(p) PROVE TypeOK'
  <2>1. PICK R \in SUBSET Ref : /\ refs' = [refs EXCEPT ![ScopeOf[Q(p)]] = ConstraintOf(R)]
                                /\ Decide(p, R)
    BY <1>4 DEF AllowedRefs
  <2>2. proc' \in [Proc -> Call] /\ decisions' \in [Request -> Entry]
    BY <2>1, <1>D
  <2>3. refs' \in [Scope -> RefsEntry]
    BY <2>1, ConstraintFacts
  <2> QED BY <1>4, <2>2, <2>3 DEF AllowedRefs
<1>5. ASSUME NEW p \in Proc, Fail(p) PROVE TypeOK'
  <2>1. PICK pc \in {"stale", "error"} :
            proc' = [proc EXCEPT ![p] = CallAt(pc, proc[p].begun)]
    BY <1>5 DEF Fail
  <2>2. proc[p].begun \in Nat
    BY DEF Call
  <2>3. CallAt(pc, proc[p].begun) \in Call
    BY <2>2, CallFacts DEF Answer
  <2> QED BY <1>5, <2>1, <2>3 DEF Fail
<1>6. CASE ChangePolicy
  <2>1. \A f \in Fact : Flip(f) \in Fact
    BY DEF Fact, Flip
  <2>2. subject' \in [Repository -> Fact]
    BY <1>6, <2>1 DEF ChangePolicy
  <2>3. grant' \in [Repository \X Scope -> Fact]
    <3>1. CASE UNCHANGED grant
      BY <3>1
    <3>2. ASSUME NEW x \in Repository \X Scope, grant' = [grant EXCEPT ![x] = Flip(grant[x])]
          PROVE  grant' \in [Repository \X Scope -> Fact]
      <4>1. Flip(grant[x]) \in Fact
        BY <2>1
      <4> QED BY <3>2, <4>1
    <3> QED BY <1>6, <3>1, <3>2 DEF ChangePolicy
  <2>4. allowed' \in [Scope \X Ref -> Fact]
    <3>1. CASE UNCHANGED allowed
      BY <3>1
    <3>2. ASSUME NEW x \in Scope \X Ref, allowed' = [allowed EXCEPT ![x] = Flip(allowed[x])]
          PROVE  allowed' \in [Scope \X Ref -> Fact]
      <4>1. Flip(allowed[x]) \in Fact
        BY <2>1
      <4> QED BY <3>2, <4>1
    <3> QED BY <1>6, <3>1, <3>2 DEF ChangePolicy
  <2>5. changes' \in Nat
    BY <1>6 DEF ChangePolicy
  <2> QED BY <1>6, <2>2, <2>3, <2>4, <2>5 DEF ChangePolicy
<1>7. CASE Tick
  BY <1>7 DEF Tick
<1>8. CASE UNCHANGED vars
  BY <1>8 DEF vars
<1> QED BY <1>1, <1>2, <1>3, <1>4, <1>5, <1>6, <1>7, <1>8 DEF Next, Step

(* Every variable of Authorizer keeps its type, for all values of the constants. *)
THEOREM TypeCorrect == Spec => []TypeOK
  BY TypeInit, TypeStep, PTL DEF Spec

-----------------------------------------------------------------------------
(* The inductive invariant.                                                *)

\* Whatever held, or failed to hold, since a moment up to now still does so.
Endures(f, g) == \A t \in Int : t <= now =>
                    (Held(f, t) => Held(g, t)) /\ (Lacked(f, t) => Lacked(g, t))

PolicyEndures ==
    /\ \A u \in Repository : Endures(subject[u], subject'[u])
    /\ \A u \in Repository, s \in Scope : Endures(grant[<<u, s>>], grant'[<<u, s>>])
    /\ \A s \in Scope, r \in Ref : Endures(allowed[<<s, r>>], allowed'[<<s, r>>])

(* A step of a call, and the clock, leave the policy alone. *)
LEMMA SamePolicy ==
    ASSUME UNCHANGED <<subject, grant, allowed>>
    PROVE  PolicyEndures
  BY DEF PolicyEndures, Endures

(* A change of the policy is itself recent: it takes nothing back. *)
LEMMA ChangedPolicy ==
    ASSUME TypeOK, ChangePolicy
    PROVE  PolicyEndures
<1>1. \A f \in Fact : Endures(f, f) /\ Endures(f, Flip(f))
  BY Flipped DEF Endures, TypeOK
<1>2. \A u \in Repository : Endures(subject[u], subject'[u])
  BY <1>1 DEF TypeOK, ChangePolicy
<1>3. ASSUME NEW x \in Repository \X Scope PROVE Endures(grant[x], grant'[x])
  <2>1. grant[x] \in Fact /\ (grant'[x] = grant[x] \/ grant'[x] = Flip(grant[x]))
    BY DEF TypeOK, ChangePolicy
  <2> QED BY <1>1, <2>1
<1>4. ASSUME NEW x \in Scope \X Ref PROVE Endures(allowed[x], allowed'[x])
  <2>1. allowed[x] \in Fact /\ (allowed'[x] = allowed[x] \/ allowed'[x] = Flip(allowed[x]))
    BY DEF TypeOK, ChangePolicy
  <2> QED BY <1>1, <2>1
<1> QED BY <1>2, <1>3, <1>4 DEF PolicyEndures

(* The requests' facts are facts, and endure. *)
LEMMA RequestFacts ==
    ASSUME TypeOK, NEW q \in Request
    PROVE  /\ Subject(q) \in Fact /\ Grant(q) \in Fact /\ Admits(q) \in Fact
           /\ PolicyEndures => /\ Endures(Subject(q), Subject(q)')
                               /\ Endures(Grant(q), Grant(q)')
                               /\ Endures(Admits(q), Admits(q)')
  BY RequestAssumption DEF TypeOK, Subject, Grant, Admits, PolicyEndures

(* What a cache entry or a call rests on survives every step that leaves the
   entry or the call itself alone. *)
LEMMA Survives ==
    ASSUME IndInv, TypeOK', PolicyEndures, now <= now'
    PROVE  /\ \A q \in Request : decisions'[q] = decisions[q] => DecisionInv(q)'
           /\ \A u \in Repository : userIDs'[u] = userIDs[u] => UserIDInv(u)'
           /\ \A s \in Scope : refs'[s] = refs[s] => RefsInv(s)'
           /\ \A p \in Proc : proc'[p] = proc[p] => CallInv(p)'
<1> USE RequestAssumption, TimesAssumption
<1>t. now \in Int /\ now' \in Int
  BY DEF IndInv, TypeOK
<1>j. ASSUME NEW q \in Request, NEW t \in Int, t <= now, Justified(q, t)
      PROVE  /\ Held(Grant(q)', t - Budget)
             /\ Held(Admits(q)', t - RefsTTL - Budget)
             /\ Held(Subject(q)', t - UserIDTTL - 2 * Budget)
  <2>1. /\ t - Budget \in Int /\ t - Budget <= now
        /\ t - RefsTTL - Budget \in Int /\ t - RefsTTL - Budget <= now
        /\ t - UserIDTTL - 2 * Budget \in Int /\ t - UserIDTTL - 2 * Budget <= now
    BY <1>j, <1>t
  <2> QED BY <2>1, <1>j, RequestFacts DEF IndInv, Justified, Endures
<1>1. ASSUME NEW q \in Request, decisions'[q] = decisions[q] PROVE DecisionInv(q)'
  <2>1. decisions[q].at \in Int
    BY DEF IndInv, TypeOK, Entry
  <2>2. SUFFICES ASSUME decisions[q].set
                 PROVE  decisions[q].at <= now' /\ Justified(q, decisions[q].at)'
    BY <1>1 DEF DecisionInv
  <2>3. decisions[q].at <= now /\ Justified(q, decisions[q].at)
    BY <2>2 DEF IndInv, DecisionInv
  <2> QED BY <2>1, <2>3, <1>j, <1>1, <1>t DEF Justified
<1>2. ASSUME NEW u \in Repository, userIDs'[u] = userIDs[u] PROVE UserIDInv(u)'
  <2>1. userIDs[u].at \in Int
    BY DEF IndInv, TypeOK, Entry
  <2>2. SUFFICES ASSUME userIDs[u].set
                 PROVE  userIDs[u].at <= now' /\ Held(subject'[u], userIDs[u].at - Budget)
    BY <1>2 DEF UserIDInv
  <2>3. userIDs[u].at <= now /\ Held(subject[u], userIDs[u].at - Budget)
    BY <2>2 DEF IndInv, UserIDInv
  <2>4. userIDs[u].at - Budget \in Int /\ userIDs[u].at - Budget <= now
    BY <2>1, <2>3, <1>t
  <2> QED BY <2>1, <2>3, <2>4, <1>t DEF PolicyEndures, Endures
<1>3. ASSUME NEW s \in Scope, refs'[s] = refs[s] PROVE RefsInv(s)'
  <2>1. refs[s].at \in Int
    BY DEF IndInv, TypeOK, RefsEntry
  <2>2. SUFFICES ASSUME refs[s].set, NEW r \in Ref
                 PROVE  /\ refs[s].at <= now'
                        /\ IF r \in refs[s].refs THEN Held(allowed'[<<s, r>>], refs[s].at - Budget)
                                                 ELSE Lacked(allowed'[<<s, r>>], refs[s].at - Budget)
    <3>1. refs[s].set => refs[s].at <= now'
      BY <2>1, <1>t DEF IndInv, RefsInv
    <3> QED BY <1>3, <3>1 DEF RefsInv
  <2>3. /\ refs[s].at <= now
        /\ IF r \in refs[s].refs THEN Held(allowed[<<s, r>>], refs[s].at - Budget)
                                 ELSE Lacked(allowed[<<s, r>>], refs[s].at - Budget)
    BY <2>2 DEF IndInv, RefsInv
  <2>4. refs[s].at - Budget \in Int /\ refs[s].at - Budget <= now
    BY <2>1, <2>3, <1>t
  <2> QED BY <2>1, <2>3, <2>4, <1>t DEF PolicyEndures, Endures
<1>4. ASSUME NEW p \in Proc, proc'[p] = proc[p] PROVE CallInv(p)'
  <2>0. Q(p) \in Request /\ proc[p].begun \in Nat /\ proc[p].at \in Nat
    BY DEF Q, IndInv, TypeOK, Call
  <2>1. CallInv(p)
    BY DEF IndInv
  <2>2. /\ proc[p].begun <= proc[p].at /\ proc[p].at <= now /\ proc[p].at <= now'
        /\ proc[p].begun <= now
    BY <2>0, <2>1, <1>t DEF CallInv
  <2>3. ASSUME proc[p].pc \in {"grant", "refs"}
        PROVE  Held(Subject(Q(p))', proc[p].begun - UserIDTTL - Budget)
    <3>1. /\ proc[p].begun - UserIDTTL - Budget \in Int
          /\ proc[p].begun - UserIDTTL - Budget <= now
      BY <2>0, <2>2, <1>t
    <3> QED BY <2>0, <2>1, <2>3, <3>1, RequestFacts DEF CallInv, Endures, IndInv
  <2>4. ASSUME proc[p].pc = "refs" PROVE Held(Grant(Q(p))', proc[p].begun)
    BY <2>0, <2>1, <2>2, <2>4, RequestFacts DEF CallInv, Endures, IndInv
  <2>5. ASSUME Permits(p) PROVE Justified(Q(p), proc[p].at - MaxAge(p))'
    <3>1. MaxAge(p) \in Nat /\ MaxAge(p)' = MaxAge(p)
      BY <1>4 DEF MaxAge
    <3>2. proc[p].at - MaxAge(p) \in Int /\ proc[p].at - MaxAge(p) <= now
      BY <3>1, <2>0, <2>2, <1>t
    <3>3. Justified(Q(p), proc[p].at - MaxAge(p))
      BY <2>1, <2>5 DEF CallInv
    <3> QED BY <3>1, <3>2, <3>3, <1>j, <1>4, <2>0 DEF Justified, Q
  <2>6. ASSUME proc[p].pc = "deny" PROVE Lacking(Q(p), proc[p].begun)'
    <3>1. /\ proc[p].begun - RefsTTL - Budget \in Int
          /\ proc[p].begun - RefsTTL - Budget <= now
      BY <2>0, <2>2, <1>t
    <3>2. Lacking(Q(p), proc[p].begun)
      BY <2>1, <2>6 DEF CallInv
    <3> QED BY <3>1, <3>2, <2>0, <2>2, <1>4, RequestFacts DEF Lacking, Endures, IndInv, Q
  <2>7. Permits(p)' = Permits(p)
    BY <1>4 DEF Permits
  <2> QED BY <1>4, <2>2, <2>3, <2>4, <2>5, <2>6, <2>7 DEF CallInv, Q
<1> QED BY <1>1, <1>2, <1>3, <1>4

(* A PERMIT made now rests on recent facts: on a grant and a user that held
   during the call, and on a constraint known for no longer than refsTTL. *)
LEMMA DecidePreserves ==
    ASSUME IndInv, TypeOK', UNCHANGED <<now, subject, grant, allowed>>,
           NEW p \in Proc, NEW R \in SUBSET Ref, Decide(p, R), InTime(p),
           Held(Subject(Q(p)), proc[p].begun - UserIDTTL - Budget),
           Held(Grant(Q(p)), proc[p].begun),
           \A r \in Ref : IF r \in R THEN Held(allowed[<<ScopeOf[Q(p)], r>>], now - RefsTTL - Budget)
                          ELSE Lacked(allowed[<<ScopeOf[Q(p)], r>>], proc[p].begun - RefsTTL - Budget)
    PROVE  CallInv(p)' /\ \A q \in Request : DecisionInv(q)'
<1> USE RequestAssumption, TimesAssumption
<1>1. /\ Q(p) \in Request /\ RefOf[Q(p)] \in Ref /\ now \in Nat
      /\ proc[p].begun \in Nat /\ proc[p].at \in Nat /\ now <= proc[p].begun + Budget
      /\ proc[p].begun <= proc[p].at /\ proc[p].at <= now
  BY DEF Q, IndInv, TypeOK, Call, InTime, CallInv
<1>2. /\ now - Budget <= proc[p].begun
      /\ now - UserIDTTL - 2 * Budget <= proc[p].begun - UserIDTTL - Budget
      /\ {now - Budget, now - UserIDTTL - 2 * Budget,
          proc[p].begun - UserIDTTL - Budget, proc[p].begun} \subseteq Int
  BY <1>1
<1>3. /\ Held(Grant(Q(p)), now - Budget)
      /\ Held(Subject(Q(p)), now - UserIDTTL - 2 * Budget)
  BY <1>1, <1>2, RequestFacts, Earlier DEF IndInv
<1>4. CASE RefOf[Q(p)] \in R
  <2>1. Held(Admits(Q(p)), now - RefsTTL - Budget)
    BY <1>1, <1>4 DEF Admits
  <2>2. Justified(Q(p), now)
    BY <1>3, <2>1 DEF Justified
  <2>3. /\ proc' = [proc EXCEPT ![p] = CallAt("permit", proc[p].begun)]
        /\ decisions' = [decisions EXCEPT ![Q(p)] = Stored]
    BY <1>4 DEF Decide, GoTo
  <2>4. /\ proc'[p].pc = "permit" /\ proc'[p].at = now /\ proc'[p].begun = proc[p].begun
        /\ decisions'[Q(p)].at = now
    <3>1. proc'[p].pc = "permit" /\ proc'[p].at = now /\ proc'[p].begun = proc[p].begun
      BY <2>3, CallMoves DEF IndInv, TypeOK
    <3>2. decisions'[Q(p)] = Stored
      BY <1>1, <2>3 DEF IndInv, TypeOK
    <3> QED BY <3>1, <3>2, EntryFacts
  <2>5. Justified(Q(p), now)'
    BY <2>2 DEF Justified, Grant, Admits, Subject, Q
  <2>6. Justified(Q(p), now - DecisionTTL)'
    <3>1. /\ Held(Grant(Q(p)), now - DecisionTTL - Budget)
          /\ Held(Admits(Q(p)), now - DecisionTTL - RefsTTL - Budget)
          /\ Held(Subject(Q(p)), now - DecisionTTL - UserIDTTL - 2 * Budget)
      BY <1>1, <1>3, <2>1, RequestFacts, Earlier DEF IndInv
    <3> QED BY <3>1 DEF Justified, Grant, Admits, Subject, Q
  <2>7. CallInv(p)'
    BY <1>1, <2>4, <2>6 DEF CallInv, Permits, MaxAge
  <2>8. ASSUME NEW q \in Request PROVE DecisionInv(q)'
    <3>1. CASE q = Q(p)
      BY <3>1, <2>4, <2>5, <1>1 DEF DecisionInv, Q
    <3>2. CASE q # Q(p)
      <4>1. decisions'[q] = decisions[q]
        BY <3>2, <2>3 DEF IndInv, TypeOK
      <4> QED BY <4>1, <1>1, SamePolicy, Survives
    <3> QED BY <3>1, <3>2
  <2> QED BY <2>7, <2>8
<1>5. CASE RefOf[Q(p)] \notin R
  <2>1. Lacking(Q(p), proc[p].begun)
    BY <1>1, <1>5 DEF Lacking, Admits
  <2>2. proc' = [proc EXCEPT ![p] = CallAt("deny", proc[p].begun)] /\ decisions' = decisions
    BY <1>5 DEF Decide, GoTo
  <2>3. proc'[p].pc = "deny" /\ proc'[p].at = now /\ proc'[p].begun = proc[p].begun
    BY <2>2, CallMoves DEF IndInv, TypeOK
  <2>4. Lacking(Q(p), proc[p].begun)'
    BY <2>1, <2>3 DEF Lacking, Grant, Admits, Subject, Q
  <2>5. CallInv(p)'
    BY <1>1, <2>3, <2>4 DEF CallInv, Permits
  <2>6. now <= now' /\ PolicyEndures
    BY <1>1, SamePolicy
  <2> QED BY <2>2, <2>5, <2>6, Survives
<1> QED BY <1>4, <1>5

(* A call that sends its next request rests on what it had and what it just
   learnt. *)
LEMMA GoOnPreserves ==
    ASSUME IndInv, TypeOK', UNCHANGED <<now, subject, grant, allowed>>, NEW p \in Proc,
           proc'[p].pc \in {"user", "grant", "refs", "deny"},
           proc'[p].begun <= now, proc'[p].at = now,
           proc'[p].pc \in {"grant", "refs"} =>
               Held(Subject(Q(p)), proc'[p].begun - UserIDTTL - Budget),
           proc'[p].pc = "refs" => Held(Grant(Q(p)), proc'[p].begun),
           proc'[p].pc = "deny" => Lacking(Q(p), proc'[p].begun)
    PROVE  CallInv(p)'
<1>1. Subject(Q(p))' = Subject(Q(p)) /\ Grant(Q(p))' = Grant(Q(p)) /\ Admits(Q(p))' = Admits(Q(p))
  BY DEF Subject, Grant, Admits, Q
<1>2. proc'[p].pc = "deny" => Lacking(Q(p), proc[p].begun)'
  BY <1>1 DEF Lacking
<1>3. now \in Nat /\ now' = now
  BY DEF IndInv, TypeOK
<1>4. ~Permits(p)'
  BY DEF Permits
<1> QED BY <1>1, <1>2, <1>3, <1>4 DEF CallInv

(* The initial states satisfy the invariant: the caches are empty. *)
LEMMA InductiveInit == Init => IndInv
<1> SUFFICES ASSUME Init PROVE IndInv
  OBVIOUS
<1>1. TypeOK
  BY TypeInit
<1>2. ASSUME NEW p \in Proc PROVE CallInv(p)
  <2>1. proc[p].pc = "idle" /\ proc[p].begun = 0 /\ proc[p].at = 0 /\ now = 0
    BY EmptyFacts DEF Init
  <2>2. ~Permits(p)
    BY <2>1 DEF Permits
  <2>3. proc[p].begun <= proc[p].at /\ proc[p].at <= now
    BY <2>1
  <2> QED BY <2>1, <2>2, <2>3 DEF CallInv
<1>3. /\ \A q \in Request : DecisionInv(q)
      /\ \A u \in Repository : UserIDInv(u)
      /\ \A s \in Scope : RefsInv(s)
  BY EmptyFacts DEF Init, DecisionInv, UserIDInv, RefsInv
<1> QED BY <1>1, <1>2, <1>3 DEF IndInv

(* Every step preserves the invariant. *)
LEMMA InductiveStep ==
    ASSUME IndInv, [Next]_vars
    PROVE  IndInv'
<1> USE RequestAssumption, TimesAssumption
<1>t. TypeOK /\ TypeOK'
  BY TypeStep DEF IndInv
<1>a. \A p \in Proc : /\ Q(p) \in Request /\ CallInv(p)
                      /\ RepositoryOf[Q(p)] \in Repository /\ ScopeOf[Q(p)] \in Scope
                      /\ proc[p].begun \in Nat /\ proc[p].at \in Nat /\ now \in Nat
                      /\ proc[p].begun <= proc[p].at /\ proc[p].at <= now
  BY <1>t DEF Q, TypeOK, Call, IndInv, CallInv
<1>1. ASSUME NEW p \in Proc, Authorize(p) PROVE IndInv'
  <2> DEFINE d == decisions[Q(p)]
             i == userIDs[RepositoryOf[Q(p)]]
  <2>u. UNCHANGED <<now, subject, grant, allowed, decisions, refs, userIDs>>
    BY <1>1 DEF Authorize
  <2>k. now <= now' /\ PolicyEndures
    BY <2>u, <1>a, SamePolicy
  <2>c. CallInv(p)'
    <3>1. CASE Fresh(d, DecisionTTL)
      <4>1. proc' = [proc EXCEPT ![p] = CallAt("permit", now)]
        BY <1>1, <3>1 DEF Authorize
      <4>2. proc'[p].pc = "permit" /\ proc'[p].at = now /\ proc'[p].begun = now
        <5>1. proc \in [Proc -> Call]
          BY <1>t DEF TypeOK
        <5>2. proc'[p] = CallAt("permit", now)
          BY <4>1, <5>1
        <5> QED BY <5>2 DEF CallAt
      <4>3. d.at \in Nat /\ now - DecisionTTL <= d.at /\ Justified(Q(p), d.at)
        BY <1>a, <1>t, <3>1 DEF Fresh, IndInv, DecisionInv, TypeOK, Entry
      <4>4. /\ Held(Grant(Q(p)), now - DecisionTTL - Budget)
            /\ Held(Admits(Q(p)), now - DecisionTTL - RefsTTL - Budget)
            /\ Held(Subject(Q(p)), now - DecisionTTL - UserIDTTL - 2 * Budget)
        BY <1>a, <1>t, <4>3, RequestFacts, Earlier DEF Justified
      <4>5. Justified(Q(p), now - DecisionTTL)'
        BY <4>4, <2>u DEF Justified, Grant, Admits, Subject, Q
      <4> QED BY <1>a, <2>u, <4>2, <4>5 DEF CallInv, Permits, MaxAge
    <3>2. CASE ~Fresh(d, DecisionTTL) /\ Fresh(i, UserIDTTL)
      <4>1. proc' = [proc EXCEPT ![p] = CallAt("grant", now)]
        BY <1>1, <3>2 DEF Authorize
      <4>2. i.at \in Nat /\ now - UserIDTTL <= i.at /\ Held(Subject(Q(p)), i.at - Budget)
        BY <1>a, <1>t, <3>2 DEF Fresh, IndInv, UserIDInv, TypeOK, Entry, Subject
      <4>3. Held(Subject(Q(p)), now - UserIDTTL - Budget)
        BY <1>a, <1>t, <4>2, RequestFacts, Earlier
      <4>4. proc'[p].pc = "grant" /\ proc'[p].at = now /\ proc'[p].begun = now
        <5>1. proc \in [Proc -> Call]
          BY <1>t DEF TypeOK
        <5>2. proc'[p] = CallAt("grant", now)
          BY <4>1, <5>1
        <5> QED BY <5>2 DEF CallAt
      <4> QED BY <1>a, <1>t, <2>u, <4>3, <4>4, GoOnPreserves
    <3>3. CASE ~Fresh(d, DecisionTTL) /\ ~Fresh(i, UserIDTTL)
      <4>1. proc' = [proc EXCEPT ![p] = CallAt("user", now)]
        BY <1>1, <3>3 DEF Authorize
      <4>2. proc'[p].pc = "user" /\ proc'[p].at = now /\ proc'[p].begun = now
        <5>1. proc \in [Proc -> Call]
          BY <1>t DEF TypeOK
        <5>2. proc'[p] = CallAt("user", now)
          BY <4>1, <5>1
        <5> QED BY <5>2 DEF CallAt
      <4> QED BY <1>a, <1>t, <2>u, <4>2, GoOnPreserves
    <3> QED BY <3>1, <3>2, <3>3
  <2>o. \A x \in Proc : x # p => proc'[x] = proc[x]
    BY <1>1, <1>t DEF Authorize, TypeOK
  <2> QED BY <1>t, <2>u, <2>k, <2>c, <2>o, Survives DEF IndInv
<1>2. ASSUME NEW p \in Proc, UserID(p) PROVE IndInv'
  <2>u. UNCHANGED <<now, subject, grant, allowed, decisions, refs>>
    BY <1>2 DEF UserID
  <2>k. now <= now' /\ PolicyEndures
    BY <2>u, <1>a, SamePolicy
  <2>f. Subject(Q(p)) \in Fact
    BY <1>a, <1>t, RequestFacts
  <2>1. CASE /\ Held(Subject(Q(p)), proc[p].at)
             /\ userIDs' = [userIDs EXCEPT ![RepositoryOf[Q(p)]] = Stored]
             /\ GoTo(p, "grant")
    <3>1. Held(Subject(Q(p)), proc[p].begun - UserIDTTL - Budget)
      BY <1>a, <2>1, <2>f, Earlier
    <3>g. proc'[p].pc = "grant" /\ proc'[p].at = now /\ proc'[p].begun = proc[p].begun
      BY <2>1, <1>t, CallMoves DEF GoTo, TypeOK
    <3>2. CallInv(p)'
      <4>1. proc'[p].begun <= now /\ Held(Subject(Q(p)), proc'[p].begun - UserIDTTL - Budget)
        BY <1>a, <3>1, <3>g
      <4> QED BY <1>t, <2>u, <4>1, <3>g, GoOnPreserves
    <3>3. Held(Subject(Q(p)), now - Budget)
      <4>1. now - Budget <= proc[p].at
        BY <1>2, <1>a DEF UserID, InTime
      <4> QED BY <1>a, <2>1, <2>f, <4>1, Earlier
    <3>4. ASSUME NEW u \in Repository PROVE UserIDInv(u)'
      <4>1. CASE u = RepositoryOf[Q(p)]
        <5>1. userIDs'[u].at = now
          BY <2>1, <4>1, <1>t, EntryFacts DEF TypeOK
        <5> QED BY <4>1, <5>1, <3>3, <2>u, <1>a DEF UserIDInv, Subject
      <4>2. CASE u # RepositoryOf[Q(p)]
        BY <2>1, <4>2, <2>k, <1>t, Survives DEF TypeOK
      <4> QED BY <4>1, <4>2
    <3>5. \A x \in Proc : x # p => proc'[x] = proc[x]
      BY <2>1, <1>t DEF GoTo, TypeOK
    <3> QED BY <1>t, <2>u, <2>k, <3>2, <3>4, <3>5, Survives DEF IndInv
  <2>2. CASE Lacked(Subject(Q(p)), proc[p].at) /\ GoTo(p, "deny") /\ UNCHANGED userIDs
    <3>1. Lacking(Q(p), proc[p].begun)
      BY <1>a, <2>2, <2>f, Earlier DEF Lacking
    <3>g. proc'[p].pc = "deny" /\ proc'[p].at = now /\ proc'[p].begun = proc[p].begun
      BY <2>2, <1>t, CallMoves DEF GoTo, TypeOK
    <3>2. CallInv(p)'
      BY <1>a, <1>t, <2>u, <3>1, <3>g, GoOnPreserves
    <3>3. \A x \in Proc : x # p => proc'[x] = proc[x]
      BY <2>2, <1>t DEF GoTo, TypeOK
    <3> QED BY <1>t, <2>u, <2>2, <2>k, <3>2, <3>3, Survives DEF IndInv
  <2> QED BY <1>2, <2>1, <2>2 DEF UserID
<1>3. ASSUME NEW p \in Proc, Evaluate(p) PROVE IndInv'
  <2>u. UNCHANGED <<now, subject, grant, allowed, refs, userIDs>>
    BY <1>3 DEF Evaluate
  <2>k. now <= now' /\ PolicyEndures
    BY <2>u, <1>a, SamePolicy
  <2>f. Grant(Q(p)) \in Fact
    BY <1>a, <1>t, RequestFacts
  <2>s. Held(Subject(Q(p)), proc[p].begun - UserIDTTL - Budget)
    BY <1>3, <1>a DEF Evaluate, CallInv
  <2>1. CASE Lacked(Grant(Q(p)), proc[p].at) /\ GoTo(p, "deny") /\ UNCHANGED decisions
    <3>1. Lacking(Q(p), proc[p].begun)
      BY <1>a, <2>1, <2>f, Earlier DEF Lacking
    <3>g. proc'[p].pc = "deny" /\ proc'[p].at = now /\ proc'[p].begun = proc[p].begun
      BY <2>1, <1>t, CallMoves DEF GoTo, TypeOK
    <3>2. CallInv(p)'
      BY <1>a, <1>t, <2>u, <3>1, <3>g, GoOnPreserves
    <3>3. \A x \in Proc : x # p => proc'[x] = proc[x]
      BY <2>1, <1>t DEF GoTo, TypeOK
    <3> QED BY <1>t, <2>u, <2>1, <2>k, <3>2, <3>3, Survives DEF IndInv
  <2>2. CASE /\ Held(Grant(Q(p)), proc[p].at)
             /\ ~Fresh(refs[ScopeOf[Q(p)]], RefsTTL)
             /\ GoTo(p, "refs") /\ UNCHANGED decisions
    <3>1. Held(Grant(Q(p)), proc[p].begun)
      BY <1>a, <2>2, <2>f, Earlier
    <3>g. proc'[p].pc = "refs" /\ proc'[p].at = now /\ proc'[p].begun = proc[p].begun
      BY <2>2, <1>t, CallMoves DEF GoTo, TypeOK
    <3>2. CallInv(p)'
      BY <1>a, <1>t, <2>u, <2>s, <3>1, <3>g, GoOnPreserves
    <3>3. \A x \in Proc : x # p => proc'[x] = proc[x]
      BY <2>2, <1>t DEF GoTo, TypeOK
    <3> QED BY <1>t, <2>u, <2>2, <2>k, <3>2, <3>3, Survives DEF IndInv
  <2>3. CASE /\ Held(Grant(Q(p)), proc[p].at)
             /\ Fresh(refs[ScopeOf[Q(p)]], RefsTTL)
             /\ Decide(p, refs[ScopeOf[Q(p)]].refs)
    <3> DEFINE e == refs[ScopeOf[Q(p)]]
    <3>1. Held(Grant(Q(p)), proc[p].begun)
      BY <1>a, <2>3, <2>f, Earlier
    <3>2. /\ e.refs \in SUBSET Ref /\ e.at \in Nat /\ e.at <= now
          /\ now - RefsTTL - Budget <= e.at - Budget
          /\ proc[p].begun - RefsTTL - Budget <= e.at - Budget
      BY <1>a, <1>t, <2>3 DEF Fresh, TypeOK, RefsEntry, IndInv, RefsInv
    <3>3. ASSUME NEW r \in Ref
          PROVE  IF r \in e.refs THEN Held(allowed[<<ScopeOf[Q(p)], r>>], now - RefsTTL - Budget)
                 ELSE Lacked(allowed[<<ScopeOf[Q(p)], r>>], proc[p].begun - RefsTTL - Budget)
      <4>1. allowed[<<ScopeOf[Q(p)], r>>] \in Fact
        BY <1>a, <1>t DEF TypeOK
      <4>2. IF r \in e.refs THEN Held(allowed[<<ScopeOf[Q(p)], r>>], e.at - Budget)
            ELSE Lacked(allowed[<<ScopeOf[Q(p)], r>>], e.at - Budget)
        BY <1>a, <2>3 DEF IndInv, RefsInv, Fresh
      <4> QED BY <1>a, <3>2, <4>1, <4>2, Earlier
    <3>4. InTime(p)
      BY <1>3 DEF Evaluate
    <3>5. CallInv(p)' /\ \A q \in Request : DecisionInv(q)'
      BY <1>t, <2>u, <2>s, <2>3, <3>1, <3>2, <3>3, <3>4, DecidePreserves
    <3>6. \A x \in Proc : x # p => proc'[x] = proc[x]
      BY <2>3, <1>t DEF Decide, GoTo, TypeOK
    <3> QED BY <1>t, <2>u, <2>k, <3>5, <3>6, Survives DEF IndInv
  <2> QED BY <1>3, <2>1, <2>2, <2>3 DEF Evaluate
<1>4. ASSUME NEW p \in Proc, AllowedRefs(p) PROVE IndInv'
  <2>u. UNCHANGED <<now, subject, grant, allowed, userIDs>> /\ InTime(p)
    BY <1>4 DEF AllowedRefs
  <2>k. now <= now' /\ PolicyEndures
    BY <2>u, <1>a, SamePolicy
  <2>s. /\ Held(Subject(Q(p)), proc[p].begun - UserIDTTL - Budget)
        /\ Held(Grant(Q(p)), proc[p].begun)
    BY <1>4, <1>a DEF AllowedRefs, CallInv
  <2> DEFINE s == ScopeOf[Q(p)]
  <2>1. PICK R \in SUBSET Ref :
            /\ \A r \in R : Held(allowed[<<s, r>>], proc[p].at)
            /\ \A r \in Ref \ R : Lacked(allowed[<<s, r>>], proc[p].at)
            /\ refs' = [refs EXCEPT ![s] = ConstraintOf(R)]
            /\ Decide(p, R)
    BY <1>4 DEF AllowedRefs
  <2>2. /\ now - Budget <= proc[p].at
        /\ now - RefsTTL - Budget <= proc[p].at
        /\ proc[p].begun - RefsTTL - Budget <= proc[p].at
    BY <2>u, <1>a DEF InTime
  <2>3. ASSUME NEW r \in Ref
        PROVE  /\ IF r \in R THEN Held(allowed[<<s, r>>], now - RefsTTL - Budget)
                  ELSE Lacked(allowed[<<s, r>>], proc[p].begun - RefsTTL - Budget)
               /\ IF r \in R THEN Held(allowed[<<s, r>>], now - Budget)
                  ELSE Lacked(allowed[<<s, r>>], now - Budget)
    <3>1. allowed[<<s, r>>] \in Fact
      BY <1>a, <1>t DEF TypeOK
    <3> QED BY <1>a, <2>1, <2>2, <3>1, Earlier
  <2>4. CallInv(p)' /\ \A q \in Request : DecisionInv(q)'
    BY <1>t, <2>u, <2>s, <2>1, <2>3, DecidePreserves
  <2>5. ASSUME NEW x \in Scope PROVE RefsInv(x)'
    <3>1. CASE x = s
      <4>1. refs'[x].at = now /\ refs'[x].refs = R
        BY <2>1, <3>1, <1>t, ConstraintFacts DEF TypeOK
      <4> QED BY <3>1, <4>1, <2>3, <2>u, <1>a DEF RefsInv
    <3>2. CASE x # s
      BY <2>1, <3>2, <2>k, <1>t, Survives DEF TypeOK
    <3> QED BY <3>1, <3>2
  <2>6. \A x \in Proc : x # p => proc'[x] = proc[x]
    BY <2>1, <1>t DEF Decide, GoTo, TypeOK
  <2> QED BY <1>t, <2>u, <2>k, <2>4, <2>5, <2>6, Survives DEF IndInv
<1>5. ASSUME NEW p \in Proc, Fail(p) PROVE IndInv'
  <2> DEFINE d == decisions[Q(p)]
  <2>u. UNCHANGED <<now, subject, grant, allowed, decisions, refs, userIDs>>
    BY <1>5 DEF Fail
  <2>k. now <= now' /\ PolicyEndures
    BY <2>u, <1>a, SamePolicy
  <2>1. CASE Fresh(d, DecisionTTL + StaleFor)
    <3>1. proc' = [proc EXCEPT ![p] = CallAt("stale", proc[p].begun)]
      BY <1>5, <2>1 DEF Fail
    <3>2. proc'[p].pc = "stale" /\ proc'[p].at = now /\ proc'[p].begun = proc[p].begun
      BY <3>1, <1>t, CallMoves DEF TypeOK
    <3>3. d.at \in Nat /\ now - (DecisionTTL + StaleFor) <= d.at /\ Justified(Q(p), d.at)
      BY <1>a, <1>t, <2>1 DEF Fresh, IndInv, DecisionInv, TypeOK, Entry
    <3>4. /\ Held(Grant(Q(p)), now - (DecisionTTL + StaleFor) - Budget)
          /\ Held(Admits(Q(p)), now - (DecisionTTL + StaleFor) - RefsTTL - Budget)
          /\ Held(Subject(Q(p)), now - (DecisionTTL + StaleFor) - UserIDTTL - 2 * Budget)
      BY <1>a, <1>t, <3>3, RequestFacts, Earlier DEF Justified
    <3>5. Justified(Q(p), now - (DecisionTTL + StaleFor))'
      BY <3>4, <2>u DEF Justified, Grant, Admits, Subject, Q
    <3>6. CallInv(p)'
      BY <1>a, <2>u, <3>2, <3>5 DEF CallInv, Permits, MaxAge
    <3>7. \A x \in Proc : x # p => proc'[x] = proc[x]
      BY <3>1, <1>t DEF TypeOK
    <3> QED BY <1>t, <2>u, <2>k, <3>6, <3>7, Survives DEF IndInv
  <2>2. CASE ~Fresh(d, DecisionTTL + StaleFor)
    <3>1. proc' = [proc EXCEPT ![p] = CallAt("error", proc[p].begun)]
      BY <1>5, <2>2 DEF Fail
    <3>2. proc'[p].pc = "error" /\ proc'[p].at = now /\ proc'[p].begun = proc[p].begun
      BY <3>1, <1>t, CallMoves DEF TypeOK
    <3>3. CallInv(p)'
      BY <1>a, <2>u, <3>2 DEF CallInv, Permits
    <3>4. \A x \in Proc : x # p => proc'[x] = proc[x]
      BY <3>1, <1>t DEF TypeOK
    <3> QED BY <1>t, <2>u, <2>k, <3>3, <3>4, Survives DEF IndInv
  <2> QED BY <2>1, <2>2
<1>6. CASE ChangePolicy
  <2>1. UNCHANGED <<now, decisions, refs, userIDs, proc>>
    BY <1>6 DEF ChangePolicy
  <2>2. now <= now'
    BY <2>1, <1>t DEF TypeOK
  <2> QED BY <1>6, <1>t, <2>1, <2>2, ChangedPolicy, Survives DEF IndInv
<1>7. CASE Tick
  <2>1. UNCHANGED <<subject, grant, allowed, decisions, refs, userIDs, proc>>
    BY <1>7 DEF Tick
  <2>2. now <= now'
    BY <1>7, <1>t DEF Tick, TypeOK
  <2> QED BY <1>t, <2>1, <2>2, SamePolicy, Survives DEF IndInv
<1>8. CASE UNCHANGED vars
  <2>1. UNCHANGED <<now, subject, grant, allowed, decisions, refs, userIDs, proc>>
    BY <1>8 DEF vars
  <2>2. now <= now'
    BY <2>1, <1>t DEF TypeOK
  <2> QED BY <1>t, <2>1, <2>2, SamePolicy, Survives DEF IndInv
<1> QED BY <1>1, <1>2, <1>3, <1>4, <1>5, <1>6, <1>7, <1>8 DEF Next, Step

(* IndInv is an invariant of Authorizer: every cache entry and every decision
   under way still rests on recent facts of the policy. *)
THEOREM Inductive == Spec => []IndInv
  BY InductiveInit, InductiveStep, PTL DEF Spec

-----------------------------------------------------------------------------
(* The bounds.                                                             *)

(* Revoking a grant takes effect within the decision TTL, plus the grace period
   when Keycloak cannot be asked, plus the time one decision takes. *)
THEOREM RevocationBound == Spec => []RevocationTakesEffect
<1>1. IndInv => RevocationTakesEffect
  BY DEF IndInv, CallInv, Justified, RevocationTakesEffect
<1> QED BY <1>1, Inductive, PTL

(* Narrowing a ref constraint takes effect within the decision TTL and the refs
   TTL together. *)
THEOREM NarrowingBound == Spec => []NarrowingTakesEffect
<1>1. IndInv => NarrowingTakesEffect
  BY DEF IndInv, CallInv, Justified, NarrowingTakesEffect
<1> QED BY <1>1, Inductive, PTL

(* Deleting a repository's user takes effect within the decision TTL and the
   user id TTL together. *)
THEOREM DeletionBound == Spec => []DeletionTakesEffect
<1>1. IndInv => DeletionTakesEffect
  BY DEF IndInv, CallInv, Justified, DeletionTakesEffect
<1> QED BY <1>1, Inductive, PTL

(* No denial outlives its reason, and none is made of a failure. *)
THEOREM DenialsAreCurrent == Spec => []GrantingIsImmediate
<1>1. IndInv => GrantingIsImmediate
  BY DEF IndInv, CallInv, GrantingIsImmediate
<1> QED BY <1>1, Inductive, PTL
=============================================================================
