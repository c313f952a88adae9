-------------------------- MODULE OperationsProofs --------------------------
(***************************************************************************)
(* What Operations.tla guarantees for every set of requests, Deployments    *)
(* and GETs and every value of the timeouts, checked by TLAPS.              *)
(***************************************************************************)
EXTENDS Operations, SequenceTheorems, TLAPS

-----------------------------------------------------------------------------
(* What the constructors of records build.                                 *)

LEMMA RowFacts ==
    /\ NoRow \in Row
    /\ \A t \in Nat : NewRow("running", "", t) \in Row /\ NewRow("denied", "policy", t) \in Row
    /\ \A r \in Row, u \in Update :
          [status |-> u.status, why |-> u.why, at |-> r.at, basis |-> u.basis] \in Row
BY DEF NoRow, NewRow, Row, Status, Terminal, Why, Update

LEMMA UpdateFacts ==
    /\ NoUpd \in Update
    /\ Upd("failed", "patch", 0) \in Update
    /\ Upd("timeout", "deadline", 0) \in Update
    /\ Upd("timeout", "stale", 0) \in Update
    /\ Upd("timeout", "unreadable", 0) \in Update
    /\ \A u \in Update : u.status \in Status
BY DEF NoUpd, Upd, Update, Terminal, Why, Status

LEMMA VerdictFacts ==
    ASSUME NEW k \in DeploymentState
    PROVE  /\ VerdictUpdate(k) \in Update
           /\ VerdictUpdate(k).status \in Terminal
           /\ VerdictUpdate(k).basis = k.observed
           /\ EvaluateRollout(k) # "progressing" => k.observed >= k.generation
BY DEF VerdictUpdate, Upd, Update, Terminal, Why, DeploymentState, EvaluateRollout, RolloutState

LEMMA WatcherFacts ==
    /\ NoWatcher \in Watcher
    /\ WatchAt("start", 0, NoUpd) \in Watcher
    /\ \A t \in Nat, u \in Update, pc \in {"loop", "watching", "write"} : WatchAt(pc, t, u) \in Watcher
BY UpdateFacts DEF NoWatcher, WatchAt, Watcher

LEMMA AgentFacts ==
    /\ IdleAgent \in AgentState
    /\ \A S, T \in SUBSET Op, u \in Update : [todo |-> S, writing |-> T, upd |-> u] \in AgentState
BY UpdateFacts DEF IdleAgent, AgentState

\* The second message of an operation follows the first.
LEMMA AppendToOne ==
    ASSUME NEW S, NEW x \in S, NEW y \in S
    PROVE  Append(<<y>>, x) = <<y, x>>
<1> DEFINE s == Append(<<y>>, x)
           t == <<y, x>>
<1>1. <<y>> \in Seq(S) /\ t \in Seq(S)
  OBVIOUS
<1>2. s \in Seq(S) /\ Len(s) = 2 /\ s[1] = y /\ s[2] = x
  BY <1>1, AppendProperties
<1>3. Len(t) = 2 /\ t[1] = y /\ t[2] = x
  OBVIOUS
<1> HIDE DEF s, t
<1>4. \A i \in 1 .. Len(s) : s[i] = t[i]
  BY <1>2, <1>3
<1>5. s = t
  BY <1>1, <1>2, <1>3, <1>4, SeqEqual
<1> QED BY <1>5 DEF s, t

-----------------------------------------------------------------------------
(* Type correctness.                                                       *)

LEMMA InitType == Init => TypeOK
<1> SUFFICES ASSUME Init PROVE TypeOK
  OBVIOUS
<1>1. row \in [Op -> Row] /\ replica \in [Op -> Row]
  BY RowFacts DEF Init
<1>2. handler \in [Op -> Handler] /\ arrived \in [Op -> Nat] /\ patched \in [Op -> Nat]
  BY DEF Handler, Init
<1>3. watcher \in [Op -> Watcher] /\ agent \in [Agent -> AgentState]
  BY WatcherFacts, AgentFacts DEF Init
<1>4. k8s \in [Deployment -> DeploymentState]
  BY DEF DeploymentState, RolloutState, Dep, Init
<1>5. chat \in [Op -> Seq(Status)]
  BY EmptySeq DEF Init
<1> QED BY <1>1, <1>2, <1>3, <1>4, <1>5 DEF TypeOK, Init

\* Resolve keeps the types of the two variables it writes.
LEMMA ResolveType ==
    ASSUME TypeOK, NEW o \in Op, NEW u \in Update, Resolve(o, u)
    PROVE  /\ row' \in [Op -> Row]
           /\ chat' \in [Op -> Seq(Status)]
<1>1. CASE UNCHANGED <<row, chat>>
  BY <1>1 DEF TypeOK
<1>2. CASE Wrote(o, u)
  <2>1. row' \in [Op -> Row]
    BY <1>2, RowFacts DEF TypeOK, Wrote
  <2>2. u.status \in Status
    BY UpdateFacts
  <2>3. Append(chat[o], u.status) \in Seq(Status)
    BY <2>2, AppendProperties DEF TypeOK
  <2>4. chat' \in [Op -> Seq(Status)]
    BY <1>2, <2>3 DEF TypeOK, Wrote
  <2> QED BY <2>1, <2>4
<1> QED BY <1>1, <1>2 DEF Resolve

LEMMA BumpType ==
    ASSUME TypeOK, NEW d \in Deployment, Bump(d)
    PROVE  /\ k8s' \in [Deployment -> DeploymentState]
           /\ k8s[d].generation + 1 \in Nat
           /\ k8s'[d].generation = k8s[d].generation + 1
           /\ \A e \in Deployment : k8s'[e].generation >= k8s[e].generation
<1>1. k8s[d] \in DeploymentState
  BY DEF TypeOK
<1>2. /\ k8s[d].generation \in Nat
      /\ Dep(k8s[d].generation + 1, k8s[d].observed, k8s[d].rollout) \in DeploymentState
  BY <1>1 DEF DeploymentState, Dep
<1>3. k8s' \in [Deployment -> DeploymentState]
  BY <1>2 DEF TypeOK, Bump
<1>4. k8s'[d].generation = k8s[d].generation + 1
  BY DEF TypeOK, Bump, Dep
<1>5. \A e \in Deployment : e # d => k8s'[e] = k8s[e]
  BY DEF TypeOK, Bump
<1>6. \A e \in Deployment : k8s'[e].generation >= k8s[e].generation
  <2> TAKE e \in Deployment
  <2>1. CASE e = d
    BY <2>1, <1>2, <1>4
  <2>2. CASE e # d
    <3>1. k8s[e].generation \in Nat
      BY DEF TypeOK, DeploymentState
    <3> QED BY <2>2, <3>1, <1>5
  <2> QED BY <2>1, <2>2
<1> QED BY <1>2, <1>3, <1>4, <1>6

LEMMA HandlerType ==
    ASSUME TypeOK, NEW o \in Op, HandlerStep(o)
    PROVE  TypeOK'
<1>1. CASE Authorize(o)
  BY <1>1, RowFacts DEF Authorize, Create, TypeOK, Handler, Working, Answered
<1>2. CASE ResolveContainer(o)
  BY <1>2 DEF ResolveContainer, TypeOK, Handler, Working, Answered
<1>3. CASE PutOperation(o)
  <2>1. row' \in [Op -> Row]
    <3>1. \A t \in arrived[o] .. now : t \in Nat
      BY DEF TypeOK
    <3>2. \/ UNCHANGED row
          \/ \E t \in arrived[o] .. now : row' = [row EXCEPT ![o] = NewRow("running", "", t)]
      BY <1>3 DEF PutOperation, Create
    <3>3. \A t \in arrived[o] .. now : NewRow("running", "", t) \in Row
      BY <3>1, RowFacts
    <3> QED BY <3>2, <3>3 DEF TypeOK
  <2>2. handler' \in [Op -> Handler]
    BY <1>3 DEF PutOperation, TypeOK, Handler, Working, Answered
  <2> QED BY <1>3, <2>1, <2>2 DEF PutOperation, TypeOK
<1>4. CASE Patch(o)
  <2>1. handler' \in [Op -> Handler]
    BY <1>4 DEF Patch, TypeOK, Handler, Working, Answered
  <2>2. k8s' \in [Deployment -> DeploymentState] /\ patched' \in [Op -> Nat]
    <3>1. CASE UNCHANGED <<k8s, patched>>
      BY <3>1 DEF TypeOK
    <3>2. CASE /\ Bump(Target[o])
               /\ patched' = [patched EXCEPT ![o] = k8s[Target[o]].generation + 1]
      <4>1. Target[o] \in Deployment
        BY TargetAssumption
      <4> QED BY <3>2, <4>1, BumpType DEF TypeOK
    <3> QED BY <1>4, <3>1, <3>2 DEF Patch
  <2> QED BY <1>4, <2>1, <2>2 DEF Patch, TypeOK
<1>5. CASE Started(o)
  <2>1. chat' \in [Op -> Seq(Status)]
    BY <1>5 DEF Started, TypeOK, Status
  <2>2. watcher' \in [Op -> Watcher]
    BY <1>5, WatcherFacts DEF Started, TypeOK
  <2> QED BY <1>5, <2>1, <2>2 DEF Started, TypeOK, Handler, Answered
<1>6. CASE FailOperation(o)
  <2>1. row' \in [Op -> Row] /\ chat' \in [Op -> Seq(Status)]
    BY <1>6, ResolveType, UpdateFacts DEF FailOperation
  <2> QED BY <1>6, <2>1 DEF FailOperation, TypeOK, Handler, Answered
<1> QED BY <1>1, <1>2, <1>3, <1>4, <1>5, <1>6 DEF HandlerStep

LEMMA WatchToType ==
    ASSUME TypeOK, NEW o \in Op, NEW pc \in {"loop", "watching", "write"}, NEW u \in Update,
           WatchTo(o, pc, u)
    PROVE  TypeOK'
<1>1. watcher[o].deadline \in Nat
  BY DEF TypeOK, Watcher
<1>2. WatchAt(pc, watcher[o].deadline, u) \in Watcher
  BY <1>1, WatcherFacts
<1> QED BY <1>2 DEF WatchTo, TypeOK

LEMMA DeploymentRead ==
    ASSUME TypeOK, NEW o \in Op
    PROVE  k8s[Target[o]] \in DeploymentState
BY TargetAssumption DEF TypeOK

LEMMA JudgeType ==
    ASSUME TypeOK, NEW o \in Op, NEW pc \in {"loop", "watching"}, Judge(o, pc)
    PROVE  TypeOK'
BY WatchToType, DeploymentRead, VerdictFacts, UpdateFacts DEF Judge

LEMMA WatchType ==
    ASSUME TypeOK, NEW o \in Op, WatchStep(o)
    PROVE  TypeOK'
<1>1. CASE StartWatch(o)
  <2>1. ProgressDeadlineOf(Target[o]) \in Nat /\ DefaultDeadline \in Nat /\ WatchGrace \in Nat
    BY TargetAssumption, ClockAssumption DEF ProgressDeadlineOf
  <2>2. PICK d \in Nat :
           watcher' = [watcher EXCEPT ![o] = WatchAt("loop", now + d + WatchGrace, NoUpd)]
    BY <1>1, <2>1 DEF StartWatch
  <2>3. WatchAt("loop", now + d + WatchGrace, NoUpd) \in Watcher
    BY <2>1, WatcherFacts, UpdateFacts DEF TypeOK
  <2> QED BY <1>1, <2>2, <2>3 DEF StartWatch, TypeOK
<1>2. CASE EvalOnce(o)
  BY <1>2, JudgeType, WatchToType, UpdateFacts DEF EvalOnce
<1>3. CASE WatchEvent(o)
  BY <1>3, JudgeType DEF WatchEvent
<1>4. CASE WatchClosed(o)
  BY <1>4, WatchToType, UpdateFacts DEF WatchClosed
<1>5. CASE WatchTimeout(o)
  BY <1>5, WatchToType, UpdateFacts DEF WatchTimeout
<1>6. CASE WatcherResolve(o)
  <2>1. watcher[o].upd \in Update
    BY DEF TypeOK, Watcher
  <2>2. row' \in [Op -> Row] /\ chat' \in [Op -> Seq(Status)]
    BY <1>6, <2>1, ResolveType DEF WatcherResolve
  <2> QED BY <1>6, <2>2, WatcherFacts DEF WatcherResolve, TypeOK
<1> QED BY <1>1, <1>2, <1>3, <1>4, <1>5, <1>6 DEF WatchStep

LEMMA AgentType ==
    ASSUME TypeOK, NEW a \in Agent, NEW o \in Op,
           ResolveRunning(a, o) \/ AgentResolve(a, o)
    PROVE  TypeOK'
<1>1. agent[a] \in AgentState
  BY DEF TypeOK
<1>2. agent[a].todo \in SUBSET Op /\ agent[a].upd \in Update
  BY <1>1 DEF AgentState
<1>3. CASE ResolveRunning(a, o)
  <2>1. \A u \in Update : [todo |-> agent[a].todo \ {o}, writing |-> {o}, upd |-> u] \in AgentState
    BY <1>2, AgentFacts
  <2>2. VerdictUpdate(k8s[Target[o]]) \in Update
    BY DeploymentRead, VerdictFacts
  <2>3. agent' \in [Agent -> AgentState]
    BY <1>3, <2>1, <2>2, UpdateFacts, AgentFacts DEF ResolveRunning, TypeOK
  <2> QED BY <1>3, <2>3 DEF ResolveRunning, TypeOK
<1>4. CASE AgentResolve(a, o)
  <2>1. row' \in [Op -> Row] /\ chat' \in [Op -> Seq(Status)]
    BY <1>2, <1>4, ResolveType DEF AgentResolve
  <2>2. [todo |-> agent[a].todo, writing |-> {}, upd |-> NoUpd] \in AgentState
    BY <1>2, UpdateFacts, AgentFacts
  <2>3. agent' \in [Agent -> AgentState]
    BY <1>4, <2>2 DEF AgentResolve, AgentDone, TypeOK
  <2> QED BY <1>4, <2>1, <2>3 DEF AgentResolve, AgentDone, TypeOK
<1> QED BY <1>3, <1>4

LEMMA NextType == TypeOK /\ [Next]_vars => TypeOK'
<1> SUFFICES ASSUME TypeOK, [Next]_vars PROVE TypeOK'
  OBVIOUS
<1>1. CASE \E o \in Op : HandlerStep(o) \/ WatchStep(o)
  BY <1>1, HandlerType, WatchType
<1>2. CASE \E o \in Op : Replicate(o)
  BY <1>2 DEF Replicate, TypeOK
<1>3. CASE Sweep
  <2>1. PICK S \in SUBSET Op :
           agent' = [agent EXCEPT ![Sweeper] = [todo |-> S, writing |-> {}, upd |-> NoUpd]]
    BY <1>3 DEF Sweep
  <2>2. agent' \in [Agent -> AgentState]
    BY <2>1, AgentFacts, UpdateFacts DEF TypeOK
  <2> QED BY <1>3, <2>2 DEF Sweep, TypeOK
<1>4. CASE \E g \in Getter, o \in Op : Get(g, o)
  <2>1. PICK g \in Getter, o \in Op : Get(g, o)
    BY <1>4
  <2>2. [todo |-> {o}, writing |-> {}, upd |-> NoUpd] \in AgentState
    BY AgentFacts, UpdateFacts
  <2>3. agent' \in [Agent -> AgentState]
    BY <2>1, <2>2 DEF Get, TypeOK
  <2> QED BY <2>1, <2>3 DEF Get, TypeOK
<1>5. CASE \E a \in Agent, o \in Op : ResolveRunning(a, o) \/ AgentResolve(a, o)
  BY <1>5, AgentType
<1>6. CASE \E d \in Deployment : Edit(d)
  BY <1>6, BumpType DEF Edit, TypeOK
<1>7. CASE \E d \in Deployment : ControllerSync(d)
  <2>1. PICK d \in Deployment, r \in RolloutState :
           k8s' = [k8s EXCEPT ![d] = Dep(k8s[d].generation, k8s[d].generation, r)]
    BY <1>7, ReportAssumption DEF ControllerSync
  <2>2. Dep(k8s[d].generation, k8s[d].generation, r) \in DeploymentState
    BY DEF TypeOK, DeploymentState, Dep
  <2> QED BY <1>7, <2>1, <2>2 DEF ControllerSync, TypeOK
<1>8. CASE Crash
  <2>1. handler' \in [Op -> Handler]
    BY <1>8 DEF Crash, TypeOK, Handler
  <2>2. watcher' \in [Op -> Watcher] /\ agent' \in [Agent -> AgentState]
    BY <1>8, WatcherFacts, AgentFacts DEF Crash, TypeOK
  <2> QED BY <1>8, <2>1, <2>2 DEF Crash, TypeOK
<1>9. CASE Tick
  BY <1>9 DEF Tick, TypeOK
<1>10. CASE UNCHANGED vars
  BY <1>10 DEF vars, TypeOK
<1> QED BY <1>1, <1>2, <1>3, <1>4, <1>5, <1>6, <1>7, <1>8, <1>9, <1>10 DEF Next

(* Every reachable state is well typed, whatever the handlers, the watchers,
   the resolvers, Kubernetes and process deaths do. *)
THEOREM TypeCorrect == Spec => []TypeOK
BY InitType, NextType, PTL DEF Spec

-----------------------------------------------------------------------------
(* The inductive invariant.                                                *)

\* The types of what the invariant says of one operation.
LEMMA OpTypes ==
    ASSUME TypeOK, NEW o \in Op
    PROVE  /\ now \in Nat /\ arrived[o] \in Nat /\ patched[o] \in Nat
           /\ row[o].at \in Nat /\ row[o].basis \in Nat /\ row[o].status \in Status
           /\ replica[o].at \in Nat
           /\ watcher[o].upd.basis \in Nat
           /\ k8s[Target[o]].generation \in Nat /\ k8s[Target[o]].observed \in Nat
           /\ StaleAfter \in Nat /\ RequestTimeout \in Nat
BY TargetAssumption, ClockAssumption, DeploymentRead
DEF TypeOK, Row, Watcher, Update, DeploymentState

LEMMA InitInv == Init => IndInv
<1> SUFFICES ASSUME Init, NEW o \in Op PROVE OpInv(o)
  BY InitType DEF IndInv
<1>1. HandlerInv(o) /\ Story(o)
  BY DEF Init, HandlerInv, Untouched, NoRow, Story
<1>2. RowInv(o)
  <2>1. k8s[Target[o]].generation >= patched[o]
    <3>1. k8s[Target[o]] = Dep(1, 1, "complete") /\ patched[o] = 0
      BY TargetAssumption DEF Init
    <3>2. Dep(1, 1, "complete").generation = 1
      BY DEF Dep
    <3> QED BY <3>1, <3>2
  <2>2. row[o].status = "none" /\ row[o].why = "" /\ replica[o].status = "none"
    BY DEF Init, NoRow
  <2> QED BY <2>1, <2>2 DEF RowInv
<1>3. WatcherInv(o)
  BY DEF Init, WatcherInv, NoWatcher, WatchAt
<1>4. \A a \in Agent : AgentInv(a, o)
  BY DEF Init, AgentInv, IdleAgent
<1> QED BY <1>1, <1>2, <1>3, <1>4 DEF OpInv

\* A step of another operation's handler or watcher.
LEMMA Frame ==
    ASSUME IndInv, TypeOK', NEW o \in Op, UNCHANGED <<now, agent>>,
           row'[o] = row[o], replica'[o] = replica[o], handler'[o] = handler[o],
           arrived'[o] = arrived[o], watcher'[o] = watcher[o], patched'[o] = patched[o],
           chat'[o] = chat[o], k8s'[Target[o]].generation >= k8s[Target[o]].generation
    PROVE  OpInv(o)'
<1>1. HandlerInv(o)'
  BY DEF IndInv, OpInv, HandlerInv, Untouched, CtxAlive
<1>2. RowInv(o)'
  <2>1. k8s'[Target[o]].generation \in Nat
    BY TargetAssumption DEF TypeOK, DeploymentState
  <2>2. k8s'[Target[o]].generation >= patched[o]
    BY <2>1, OpTypes DEF IndInv, OpInv, RowInv
  <2> QED BY <2>2 DEF IndInv, OpInv, RowInv
<1>3. WatcherInv(o)' /\ Story(o)'
  BY DEF IndInv, OpInv, WatcherInv, Story
<1>4. \A a \in Agent : AgentInv(a, o)'
  BY DEF IndInv, OpInv, AgentInv
<1> QED BY <1>1, <1>2, <1>3, <1>4 DEF OpInv

\* A handler with a live request context is out of reach of every resolver:
\* staleAfter exceeds the request timeout.
LEMMA OutOfReach ==
    ASSUME IndInv, NEW o \in Op, handler[o] \in {"patch", "started"}, CtxAlive(o)
    PROVE  \A a \in Agent : o \notin agent[a].todo \cup agent[a].writing
<1>1. row[o].status # "none" /\ row[o].at >= arrived[o]
  BY DEF IndInv, OpInv, HandlerInv, RowInv
<1>2. ~(now - row[o].at > StaleAfter)
  BY <1>1, OpTypes, StaleAssumption DEF CtxAlive, IndInv
<1> QED BY <1>2 DEF IndInv, OpInv, AgentInv

LEMMA AuthorizeInv ==
    ASSUME IndInv, TypeOK', NEW o \in Op, Authorize(o) PROVE OpInv(o)'
<1>1. Untouched(o) /\ handler[o] = "idle"
  BY DEF IndInv, OpInv, HandlerInv, Authorize
<1>2. /\ handler'[o] \in {"refused", "forbidden", "put", "resolve"}
      /\ handler'[o] # "forbidden" => row'[o] = row[o]
      /\ row'[o] \in {row[o], NewRow("denied", "policy", now)}
      /\ arrived'[o] = now /\ chat' = chat /\ patched' = patched
  BY DEF Authorize, Create, IndInv, TypeOK
<1>3. HandlerInv(o)'
  BY <1>1, <1>2 DEF HandlerInv, Untouched
<1>4. RowInv(o)'
  BY <1>1, <1>2, OpTypes DEF IndInv, OpInv, RowInv, Untouched, NewRow, Authorize
<1>5. WatcherInv(o)'
  BY <1>1 DEF IndInv, OpInv, WatcherInv, Authorize
<1>6. Story(o)'
  BY <1>1, <1>2 DEF Story, Untouched
<1>7. \A a \in Agent : AgentInv(a, o)'
  BY <1>1 DEF IndInv, OpInv, AgentInv, Untouched, Authorize
<1> QED BY <1>3, <1>4, <1>5, <1>6, <1>7 DEF OpInv

LEMMA ResolveContainerInv ==
    ASSUME IndInv, NEW o \in Op, ResolveContainer(o) PROVE OpInv(o)'
<1>1. Untouched(o) /\ handler[o] = "resolve" /\ handler'[o] \in {"put", "refused", "putfail"}
  BY DEF IndInv, OpInv, TypeOK, HandlerInv, ResolveContainer
<1>2. HandlerInv(o)'
  BY <1>1 DEF HandlerInv, Untouched, ResolveContainer
<1>3. RowInv(o)' /\ Story(o)' /\ \A a \in Agent : AgentInv(a, o)'
  BY DEF IndInv, OpInv, RowInv, Story, AgentInv, ResolveContainer
<1>4. WatcherInv(o)'
  BY <1>1 DEF IndInv, OpInv, WatcherInv, ResolveContainer
<1> QED BY <1>2, <1>3, <1>4 DEF OpInv

LEMMA PutOperationInv ==
    ASSUME IndInv, TypeOK', NEW o \in Op, PutOperation(o) PROVE OpInv(o)'
<1>1. Untouched(o) /\ handler[o] \in {"put", "putfail"}
  BY DEF IndInv, OpInv, HandlerInv, PutOperation
<1>2. /\ handler'[o] \in {"patch", "fail", "unrecorded"}
      /\ \/ row'[o] = row[o] /\ handler'[o] = "unrecorded"
         \/ \E t \in arrived[o] .. now : row'[o] = NewRow("running", "", t)
  BY DEF PutOperation, Create, IndInv, TypeOK
<1>3. /\ row'[o] = row[o] \/ (row'[o].status = "running" /\ row'[o].why = "" /\ row'[o].at >= arrived[o])
      /\ row'[o] = row[o] => handler'[o] = "unrecorded"
  <2>1. \A t \in arrived[o] .. now : t >= arrived[o]
    BY OpTypes DEF IndInv
  <2>2. \A t : /\ NewRow("running", "", t).status = "running"
               /\ NewRow("running", "", t).why = ""
               /\ NewRow("running", "", t).at = t
    BY DEF NewRow
  <2> QED BY <1>1, <1>2, <2>1, <2>2 DEF Untouched
<1>4. HandlerInv(o)'
  BY <1>1, <1>2, <1>3 DEF HandlerInv, Untouched, PutOperation
<1>5. RowInv(o)'
  BY <1>1, <1>3 DEF IndInv, OpInv, RowInv, Untouched, PutOperation
<1>6. WatcherInv(o)'
  BY <1>1 DEF IndInv, OpInv, WatcherInv, PutOperation
<1>7. Story(o)'
  BY <1>1 DEF Story, Untouched, PutOperation
<1>8. \A a \in Agent : AgentInv(a, o)'
  BY <1>1 DEF IndInv, OpInv, AgentInv, Untouched, PutOperation
<1> QED BY <1>4, <1>5, <1>6, <1>7, <1>8 DEF OpInv

LEMMA PatchInv ==
    ASSUME IndInv, TypeOK', NEW o \in Op, Patch(o) PROVE OpInv(o)'
<1>1. handler[o] = "patch" /\ patched[o] = 0 /\ row[o].status # "none"
  BY DEF IndInv, OpInv, HandlerInv, Patch
<1>2. UNCHANGED <<now, row, replica, arrived, watcher, agent, chat>>
  BY DEF Patch
<1>3. watcher[o].pc = "off"
  BY <1>1 DEF IndInv, OpInv, WatcherInv
<1>4. CASE UNCHANGED <<k8s, patched>> /\ handler' = [handler EXCEPT ![o] = "fail"]
  <2>1. handler'[o] = "fail"
    BY <1>4 DEF IndInv, TypeOK
  <2>2. HandlerInv(o)'
    BY <1>1, <1>2, <2>1 DEF HandlerInv
  <2>3. RowInv(o)' /\ Story(o)' /\ WatcherInv(o)' /\ \A a \in Agent : AgentInv(a, o)'
    BY <1>2, <1>3, <1>4 DEF IndInv, OpInv, RowInv, Story, WatcherInv, AgentInv
  <2> QED BY <2>2, <2>3 DEF OpInv
<1>5. CASE /\ CtxAlive(o)
           /\ Bump(Target[o])
           /\ patched' = [patched EXCEPT ![o] = k8s[Target[o]].generation + 1]
           /\ \E h \in {"started", "fail"} : handler' = [handler EXCEPT ![o] = h]
  <2>1. row[o].status = "running" /\ chat[o] = << >>
    BY <1>1, <1>5 DEF IndInv, OpInv, HandlerInv
  <2>2. \A a \in Agent : o \notin agent[a].todo \cup agent[a].writing
    BY <1>1, <1>5, OutOfReach
  <2>3. /\ handler'[o] \in {"started", "fail"}
        /\ patched'[o] = k8s[Target[o]].generation + 1
        /\ k8s'[Target[o]].generation = k8s[Target[o]].generation + 1
        /\ k8s[Target[o]].generation \in Nat
    BY <1>5, BumpType, OpTypes, TargetAssumption DEF IndInv, TypeOK
  <2>4. HandlerInv(o)'
    BY <1>2, <1>5, <2>1, <2>3 DEF HandlerInv, CtxAlive
  <2>5. row[o].why # "rollout"
    BY <2>1 DEF IndInv, OpInv, RowInv, Terminal
  <2>6. RowInv(o)'
    BY <1>2, <2>3, <2>5 DEF IndInv, OpInv, RowInv
  <2>7. WatcherInv(o)'
    BY <1>2, <1>3 DEF WatcherInv
  <2>8. Story(o)' /\ \A a \in Agent : AgentInv(a, o)'
    BY <1>2, <2>1, <2>2 DEF Story, AgentInv
  <2> QED BY <2>4, <2>6, <2>7, <2>8 DEF OpInv
<1> QED BY <1>4, <1>5 DEF Patch

LEMMA StartedInv ==
    ASSUME IndInv, NEW o \in Op, Started(o) PROVE OpInv(o)'
<1>1. /\ handler[o] = "started" /\ CtxAlive(o) /\ patched[o] > 0
      /\ row[o].status = "running" /\ chat[o] = << >>
  BY DEF IndInv, OpInv, HandlerInv, Started
<1>2. /\ handler'[o] = "accepted" /\ chat'[o] = Append(chat[o], "running")
      /\ watcher'[o] = WatchAt("start", 0, NoUpd)
  BY DEF IndInv, TypeOK, Started
<1>3. UNCHANGED <<now, row, replica, arrived, agent, k8s, patched>>
  BY DEF Started
<1>4. HandlerInv(o)'
  BY <1>1, <1>2, <1>3 DEF HandlerInv
<1>5. RowInv(o)' /\ \A a \in Agent : AgentInv(a, o)'
  BY <1>3 DEF IndInv, OpInv, RowInv, AgentInv
<1>6. WatcherInv(o)'
  BY <1>2 DEF WatcherInv, WatchAt
<1>7. chat'[o] = <<"running">>
  BY <1>1, <1>2
<1>8. Story(o)'
  BY <1>7 DEF Story
<1> QED BY <1>4, <1>5, <1>6, <1>8 DEF OpInv

\* What Resolve with a terminal update does to the operation it is about,
\* when the update covers the patch.
LEMMA ResolveInv ==
    ASSUME IndInv, NEW o \in Op, NEW u \in Update, Resolve(o, u), u.status \in Terminal,
           u.why = "rollout" /\ patched[o] > 0 => u.basis >= patched[o],
           UNCHANGED <<now, replica, arrived, k8s, patched>>
    PROVE  /\ RowInv(o)'
           /\ Story(o)'
           /\ row'[o].status # row[o].status => row[o].status = "running" /\ row'[o].status \in Terminal
           /\ row'[o].status = "none" <=> row[o].status = "none"
           /\ row'[o].at = row[o].at
<1>1. CASE UNCHANGED <<row, chat>>
  BY <1>1 DEF IndInv, OpInv, RowInv, Story
<1>2. CASE Wrote(o, u)
  <2>1. /\ row[o].status = "running"
        /\ row'[o] = [status |-> u.status, why |-> u.why, at |-> row[o].at, basis |-> u.basis]
        /\ \/ chat'[o] = Append(chat[o], u.status)
           \/ chat'[o] = chat[o]
    BY <1>2 DEF Wrote, IndInv, TypeOK
  <2>2. row'[o].status = u.status /\ row'[o].why = u.why /\ row'[o].at = row[o].at /\ row'[o].basis = u.basis
    BY <2>1
  <2>3. row'[o].status \in Terminal /\ row'[o].status # "none" /\ row[o].status # "none"
    BY <2>1, <2>2 DEF Terminal
  <2>4. RowInv(o)'
    BY <2>2, <2>3 DEF IndInv, OpInv, RowInv
  <2>5. chat[o] \in {<< >>, <<"running">>}
    BY <2>1 DEF IndInv, OpInv, Story, Terminal
  <2>6. chat'[o] \in {<< >>, <<"running">>, <<u.status>>, <<"running", u.status>>}
    <3>1. Append(<< >>, u.status) = <<u.status>>
      OBVIOUS
    <3>2. Append(<<"running">>, u.status) = <<"running", u.status>>
      <4>1. "running" \in Status /\ u.status \in Status
        BY DEF Status
      <4> QED BY <4>1, AppendToOne
    <3> QED BY <2>1, <2>5, <3>1, <3>2
  <2>7. Story(o)'
    BY <2>2, <2>3, <2>6 DEF Story
  <2> QED BY <2>1, <2>2, <2>3, <2>4, <2>7
<1> QED BY <1>1, <1>2 DEF Resolve

LEMMA FailOperationInv ==
    ASSUME IndInv, NEW o \in Op, FailOperation(o) PROVE OpInv(o)'
<1> DEFINE u == Upd("failed", "patch", 0)
<1>1. u \in Update /\ u.status \in Terminal /\ u.why # "rollout"
  BY UpdateFacts DEF Upd, Terminal
<1>2. UNCHANGED <<now, replica, arrived, watcher, agent, k8s, patched>> /\ Resolve(o, u)
  BY DEF FailOperation
<1> HIDE DEF u
<1>3. handler[o] = "fail" /\ handler'[o] = "badgateway"
  BY DEF FailOperation, IndInv, TypeOK
<1>4. /\ RowInv(o)' /\ Story(o)'
      /\ row'[o].status = "none" <=> row[o].status = "none"
      /\ row'[o].at = row[o].at
  BY <1>1, <1>2, ResolveInv
<1>5. HandlerInv(o)'
  BY <1>3, <1>4 DEF IndInv, OpInv, HandlerInv
<1>6. WatcherInv(o)'
  BY <1>2, <1>3 DEF IndInv, OpInv, WatcherInv
<1>7. \A a \in Agent : AgentInv(a, o)'
  BY <1>2, <1>4 DEF IndInv, OpInv, AgentInv
<1> QED BY <1>4, <1>5, <1>6, <1>7 DEF OpInv

LEMMA HandlerStepInv ==
    ASSUME IndInv, TypeOK', NEW p \in Op, HandlerStep(p), NEW o \in Op
    PROVE  OpInv(o)'
<1>1. CASE o = p
  BY <1>1, AuthorizeInv, ResolveContainerInv, PutOperationInv, PatchInv, StartedInv, FailOperationInv
  DEF HandlerStep
<1>2. CASE o # p
  <2>1. UNCHANGED <<now, agent, replica>>
    BY DEF HandlerStep, Authorize, ResolveContainer, PutOperation, Patch, Started, FailOperation
  <2>2. handler'[o] = handler[o] /\ arrived'[o] = arrived[o] /\ watcher'[o] = watcher[o]
    BY <1>2 DEF IndInv, TypeOK, HandlerStep, Authorize, ResolveContainer, PutOperation, Patch,
                Started, FailOperation
  <2>3. row'[o] = row[o] /\ chat'[o] = chat[o] /\ patched'[o] = patched[o]
    BY <1>2 DEF IndInv, TypeOK, HandlerStep, Authorize, ResolveContainer, PutOperation, Patch,
                Started, FailOperation, Create, Resolve, Wrote
  <2>4. k8s'[Target[o]].generation >= k8s[Target[o]].generation
    <3>1. CASE UNCHANGED k8s
      BY <3>1, OpTypes DEF IndInv
    <3>2. CASE Bump(Target[p])
      BY <3>2, BumpType, TargetAssumption DEF IndInv
    <3> QED BY <3>1, <3>2 DEF HandlerStep, Authorize, ResolveContainer, PutOperation, Patch,
                              Started, FailOperation
  <2> QED BY <2>1, <2>2, <2>3, <2>4, Frame
<1> QED BY <1>1, <1>2

\* A watcher that moves on keeps the invariant if what it is about to write does.
LEMMA WatchMoveInv ==
    ASSUME IndInv, TypeOK', NEW p \in Op, NEW w, watcher[p].pc # "off",
           w.pc = "write" => /\ w.upd.status \in Terminal
                             /\ w.upd.why = "rollout" => w.upd.basis >= patched[p],
           watcher' = [watcher EXCEPT ![p] = w],
           UNCHANGED <<now, row, replica, handler, arrived, agent, k8s, patched, chat>>,
           NEW o \in Op
    PROVE  OpInv(o)'
<1>1. CASE o = p
  <2>1. watcher'[o] = w /\ handler'[o] = "accepted"
    BY <1>1 DEF IndInv, TypeOK, OpInv, WatcherInv
  <2>2. WatcherInv(o)'
    BY <1>1, <2>1 DEF WatcherInv
  <2>3. HandlerInv(o)' /\ RowInv(o)' /\ Story(o)' /\ \A a \in Agent : AgentInv(a, o)'
    BY DEF IndInv, OpInv, HandlerInv, Untouched, CtxAlive, RowInv, Story, AgentInv
  <2> QED BY <2>2, <2>3 DEF OpInv
<1>2. CASE o # p
  <2>1. watcher'[o] = watcher[o]
    BY <1>2 DEF IndInv, TypeOK
  <2>2. k8s'[Target[o]].generation >= k8s[Target[o]].generation
    BY OpTypes DEF IndInv
  <2> QED BY <2>1, <2>2, Frame
<1> QED BY <1>1, <1>2

\* A verdict read now is about a generation the controller has observed, and
\* that generation is no older than the operation's patch.
LEMMA VerdictCovers ==
    ASSUME IndInv, NEW o \in Op, EvaluateRollout(k8s[Target[o]]) # "progressing"
    PROVE  VerdictUpdate(k8s[Target[o]]).basis >= patched[o]
<1>1. k8s[Target[o]].observed >= k8s[Target[o]].generation
  BY VerdictFacts, DeploymentRead DEF IndInv
<1>2. k8s[Target[o]].generation >= patched[o]
  BY DEF IndInv, OpInv, RowInv
<1>3. VerdictUpdate(k8s[Target[o]]).basis = k8s[Target[o]].observed
  BY VerdictFacts, DeploymentRead DEF IndInv
<1> QED BY <1>1, <1>2, <1>3, OpTypes DEF IndInv

LEMMA WatchToInv ==
    ASSUME IndInv, TypeOK', NEW p \in Op, NEW pc, NEW u, watcher[p].pc # "off", WatchTo(p, pc, u),
           pc = "write" => /\ u.status \in Terminal
                           /\ u.why = "rollout" => u.basis >= patched[p],
           NEW o \in Op
    PROVE  OpInv(o)'
<1> DEFINE w == WatchAt(pc, watcher[p].deadline, u)
<1>1. w.pc = pc /\ w.upd = u
  BY DEF WatchAt
<1>2. watcher' = [watcher EXCEPT ![p] = w]
  BY DEF WatchTo
<1> HIDE DEF w
<1> QED BY <1>1, <1>2, WatchMoveInv DEF WatchTo

LEMMA JudgeInv ==
    ASSUME IndInv, TypeOK', NEW p \in Op, NEW pc \in {"loop", "watching"},
           watcher[p].pc # "off", Judge(p, pc), NEW o \in Op
    PROVE  OpInv(o)'
<1>1. CASE EvaluateRollout(k8s[Target[p]]) = "progressing"
  BY <1>1, WatchToInv DEF Judge
<1>2. CASE EvaluateRollout(k8s[Target[p]]) # "progressing"
  <2>1. WatchTo(p, "write", VerdictUpdate(k8s[Target[p]]))
    BY <1>2 DEF Judge
  <2>2. VerdictUpdate(k8s[Target[p]]).status \in Terminal
    BY VerdictFacts, DeploymentRead DEF IndInv
  <2>3. VerdictUpdate(k8s[Target[p]]).basis >= patched[p]
    BY <1>2, VerdictCovers
  <2> QED BY <2>1, <2>2, <2>3, WatchToInv
<1> QED BY <1>1, <1>2

LEMMA WatcherResolveInv ==
    ASSUME IndInv, TypeOK', NEW p \in Op, WatcherResolve(p), NEW o \in Op
    PROVE  OpInv(o)'
<1>1. UNCHANGED <<now, replica, handler, arrived, agent, k8s, patched>>
  BY DEF WatcherResolve
<1>2. CASE o # p
  <2>1. row'[o] = row[o] /\ chat'[o] = chat[o] /\ watcher'[o] = watcher[o]
    BY <1>2 DEF WatcherResolve, Resolve, Wrote, IndInv, TypeOK
  <2>2. k8s'[Target[o]].generation >= k8s[Target[o]].generation
    BY <1>1, OpTypes DEF IndInv
  <2> QED BY <1>1, <2>1, <2>2, Frame
<1>3. CASE o = p
  <2>1. /\ watcher[o].pc = "write" /\ watcher[o].upd \in Update
        /\ watcher'[o].pc = "off" /\ Resolve(o, watcher[o].upd)
    BY <1>3 DEF WatcherResolve, IndInv, TypeOK, Watcher, NoWatcher, WatchAt
  <2>2. /\ handler[o] = "accepted" /\ watcher[o].upd.status \in Terminal
        /\ watcher[o].upd.why = "rollout" => watcher[o].upd.basis >= patched[o]
    BY <2>1 DEF IndInv, OpInv, WatcherInv
  <2>3. /\ RowInv(o)' /\ Story(o)'
        /\ row'[o].status = "none" <=> row[o].status = "none"
        /\ row'[o].at = row[o].at
    BY <1>1, <2>1, <2>2, ResolveInv
  <2>4. HandlerInv(o)'
    BY <1>1, <2>2, <2>3 DEF IndInv, OpInv, HandlerInv
  <2>5. WatcherInv(o)'
    BY <2>1 DEF WatcherInv
  <2>6. \A a \in Agent : AgentInv(a, o)'
    BY <1>1, <2>3 DEF IndInv, OpInv, AgentInv
  <2> QED BY <2>3, <2>4, <2>5, <2>6 DEF OpInv
<1> QED BY <1>2, <1>3

LEMMA WatchStepInv ==
    ASSUME IndInv, TypeOK', NEW p \in Op, WatchStep(p), NEW o \in Op
    PROVE  OpInv(o)'
<1>1. CASE StartWatch(p)
  <2>1. PICK d : watcher' = [watcher EXCEPT ![p] = WatchAt("loop", now + d + WatchGrace, NoUpd)]
    BY <1>1 DEF StartWatch
  <2>2. WatchAt("loop", now + d + WatchGrace, NoUpd).pc = "loop"
    BY DEF WatchAt
  <2> QED BY <1>1, <2>1, <2>2, WatchMoveInv DEF StartWatch
<1>2. CASE EvalOnce(p)
  BY <1>2, JudgeInv, WatchToInv DEF EvalOnce
<1>3. CASE WatchEvent(p)
  BY <1>3, JudgeInv DEF WatchEvent
<1>4. CASE WatchClosed(p)
  BY <1>4, WatchToInv DEF WatchClosed
<1>5. CASE WatchTimeout(p)
  <2>1. /\ Upd("timeout", "deadline", 0).status \in Terminal
        /\ Upd("timeout", "deadline", 0).why # "rollout"
    BY DEF Upd, Terminal
  <2> QED BY <1>5, <2>1, WatchToInv DEF WatchTimeout
<1>6. CASE WatcherResolve(p)
  BY <1>6, WatcherResolveInv
<1> QED BY <1>1, <1>2, <1>3, <1>4, <1>5, <1>6 DEF WatchStep

\* A view of a row, current or lagging, has the time the row was stamped with.
LEMMA ViewFacts ==
    ASSUME IndInv, NEW o \in Op, NEW r \in Views(o), StaleView(r)
    PROVE  row[o].status # "none" /\ now - row[o].at > StaleAfter
<1>1. r = row[o] \/ (r.status # "none" /\ r = replica[o])
  BY DEF Views, StaleView
<1>2. r.status = "running" /\ now - r.at > StaleAfter
  BY DEF StaleView
<1>3. replica[o].status # "none" => row[o].status # "none" /\ replica[o].at = row[o].at
  BY DEF IndInv, OpInv, RowInv
<1> QED BY <1>1, <1>2, <1>3

\* An agent changes; the rows it holds stay as AgentInv wants them.
LEMMA AgentMoveInv ==
    ASSUME IndInv, NEW b \in Agent, NEW s, agent' = [agent EXCEPT ![b] = s], NEW o \in Op,
           o \in s.todo \cup s.writing => row[o].status # "none" /\ now - row[o].at > StaleAfter,
           o \in s.writing => /\ s.upd.status \in Terminal
                              /\ s.upd.why = "rollout" /\ patched[o] > 0 => s.upd.basis >= patched[o],
           UNCHANGED <<now, row, replica, handler, arrived, watcher, k8s, patched, chat>>
    PROVE  OpInv(o)'
<1>1. HandlerInv(o)' /\ RowInv(o)' /\ WatcherInv(o)' /\ Story(o)'
  BY DEF IndInv, OpInv, HandlerInv, Untouched, CtxAlive, RowInv, WatcherInv, Story
<1>2. ASSUME NEW a \in Agent PROVE AgentInv(a, o)'
  <2>1. CASE a = b
    <3>1. agent'[a] = s
      BY <2>1 DEF IndInv, TypeOK
    <3> QED BY <3>1 DEF AgentInv
  <2>2. CASE a # b
    <3>1. agent'[a] = agent[a]
      BY <2>2 DEF IndInv, TypeOK
    <3> QED BY <3>1 DEF IndInv, OpInv, AgentInv
  <2> QED BY <2>1, <2>2
<1> QED BY <1>1, <1>2 DEF OpInv

LEMMA SweepInv ==
    ASSUME IndInv, Sweep, NEW o \in Op PROVE OpInv(o)'
<1>1. PICK S \in SUBSET {q \in Op : \E r \in Views(q) : StaleView(r)} :
         agent' = [agent EXCEPT ![Sweeper] = [todo |-> S, writing |-> {}, upd |-> NoUpd]]
  BY DEF Sweep
<1>2. o \in S => row[o].status # "none" /\ now - row[o].at > StaleAfter
  BY ViewFacts
<1> DEFINE s == [todo |-> S, writing |-> {}, upd |-> NoUpd]
<1>3. s.todo = S /\ s.writing = {} /\ Sweeper \in Agent
  BY DEF Agent
<1> HIDE DEF s
<1> QED BY <1>1, <1>2, <1>3, AgentMoveInv DEF Sweep, s

LEMMA GetInv ==
    ASSUME IndInv, NEW g \in Getter, NEW p \in Op, Get(g, p), NEW o \in Op PROVE OpInv(o)'
<1> DEFINE s == [todo |-> {p}, writing |-> {}, upd |-> NoUpd]
<1>1. s.todo = {p} /\ s.writing = {} /\ g \in Agent /\ agent' = [agent EXCEPT ![g] = s]
  BY DEF Agent, Get
<1>2. row[p].status # "none" /\ now - row[p].at > StaleAfter
  BY ViewFacts DEF Get
<1> HIDE DEF s
<1> QED BY <1>1, <1>2, AgentMoveInv DEF Get

LEMMA ResolveRunningInv ==
    ASSUME IndInv, NEW b \in Agent, NEW p \in Op, ResolveRunning(b, p), NEW o \in Op
    PROVE  OpInv(o)'
<1> DEFINE s(u) == [todo |-> agent[b].todo \ {p}, writing |-> {p}, upd |-> u]
           k == k8s[Target[p]]
<1>1. UNCHANGED <<now, row, replica, handler, arrived, watcher, k8s, patched, chat>>
  BY DEF ResolveRunning
<1>2. p \in agent[b].todo
  BY DEF ResolveRunning
<1>3. \A q \in Op : q \in agent[b].todo => row[q].status # "none" /\ now - row[q].at > StaleAfter
  BY DEF IndInv, OpInv, AgentInv
<1>4. \A u : s(u).todo = agent[b].todo \ {p} /\ s(u).writing = {p} /\ s(u).upd = u
  OBVIOUS
<1>5. \/ agent' = [agent EXCEPT ![b] = s(Upd("timeout", "stale", 0))]
      \/ agent' = [agent EXCEPT ![b] = s(Upd("timeout", "unreadable", 0))]
      \/ EvaluateRollout(k) # "progressing" /\ agent' = [agent EXCEPT ![b] = s(VerdictUpdate(k))]
      \/ agent' = [agent EXCEPT ![b] = IdleAgent]
  BY DEF ResolveRunning
<1> HIDE DEF s
<1>6. CASE agent' = [agent EXCEPT ![b] = IdleAgent]
  <2>1. IdleAgent.todo = {} /\ IdleAgent.writing = {}
    BY DEF IdleAgent
  <2> QED BY <1>1, <1>6, <2>1, AgentMoveInv
<1>7. ASSUME NEW w \in {"stale", "unreadable"},
             agent' = [agent EXCEPT ![b] = s(Upd("timeout", w, 0))]
      PROVE  OpInv(o)'
  <2>1. Upd("timeout", w, 0).status \in Terminal /\ Upd("timeout", w, 0).why # "rollout"
    BY DEF Upd, Terminal
  <2> DEFINE t == s(Upd("timeout", w, 0))
  <2>2. t.upd.status \in Terminal /\ t.upd.why # "rollout"
    BY <1>4, <2>1
  <2>3. o \in t.todo \cup t.writing => row[o].status # "none" /\ now - row[o].at > StaleAfter
    BY <1>2, <1>3, <1>4
  <2>4. agent' = [agent EXCEPT ![b] = t]
    BY <1>7
  <2> HIDE DEF t
  <2>5. o \in t.writing =>
           /\ t.upd.status \in Terminal
           /\ t.upd.why = "rollout" /\ patched[o] > 0 => t.upd.basis >= patched[o]
    BY <2>2
  <2> QED BY <1>1, <2>3, <2>4, <2>5, AgentMoveInv
<1>8. CASE EvaluateRollout(k) # "progressing" /\ agent' = [agent EXCEPT ![b] = s(VerdictUpdate(k))]
  <2>1. VerdictUpdate(k).status \in Terminal
    BY VerdictFacts, DeploymentRead DEF IndInv
  <2>2. VerdictUpdate(k).basis >= patched[p]
    BY <1>8, VerdictCovers
  <2> DEFINE t == s(VerdictUpdate(k))
  <2>3. o \in t.writing => t.upd.status \in Terminal /\ t.upd.basis >= patched[o]
    BY <1>4, <2>1, <2>2
  <2>4. o \in t.todo \cup t.writing => row[o].status # "none" /\ now - row[o].at > StaleAfter
    BY <1>2, <1>3, <1>4
  <2>5. agent' = [agent EXCEPT ![b] = t]
    BY <1>8
  <2> HIDE DEF t
  <2> QED BY <1>1, <2>3, <2>4, <2>5, AgentMoveInv
<1> QED BY <1>5, <1>6, <1>7, <1>8

LEMMA AgentResolveInv ==
    ASSUME IndInv, TypeOK', NEW b \in Agent, NEW p \in Op, AgentResolve(b, p), NEW o \in Op
    PROVE  OpInv(o)'
<1>1. UNCHANGED <<now, replica, handler, arrived, watcher, k8s, patched>>
  BY DEF AgentResolve, AgentDone
<1>2. \A a \in Agent : agent'[a].todo = agent[a].todo /\ (agent'[a] = agent[a] \/ agent'[a].writing = {})
  BY DEF AgentResolve, AgentDone, IndInv, TypeOK
<1>3. CASE o # p
  <2>1. row'[o] = row[o] /\ chat'[o] = chat[o]
    BY <1>3 DEF AgentResolve, Resolve, Wrote, IndInv, TypeOK
  <2>2. HandlerInv(o)' /\ RowInv(o)' /\ WatcherInv(o)' /\ Story(o)'
    BY <1>1, <2>1 DEF IndInv, OpInv, HandlerInv, Untouched, CtxAlive, RowInv, WatcherInv, Story
  <2>3. \A a \in Agent : AgentInv(a, o)'
    BY <1>1, <1>2, <2>1 DEF IndInv, OpInv, AgentInv
  <2> QED BY <2>2, <2>3 DEF OpInv
<1>4. CASE o = p
  <2>1. o \in agent[b].writing /\ agent[b].upd \in Update /\ Resolve(o, agent[b].upd)
    BY <1>4 DEF AgentResolve, IndInv, TypeOK, AgentState
  <2>2. /\ row[o].status # "none" /\ agent[b].upd.status \in Terminal
        /\ agent[b].upd.why = "rollout" /\ patched[o] > 0 => agent[b].upd.basis >= patched[o]
    BY <2>1 DEF IndInv, OpInv, AgentInv
  <2>3. /\ RowInv(o)' /\ Story(o)'
        /\ row'[o].status = "none" <=> row[o].status = "none"
        /\ row'[o].at = row[o].at
    BY <1>1, <2>1, <2>2, ResolveInv
  <2>4. ~(handler[o] \in {"patch", "started"} /\ CtxAlive(o))
    BY <2>1, OutOfReach
  <2>5. HandlerInv(o)'
    BY <1>1, <2>2, <2>3, <2>4 DEF IndInv, OpInv, HandlerInv, Untouched, CtxAlive
  <2>6. WatcherInv(o)'
    BY <1>1 DEF IndInv, OpInv, WatcherInv
  <2>7. \A a \in Agent : AgentInv(a, o)'
    BY <1>1, <1>2, <2>3 DEF IndInv, OpInv, AgentInv
  <2> QED BY <2>3, <2>5, <2>6, <2>7 DEF OpInv
<1> QED BY <1>3, <1>4

LEMMA ReplicateInv ==
    ASSUME IndInv, NEW p \in Op, Replicate(p), NEW o \in Op PROVE OpInv(o)'
<1>1. replica'[o] = replica[o] \/ replica'[o] = row[o]
  BY DEF Replicate, IndInv, TypeOK
<1>2. HandlerInv(o)' /\ WatcherInv(o)' /\ Story(o)' /\ \A a \in Agent : AgentInv(a, o)'
  BY DEF Replicate, IndInv, OpInv, HandlerInv, Untouched, CtxAlive, WatcherInv, Story, AgentInv
<1>3. RowInv(o)'
  BY <1>1 DEF Replicate, IndInv, OpInv, RowInv
<1> QED BY <1>2, <1>3 DEF OpInv

\* The cluster moves on: generations only grow.
LEMMA ClusterInv ==
    ASSUME IndInv, TypeOK', NEW d \in Deployment, Edit(d) \/ ControllerSync(d), NEW o \in Op
    PROVE  OpInv(o)'
<1>1. k8s'[Target[o]].generation >= k8s[Target[o]].generation
  <2>1. CASE Edit(d)
    BY <2>1, BumpType, TargetAssumption DEF Edit, IndInv
  <2>2. CASE ControllerSync(d)
    <3>1. k8s'[Target[o]].generation = k8s[Target[o]].generation
      BY <2>2, TargetAssumption DEF ControllerSync, Dep, IndInv, TypeOK
    <3> QED BY <3>1, OpTypes DEF IndInv
  <2> QED BY <2>1, <2>2
<1> QED BY <1>1, Frame DEF Edit, ControllerSync

LEMMA CrashInv ==
    ASSUME IndInv, Crash, NEW o \in Op PROVE OpInv(o)'
<1>1. /\ handler'[o] = handler[o] \/ handler'[o] = "lost"
      /\ watcher'[o].pc = "off"
      /\ UNCHANGED <<now, row, replica, arrived, k8s, patched, chat>>
  BY DEF Crash, IndInv, TypeOK, NoWatcher, WatchAt
<1>2. \A a \in Agent : agent'[a].todo = {} /\ agent'[a].writing = {}
  BY DEF Crash, IdleAgent
<1>3. HandlerInv(o)' /\ RowInv(o)' /\ Story(o)'
  BY <1>1 DEF IndInv, OpInv, HandlerInv, Untouched, CtxAlive, RowInv, Story
<1>4. WatcherInv(o)' /\ \A a \in Agent : AgentInv(a, o)'
  BY <1>1, <1>2 DEF WatcherInv, AgentInv
<1> QED BY <1>3, <1>4 DEF OpInv

\* Time only takes contexts away and only makes rows staler.
LEMMA TickInv ==
    ASSUME IndInv, Tick, NEW o \in Op PROVE OpInv(o)'
<1>1. /\ now' = now + 1
      /\ handler[o] = "started" => now < arrived[o] + RequestTimeout
      /\ UNCHANGED <<row, replica, handler, arrived, watcher, agent, k8s, patched, chat>>
  BY DEF Tick
<1>2. CtxAlive(o)' => CtxAlive(o)
  BY <1>1, OpTypes DEF CtxAlive, IndInv
<1>3. handler[o] = "started" => CtxAlive(o)'
  BY <1>1, OpTypes DEF CtxAlive, IndInv
<1>4. HandlerInv(o)'
  BY <1>1, <1>2, <1>3 DEF IndInv, OpInv, HandlerInv, Untouched
<1>5. RowInv(o)' /\ WatcherInv(o)' /\ Story(o)'
  BY <1>1 DEF IndInv, OpInv, RowInv, WatcherInv, Story
<1>6. now - row[o].at > StaleAfter => now' - row[o].at > StaleAfter
  BY <1>1, OpTypes DEF IndInv
<1>7. \A a \in Agent : AgentInv(a, o)'
  BY <1>1, <1>6 DEF IndInv, OpInv, AgentInv
<1> QED BY <1>4, <1>5, <1>7 DEF OpInv

LEMMA StutterInv ==
    ASSUME IndInv, UNCHANGED vars, NEW o \in Op PROVE OpInv(o)'
BY DEF vars, IndInv, OpInv, HandlerInv, Untouched, CtxAlive, RowInv, WatcherInv, Story, AgentInv

LEMMA NextInv == IndInv /\ [Next]_vars => IndInv'
<1> SUFFICES ASSUME IndInv, [Next]_vars PROVE IndInv'
  OBVIOUS
<1>1. TypeOK'
  BY NextType DEF IndInv
<1>2. ASSUME NEW o \in Op PROVE OpInv(o)'
  BY <1>1, HandlerStepInv, WatchStepInv, ReplicateInv, SweepInv, GetInv, ResolveRunningInv,
     AgentResolveInv, ClusterInv, CrashInv, TickInv, StutterInv DEF Next
<1> QED BY <1>1, <1>2 DEF IndInv

(* The inductive invariant holds throughout. *)
THEOREM Inductive == Spec => []IndInv
BY InitInv, NextInv, PTL DEF Spec

-----------------------------------------------------------------------------
(* The safety properties.                                                  *)

(* No operation whose patch landed is judged on the rollout before it: the
   generation behind a recorded verdict is at least the one its patch made. *)
THEOREM VerdictsCoverPatches == Spec => []VerdictCoversPatch
<1>1. IndInv => VerdictCoversPatch
  BY DEF IndInv, OpInv, RowInv, VerdictCoversPatch
<1> QED BY <1>1, Inductive, PTL

(* The messages of an operation are a prefix of "running" and its recorded
   outcome, however many writers race for the terminal write. *)
THEOREM ChatIsTruthful == Spec => []ChatTellsTheStory
<1>1. IndInv => ChatTellsTheStory
  BY DEF IndInv, OpInv, ChatTellsTheStory
<1> QED BY <1>1, Inductive, PTL

(* What the HTTP answers promise about the row and the patch holds. *)
THEOREM ResponsesAreTruthful == Spec => []ResponseTellsTruth
<1>1. IndInv => ResponseTellsTruth
  BY DEF IndInv, OpInv, HandlerInv, Untouched, ResponseTellsTruth
<1> QED BY <1>1, Inductive, PTL

(* No sweep and no GET touches an operation whose request is still alive. *)
THEOREM LiveRequestsUndisturbed == Spec => []LiveRequestUndisturbed
<1>1. IndInv => LiveRequestUndisturbed
  BY OutOfReach DEF IndInv, OpInv, HandlerInv, LiveRequestUndisturbed
<1> QED BY <1>1, Inductive, PTL

-----------------------------------------------------------------------------
(* The audit trail.                                                        *)

\* What one step may do to the row and the messages of each operation.
TrailStep == Trail!Next \/ UNCHANGED Trail!trail

\* A step that leaves every status and message alone is a stutter.
LEMMA TrailStutter ==
    ASSUME UNCHANGED <<row, chat>> PROVE TrailStep
BY DEF TrailStep, Trail!trail

LEMMA TrailRecord ==
    ASSUME TypeOK, NEW o \in Op, row[o].status = "none", UNCHANGED chat, NEW s \in {"running", "denied"},
           NEW r, r.status = s, row' = [row EXCEPT ![o] = r]
    PROVE  TrailStep
<1>1. [q \in Op |-> row'[q].status] = [[q \in Op |-> row[q].status] EXCEPT ![o] = s]
  BY DEF TypeOK
<1>2. Trail!Record(o, s)
  BY <1>1 DEF Trail!Record
<1> QED BY <1>2 DEF TrailStep, Trail!Next

LEMMA TrailResolve ==
    ASSUME TypeOK, NEW o \in Op, NEW u, u.status \in Terminal, Resolve(o, u)
    PROVE  TrailStep
<1>1. CASE UNCHANGED <<row, chat>>
  BY <1>1, TrailStutter
<1>2. CASE Wrote(o, u)
  <2>1. [q \in Op |-> row'[q].status] = [[q \in Op |-> row[q].status] EXCEPT ![o] = u.status]
    BY <1>2 DEF TypeOK, Wrote
  <2>2. Trail!Resolve(o, u.status)
    BY <1>2, <2>1 DEF Trail!Resolve, Trail!Terminal, Terminal, Wrote
  <2> QED BY <2>2 DEF TrailStep, Trail!Next, Trail!Terminal, Terminal
<1> QED BY <1>1, <1>2 DEF Resolve

LEMMA TrailAuthorize ==
    ASSUME IndInv, NEW o \in Op, Authorize(o) PROVE TrailStep
<1>1. row[o].status = "none" /\ UNCHANGED chat
  BY DEF IndInv, OpInv, HandlerInv, Untouched, Authorize
<1>2. CASE UNCHANGED row
  BY <1>1, <1>2, TrailStutter
<1>3. CASE Create(o, NewRow("denied", "policy", now))
  <2>1. NewRow("denied", "policy", now).status = "denied"
    BY DEF NewRow
  <2> QED BY <1>1, <1>3, <2>1, TrailRecord DEF Create, IndInv
<1> QED BY <1>2, <1>3 DEF Authorize

LEMMA TrailPut ==
    ASSUME IndInv, NEW o \in Op, PutOperation(o) PROVE TrailStep
<1>1. row[o].status = "none" /\ UNCHANGED chat
  BY DEF IndInv, OpInv, HandlerInv, Untouched, PutOperation
<1>2. CASE UNCHANGED row
  BY <1>1, <1>2, TrailStutter
<1>3. CASE \E t \in arrived[o] .. now : Create(o, NewRow("running", "", t))
  <2>1. \A t : NewRow("running", "", t).status = "running"
    BY DEF NewRow
  <2>2. PICK t : row' = [row EXCEPT ![o] = NewRow("running", "", t)]
    BY <1>3 DEF Create
  <2> QED BY <1>1, <2>1, <2>2, TrailRecord DEF IndInv
<1> QED BY <1>2, <1>3 DEF PutOperation

LEMMA TrailStarted ==
    ASSUME IndInv, NEW o \in Op, Started(o) PROVE TrailStep
<1>1. row[o].status = "running" /\ chat[o] = << >>
  BY DEF IndInv, OpInv, HandlerInv, Started
<1>2. Append(<< >>, "running") = <<"running">>
  OBVIOUS
<1>3. chat' = [chat EXCEPT ![o] = <<"running">>] /\ UNCHANGED row
  BY <1>1, <1>2 DEF Started
<1>4. Trail!Announce(o)
  BY <1>1, <1>3 DEF Trail!Announce
<1> QED BY <1>4 DEF TrailStep, Trail!Next

LEMMA TrailNext ==
    ASSUME IndInv, [Next]_vars PROVE TrailStep
<1>1. CASE \E o \in Op : Authorize(o) \/ PutOperation(o) \/ Started(o)
  BY <1>1, TrailAuthorize, TrailPut, TrailStarted
<1>2. CASE \E o \in Op : FailOperation(o)
  <2>1. Upd("failed", "patch", 0).status \in Terminal
    BY DEF Upd, Terminal
  <2> QED BY <1>2, <2>1, TrailResolve DEF FailOperation, IndInv
<1>3. CASE \E o \in Op : WatcherResolve(o)
  <2>1. PICK o \in Op : WatcherResolve(o)
    BY <1>3
  <2>2. watcher[o].upd.status \in Terminal /\ Resolve(o, watcher[o].upd)
    BY <2>1 DEF WatcherResolve, IndInv, OpInv, WatcherInv
  <2> QED BY <2>2, TrailResolve DEF IndInv
<1>4. CASE \E a \in Agent, o \in Op : AgentResolve(a, o)
  <2>1. PICK a \in Agent, o \in Op : AgentResolve(a, o)
    BY <1>4
  <2>2. agent[a].upd.status \in Terminal /\ Resolve(o, agent[a].upd)
    BY <2>1 DEF AgentResolve, IndInv, OpInv, AgentInv
  <2> QED BY <2>2, TrailResolve DEF IndInv
<1>5. CASE UNCHANGED <<row, chat>>
  BY <1>5, TrailStutter
<1>6. CASE \E o \in Op : WatchStep(o) /\ ~WatcherResolve(o)
  BY <1>6, <1>5 DEF WatchStep, StartWatch, EvalOnce, WatchEvent, WatchClosed, WatchTimeout, Judge, WatchTo
<1>7. CASE \/ \E o \in Op : ResolveContainer(o) \/ Patch(o) \/ Replicate(o)
           \/ Sweep \/ Crash \/ Tick \/ UNCHANGED vars
           \/ \E g \in Getter, o \in Op : Get(g, o)
           \/ \E a \in Agent, o \in Op : ResolveRunning(a, o)
           \/ \E d \in Deployment : Edit(d) \/ ControllerSync(d)
  BY <1>7, <1>5 DEF ResolveContainer, Patch, Replicate, Sweep, Crash, Tick, vars, Get,
     ResolveRunning, Edit, ControllerSync
<1> QED BY <1>1, <1>2, <1>3, <1>4, <1>6, <1>7 DEF Next, HandlerStep, WatchStep

(* The gateway implements AuditTrail: rows are created once and resolved once,
   and the channel hears at most the start and the recorded outcome. *)
THEOREM Refinement == Spec => ImplementsAuditTrail
<1>1. Init => Trail!Init
  <2> SUFFICES ASSUME Init PROVE Trail!Init
    OBVIOUS
  <2>1. [o \in Op |-> row[o].status] = [o \in Op |-> "none"]
    BY DEF Init, NoRow
  <2> QED BY <2>1 DEF Init, Trail!Init
<1>2. IndInv /\ [Next]_vars => [Trail!Next]_(Trail!trail)
  BY TrailNext DEF TrailStep
<1> QED BY <1>1, <1>2, Inductive, PTL DEF Spec, ImplementsAuditTrail, Trail!Spec

-----------------------------------------------------------------------------
(* Terminal rows.                                                          *)

\* A step writes one row at most, and only one that is new or running.
LEMMA RowStep ==
    ASSUME IndInv, [Next]_vars
    PROVE  \/ UNCHANGED row
           \/ \E p \in Op : \E r : row[p].status \in {"none", "running"} /\ row' = [row EXCEPT ![p] = r]
<1>1. CASE \E o \in Op : Authorize(o) \/ PutOperation(o)
  <2>1. PICK o \in Op : Authorize(o) \/ PutOperation(o)
    BY <1>1
  <2>2. row[o].status = "none"
    BY <2>1 DEF IndInv, OpInv, HandlerInv, Untouched, Authorize, PutOperation
  <2>3. UNCHANGED row \/ \E r : row' = [row EXCEPT ![o] = r]
    BY <2>1 DEF Authorize, PutOperation, Create
  <2> QED BY <2>2, <2>3
<1>2. ASSUME NEW o \in Op, NEW u, Resolve(o, u)
      PROVE  \/ UNCHANGED row
             \/ \E p \in Op : \E r : row[p].status \in {"none", "running"} /\ row' = [row EXCEPT ![p] = r]
  BY <1>2 DEF Resolve, Wrote
<1>3. CASE \E o \in Op : FailOperation(o) \/ WatcherResolve(o)
  BY <1>2, <1>3 DEF FailOperation, WatcherResolve
<1>4. CASE \E a \in Agent, o \in Op : AgentResolve(a, o)
  BY <1>2, <1>4 DEF AgentResolve
<1>5. CASE \E o \in Op : WatchStep(o) /\ ~WatcherResolve(o)
  BY <1>5 DEF WatchStep, StartWatch, EvalOnce, WatchEvent, WatchClosed, WatchTimeout, Judge, WatchTo
<1>6. CASE \/ \E o \in Op : ResolveContainer(o) \/ Patch(o) \/ Started(o) \/ Replicate(o)
           \/ Sweep \/ Crash \/ Tick \/ UNCHANGED vars
           \/ \E g \in Getter, o \in Op : Get(g, o)
           \/ \E a \in Agent, o \in Op : ResolveRunning(a, o)
           \/ \E d \in Deployment : Edit(d) \/ ControllerSync(d)
  BY <1>6 DEF ResolveContainer, Patch, Started, Replicate, Sweep, Crash, Tick, vars, Get,
     ResolveRunning, Edit, ControllerSync
<1> QED BY <1>1, <1>3, <1>4, <1>5, <1>6 DEF Next, HandlerStep, WatchStep

(* No step, of whichever writer, changes a row that is resolved or denied. *)
THEOREM TerminalRowsAreFinal == Spec => TerminalIsFinal
<1>1. IndInv /\ [Next]_vars =>
         [\A o \in Op : row[o].status \in Terminal \cup {"denied"} => row'[o] = row[o]]_vars
  <2> SUFFICES ASSUME IndInv, [Next]_vars, NEW o \in Op, row[o].status \in Terminal \cup {"denied"}
               PROVE  row'[o] = row[o]
    OBVIOUS
  <2>1. row[o].status \notin {"none", "running"}
    BY DEF Terminal
  <2> QED BY <2>1, RowStep DEF IndInv, TypeOK
<1> QED BY <1>1, Inductive, PTL DEF Spec, TerminalIsFinal

=============================================================================
