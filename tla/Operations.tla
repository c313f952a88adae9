----------------------------- MODULE Operations -----------------------------
(***************************************************************************)
(* The life of a deployment operation in the gateway: the HTTP handler that *)
(* records it and patches the Deployment, the goroutine that watches the    *)
(* rollout, the sweeper and the lazy GET that resolve what a dead process   *)
(* left behind, and the audit table they all write to.                      *)
(*                                                                          *)
(* internal/api/server.go, internal/operation/{manager,reconcile}.go,       *)
(* internal/store and internal/kube; Kubernetes and DynamoDB are external.  *)
(***************************************************************************)
EXTENDS Integers, FiniteSets, Sequences, RolloutReport

CONSTANTS
    Op,                 \* one element per deploy request ever made
    Deployment,         \* the Deployments of the cluster
    Target,             \* Target[o]: the Deployment that request o names
    Editable,           \* the Deployments that others than the gateway edit, too
    Getter,             \* concurrent GET /v1/operations/{id} requests
    Sweeper,            \* the sweeper goroutine
    ProgressDeadline,   \* ProgressDeadline[d]: progressDeadlineSeconds, 0 if unset
    DefaultDeadline,    \* Manager.defaultDeadline
    WatchGrace,         \* what watchRollout adds to the deadline (2 min)
    StaleAfter,         \* staleAfter (2 h)
    RequestTimeout,     \* middleware.Timeout of the router (30 s)
    Report,             \* bound: what the controller may report of a rollout
    LastRequest,        \* bound: no request arrives after this time
    MaxNow,             \* bound on the clock
    MaxGeneration,      \* bound on a Deployment's generation
    MaxCrashes          \* bound on process deaths

Agent == Getter \cup {Sweeper}

ASSUME TargetAssumption == Target \in [Op -> Deployment]
ASSUME AgentAssumption == Sweeper \notin Getter
ASSUME ClockAssumption ==
    /\ ProgressDeadline \in [Deployment -> Nat]
    /\ {DefaultDeadline, WatchGrace, StaleAfter, RequestTimeout, LastRequest} \subseteq Nat
    /\ {MaxNow, MaxGeneration, MaxCrashes} \subseteq Nat
\* staleAfter is two hours, a request lives thirty seconds
ASSUME StaleAssumption == RequestTimeout < StaleAfter

VARIABLES
    now,                \* the clock
    row,                \* row[o]: the audit row of o, as last written
    replica,            \* replica[o]: that row as an eventually consistent Scan may still show it
    handler,            \* handler[o]: where the request's handler is, or how it answered
    arrived,            \* arrived[o]: when the request came in
    watcher,            \* watcher[o]: the watchRollout goroutine of o
    agent,              \* agent[a]: a resolver, working through stale rows
    k8s,                \* k8s[d]: what the API server says of Deployment d
    patched,            \* patched[o]: the generation the patch of o made, 0 for none
    chat,               \* chat[o]: the messages handed to the notifier for o
    crashes             \* how often the process has died

vars == <<now, row, replica, handler, arrived, watcher, agent, k8s, patched, chat, crashes>>

Terminal == {"succeeded", "failed", "timeout"}
Status   == Terminal \cup {"none", "running", "denied"}

\* Why a row is terminal: its error code, with the messages of TIMEOUT told apart
\* and "rollout" for both verdicts of EvaluateRollout.
Why == {"", "policy", "patch", "rollout", "deadline", "unreadable", "stale"}

\* A terminal update, with the generation that EvaluateRollout judged it on.
Update == [status : Terminal \cup {"none"}, why : Why, basis : Nat]
Upd(s, w, b) == [status |-> s, why |-> w, basis |-> b]
NoUpd == Upd("none", "", 0)

Row == [status : Status, why : Why, at : Nat, basis : Nat]
NoRow == [status |-> "none", why |-> "", at |-> 0, basis |-> 0]
NewRow(s, w, t) == [status |-> s, why |-> w, at |-> t, basis |-> 0]

Working  == {"resolve", "put", "putfail", "patch", "started", "fail"}
Answered == {"refused", "forbidden", "unrecorded", "badgateway", "accepted"}
Handler  == {"idle", "lost"} \cup Working \cup Answered

Watcher == [pc : {"off", "start", "loop", "watching", "write"},
            deadline : Nat, upd : Update]
WatchAt(pc, t, u) == [pc |-> pc, deadline |-> t, upd |-> u]
NoWatcher == WatchAt("off", 0, NoUpd)

AgentState == [todo : SUBSET Op, writing : SUBSET Op, upd : Update]
IdleAgent == [todo |-> {}, writing |-> {}, upd |-> NoUpd]

ASSUME ReportAssumption == Report \subseteq RolloutState

Init ==
    /\ now = 0
    /\ row = [o \in Op |-> NoRow]
    /\ replica = [o \in Op |-> NoRow]
    /\ handler = [o \in Op |-> "idle"]
    /\ arrived = [o \in Op |-> 0]
    /\ watcher = [o \in Op |-> NoWatcher]
    /\ agent = [a \in Agent |-> IdleAgent]
    /\ k8s = [d \in Deployment |-> Dep(1, 1, "complete")]
    /\ patched = [o \in Op |-> 0]
    /\ chat = [o \in Op |-> << >>]
    /\ crashes = 0

-----------------------------------------------------------------------------
(* The store.                                                              *)

\* What one read of o's row can return: Scan is not a consistent read.
Views(o) == {row[o], replica[o]}

Create(o, r) == row' = [row EXCEPT ![o] = r]

\* Mutant: UpdateTerminal without its condition "#st = :running".
WroteUnguarded(o, u) ==
    /\ row[o].status # "none"
    /\ row' = [row EXCEPT ![o] = [status |-> u.status, why |-> u.why,
                                  at |-> row[o].at, basis |-> u.basis]]
    /\ chat' = [chat EXCEPT ![o] = Append(@, u.status)]

\* UpdateTerminal on a running row, and the message its winner then sends. The
\* answer of the write can be lost: the row is terminal and nobody is told.
Wrote(o, u) ==
    /\ row[o].status = "running"
    /\ row' = [row EXCEPT ![o] = [status |-> u.status, why |-> u.why,
                                  at |-> row[o].at, basis |-> u.basis]]
    /\ \/ chat' = [chat EXCEPT ![o] = Append(@, u.status)]
       \/ UNCHANGED chat

\* Mutant: resolve notifies although the write was refused.
ResolveNotifiesAnyway(o, u) ==
    \/ Wrote(o, u)
    \/ UNCHANGED row /\ chat' = [chat EXCEPT ![o] = Append(@, u.status)]

\* Manager.resolve: the write wins; or the row was terminal already, a lagging
\* Scan did not find it, or the store failed, and the update is dropped.
Resolve(o, u) == Wrote(o, u) \/ UNCHANGED <<row, chat>>

Replicate(o) ==
    /\ replica[o] # row[o]
    /\ replica' = [replica EXCEPT ![o] = row[o]]
    /\ UNCHANGED <<now, row, handler, arrived, watcher, agent, k8s, patched, chat, crashes>>

-----------------------------------------------------------------------------
(* Kubernetes, as the gateway sees it.                                     *)

\* Mutant: the evaluation's word for success is stored as the status.
VerdictUnmapped(k) == Upd(EvaluateRollout(k), "rollout", k.observed)

\* The terminal update a verdict turns into (completeOperation, failOperation).
VerdictUpdate(k) ==
    Upd(IF EvaluateRollout(k) = "complete" THEN "succeeded" ELSE "failed",
        "rollout", k.observed)

\* A change of the pod template: a new generation the controller has not seen.
Bump(d) ==
    k8s' = [k8s EXCEPT ![d] = Dep(k8s[d].generation + 1, k8s[d].observed, k8s[d].rollout)]

\* Somebody other than the gateway edits the Deployment.
Edit(d) ==
    /\ d \in Editable
    /\ k8s[d].generation < MaxGeneration
    /\ Bump(d)
    /\ UNCHANGED <<now, row, replica, handler, arrived, watcher, agent, patched, chat, crashes>>

\* The controller observes the spec and reports how its rollout stands.
ControllerSync(d) ==
    /\ \E r \in Report :
          k8s' = [k8s EXCEPT ![d] = Dep(k8s[d].generation, k8s[d].generation, r)]
    /\ UNCHANGED <<now, row, replica, handler, arrived, watcher, agent, patched, chat, crashes>>

-----------------------------------------------------------------------------
(* The handlers of POST /v1/deployments/restart and /rollout.              *)

\* The request context: cancelled RequestTimeout after arrival, at the latest.
CtxAlive(o) == now <= arrived[o] + RequestTimeout

\* authorize: no decision is a 503 without a row; a refusal writes a denied row,
\* best effort; a permit goes on to Restart or Rollout, which first looks the
\* container up when the request names none.
Authorize(o) ==
    /\ handler[o] = "idle"
    /\ now <= LastRequest
    /\ arrived' = [arrived EXCEPT ![o] = now]
    /\ \/ /\ handler' = [handler EXCEPT ![o] = "refused"]
          /\ UNCHANGED row
       \/ /\ handler' = [handler EXCEPT ![o] = "forbidden"]
          /\ Create(o, NewRow("denied", "policy", now)) \/ UNCHANGED row
       \/ /\ \E h \in {"put", "resolve"} : handler' = [handler EXCEPT ![o] = h]
          /\ UNCHANGED row
    /\ UNCHANGED <<now, replica, watcher, agent, k8s, patched, chat, crashes>>

\* resolveContainer: one container goes on, several are the caller's mistake,
\* none or an unreadable Deployment is recorded as a failed rollout.
ResolveContainer(o) ==
    /\ handler[o] = "resolve"
    /\ \E h \in {"put", "refused", "putfail"} : handler' = [handler EXCEPT ![o] = h]
    /\ UNCHANGED <<now, row, replica, arrived, watcher, agent, k8s, patched, chat, crashes>>

\* Mutant: the error of PutOperation is dropped and the patch goes ahead.
PutErrorIgnored(o) ==
    /\ handler[o] \in {"put", "putfail"}
    /\ \/ CtxAlive(o) /\ \E t \in arrived[o] .. now : Create(o, NewRow("running", "", t))
       \/ UNCHANGED row
    /\ handler' = [handler EXCEPT ![o] = IF handler[o] = "put" THEN "patch" ELSE "fail"]
    /\ UNCHANGED <<now, replica, arrived, watcher, agent, k8s, patched, chat, crashes>>

\* PutOperation of a running row stamped before the call. An error, or the end
\* of the request context, answers 503 whether or not the row got written.
PutOperation(o) ==
    /\ handler[o] \in {"put", "putfail"}
    /\ \/ /\ CtxAlive(o)
          /\ \E t \in arrived[o] .. now : Create(o, NewRow("running", "", t))
          /\ \/ handler' = [handler EXCEPT ![o] = IF handler[o] = "put" THEN "patch" ELSE "fail"]
             \/ handler' = [handler EXCEPT ![o] = "unrecorded"]
       \/ /\ handler' = [handler EXCEPT ![o] = "unrecorded"]
          /\ UNCHANGED row
    /\ UNCHANGED <<now, replica, arrived, watcher, agent, k8s, patched, chat, crashes>>

\* RestartDeployment or RolloutDeployment: the patch always changes the template
\* (restartStamp), so it makes a generation. An error may hide an applied patch.
Patch(o) ==
    /\ handler[o] = "patch"
    /\ \/ /\ CtxAlive(o)
          /\ k8s[Target[o]].generation < MaxGeneration
          /\ Bump(Target[o])
          /\ patched' = [patched EXCEPT ![o] = k8s[Target[o]].generation + 1]
          /\ \E h \in {"started", "fail"} : handler' = [handler EXCEPT ![o] = h]
       \/ /\ handler' = [handler EXCEPT ![o] = "fail"]
          /\ UNCHANGED <<k8s, patched>>
    /\ UNCHANGED <<now, row, replica, arrived, watcher, agent, chat, crashes>>

\* The tail of Restart and Rollout: announce, start the watcher, answer 202.
Started(o) ==
    /\ handler[o] = "started"
    /\ handler' = [handler EXCEPT ![o] = "accepted"]
    /\ chat' = [chat EXCEPT ![o] = Append(@, "running")]
    /\ watcher' = [watcher EXCEPT ![o] = WatchAt("start", 0, NoUpd)]
    /\ UNCHANGED <<now, row, replica, arrived, agent, k8s, patched, crashes>>

\* Mutant: the failure is stored by a plain PutOperation of the whole row.
FailOverwrites(o) ==
    /\ handler[o] = "fail"
    /\ row' = [row EXCEPT ![o] = [status |-> "failed", why |-> "patch", at |-> row[o].at, basis |-> 0]]
    /\ handler' = [handler EXCEPT ![o] = "badgateway"]
    /\ UNCHANGED <<now, replica, arrived, watcher, agent, k8s, patched, chat, crashes>>

\* failOperation with K8S_PATCH_FAILED, then the 502 that names the operation.
FailOperation(o) ==
    /\ handler[o] = "fail"
    /\ Resolve(o, Upd("failed", "patch", 0))
    /\ handler' = [handler EXCEPT ![o] = "badgateway"]
    /\ UNCHANGED <<now, replica, arrived, watcher, agent, k8s, patched, crashes>>

-----------------------------------------------------------------------------
(* watchRollout: at the top of its loop or backing off ("loop"), reading the *)
(* watch stream ("watching"), or about to resolve ("write").                *)

WatchTo(o, pc, u) ==
    /\ watcher' = [watcher EXCEPT ![o] = WatchAt(pc, watcher[o].deadline, u)]
    /\ UNCHANGED <<now, row, replica, handler, arrived, agent, k8s, patched, chat, crashes>>

Expired(o) == now >= watcher[o].deadline

ProgressDeadlineOf(d) == IF ProgressDeadline[d] > 0 THEN ProgressDeadline[d] ELSE DefaultDeadline

\* The first GET fixes the deadline; if it fails the default stands in. (Bound:
\* it comes back while the deadline still lies within the modelled time.)
StartWatch(o) ==
    /\ watcher[o].pc = "start"
    /\ \E d \in {ProgressDeadlineOf(Target[o]), DefaultDeadline} :
       /\ now + d + WatchGrace <= MaxNow
       /\ watcher' = [watcher EXCEPT ![o] = WatchAt("loop", now + d + WatchGrace, NoUpd)]
    /\ UNCHANGED <<now, row, replica, handler, arrived, agent, k8s, patched, chat, crashes>>

\* Judge the Deployment as read; a verdict is to be written, else go on to pc.
Judge(o, pc) ==
    IF EvaluateRollout(k8s[Target[o]]) = "progressing"
    THEN WatchTo(o, pc, NoUpd)
    ELSE WatchTo(o, "write", VerdictUpdate(k8s[Target[o]]))

\* A round of the loop before its deadline: evalOnce, whose GET may fail and is
\* then no verdict, and WatchDeployment, which opens the stream or fails.
EvalOnce(o) ==
    /\ watcher[o].pc = "loop"
    /\ ~Expired(o)
    /\ \E pc \in {"watching", "loop"} : Judge(o, pc) \/ WatchTo(o, pc, NoUpd)

WatchEvent(o) == watcher[o].pc = "watching" /\ Judge(o, "watching")

\* The stream closes: dropped, 410 Gone, or the deadline cancelled it.
WatchClosed(o) == watcher[o].pc = "watching" /\ WatchTo(o, "loop", NoUpd)

\* Mutant: an expired watch is reopened instead of given up.
WatchExpiredAgain(o) ==
    /\ watcher[o].pc = "loop"
    /\ Expired(o)
    /\ WatchTo(o, "watching", NoUpd)

\* The deadline is met in sleepCtx or at the top of the loop: timeoutOperation.
WatchTimeout(o) ==
    /\ watcher[o].pc = "loop"
    /\ Expired(o)
    /\ WatchTo(o, "write", Upd("timeout", "deadline", 0))

\* The goroutine's one resolve, after which it returns whatever came of it.
WatcherResolve(o) ==
    /\ watcher[o].pc = "write"
    /\ Resolve(o, watcher[o].upd)
    /\ watcher' = [watcher EXCEPT ![o] = NoWatcher]
    /\ UNCHANGED <<now, replica, handler, arrived, agent, k8s, patched, crashes>>

-----------------------------------------------------------------------------
(* The sweeper and the lazy GET.                                           *)

\* Mutant: every running row is taken for an orphan, whatever its age.
AnyRunningView(r) == r.status = "running"

StaleView(r) == r.status = "running" /\ now - r.at > StaleAfter

Idle(a) == agent[a].todo = {} /\ agent[a].writing = {}

\* ReconcileSweep lists the running rows past staleAfter; each may be seen as
\* it is or as a lagging replica still has it.
Sweep ==
    /\ Idle(Sweeper)
    /\ \E S \in SUBSET {o \in Op : \E r \in Views(o) : StaleView(r)} :
          /\ S # {}
          /\ {o \in Op : \A r \in Views(o) : StaleView(r)} \subseteq S
          /\ agent' = [agent EXCEPT ![Sweeper] = [todo |-> S, writing |-> {}, upd |-> NoUpd]]
    /\ UNCHANGED <<now, row, replica, handler, arrived, watcher, k8s, patched, chat, crashes>>

\* Manager.Get of a running row past staleAfter; any other read changes nothing.
Get(g, o) ==
    /\ Idle(g)
    /\ \E r \in Views(o) : StaleView(r)
    /\ agent' = [agent EXCEPT ![g] = [todo |-> {o}, writing |-> {}, upd |-> NoUpd]]
    /\ UNCHANGED <<now, row, replica, handler, arrived, watcher, k8s, patched, chat, crashes>>

\* Mutant: a row whose Deployment cannot be read is left for the next sweep.
ResolveReadableOnly(a, o) ==
    /\ agent[a].writing = {}
    /\ o \in agent[a].todo
    /\ LET k == k8s[Target[o]]
           u == IF EvaluateRollout(k) = "progressing" THEN Upd("timeout", "stale", 0) ELSE VerdictUpdate(k)
       IN  \/ agent' = [agent EXCEPT ![a] = [todo |-> agent[a].todo \ {o}, writing |-> {o}, upd |-> u]]
           \/ agent' = [agent EXCEPT ![a] = [todo |-> agent[a].todo \ {o}, writing |-> {}, upd |-> NoUpd]]
    /\ UNCHANGED <<now, row, replica, handler, arrived, watcher, k8s, patched, chat, crashes>>

\* resolveRunning, up to the write: one GET of the Deployment decides; a row
\* whose request was cancelled meanwhile is skipped.
ResolveRunning(a, o) ==
    /\ agent[a].writing = {}
    /\ o \in agent[a].todo
    /\ LET k == k8s[Target[o]]
           Decide(u) == agent' = [agent EXCEPT ![a] =
                            [todo |-> agent[a].todo \ {o}, writing |-> {o}, upd |-> u]]
       IN  \/ IF EvaluateRollout(k) = "progressing"
              THEN Decide(Upd("timeout", "stale", 0))
              ELSE Decide(VerdictUpdate(k))
           \/ Decide(Upd("timeout", "unreadable", 0))
           \/ /\ a # Sweeper
              /\ agent' = [agent EXCEPT ![a] = IdleAgent]
    /\ UNCHANGED <<now, row, replica, handler, arrived, watcher, k8s, patched, chat, crashes>>

\* ... and the write, for a row this agent was alone to see as running.
AgentDone(a) ==
    /\ agent' = [agent EXCEPT ![a] = [todo |-> agent[a].todo, writing |-> {}, upd |-> NoUpd]]
    /\ UNCHANGED <<now, replica, handler, arrived, watcher, k8s, patched, crashes>>

AgentWrites(a, o) ==
    /\ o \in agent[a].writing
    /\ Wrote(o, agent[a].upd)
    /\ AgentDone(a)

AgentResolve(a, o) ==
    /\ o \in agent[a].writing
    /\ Resolve(o, agent[a].upd)
    /\ AgentDone(a)

-----------------------------------------------------------------------------
(* The process and the clock.                                              *)

\* The process dies and is restarted: whatever was in memory is gone.
Crash ==
    /\ crashes < MaxCrashes
    /\ crashes' = crashes + 1
    /\ handler' = [o \in Op |-> IF handler[o] \in Working THEN "lost" ELSE handler[o]]
    /\ watcher' = [o \in Op |-> NoWatcher]
    /\ agent' = [a \in Agent |-> IdleAgent]
    /\ UNCHANGED <<now, row, replica, arrived, k8s, patched, chat>>

\* Between a patch that succeeded and the announcement there is no call to wait
\* for, so the handler gets there before the request's time is up.
Tick ==
    /\ now < MaxNow
    /\ \A o \in Op : handler[o] = "started" => now < arrived[o] + RequestTimeout
    /\ now' = now + 1
    /\ UNCHANGED <<row, replica, handler, arrived, watcher, agent, k8s, patched, chat, crashes>>

HandlerStep(o) == \/ Authorize(o) \/ ResolveContainer(o) \/ PutOperation(o)
                  \/ Patch(o) \/ Started(o) \/ FailOperation(o)

WatchStep(o) == \/ StartWatch(o) \/ EvalOnce(o) \/ WatchEvent(o) \/ WatchClosed(o)
                \/ WatchTimeout(o) \/ WatcherResolve(o)

Next ==
    \/ \E o \in Op : HandlerStep(o) \/ WatchStep(o) \/ Replicate(o)
    \/ Sweep
    \/ \E g \in Getter, o \in Op : Get(g, o)
    \/ \E a \in Agent, o \in Op : ResolveRunning(a, o) \/ AgentResolve(a, o)
    \/ \E d \in Deployment : Edit(d) \/ ControllerSync(d)
    \/ Crash
    \/ Tick

Spec == Init /\ [][Next]_vars

(***************************************************************************)
(* Fairness. The clock goes on; a goroutine that can run does; the ticker   *)
(* keeps waking the sweeper; replication catches up; and the deadline's     *)
(* context really closes a watch. The store may fail any number of times,   *)
(* but not every time the sweeper writes to the same row: strong fairness.  *)
(* Nothing is assumed of clients, of GET requests or of Kubernetes.         *)
(***************************************************************************)
Fairness ==
    /\ WF_vars(Tick)
    /\ WF_vars(Sweep)
    /\ WF_vars(\E o \in Op : ResolveRunning(Sweeper, o) \/ AgentResolve(Sweeper, o))
    /\ \A o \in Op :
          /\ WF_vars(Replicate(o))
          /\ WF_vars(Started(o))
          /\ WF_vars(WatchTimeout(o) \/ WatcherResolve(o))
          /\ WF_vars(Expired(o) /\ WatchClosed(o))
          /\ SF_vars(AgentWrites(Sweeper, o))

FairSpec == Spec /\ Fairness

-----------------------------------------------------------------------------
(* Properties.                                                             *)

(* Every variable has its type, and a resolver writes one row at a time. *)
TypeOK ==
    /\ now \in Nat
    /\ row \in [Op -> Row]
    /\ replica \in [Op -> Row]
    /\ handler \in [Op -> Handler]
    /\ arrived \in [Op -> Nat]
    /\ watcher \in [Op -> Watcher]
    /\ agent \in [Agent -> AgentState]
    /\ k8s \in [Deployment -> DeploymentState]
    /\ patched \in [Op -> Nat]
    /\ chat \in [Op -> Seq(Status)]
    /\ crashes \in Nat

(* The terminal write is single (store: "#st = :running"): whatever watcher,
   handler, sweeper and GET do at the same time, and whatever a lagging replica
   still shows them, a resolved or denied row is never written again. *)
TerminalIsFinal ==
    [][\A o \in Op : row[o].status \in Terminal \cup {"denied"} => row'[o] = row[o]]_vars

\* What may have been said of o.
Story(o) ==
    \/ chat[o] \in {<< >>, <<"running">>}
    \/ /\ row[o].status \in Terminal
       /\ chat[o] \in {<<row[o].status>>, <<"running", row[o].status>>}

(* Manager.resolve notifies only when it won: the channel hears nothing, or that
   the operation started, and after that at most one outcome, which is the
   recorded one; an outcome is never followed by a late "started". *)
ChatTellsTheStory == \A o \in Op : Story(o)

(* EvaluateRollout's generation check: an operation whose patch landed is called
   succeeded, or failed by its rollout, only on what the controller reported
   after observing that patch; never on the rollout that preceded it, even when
   the judge is a sweep after a crash, or slept between reading and writing. *)
VerdictCoversPatch ==
    \A o \in Op : row[o].why = "rollout" /\ patched[o] > 0 => row[o].basis >= patched[o]

(* What the HTTP answers promise: 202 means recorded and patched, 502 means
   recorded, and an answer that refuses the request (503, 403, 400) means the
   Deployment was left alone, however late the calls behind it came back. *)
ResponseTellsTruth ==
    \A o \in Op :
        /\ handler[o] = "accepted" => row[o].status # "none" /\ patched[o] > 0
        /\ handler[o] = "badgateway" => row[o].status # "none"
        /\ handler[o] \in {"refused", "forbidden", "unrecorded"} => patched[o] = 0

(* staleAfter outlasts the request timeout: no sweep or GET resolves, or says a
   word about, an operation whose handler is still between PutOperation and the
   announcement with a live request context. *)
LiveRequestUndisturbed ==
    \A o \in Op : handler[o] \in {"patch", "started"} /\ CtxAlive(o) =>
        /\ row[o].status = "running"
        /\ chat[o] = << >>
        /\ \A a \in Agent : o \notin agent[a].todo \cup agent[a].writing

(* "no op stuck running forever": after a crash at any point, a dropped terminal
   write or a row nobody watches, the sweeper still resolves it in the end. *)
NoOpStuckRunning == \A o \in Op : row[o].status = "running" ~> row[o].status # "running"

(* A watchRollout goroutine that has its deadline returns: the deadline ends the
   loop from each of its states, whatever the API server does. (The GET before
   it has no timeout, so nothing is claimed of a goroutine stuck in that.) *)
WatcherEnds ==
    \A o \in Op : watcher[o].pc \in {"loop", "watching", "write"} ~> watcher[o].pc = "off"

(* The audit rows and the messages behave as AuditTrail promises. *)
Trail == INSTANCE AuditTrail WITH status <- [o \in Op |-> row[o].status], told <- chat
ImplementsAuditTrail == Trail!Spec

(***************************************************************************)
(* The inductive invariant behind the safety properties, by what it is      *)
(* about. Its core is why the two kinds of writers cannot meet: a resolver  *)
(* holds only rows older than staleAfter, and by then the request that could *)
(* still patch has lost its context.                                        *)
(***************************************************************************)

\* Before its row is written an operation has left no trace.
Untouched(o) == row[o].status = "none" /\ patched[o] = 0 /\ chat[o] = << >>

HandlerInv(o) ==
    /\ handler[o] \in {"idle", "resolve", "put", "putfail", "refused"} => Untouched(o)
    /\ handler[o] \in {"forbidden", "unrecorded", "patch"} => patched[o] = 0
    /\ handler[o] \in {"patch", "started", "fail", "accepted", "badgateway"} => row[o].status # "none"
    /\ handler[o] \in {"patch", "started"} /\ CtxAlive(o) =>
          row[o].status = "running" /\ chat[o] = << >>
    /\ handler[o] = "started" => CtxAlive(o)
    /\ handler[o] \in {"started", "accepted"} => patched[o] > 0

RowInv(o) ==
    /\ row[o].status # "none" => row[o].at >= arrived[o]
    /\ row[o].why = "rollout" => row[o].status \in Terminal
    /\ replica[o].status # "none" => row[o].status # "none" /\ replica[o].at = row[o].at
    /\ k8s[Target[o]].generation >= patched[o]
    /\ row[o].why = "rollout" /\ patched[o] > 0 => row[o].basis >= patched[o]

WatcherInv(o) ==
    /\ watcher[o].pc # "off" => handler[o] = "accepted"
    /\ watcher[o].pc = "write" =>
          /\ watcher[o].upd.status \in Terminal
          /\ watcher[o].upd.why = "rollout" => watcher[o].upd.basis >= patched[o]

AgentInv(a, o) ==
    /\ o \in agent[a].todo \cup agent[a].writing =>
          row[o].status # "none" /\ now - row[o].at > StaleAfter
    /\ o \in agent[a].writing =>
          /\ agent[a].upd.status \in Terminal
          /\ agent[a].upd.why = "rollout" /\ patched[o] > 0 => agent[a].upd.basis >= patched[o]

OpInv(o) ==
    /\ HandlerInv(o)
    /\ RowInv(o)
    /\ WatcherInv(o)
    /\ Story(o)
    /\ \A a \in Agent : AgentInv(a, o)

IndInv == TypeOK /\ \A o \in Op : OpInv(o)

(* README: "An operation reports succeeded only once every running pod is a new
   pod"; so at least its patch must have landed. *)
SuccessImpliesPatched == \A o \in Op : row[o].status = "succeeded" => patched[o] > 0
=============================================================================
