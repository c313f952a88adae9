# deploy-gateway in TLA+

A verification development for the deploy gateway (`src/`): a small Go service that lets a
GitHub workflow restart or roll out a Kubernetes Deployment, records every request in DynamoDB,
watches the rollout, and tells a Telegram chat how it went. The modules here model the parts of
the gateway where the order of events matters; TLC checks them on small instances and TLAPS
proves their safety properties for every value of their constants.

## 1. The system

| component | state it keeps | operations | hard behaviour |
|---|---|---|---|
| API server, `internal/api/server.go` | the requests in flight, each with a 30 s context | POST restart / rollout, GET operation, health | the context ends between any two calls of a handler; an answer has to be true of the row and of the Deployment |
| operation manager, `internal/operation/manager.go` | one goroutine per accepted operation | `Restart`, `Rollout`, `resolve`, `watchRollout`, `Get` | record, patch, announce, watch are separate calls; the process may die between any two |
| reconciler, `internal/operation/reconcile.go` | the sweeper goroutine | `ReconcileSweep`, `resolveRunning` | judges rows a dead process left, racing live watchers, GETs and another sweep |
| audit store, `internal/store` | the rows in DynamoDB (or a map) | `PutOperation`, `UpdateTerminal`, `Get`, list of stale rows | every read an eventually consistent, paged `Scan` that others write between; times compared as text; lookup and conditional update two requests; a write whose answer is lost |
| Kubernetes client and rollout evaluation, `internal/kube` | none (the cluster's) | patch, get, watch, `EvaluateRollout` | the report right after a patch is about the previous generation; the verdict has counts, not pods, to go by |
| notifier, `internal/notify` | two goroutines per operation, a message handle | `Started`, `Resolved`, `call` | two goroutines, retries, requests that outlive their client |
| Keycloak authorizer, `internal/keycloak/{authorizer,cache,client}.go` | three TTL caches | `Authorize` | caches stacked on caches, concurrent fills, stale permits during an outage |
| Keycloak token source and client, `internal/keycloak/{token,client}.go` | the token and its expiry, the resource server's UUID | `Token`, `Invalidate`, `do`, `ResourceServerUUID` | two mutexes held across HTTP requests, one inside the other; two attempts; 401 for a token that others use too |
| policy file, ref matching, shadow, `internal/authz` | the parsed policy | `Authorize`, `MatchRef` | lists that mean "everything" when empty and "nothing" when malformed; the shadow, called after the primary, must not hold it up |
| OIDC verifier, `internal/authn` | none of its own | `Verify` | delegates to a library |
| gateway process, `cmd/gateway/main.go` | all goroutines | start, shutdown | SIGTERM ends every goroutine wherever it is |

How they interact. A handler asks the authorizer (bounded by `AuthzTimeout`); on a permit the
manager writes a running row, patches the Deployment, hands "started" to the notifier, starts a
`watchRollout` goroutine and answers 202. The watcher re-evaluates the Deployment on every watch
event until a verdict or its deadline, and then resolves the row. The sweeper (every minute) and a
GET of a stale row resolve rows that have been running for more than `staleAfter`. All writers meet in
`UpdateTerminal`, a DynamoDB update conditional on the row still being running, and only the
writer that wins tells the notifier. Nothing else is shared: the manager holds no table of live
operations, so after a crash the row and the Deployment are all there is.

What makes each part correct:

- *operations*: a row is resolved once; a verdict is about the operation's own patch; the chat
  hears the recorded outcome, once, after the start; an HTTP answer is true; no row stays running
  for ever; no resolver touches an operation whose request is still being served;
- *authorizer*: a change of the policy takes effect within a bound that the TTLs give, whatever
  the interleaving; a failure is never a denial; a denial never outlives its reason;
- *notifier*: the outcome does not overtake the start message and edits it in place; no goroutine
  waits for ever;
- *audit store*: the table behaves like an atomic map; a list of stale rows misses none and has no
  young one; what a caller is told about a row is so;
- *rollout evaluation*: "complete" is true of the pods; no verdict survives a patch; in the end
  there is one;
- *Keycloak client*: a retry after a 401 has a new token, no token expires in flight, every call
  ends, and ends in time;
- *policies*: a list of patterns means what its comment says; an edit acts in its own direction and on
  its own action only.

`PROJECT.json` lists the components with what is left out of each, every hazard at its line with
the properties that would catch it, and the map from definitions to source lines.

## 2. Modules

| module | models | composes |
|---|---|---|
| `AuditTrail` | the promise about a row and its messages, whoever writes | |
| `Operations` | API handlers, manager, reconciler, store, Kubernetes as the gateway sees it | instantiates `AuditTrail` |
| `MCOperations` | constants for TLC | extends `Operations` |
| `OperationsProofs` | theorems | extends `Operations` |
| `Authorizer` | `Authorize` with its caches, Keycloak's policy | |
| `MCAuthorizer` | constants and symmetries for TLC | extends `Authorizer` |
| `AuthorizerProofs` | theorems | extends `Authorizer` |
| `Notifier` | `Started`, `Resolved`, `transport.call`, the Bot API | uses a guarantee of `Operations` |
| `NotifierProofs` | theorems | extends `Notifier` |
| `RolloutReport` | a Deployment summed up in one word, and the verdict on it | extended by `Operations` |
| `Rollout` | `EvaluateRollout`, the patches, a cluster of pods | instantiates `RolloutReport` |
| `RolloutProofs` | theorems | extends `Rollout` |
| `InMemStore` | the store as an atomic map (`inmem.go`) | |
| `DynamoStore` | the store on DynamoDB (`dynamo.go`) | instantiates `InMemStore` |
| `DynamoStoreProofs` | theorems | extends `DynamoStore` |
| `KeycloakClient` | token, UUID, the two attempts of `do`, under the contexts of their callers | the inside of one request of `Authorizer` |
| `KeycloakClientProofs` | theorems | extends `KeycloakClient` |
| `Policies` | ref constraints and policy file while they are edited | says what the set of refs in `Authorizer` stands for |
| `PoliciesProofs` | theorems | extends `Policies` |

### Operations

| variable | in the code |
|---|---|
| `row`, `replica` | the DynamoDB item; what an eventually consistent `Scan` may still return. `basis` is a history field: the generation `EvaluateRollout` judged on |
| `handler`, `arrived` | where the POST handler is, or the answer it gave; the request context is alive until `arrived + RequestTimeout` |
| `watcher` | the goroutine `watchRollout`: about to read the deadline (`start`), at the top of its loop or backing off (`loop`), reading the stream (`watching`), about to `resolve` (`write`) |
| `agent` | the sweeper and GET requests: rows still to be judged, the row whose verdict is about to be written |
| `k8s` | generation, observed generation and what the controller says of the rollout |
| `patched`, `chat` | history: the generation an operation's patch made; the messages handed to the notifier |

One action per call that can block, fail or be interrupted: `Authorize`, `ResolveContainer`,
`PutOperation`, `Patch`, `Started`, `FailOperation` for the handlers; `StartWatch`, `EvalOnce`,
`WatchEvent`, `WatchClosed`, `WatchTimeout`, `WatcherResolve` for the watcher; `Sweep`, `Get`,
`ResolveRunning`, `AgentResolve` for the resolvers; `Replicate`, `Edit`, `ControllerSync`,
`Crash`, `Tick` for the surroundings. Choices worth knowing:

- Every write can fail with or without effect. `PutOperation` answering 503 may have stored the
  row; a patch that reports an error may have been applied; `Wrote` may change the row with
  nobody told.
- A call made with the request context takes effect only while that context is alive.
  `failOperation`, the watcher and the sweeper use their own contexts, as in the code.
- The verdict is read in one step and written in another, so anything may happen in between.
- `Edit` stands for any change of the template by somebody else; a deleted Deployment is a GET
  that fails. A GET or an extra resolver also stands for one in another pod during a rolling
  update, since resolvers share nothing but the table.
- Between a successful patch and the announcement the code makes no call, so `Tick` waits for
  `Started`. This is the only urgency in the module. It matters for the order of "started" and
  the outcome, which are hours apart (`StaleAfter`) in a process that is scheduled at all.
- SIGTERM is `Crash`: `main` shuts the HTTP server down, but watchers run on the background
  context and are simply gone.

### Authorizer

`proc[p]` is one `Authorize` call. A state `user`, `grant` or `refs` means that the HTTP request
of `UserID`, `Evaluate` or `AllowedRefs` is in flight; what the code does locally after an answer
(store in a cache, look up the next cache) is part of the step that takes the answer. Each fact of
Keycloak's policy carries the time it last changed, and an answer may tell whatever was so at some
moment since the request was sent. Successes arrive within `Budget` (`AuthzTimeout`); a failure
may come later, because the waits for the token's and the UUID's mutex do not watch the context.
A ref constraint is the set of refs it matches (`Policies` is about the patterns). The token, the
one-time lookup of the resource server's UUID and the retry after a 401 are folded into "a request
fails" (`KeycloakClient` has them); a user keeps its Keycloak id for as long as it exists.

### Notifier

Both goroutines of one operation. An attempt is answered, is lost before or after it was carried
out, is refused, or is given up on while it is still under way (`late`) and may land at any later
time. `sendTimeout` and the retry delays are among the ways an attempt ends; a call as a whole
ends with `CallTimeout`. `Resolved` is called at most once per operation and never before
`Started`: `Operations` shows this (`ChatTellsTheStory`). After a crash only the sweeper, without a
handle, resolves.

### Rollout

`spec` is what the API server stores (generation, template, replicas), `pod` the pods with their
template and how far they have come, `status` the counts and the condition that the controller
last reported. `Patch` is `RestartDeployment`, or `RolloutDeployment` to the tag that is already there:
the stamp is all that changes the template. `EvaluateRollout` compares the four counts with the
desired number, as the code does; it never sees `pod`. The cluster is external: a rolling update
with `maxSurge` 1 and `maxUnavailable` 0, the case that the comment in `rollout.go` is about,
with containers that crash, somebody who scales, and a controller that reports whenever it gets to it.
The history variable `seen` keeps what was so when the status was made. `report` sums a Deployment
up as `Operations` has it, and `AgreesWithReport` shows that both draw the same verdict, so that the report in
`Operations` may be taken for the real thing.

### DynamoStore

`row[i]` is the item of operation i, numbered in the order in which a `Scan` meets the items; `call[c]` the
store operation that c is in, with the page it is at and what it has collected. One action per request to
DynamoDB: a page of `ListRunningPastDeadline`, a page of `findOperation` (for `GetOperation` and for
`UpdateTerminal`), an `UpdateItem`. A page counts evaluated items, may be short, and may end with a key although
nothing follows. The code scans without `ConsistentRead`: `past[i]` holds the versions of item i that were
overwritten less than `Lag` ago, and a page shows each item in any one of them, so that it misses a row put
before, or shows as running one that is resolved. `requested_at` is taken before `PutItem` is sent
(`manager.go`), so `PutOperation` lands up to `PutDelay` after its stamp. Times are formatted by their digits: `Format` drops trailing zeros as RFC3339Nano does, and
`Before` is the order of the strings. `schema` is the table's key, which the code does not know: composite, hash
only, or hash only where DynamoDB words the error of a key that does not fit otherwise than `isKeySchemaMismatch`
looks for (`reworded`), in which case `UpdateTerminal` fails without trying the second key. `DropTable` deletes the table (`none`): Scans fail,
and an `UpdateItem` that follows an earlier lookup is `ErrNotFound`. An update whose answer is lost is an error, or `ErrAlreadyTerminal` when the SDK repeats it.
`Others` stands for the other goroutines, of which only the effect on the table is kept.

### KeycloakClient

`call[p]` is one call into the client: `mu`, `uuidMu`, `invalidate` are waits for a mutex, `token` and
`admin` requests in flight. The mutexes are queues, whose head is the holder: Go hands a mutex to the longest
waiter once it has waited for a millisecond, so nobody starves, and no wait looks at the context. A request ends with the
context or with the HTTP client's timeout, whichever is first. A 401 is possible for any token
(revoked, expired, other keys). `Invalidate` drops whatever token is cached when it gets the mutex,
which may be a newer one than the rejected. The clock does not pass while somebody holds a mutex
without a request in flight.

### Policies

Refs and patterns are sequences of characters, so that prefixes and the position of the star are
real. `AllowedRefs` picks the attribute, `MatchRef` validates and matches, `FileAuthorize` is
`Policy.Authorize`; the actions are the edits that administrators make of them. A permission with lists is the
permissions with every pair of their elements. The file is read once per process: its edits stand
for the files of successive starts.

## 3. Runs

| run | instance | shows |
|---|---|---|
| `operations_safety` | one request, a GET, the sweeper, a foreign edit, a crash | `ChatTellsTheStory`, `VerdictCoversPatch`, `ResponseTellsTruth`, `LiveRequestUndisturbed`, `TerminalIsFinal`, and that the rows and messages implement `AuditTrail` |
| `operations_liveness` | the same without the GET, with fairness | `NoOpStuckRunning`, `WatcherEnds`, the inductive invariant `IndInv` |
| `authorizer` | two calls for the same request, answers that take time, one policy change | `RevocationTakesEffect`, `NarrowingTakesEffect`, `DeletionTakesEffect`, `GrantingIsImmediate`, the inductive invariant `IndInv` |
| `notifier_safety` | both goroutines, three attempts, a crash | `TypeOK`, `EditsInPlace`, `NoOvertaking`, `ResolvedEnds`, the inductive invariant `IndInv` |
| `rollout` | three pod names, replicas 0, 1 (unset) or 2, two patches, a scaling, a crashing container | `CompleteIsTrue`, `AgreesWithReport`, `PatchStartsOver`, `Converges`, the inductive invariant `IndInv` |
| `dynamo_store` | two rows, pages of one item, a second of four units, every key schema, a lag of two units, puts one unit late, a table that is deleted | `ListComplete`, `ListSound`, `AnswerIsTrue`, `CallsEnd`, that the table implements `InMemStore`, the inductive invariant `IndInv` |
| `keycloak_client` | two calls, two tokens, short and long lifetimes | `RetryCarriesNewToken`, `InFlightTokenValid`, `CallsEnd`, the inductive invariant `IndInv` |
| `policies` | refs of up to two letters, two patterns per list, two actions, five edits | `ListDenotes`, `EditsAreMonotone`, `ActionsAreApart`, `PermissionsAddUp` |
| `operations_never_patched`, `authorizer_narrowing`, `notifier_inversion`, `keycloak_stall` | | the findings of section 6, each a counterexample |

Bounds, and why they are enough:

- *Operations.* Time is scaled: what matters is the order of the request timeout, the watcher's
  deadline and `staleAfter`, and the clock runs until each has passed. `MaxGeneration` leaves room
  for the operation's own patch and a second change that supersedes it before or after the verdict
  is read: a foreign edit, which to the operation is no different from another request's patch.
  The proofs cover any number of requests. One GET besides the sweeper
  gives two resolvers that race each other and the watcher. One crash suffices, since a restarted
  process has nothing in memory that a second crash could lose. `StartWatch` is taken only while the deadline it
  fixes is within the modelled time; a goroutine stuck in that GET is a behaviour of the model too.
- *Authorizer.* With TTLs and a budget of 1 and a clock up to 5, entries expire, are refilled and
  expire again after the policy changed, while an older answer is still under way. One change
  suffices: each property compares one fact with one answer. Calls from two refs, which share the
  constraint and not the decision, are in `authorizer_narrowing` and in the proofs.
- *Notifier.* `HandleWait` is one more than `CallTimeout`, as in the code, three attempts as in
  the code, and the clock reaches past `StaleAfter` plus a wait and a call.
- *Rollout.* Three names leave room for the surge pod of two replicas. Two patches follow each
  other within a second (`Second` is two units), a third would find nothing new.
- *DynamoStore.* Two rows on pages of one: the second is on a later page and is written while the first
  is read. A second of 2^2 units has fractions of no, one and two digits, so both shapes that
  the order of the texts gets wrong occur (a point before `Z`, a digit before `Z`). The clock starts with the second second (`Start`), so that a row
  stamped in the first one is stale, by the seconds too, before the clock ends, and then expires. With
  `Lag` 2 and `PutDelay` 1, whose sum is `StaleAfter`, the bound of `AnswerIsTrue` is reached: a lookup
  does miss a row stamped two units before it.
- *KeycloakClient.* Two calls: one that renews, one that waits behind it. Two tokens, the one
  rejected and its successor; a lifetime below the skew and one above. More callers make the
  queues longer and add no kind of step.
- *Policies.* With two letters, refs of two and a star there are patterns that match exactly, by
  prefix, everything and nothing, and malformed ones of both kinds. Five edits set, fill and shorten a list beside another.

Deadlock: in `Notifier` a finished operation has nothing left to do and in `Policies` the number of edits is
bounded, so their configurations turn the check off. The other models always have the controller
or the callers left to act.

Fairness (`FairSpec` of `Operations`). Weak fairness of the clock, of the ticker that starts a sweep, of
the sweeper's steps, of replication, of the announcement, of the watcher's timeout and write, and
of the closing of an expired watch, whose context the code cancels. Strong fairness only of a
sweeper write that succeeds: a store that fails every single time would keep a row running, one
that fails any number of times and then once does not does not. Nothing is assumed of clients, GET
requests, the API server's reports or the rest of the watcher's loop. In `Notifier`: goroutines
run and an attempt ends, because the HTTP client has a timeout. In `KeycloakClient`: a request under way ends, because the HTTP
client gives up, and who gets a mutex runs. In `DynamoStore`: a request under way ends. That is an
assumption about the environment, not a guarantee of the code: `UpdateTerminal` runs under a background context, and the AWS SDK has
no response timeout of its own. In both nobody has to begin a call. In `Rollout`: the controller reports and pods make progress,
each weakly fair, in a cluster with room for them; patches, scalings and crashes are not fair and are bounded,
as `Converges` is about a Deployment that is left alone in the end.

## 4. Proofs

Every invariant and every action property of the runs, and both refinements, are theorems. They hold for any number of operations,
Deployments, GETs, calls, goroutines, rows, pods, patterns and crashes, and for all durations,
under the named assumptions of the modules, which TLC evaluates on every run.
Each module but `Policies` has an inductive invariant `IndInv`, which a run checks and the proofs
establish; its parts stand at the end of the module under "Why the properties hold".

*OperationsProofs.* Assumptions: a target per request, a sweeper that is no GET, natural numbers, reports among the three kinds,
and `RequestTimeout < StaleAfter` (30 s and 2 h). `IndInv` strengthens the properties by one
fact per actor. The core is `AgentInv`: a resolver holds only rows older than `StaleAfter`, even
when it saw them in a lagging replica, because the time stamp of a row never changes (`RowInv`).
A handler that may still patch has a live context (`HandlerInv`), so its row is younger than that, and
the two cannot meet; from this follow that a resolver's verdict is read after the patch it
judges and covers its generation, and that "started" never follows an outcome. Without the
lower bound `row.at >= arrived` and the agreement of row and replica the invariant is not inductive.
Proved: type correctness, `IndInv`, `TerminalIsFinal`, `VerdictCoversPatch`,
`ChatTellsTheStory`, `ResponseTellsTruth`, `LiveRequestUndisturbed`, and the refinement of
`AuditTrail` step by step.

*AuthorizerProofs.* Assumption: durations are natural numbers. `IndInv` says what each cache
entry still rests on: an entry stored at t rests on a fact that held at t - `Budget` or later, because
the call that stored it began no earlier; a PERMIT rests on entries up to a TTL older than itself.
That is why the bounds add up, and why the order in which concurrent calls fill the caches does
not matter. Proved: type correctness, `IndInv`, `RevocationTakesEffect`, `NarrowingTakesEffect`,
`DeletionTakesEffect`, `GrantingIsImmediate`.

*NotifierProofs.* Assumptions: natural numbers, at least one attempt, `CallTimeout < HandleWait`
(`handleWait` is `callTimeout` plus a second) and `RequestTimeout + CallTimeout < StaleAfter` (a minute and two
hours). The core is `WaitsForCall`: the call that `Resolved` waits for began before the wait did, so it
ends within `CallTimeout` of it (`ContextsHold`) and settles the handle (`HandleSettles`) before the
timer of `Message.wait` can fire. That is `TimerNeverFires`: the timer is a safeguard that is never used. So no outcome is sent while
`Started` still sends (`OutcomeComesLast`). Without the last part, that an outcome which is edited in
is in one place only, `NoOvertaking` does not follow. Proved: `IndInv`, `TypeOK`, `EditsInPlace`,
`NoOvertaking`, and `TimerNeverFires`.

*KeycloakClientProofs.* Assumptions: natural numbers, and `2 * HTTPTimeout <= Skew`: a token request
and an admin request fit into `refreshSkew`. `LocksInOrder` says who is in which queue: exactly the
calls that want the mutex, once each, and whoever asks for a token inside the lookup of the UUID holds
`uuidMu` meanwhile. Nobody waits for `uuidMu` with `mu` in hand, the order that keeps two locks from a
deadlock. `TokensInOrder` is why a retry has a new token although `Invalidate` may drop
somebody else's: after it the cache is empty or holds a later token than the rejected one, whoever
fills it. `TokensLast` adds up one request for the issue of a token and one for its use. Proved:
type correctness, `IndInv`, `LocksInOrder`, `RetryCarriesNewToken`, `InFlightTokenValid`.

*RolloutProofs.* Assumptions: a finite set of pods, natural numbers, a second that is not zero. The counts
are cardinalities; `CountsTellAll` is the step from them to the pods: when as many pods are updated and available as there
are pods at all, each pod is both. `ReportIsCurrent` ties the report to the spec by its generation. Together
they are `CompleteIsTrue`. `StampIsNew` is needed for `PatchStartsOver`: a stamp that has been used
would leave the generation, and the old verdict, in place. Proved: type correctness, `IndInv`, `CompleteIsTrue`, `AgreesWithReport`,
`PatchStartsOver`.

*DynamoStoreProofs.* Assumptions: `Nobody`, `Others` and the callers are different, pages of at least one item, times of any
radix and number of digits, `0 < Lag`, and `PutDelay + Lag <= StaleAfter < Lifetime`: thirty seconds of a request
and the replication of its row are over within two hours. `SecondAssumption` is true of every power
and is stated because the provers do not compute powers. The first lemmas show that the order of two RFC3339Nano texts
is that of their seconds when these differ, whatever the fractions look like. `ListHolds` says what a list knows
between two pages, and stays true when rows are put, resolved or go in the meantime: rows
only ever leave the state `running`. `PastHolds` bounds what a Scan may show: an old version has the stamp of the row, and
no item at all is shown only until `Lag` after the put, so less than `PutDelay + Lag` after the stamp. A
row that is stale when a list begins is therefore shown by every page, as running while it is, and a row
that a lookup misses was stamped less than `PutDelay + Lag` before the call. `LookupHolds` carries this
through the lookup and the update after it, and that the second key is tried only on a hash-only table. In `Refinement` each request maps to a step of `InMemStore`
or to none: only the conditional write changes the table, and the table's end is the end of every row. Proved: type correctness, `IndInv`,
`ListComplete`, `ListSound`, `AnswerIsTrue`, `ImplementsInMemStore`.

*PoliciesProofs.* Assumptions: the star is no letter, `allowed_refs` is no action, natural bounds. The
invariant needed is only the type, that edits leave lists of patterns. The argument is about sequences:
a ref has a prefix exactly when it is that prefix with some text after it (`PrefixSplits`),
so that a match is membership in what the pattern denotes (`MatchesIsDenotes`), the loop of `MatchRef` is a
union over the list (`MatchRefDenotes`), and a list with more patterns admits more
(`MorePatternsAdmitMore`), in any order. Proved: type correctness, `ListDenotes`, `EditsAreMonotone`,
`ActionsAreApart`, `PermissionsAddUp`.

Only model-checked: liveness (`NoOpStuckRunning`, `WatcherEnds`, `ResolvedEnds`, `Converges`, both
`CallsEnd`), since the provers handle neither fairness nor ENABLED.

## 5. Mutants

For every property of a passing run `PROJECT.json` names a mutated definition, kept beside the
original in its module and marked `Mutant`, under which the run finds the property violated: a
dropped condition of `UpdateTerminal`, a verdict that ignores the generation, an error of
`PutOperation` that is ignored, a wait too short, a TTL off by one, a failure taken for a denial, a
Scan that stops after its first page, a sort key without its fraction, a mutex that an error path keeps,
a rejected token that stays, a count that is not compared, a stamp in seconds, a malformed pattern that
an earlier match masks.

## 6. Findings

1. *A never-patched operation reported succeeded* (`operations_never_patched`). The row is written
   before the patch. If the process dies in between, or `PutOperation` takes effect and reports an
   error, the sweeper later finds the previous rollout complete and records `succeeded`. The README says an
   operation succeeds "only once every running pod is a new pod".
2. *Narrowing a ref constraint can take 60 s* (`authorizer_narrowing`). The refs cache and the
   decision cache add up; the README says "within 30s" and that there is no second delay.
3. *The start message can land after the outcome* (`notifier_inversion`) when a request outlives
   the client that gave up on it; `notify.go` says the inversion is removed by construction.
4. *A call to Keycloak can outlast its context* (`keycloak_stall`). `Token`, `Invalidate` and
   `ResourceServerUUID` wait for a mutex whose holder is in an HTTP request, and the wait does not
   look at the context. `shadow.go` says "shadowTimeout bounds the shadow call so validation can never stall a
   real deploy", `server.go` "AuthzTimeout bounds one whole authorization".

Seen while modelling, and not the subject of a run:

- with a `progressDeadlineSeconds` beyond about 118 minutes `resolveRunning` times out an operation whose
  watcher is within its deadline (its comment says "past every deadline");
- a stale permit is served on every error, also when Keycloak answered with a 4xx or a body that
  does not decode (the README says "only while Keycloak is unreachable");
- a send whose answer is lost is retried and may be shown twice (the README says "at-most-once");
- "so an in-flight request never carries a token that expires mid-call" (`token.go`) holds for tokens
  that live longer than `refreshSkew`, as `InFlightTokenValid` states; shorter ones are not renewed early;
- the order of RFC3339Nano texts is that of the times only to the second, so a row may count as stale
  up to a second early (`ListSound`) or late (`ListComplete`): nothing at two hours.

## 7. Not modelled, and the plan

Not modelled because no property depends on it: the wording of messages (`format.go`), logs,
health endpoints, reading the environment and the policy file, the OIDC library, the comparison that the
shadow logs, the GitHub workflows and the image. A resource server that is recreated with another UUID
is out of `KeycloakClient`: the code keeps the first one for the life of the process, and says so.
There every call has a context of its own, while the calls of one `evaluate` share theirs. An item that does not
unmarshal, and so fails every list and every lookup that meets it, is out of `DynamoStore` and `Operations`:
the gateway writes no such item, and a sweep that fails is made good by the next.

What is left: a composition of `Operations` and `Notifier` in which the messages handed over are the
calls of `Started` and `Resolved`, so that what `Notifier` assumes of its caller (at most one outcome, never before the start)
is discharged by a theorem and not only by `ChatTellsTheStory` beside it.
