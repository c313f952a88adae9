------------------------------ MODULE Rollout ------------------------------
(***************************************************************************)
(* A Deployment while it is rolled out: the gateway's patches and others'   *)
(* edits of its spec, the pods, the counts that the controller reports of   *)
(* them, and the verdict that EvaluateRollout draws from spec and counts.   *)
(*                                                                          *)
(* internal/kube/{rollout,client}.go; the cluster is external.              *)
(***************************************************************************)
EXTENDS Integers, FiniteSets

CONSTANTS
    Pod,                \* names for pods
    Replicas,           \* what spec.replicas may be scaled to
    Unset,              \* no spec.replicas
    Second,             \* the units of the clock in a second
    MaxPatches,         \* bound on the gateway's patches
    MaxScales,          \* bound on others' changes of spec.replicas
    MaxFailures         \* bound on the crashes of containers

ASSUME PodAssumption == IsFiniteSet(Pod)
ASSUME ReplicasAssumption == Replicas \subseteq Nat /\ Unset \notin Nat
ASSUME SecondAssumption == Second \in Nat \ {0}
ASSUME BoundAssumption == {MaxPatches, MaxScales, MaxFailures} \subseteq Nat

VARIABLES
    patches,            \* how often the gateway has patched
    scales,             \* how often somebody has scaled
    failures,           \* how often a container has crashed
    spec,               \* generation, pod template and replicas of the Deployment
    pod,                \* pod[p]: its template and how far it has come
    status,             \* what the controller reports
    seen                \* history: the spec and whether the pods were as it says, as of that report

vars == <<patches, scales, failures, spec, pod, status, seen>>

Report == INSTANCE RolloutReport

SpecState == [generation : Nat, template : Nat, replicas : Replicas \cup {Unset}]
PodState == [template : Nat, is : {"none", "starting", "ready", "available"}]
NoPod == [template |-> 0, is |-> "none"]
PodAt(t, s) == [template |-> t, is |-> s]

-----------------------------------------------------------------------------
(* The pods and their counts.                                              *)

\* The pods that are there, of a template t, ready and available.
Running(pods) == {p \in Pod : pods[p].is # "none"}
Updated(pods, t) == {p \in Running(pods) : pods[p].template = t}
Ready(pods) == {p \in Pod : pods[p].is \in {"ready", "available"}}
Available(pods) == {p \in Pod : pods[p].is = "available"}

\* spec.replicas, 1 by default.
Desired == IF spec.replicas = Unset THEN 1 ELSE spec.replicas

\* The status as of now. A stalled rollout may have exceeded its deadline.
StatusNow(deadline) ==
    [observed |-> spec.generation,
     replicas |-> Cardinality(Running(pod)),
     updated |-> Cardinality(Updated(pod, spec.template)),
     ready |-> Cardinality(Ready(pod)),
     available |-> Cardinality(Available(pod)),
     deadline |-> deadline]

\* Every pod is of the present template and available, and there are as many as
\* desired.
RolledOut == /\ \A p \in Running(pod) : pod[p] = PodAt(spec.template, "available")
             /\ Cardinality(Running(pod)) = Desired

SeenNow == [rolledOut |-> RolledOut, template |-> spec.template, desired |-> Desired]

\* A Deployment that is rolled out.
Init ==
    /\ patches = 0 /\ scales = 0 /\ failures = 0
    /\ spec \in [generation : {1}, template : {0}, replicas : Replicas \cup {Unset}]
    /\ pod \in [Pod -> {NoPod, PodAt(0, "available")}]
    /\ RolledOut
    /\ status = StatusNow(FALSE)
    /\ seen = SeenNow

-----------------------------------------------------------------------------
(* EvaluateRollout.                                                        *)

Observed == status.observed >= spec.generation

\* Mutant: the pods of older ReplicaSets are not looked at.
EvaluateWithoutReplicas ==
    IF status.deadline /\ Observed THEN "failed"
    ELSE IF Observed /\ {status.updated, status.ready, status.available} = {Desired}
    THEN "complete" ELSE "progressing"

\* Mutant: only a later generation than the present one will do.
EvaluateStrict ==
    IF status.deadline /\ Observed THEN "failed"
    ELSE IF /\ status.observed > spec.generation
            /\ {status.updated, status.replicas, status.ready, status.available} = {Desired}
    THEN "complete" ELSE "progressing"

\* Mutant: the condition is trusted whatever generation it is about.
EvaluateAnyCondition ==
    IF status.deadline THEN "failed"
    ELSE IF /\ Observed
            /\ {status.updated, status.replicas, status.ready, status.available} = {Desired}
    THEN "complete" ELSE "progressing"

EvaluateRollout ==
    IF status.deadline /\ Observed THEN "failed"
    ELSE IF /\ Observed
            /\ {status.updated, status.replicas, status.ready, status.available} = {Desired}
    THEN "complete" ELSE "progressing"

-----------------------------------------------------------------------------
(* The spec.                                                               *)

\* Mutant: the stamp has a resolution of a second.
restartStampSeconds == (Second + patches) \div Second

\* The restartedAt annotation: the time of the patch, to the nanosecond. A unit
\* of the clock passes from one patch to the next.
restartStamp == Second + patches

\* A change of the spec is a new generation, an equal spec is not.
Apply(template, replicas) ==
    spec' = [generation |-> IF template = spec.template /\ replicas = spec.replicas
                            THEN spec.generation ELSE spec.generation + 1,
             template |-> template, replicas |-> replicas]

\* RestartDeployment, or RolloutDeployment to the tag it has already.
Patch ==
    /\ patches < MaxPatches
    /\ patches' = patches + 1
    /\ Apply(restartStamp, spec.replicas)
    /\ UNCHANGED <<scales, failures, pod, status, seen>>

\* Somebody else changes the number of replicas.
Scale(n) ==
    /\ scales < MaxScales
    /\ scales' = scales + 1
    /\ Apply(spec.template, n)
    /\ UNCHANGED <<patches, failures, pod, status, seen>>

-----------------------------------------------------------------------------
(* The cluster: a rolling update with maxSurge 1 and maxUnavailable 0.     *)

CreatePod(p) ==
    /\ pod[p].is = "none"
    /\ Cardinality(Running(pod)) <= Desired
    /\ Cardinality(Updated(pod, spec.template)) < Desired
    /\ pod' = [pod EXCEPT ![p] = PodAt(spec.template, "starting")]
    /\ UNCHANGED <<patches, scales, failures, spec, status, seen>>

PodReady(p) ==
    /\ pod[p].is = "starting"
    /\ pod' = [pod EXCEPT ![p].is = "ready"]
    /\ UNCHANGED <<patches, scales, failures, spec, status, seen>>

PodAvailable(p) ==
    /\ pod[p].is = "ready"
    /\ pod' = [pod EXCEPT ![p].is = "available"]
    /\ UNCHANGED <<patches, scales, failures, spec, status, seen>>

PodFails(p) ==
    /\ pod[p].is \in {"ready", "available"}
    /\ failures < MaxFailures
    /\ failures' = failures + 1
    /\ pod' = [pod EXCEPT ![p].is = "starting"]
    /\ UNCHANGED <<patches, scales, spec, status, seen>>

\* An old pod that is not needed any more, or a surplus one; it counts until it
\* is gone.
DeletePod(p) ==
    /\ pod[p].is # "none"
    /\ \/ /\ pod[p].template # spec.template
          /\ pod[p].is # "available" \/ Cardinality(Available(pod)) > Desired
       \/ /\ pod[p].template = spec.template
          /\ Cardinality(Updated(pod, spec.template)) > Desired
    /\ pod' = [pod EXCEPT ![p] = NoPod]
    /\ UNCHANGED <<patches, scales, failures, spec, status, seen>>

\* The controller observes spec and pods; what is not rolled out may be overdue.
Sync ==
    /\ \E deadline \in BOOLEAN :
          /\ deadline => ~RolledOut
          /\ status' = StatusNow(deadline)
    /\ seen' = SeenNow
    /\ UNCHANGED <<patches, scales, failures, spec, pod>>

Cluster(p) == CreatePod(p) \/ PodReady(p) \/ PodAvailable(p) \/ DeletePod(p)

Next == \/ Patch \/ \E n \in Replicas : Scale(n)
        \/ \E p \in Pod : Cluster(p) \/ PodFails(p)
        \/ Sync

\* A cluster with room for the pods, whose controllers run.
Fairness == WF_vars(Sync) /\ \A p \in Pod : WF_vars(Cluster(p))

Spec == Init /\ [][Next]_vars /\ Fairness

-----------------------------------------------------------------------------
(* Properties.                                                             *)

(* Every variable has its type. *)
TypeOK ==
    /\ {patches, scales, failures} \subseteq Nat
    /\ spec \in SpecState
    /\ pod \in [Pod -> PodState]
    /\ status \in [observed : Nat, replicas : Nat, updated : Nat, ready : Nat,
                   available : Nat, deadline : BOOLEAN]
    /\ seen \in [rolledOut : BOOLEAN, template : Nat, desired : Nat]

(* README: "succeeded only once every running pod is a new pod that is ready and
   available". The verdict has only counts to go by: when it is complete, the
   pods that were counted were all of the template and in the number that the
   present spec asks for, and available. *)
CompleteIsTrue ==
    EvaluateRollout = "complete" =>
        seen = [rolledOut |-> TRUE, template |-> spec.template, desired |-> Desired]

(* "without it ... the operation would resolve as succeeded against pre-patch
   state without replacing a pod": no verdict on an earlier rollout survives a
   patch, not even of one that sets the image it had, right after another one. *)
PatchStartsOver == [][patches' # patches => EvaluateRollout' = "progressing"]_vars

\* The Deployment as Operations.tla has it.
report == Report!Dep(spec.generation, status.observed,
    IF status.deadline THEN "deadline"
    ELSE IF {status.updated, status.replicas, status.ready, status.available} = {seen.desired}
    THEN "complete" ELSE "progressing")

(* The verdict from the counts is the one that Operations.tla draws from the
   summed up report. *)
AgreesWithReport == EvaluateRollout = Report!EvaluateRollout(report)

-----------------------------------------------------------------------------
(* Why the properties hold.                                                *)

\* A report about the present generation is about the present spec.
ReportIsCurrent ==
    /\ status.observed <= spec.generation
    /\ status.observed = spec.generation =>
          seen.template = spec.template /\ seen.desired = Desired

\* Counts that all are what was desired leave no room for another pod.
CountsTellAll ==
    {status.updated, status.replicas, status.ready, status.available} = {seen.desired} =>
        seen.rolledOut

\* The next stamp is a new one.
StampIsNew == spec.template < restartStamp

(* The inductive invariant: the type, what the last report is about, and that a
   patch changes the template. *)
IndInv == TypeOK /\ ReportIsCurrent /\ CountsTellAll /\ StampIsNew

(* When nobody edits the Deployment any more and its containers stay up, the
   verdict comes to be complete, and stays. *)
Converges == <>[](EvaluateRollout = "complete")
=============================================================================
