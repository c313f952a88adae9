---------------------------- MODULE RolloutProofs ----------------------------
(***************************************************************************)
(* What Rollout.tla guarantees for every finite set of pods and every        *)
(* number of replicas, patches, edits and crashes, checked by TLAPS: the     *)
(* verdict "complete" is about the pods that the present spec asks for.      *)
(***************************************************************************)
EXTENDS Rollout, FiniteSetTheorems, TLAPS

-----------------------------------------------------------------------------
(* Counting pods.                                                          *)

\* The pods that are counted are finitely many, and all of them run.
LEMMA PodSets ==
    ASSUME NEW pods, NEW t
    PROVE  /\ Running(pods) \subseteq Pod
           /\ Updated(pods, t) \subseteq Running(pods)
           /\ Available(pods) \subseteq Running(pods)
           /\ Ready(pods) \subseteq Running(pods)
           /\ IsFiniteSet(Running(pods))
<1>1. Running(pods) \subseteq Pod
  BY DEF Running
<1>2. Updated(pods, t) \subseteq Running(pods)
  BY DEF Updated
<1>3. Available(pods) \subseteq Running(pods) /\ Ready(pods) \subseteq Running(pods)
  BY DEF Available, Ready, Running
<1>4. IsFiniteSet(Running(pods))
  BY <1>1, PodAssumption, FS_Subset
<1> QED
  BY <1>1, <1>2, <1>3, <1>4

\* Counts are natural numbers.
LEMMA PodCounts ==
    ASSUME NEW pods, NEW t
    PROVE  /\ Cardinality(Running(pods)) \in Nat /\ Cardinality(Updated(pods, t)) \in Nat
           /\ Cardinality(Ready(pods)) \in Nat /\ Cardinality(Available(pods)) \in Nat
<1>1. /\ IsFiniteSet(Running(pods)) /\ IsFiniteSet(Updated(pods, t))
      /\ IsFiniteSet(Ready(pods)) /\ IsFiniteSet(Available(pods))
  BY PodSets, FS_Subset
<1> QED
  BY <1>1, FS_CardinalityType

LEMMA DesiredType ==
    ASSUME spec \in SpecState
    PROVE  Desired \in Nat
BY ReplicasAssumption DEF Desired, SpecState

\* As many pods of the template, and as many available ones, as there are pods at
\* all: every pod is one that the spec asks for.
LEMMA CountsDecide ==
    ASSUME spec \in SpecState, pod \in [Pod -> PodState],
           Cardinality(Running(pod)) = Desired,
           Cardinality(Updated(pod, spec.template)) = Desired,
           Cardinality(Available(pod)) = Desired
    PROVE  RolledOut
<1>1. Updated(pod, spec.template) = Running(pod) /\ Available(pod) = Running(pod)
  <2>1. IsFiniteSet(Running(pod)) /\ Updated(pod, spec.template) \in SUBSET Running(pod)
          /\ Available(pod) \in SUBSET Running(pod)
    BY PodSets
  <2> QED
    BY <2>1, FS_Subset
<1>2. ASSUME NEW p \in Running(pod)
      PROVE  pod[p] = PodAt(spec.template, "available")
  <2>1. p \in Pod /\ pod[p] \in PodState /\ pod[p].template = spec.template /\ pod[p].is = "available"
    BY <1>1, <1>2 DEF Running, Updated, Available
  <2> QED
    BY <2>1 DEF PodState, PodAt
<1> QED
  BY <1>2 DEF RolledOut

\* The status and what it is about, as of now.
LEMMA NowFacts ==
    ASSUME spec \in SpecState, pod \in [Pod -> PodState], NEW deadline \in BOOLEAN
    PROVE  /\ StatusNow(deadline) \in [observed : Nat, replicas : Nat, updated : Nat, ready : Nat,
                                       available : Nat, deadline : BOOLEAN]
           /\ SeenNow \in [rolledOut : BOOLEAN, template : Nat, desired : Nat]
           /\ {StatusNow(deadline).updated, StatusNow(deadline).replicas,
               StatusNow(deadline).ready, StatusNow(deadline).available} = {SeenNow.desired} =>
                  SeenNow.rolledOut
           /\ StatusNow(deadline).observed = spec.generation
           /\ SeenNow.template = spec.template /\ SeenNow.desired = Desired
<1>1. spec.generation \in Nat /\ spec.template \in Nat /\ Desired \in Nat
  BY DesiredType DEF SpecState
<1>2. StatusNow(deadline) \in [observed : Nat, replicas : Nat, updated : Nat, ready : Nat,
                               available : Nat, deadline : BOOLEAN]
  BY <1>1, PodCounts DEF StatusNow
<1>3. RolledOut \in BOOLEAN
  BY DEF RolledOut
<1>4. SeenNow \in [rolledOut : BOOLEAN, template : Nat, desired : Nat]
  BY <1>1, <1>3 DEF SeenNow
<1>5. SeenNow.template = spec.template /\ SeenNow.desired = Desired /\ SeenNow.rolledOut = RolledOut
  BY DEF SeenNow
<1>6. /\ StatusNow(deadline).observed = spec.generation
      /\ StatusNow(deadline).replicas = Cardinality(Running(pod))
      /\ StatusNow(deadline).updated = Cardinality(Updated(pod, spec.template))
      /\ StatusNow(deadline).available = Cardinality(Available(pod))
  BY DEF StatusNow
<1>7. ASSUME {StatusNow(deadline).updated, StatusNow(deadline).replicas,
              StatusNow(deadline).ready, StatusNow(deadline).available} = {SeenNow.desired}
      PROVE  SeenNow.rolledOut
  <2>1. StatusNow(deadline).updated = Desired /\ StatusNow(deadline).replicas = Desired
          /\ StatusNow(deadline).available = Desired
    BY <1>5, <1>7
  <2> QED
    BY <1>5, <1>6, <2>1, CountsDecide
<1> QED
  BY <1>2, <1>4, <1>5, <1>6, <1>7

-----------------------------------------------------------------------------
(* Every step keeps the invariant.                                         *)

\* A change of the spec makes the last report one about an earlier generation.
LEMMA ApplyPreserves ==
    ASSUME IndInv, NEW t \in Nat, NEW n \in Replicas \cup {Unset}, Apply(t, n),
           {patches', scales', failures'} \subseteq Nat, t < Second + patches',
           UNCHANGED <<pod, status, seen>>
    PROVE  /\ IndInv'
           /\ t # spec.template => status.observed < spec'.generation
<1>1. spec.generation \in Nat /\ spec.template \in Nat /\ status.observed \in Nat
        /\ status.observed <= spec.generation
  BY DEF IndInv, TypeOK, SpecState, ReportIsCurrent
<1>2. spec' = [generation |-> IF t = spec.template /\ n = spec.replicas
                              THEN spec.generation ELSE spec.generation + 1,
               template |-> t, replicas |-> n]
  BY DEF Apply
<1>3. spec' \in SpecState /\ spec'.template = t /\ spec'.replicas = n
        /\ spec'.generation = IF t = spec.template /\ n = spec.replicas
                              THEN spec.generation ELSE spec.generation + 1
  BY <1>1, <1>2 DEF SpecState
<1>4. TypeOK'
  BY <1>3 DEF IndInv, TypeOK
<1>5. ReportIsCurrent'
  <2>1. CASE t = spec.template /\ n = spec.replicas
    BY <1>1, <1>3, <2>1 DEF IndInv, ReportIsCurrent, Desired
  <2>2. CASE ~(t = spec.template /\ n = spec.replicas)
    <3>1. status'.observed < spec'.generation /\ spec'.generation \in Nat
      BY <1>1, <1>3, <2>2
    <3> QED
      BY <1>1, <3>1 DEF ReportIsCurrent
  <2> QED
    BY <2>1, <2>2
<1>6. CountsTellAll'
  BY DEF IndInv, CountsTellAll
<1>7. StampIsNew'
  BY <1>3 DEF StampIsNew, restartStamp
<1> QED
  BY <1>1, <1>3, <1>4, <1>5, <1>6, <1>7 DEF IndInv

LEMMA PatchPreserves ==
    ASSUME IndInv, Patch
    PROVE  IndInv' /\ status.observed < spec'.generation /\ status' = status
<1>1. patches' = patches + 1 /\ Apply(restartStamp, spec.replicas)
        /\ UNCHANGED <<scales, failures, pod, status, seen>>
  BY DEF Patch
<1>2. patches \in Nat /\ {patches', scales', failures'} \subseteq Nat
  BY <1>1 DEF IndInv, TypeOK
<1>3. restartStamp \in Nat /\ restartStamp < Second + patches'
  BY <1>1, <1>2, SecondAssumption DEF restartStamp
<1>4. restartStamp # spec.template /\ spec.replicas \in Replicas \cup {Unset}
  BY <1>3 DEF IndInv, StampIsNew, TypeOK, SpecState
<1> QED
  BY <1>1, <1>2, <1>3, <1>4, ApplyPreserves

LEMMA ScalePreserves ==
    ASSUME IndInv, NEW n \in Replicas, Scale(n)
    PROVE  IndInv'
<1>1. scales' = scales + 1 /\ Apply(spec.template, n) /\ UNCHANGED <<patches, failures, pod, status, seen>>
  BY DEF Scale
<1>2. patches \in Nat /\ {patches', scales', failures'} \subseteq Nat
  BY <1>1 DEF IndInv, TypeOK
<1>3. spec.template \in Nat /\ spec.template < Second + patches'
  BY <1>1 DEF IndInv, StampIsNew, restartStamp, TypeOK, SpecState
<1> QED
  BY <1>1, <1>2, <1>3, ApplyPreserves

\* What happens to a pod is not in the report until the next one.
LEMMA PodStepPreserves ==
    ASSUME IndInv, NEW p \in Pod, NEW d \in PodState, pod' = [pod EXCEPT ![p] = d],
           failures' \in Nat, UNCHANGED <<patches, scales, spec, status, seen>>
    PROVE  IndInv'
<1>1. pod' \in [Pod -> PodState]
  BY DEF IndInv, TypeOK
<1>2. TypeOK'
  BY <1>1 DEF IndInv, TypeOK
<1> QED
  BY <1>2 DEF IndInv, ReportIsCurrent, CountsTellAll, StampIsNew, restartStamp, Desired

LEMMA ClusterPreserves ==
    ASSUME IndInv, NEW p \in Pod, Cluster(p) \/ PodFails(p)
    PROVE  IndInv'
<1>1. pod \in [Pod -> PodState] /\ pod[p] \in PodState /\ spec.template \in Nat /\ failures \in Nat
  BY DEF IndInv, TypeOK, SpecState
<1>2. ASSUME NEW s \in {"none", "starting", "ready", "available"}, NEW t \in Nat
      PROVE  PodAt(t, s) \in PodState
  BY <1>2 DEF PodAt, PodState
<1>3. NoPod \in PodState
  BY DEF NoPod, PodState
<1>4. ASSUME NEW s \in {"starting", "ready", "available"}
      PROVE  [pod[p] EXCEPT !.is = s] \in PodState
  BY <1>1, <1>4 DEF PodState
<1>5. UNCHANGED <<patches, scales, spec, status, seen>> /\ failures' \in Nat
  BY <1>1 DEF Cluster, CreatePod, PodReady, PodAvailable, DeletePod, PodFails
<1>6. CASE CreatePod(p)
  BY <1>1, <1>2, <1>5, <1>6, PodStepPreserves DEF CreatePod
<1>7. CASE PodReady(p)
  <2>1. pod' = [pod EXCEPT ![p] = [pod[p] EXCEPT !.is = "ready"]]
    BY <1>1, <1>7 DEF PodReady
  <2> QED
    BY <1>4, <1>5, <2>1, PodStepPreserves
<1>8. CASE PodAvailable(p)
  <2>1. pod' = [pod EXCEPT ![p] = [pod[p] EXCEPT !.is = "available"]]
    BY <1>1, <1>8 DEF PodAvailable
  <2> QED
    BY <1>4, <1>5, <2>1, PodStepPreserves
<1>9. CASE PodFails(p)
  <2>1. pod' = [pod EXCEPT ![p] = [pod[p] EXCEPT !.is = "starting"]]
    BY <1>1, <1>9 DEF PodFails
  <2> QED
    BY <1>4, <1>5, <2>1, PodStepPreserves
<1>10. CASE DeletePod(p)
  BY <1>3, <1>5, <1>10, PodStepPreserves DEF DeletePod
<1> QED
  BY <1>6, <1>7, <1>8, <1>9, <1>10 DEF Cluster

\* A report is about the spec and the pods as they are.
LEMMA SyncPreserves ==
    ASSUME IndInv, Sync
    PROVE  IndInv'
<1>1. PICK deadline \in BOOLEAN : status' = StatusNow(deadline)
  BY DEF Sync
<1>2. seen' = SeenNow /\ UNCHANGED <<patches, scales, failures, spec, pod>>
  BY DEF Sync
<1>3. spec \in SpecState /\ pod \in [Pod -> PodState] /\ spec.generation \in Nat
  BY DEF IndInv, TypeOK, SpecState
<1>4. /\ status' \in [observed : Nat, replicas : Nat, updated : Nat, ready : Nat,
                      available : Nat, deadline : BOOLEAN]
      /\ seen' \in [rolledOut : BOOLEAN, template : Nat, desired : Nat]
      /\ {status'.updated, status'.replicas, status'.ready, status'.available} = {seen'.desired} =>
            seen'.rolledOut
      /\ status'.observed = spec.generation
      /\ seen'.template = spec.template /\ seen'.desired = Desired
  BY <1>1, <1>2, <1>3, NowFacts
<1>5. TypeOK'
  BY <1>2, <1>4 DEF IndInv, TypeOK
<1>6. ReportIsCurrent'
  BY <1>2, <1>3, <1>4 DEF ReportIsCurrent, Desired
<1>7. CountsTellAll' /\ StampIsNew'
  BY <1>2, <1>4 DEF IndInv, CountsTellAll, StampIsNew, restartStamp
<1> QED
  BY <1>5, <1>6, <1>7 DEF IndInv

LEMMA InitHolds == Init => IndInv
<1> SUFFICES ASSUME Init PROVE IndInv
  OBVIOUS
<1>1. spec \in SpecState /\ spec.generation = 1 /\ spec.template = 0
  BY DEF Init, SpecState
<1>2. NoPod \in PodState /\ PodAt(0, "available") \in PodState
  BY DEF NoPod, PodAt, PodState
<1>3. pod \in [Pod -> PodState]
  BY <1>2 DEF Init
<1>4. status = StatusNow(FALSE) /\ seen = SeenNow
  BY DEF Init
<1>5. /\ status \in [observed : Nat, replicas : Nat, updated : Nat, ready : Nat,
                     available : Nat, deadline : BOOLEAN]
      /\ seen \in [rolledOut : BOOLEAN, template : Nat, desired : Nat]
      /\ {status.updated, status.replicas, status.ready, status.available} = {seen.desired} =>
            seen.rolledOut
      /\ status.observed = spec.generation
      /\ seen.template = spec.template /\ seen.desired = Desired
  BY <1>1, <1>3, <1>4, NowFacts
<1>6. TypeOK
  BY <1>1, <1>3, <1>5 DEF Init, TypeOK
<1>7. ReportIsCurrent /\ CountsTellAll
  BY <1>1, <1>5 DEF ReportIsCurrent, CountsTellAll
<1>8. StampIsNew
  BY <1>1, SecondAssumption DEF Init, StampIsNew, restartStamp
<1> QED
  BY <1>6, <1>7, <1>8 DEF IndInv

LEMMA StepHolds ==
    ASSUME IndInv, [Next]_vars
    PROVE  IndInv'
<1>1. CASE UNCHANGED vars
  BY <1>1 DEF vars, IndInv, TypeOK, ReportIsCurrent, CountsTellAll, StampIsNew, restartStamp, Desired
<1> QED
  BY <1>1, PatchPreserves, ScalePreserves, ClusterPreserves, SyncPreserves DEF Next

-----------------------------------------------------------------------------
(* The theorems.                                                           *)

\* The inductive invariant holds in every reachable state.
THEOREM IndInvHolds == Spec => []IndInv
BY InitHolds, StepHolds, PTL DEF Spec

\* Every variable keeps its type.
THEOREM TypeCorrect == Spec => []TypeOK
<1>1. IndInv => TypeOK
  BY DEF IndInv
<1> QED
  BY <1>1, IndInvHolds, PTL

\* The verdict "complete" is true of the present spec and of the pods counted.
THEOREM CompleteHolds == Spec => []CompleteIsTrue
<1>1. IndInv => CompleteIsTrue
  <2>1. SUFFICES ASSUME IndInv, EvaluateRollout = "complete"
                 PROVE  seen = [rolledOut |-> TRUE, template |-> spec.template, desired |-> Desired]
    BY DEF CompleteIsTrue
  <2>2. Observed /\ {status.updated, status.replicas, status.ready, status.available} = {Desired}
    BY <2>1 DEF EvaluateRollout
  <2>3. status.observed = spec.generation
    BY <2>1, <2>2 DEF IndInv, ReportIsCurrent, Observed, TypeOK, SpecState
  <2>4. seen.template = spec.template /\ seen.desired = Desired
    BY <2>1, <2>3 DEF IndInv, ReportIsCurrent
  <2>5. seen.rolledOut /\ seen \in [rolledOut : BOOLEAN, template : Nat, desired : Nat]
    BY <2>1, <2>2, <2>4 DEF IndInv, CountsTellAll, TypeOK
  <2> QED
    BY <2>4, <2>5
<1> QED
  BY <1>1, IndInvHolds, PTL

\* The verdict from the counts is the one that Operations.tla works with.
THEOREM ReportAgrees == Spec => []AgreesWithReport
<1>1. IndInv => AgreesWithReport
  <2> SUFFICES ASSUME IndInv PROVE AgreesWithReport
    OBVIOUS
  <2>1. status.observed \in Nat /\ spec.generation \in Nat /\ status.deadline \in BOOLEAN
    BY DEF IndInv, TypeOK, SpecState
  <2>2. Observed => seen.desired = Desired
    BY <2>1 DEF IndInv, ReportIsCurrent, Observed
  <2>3. Observed <=> ~(status.observed < spec.generation)
    BY <2>1 DEF Observed
  <2> QED
    BY <2>1, <2>2, <2>3 DEF AgreesWithReport, EvaluateRollout, report, Report!EvaluateRollout, Report!Dep
<1> QED
  BY <1>1, IndInvHolds, PTL

\* A patch always starts a new rollout: no verdict on an earlier one survives it.
THEOREM PatchHolds == Spec => PatchStartsOver
<1>1. ASSUME IndInv, [Next]_vars
      PROVE  [patches' # patches => EvaluateRollout' = "progressing"]_vars
  <2>1. SUFFICES ASSUME patches' # patches
                 PROVE  EvaluateRollout' = "progressing"
    OBVIOUS
  <2>2. Patch
    BY <1>1, <2>1 DEF Next, vars, Scale, Cluster, CreatePod, PodReady, PodAvailable, DeletePod,
       PodFails, Sync
  <2>3. status.observed < spec'.generation /\ status' = status /\ IndInv'
    BY <1>1, <2>2, PatchPreserves
  <2>4. ~Observed'
    BY <2>3 DEF Observed, IndInv, TypeOK, SpecState
  <2> QED
    BY <2>4 DEF EvaluateRollout
<1> QED
  BY <1>1, IndInvHolds, PTL DEF Spec, PatchStartsOver
=============================================================================
