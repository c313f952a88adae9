--------------------------- MODULE RolloutReport ---------------------------
(***************************************************************************)
(* What the gateway makes of a Deployment, with the counts of its replicas  *)
(* summed up in one word: Operations.tla is about Deployments of this kind, *)
(* Rollout.tla shows that real ones behave like them.                       *)
(***************************************************************************)
EXTENDS Integers

RolloutState == {"progressing", "complete", "deadline"}
DeploymentState == [generation : Nat, observed : Nat, rollout : RolloutState]
Dep(g, ob, r) == [generation |-> g, observed |-> ob, rollout |-> r]

\* Mutant: the status is trusted whatever generation it is about.
EvaluateAnyGeneration(k) ==
    CASE k.rollout = "deadline" -> "failed"
      [] k.rollout = "complete" -> "complete"
      [] OTHER -> "progressing"

\* A verdict on a Deployment counts only once the controller has observed its
\* current generation.
EvaluateRollout(k) ==
    IF k.observed < k.generation THEN "progressing"
    ELSE CASE k.rollout = "deadline" -> "failed"
           [] k.rollout = "complete" -> "complete"
           [] OTHER -> "progressing"
=============================================================================
