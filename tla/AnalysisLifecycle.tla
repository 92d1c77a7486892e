-------------------------- MODULE AnalysisLifecycle --------------------------
(***************************************************************************)
(* What a workflow may do with the vision model and its observation,       *)
(* whatever calls, replays, batches, retries and failures lie between: the *)
(* contract of VisionToolCallState (agent/tools.py).  DiagnosisCrew, where *)
(* tool calls are concurrent and the agent answers as it likes, and        *)
(* DiagnosisOutput, where batches are merged and labels looked up, both    *)
(* implement it: the two tell one story of a workflow.                     *)
(***************************************************************************)
EXTENDS Naturals

CONSTANT Reruns      \* semantic_retry_budget

VARIABLES
    guarded,         \* a crew's guardrail judges the observation
    stage,           \* what has become of the last execution
    rejections       \* observations rejected so far

vars == <<guarded, stage, rejections>>

Init ==
    /\ guarded \in BOOLEAN
    /\ stage = "none"
    /\ rejections = 0

\* _claim_execution: the model is asked once, and again only for an observation
\* that was rejected.
Run ==
    /\ stage = "none" \/ (stage = "rejected" /\ rejections <= Reruns)
    /\ stage' = "running"
    /\ UNCHANGED rejections

\* mark_execution_success
Observe ==
    /\ stage = "running"
    /\ stage' = "observed"
    /\ UNCHANGED rejections

\* _cache_failure: the model is not asked again.
Fail ==
    /\ stage = "running"
    /\ stage' = "failed"
    /\ UNCHANGED rejections

\* mark_observation_valid, of an observation not rejected before.
Accept ==
    /\ guarded /\ stage = "observed"
    /\ stage' = "accepted"
    /\ UNCHANGED rejections

\* reject_observation; the failed check may end the workflow.
Reject ==
    /\ guarded /\ stage = "observed"
    /\ stage' \in {"rejected", "raised"}
    /\ rejections' = rejections + 1

\* What is returned was accepted, if there is a guardrail.
Return ==
    /\ stage = IF guarded THEN "accepted" ELSE "observed"
    /\ stage' = "returned"
    /\ UNCHANGED rejections

Raise ==
    /\ stage \notin {"returned", "raised"}
    /\ stage' = "raised"
    /\ UNCHANGED rejections

Next ==
    /\ Run \/ Observe \/ Fail \/ Accept \/ Reject \/ Return \/ Raise
    /\ UNCHANGED guarded

Spec == Init /\ [][Next]_vars
=============================================================================
