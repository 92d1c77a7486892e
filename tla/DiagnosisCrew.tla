--------------------------- MODULE DiagnosisCrew ---------------------------
(***************************************************************************)
(* One diagnosis workflow (agent/workflow.py): the memoising vision tool   *)
(* and its call state (agent/tools.py), the task guardrail that accepts or *)
(* rejects an observation (agent/task_guardrails.py), and the agent loop   *)
(* around them, with its call budget (agent/factories.py).                 *)
(*                                                                         *)
(* The agent loop is CrewAI's: an answer of the language model is either a *)
(* batch of tool calls, which run concurrently, or a final output; a tool  *)
(* result is the final output (result_as_answer); the guardrail sees each  *)
(* final output once every call of the batch has ended, and a failed check *)
(* restarts the agent while retries are left.                              *)
(*                                                                         *)
(* An observation is known by the execution that produced it and by what   *)
(* validation would say of it.                                             *)
(***************************************************************************)
EXTENDS Naturals, FiniteSets

CONSTANTS
    Callers,            \* tool calls the model can make in one batch
    NoObservation,      \* None
    SemanticBudget,     \* semantic_retry_budget
    MaxTaskRetries,     \* max_retries of the task
    MaxLlmCalls         \* max_calls of MandatoryVisionToolLLM

ASSUME CrewAssumptions ==
    /\ IsFiniteSet(Callers)
    /\ SemanticBudget \in Nat
    /\ MaxTaskRetries \in Nat
    /\ MaxLlmCalls \in Nat

VARIABLES
    react,              \* use_react: the crew runs, or the tool directly
    status, observation, success, validated, rejected,   \* VisionToolCallState
    executions, successes, semanticRetries,
    caller,             \* where each tool call stands
    given,              \* the observation a tool call returned
    phase,              \* where the workflow stands
    output,             \* the final output under check
    llmCalls, taskRetries

toolVars == <<status, observation, success, validated, rejected,
              executions, successes, semanticRetries>>
callVars == <<caller, given>>
crewVars == <<react, phase, output, llmCalls, taskRetries>>
vars == <<toolVars, callVars, crewVars>>

\* not_json: markdown or prose.  invalid: JSON that breaks the schema, the
\* image count or the question numbers.  The validator stops at the first check
\* of the taxonomy that fails: unknown_label is an unknown chapter or topic,
\* off_curriculum another failure.  marked: a label was marked for review.
Verdicts == {"valid", "not_json", "invalid", "unknown_label", "off_curriculum"}

Observation == [run : 1..(1 + SemanticBudget), verdict : Verdicts \cup {"marked"}]

ASSUME NoneIsNoObservation == NoObservation \notin Observation

\* What the final output is, compared with the stored observation.
Outputs == {"none", "empty", "prose", "changed", "observation"}

Init ==
    /\ react \in BOOLEAN
    /\ status = "not_started"
    /\ observation = NoObservation
    /\ success = FALSE /\ validated = FALSE /\ rejected = FALSE
    /\ executions = 0 /\ successes = 0 /\ semanticRetries = 0
    /\ caller = [c \in Callers |-> "idle"]
    /\ given = [c \in Callers |-> NoObservation]
    /\ phase = "thinking"
    /\ output = "none"
    /\ llmCalls = 0 /\ taskRetries = 0

-----------------------------------------------------------------------------
(* The vision tool.                                                        *)

CanReplay ==
    status = "succeeded" /\ observation # NoObservation /\ ~rejected

CanRetry ==
    /\ status = "succeeded" /\ observation # NoObservation /\ rejected
    /\ semanticRetries < SemanticBudget

Becomes(c, state) == caller' = [caller EXCEPT ![c] = state]

\* A plausible bug: the state is not set to running when the claim is granted.
ClaimUnmarked(c) ==
    /\ caller[c] = "claiming"
    /\ IF status = "not_started" \/ CanRetry
       THEN /\ executions' = executions + 1
            /\ Becomes(c, "executing")
       ELSE /\ Becomes(c, "waiting")
            /\ UNCHANGED executions
    /\ UNCHANGED <<status, observation, success, validated, rejected, successes,
                   semanticRetries, given, crewVars>>

\* A plausible bug: a failed execution may be repeated by the next call.
ClaimAfterFailure(c) ==
    /\ caller[c] = "claiming"
    /\ IF status \in {"not_started", "failed"} \/ CanRetry
       THEN /\ status' = "running"
            /\ executions' = executions + 1
            /\ semanticRetries' = IF CanRetry THEN semanticRetries + 1
                                              ELSE semanticRetries
            /\ Becomes(c, "executing")
       ELSE /\ Becomes(c, "waiting")
            /\ UNCHANGED <<status, executions, semanticRetries>>
    /\ UNCHANGED <<observation, success, validated, rejected, successes, given, crewVars>>

\* _claim_execution, under the condition's lock.
Claim(c) ==
    /\ caller[c] = "claiming"
    /\ IF status = "not_started" \/ CanRetry
       THEN /\ status' = "running"
            /\ executions' = executions + 1
            /\ semanticRetries' = IF CanRetry THEN semanticRetries + 1
                                              ELSE semanticRetries
            /\ Becomes(c, "executing")
       ELSE /\ Becomes(c, "waiting")
            /\ UNCHANGED <<status, executions, semanticRetries>>
    /\ UNCHANGED <<observation, success, validated, rejected, successes, given, crewVars>>

\* The batches were analysed and merged: mark_execution_success.
Execute(c) ==
    /\ caller[c] = "executing"
    /\ \E v \in Verdicts :
          /\ observation' = [run |-> executions, verdict |-> v]
          /\ given' = [given EXCEPT ![c] = observation']
    /\ status' = "succeeded"
    /\ success' = TRUE
    /\ successes' = successes + 1
    /\ validated' = FALSE
    /\ rejected' = FALSE
    /\ Becomes(c, "answered")
    /\ UNCHANGED <<executions, semanticRetries, crewVars>>

\* A plausible bug: a failure puts the state back to where it started.
ExecutionFailsResets(c) ==
    /\ caller[c] = "executing"
    /\ status' = "not_started"
    /\ success' = FALSE
    /\ Becomes(c, "failed")
    /\ UNCHANGED <<observation, validated, rejected, executions, successes,
                   semanticRetries, given, crewVars>>

\* The model, the recording of the call or the merging raised: _cache_failure.
ExecutionFails(c) ==
    /\ caller[c] = "executing"
    /\ status' = "failed"
    /\ success' = FALSE
    /\ Becomes(c, "failed")
    /\ UNCHANGED <<observation, validated, rejected, executions, successes,
                   semanticRetries, given, crewVars>>

\* _wait_for_or_replay, each branch under the condition's lock.
Replay(c) ==
    /\ caller[c] = "waiting"
    /\ CanReplay
    /\ given' = [given EXCEPT ![c] = observation]
    /\ Becomes(c, "answered")
    /\ UNCHANGED <<toolVars, crewVars>>

\* A plausible bug: waiters are not told of a failure.
ReplayRefusedIfRejected(c) ==
    /\ caller[c] = "waiting"
    /\ status = "succeeded" /\ rejected
    /\ Becomes(c, "failed")
    /\ UNCHANGED <<toolVars, given, crewVars>>

ReplayRefused(c) ==
    /\ caller[c] = "waiting"
    /\ status = "failed" \/ (status = "succeeded" /\ rejected)
    /\ Becomes(c, "failed")
    /\ UNCHANGED <<toolVars, given, crewVars>>

\* A plausible bug: a waiter that gives up takes the observation there is.
WaiterTakesStored(c) ==
    /\ caller[c] = "waiting"
    /\ status = "running"
    /\ IF observation # NoObservation
       THEN Becomes(c, "answered") /\ given' = [given EXCEPT ![c] = observation]
       ELSE Becomes(c, "failed") /\ UNCHANGED given
    /\ UNCHANGED <<toolVars, crewVars>>

\* The in-flight execution outlives waiter_timeout_seconds.
WaiterTimesOut(c) ==
    /\ caller[c] = "waiting"
    /\ status = "running"
    /\ Becomes(c, "failed")
    /\ UNCHANGED <<toolVars, given, crewVars>>

ToolCall(c) ==
    \/ Claim(c) \/ Execute(c) \/ ExecutionFails(c)
    \/ Replay(c) \/ ReplayRefused(c) \/ WaiterTimesOut(c)

-----------------------------------------------------------------------------
(* The agent loop.                                                         *)

Submit(batch) ==
    /\ caller' = [c \in Callers |-> IF c \in batch THEN "claiming" ELSE "idle"]
    /\ given' = [c \in Callers |-> NoObservation]
    /\ phase' = "tools"
    /\ UNCHANGED <<output, taskRetries>>

\* run_preloaded, when the crew is not used.
RunDirectly ==
    /\ ~react /\ phase = "thinking"
    /\ \E c \in Callers : Submit({c})
    /\ UNCHANGED <<react, toolVars, llmCalls>>

\* MandatoryVisionToolLLM.call: the first answer is always one tool call, made
\* without the model; a call of the model may raise, which ends the crew.
AskModel ==
    /\ react /\ phase = "thinking" /\ llmCalls < MaxLlmCalls
    /\ llmCalls' = llmCalls + 1
    /\ \/ \E batch \in SUBSET Callers \ {{}} :
             /\ llmCalls = 0 => Cardinality(batch) = 1
             /\ Submit(batch)
       \/ /\ llmCalls > 0
          /\ output' \in Outputs \ {"none"}
          /\ output' = "observation" => observation # NoObservation
          /\ phase' = "checking"
          /\ UNCHANGED <<callVars, taskRetries>>
       \/ /\ llmCalls > 0
          /\ phase' = "raised"
          /\ UNCHANGED <<output, callVars, taskRetries>>
    /\ UNCHANGED <<react, toolVars>>

\* A call beyond max_calls raises before the model is asked.
BudgetExceeded ==
    /\ react /\ phase = "thinking" /\ llmCalls = MaxLlmCalls
    /\ phase' = "raised"
    /\ UNCHANGED <<react, output, llmCalls, taskRetries, toolVars, callVars>>

BatchEnded == \A c \in Callers : caller[c] \in {"idle", "answered", "failed"}

\* A plausible bug: the calls of a batch that all raised are made again.
EndBatchRetries ==
    /\ phase = "tools"
    /\ BatchEnded
    /\ \/ /\ \E c \in Callers : caller[c] = "answered"
          /\ output' = "observation"
          /\ phase' = IF react THEN "checking" ELSE "accepted"
          /\ UNCHANGED <<taskRetries, callVars>>
       \/ /\ \A c \in Callers : caller[c] # "answered"
          /\ Submit({c \in Callers : caller[c] = "failed"})
    /\ UNCHANGED <<react, llmCalls, toolVars>>

\* A tool result is the final output; if every call raised, the model is asked
\* again, or, without a crew, the exception ends the workflow.
EndBatch ==
    /\ phase = "tools"
    /\ BatchEnded
    /\ IF \E c \in Callers : caller[c] = "answered"
       THEN output' = "observation" /\ phase' = IF react THEN "checking" ELSE "accepted"
       ELSE UNCHANGED output /\ phase' = IF react THEN "thinking" ELSE "raised"
    /\ UNCHANGED <<react, llmCalls, taskRetries, toolVars, callVars>>

-----------------------------------------------------------------------------
(* evaluate_diagnosis_task_output, in the order of its checks.             *)

Observed == success /\ observation # NoObservation

OutputIsJson ==
    output = "changed" \/ (output = "observation" /\ observation.verdict # "not_json")

ContractHolds == observation.verdict \notin {"not_json", "invalid"}

RejectObservation ==
    /\ validated' = FALSE
    /\ rejected' = TRUE
    /\ UNCHANGED observation

\* mark_observation_valid, after the labels are marked if that is all it takes.
AcceptObservation ==
    /\ validated' = TRUE
    /\ rejected' = FALSE
    /\ observation' = IF observation.verdict = "unknown_label"
                      THEN [observation EXCEPT !.verdict = "marked"]
                      ELSE observation

\* A plausible bug: any miss of the taxonomy is softened.
PassesAnyTaxonomy == output = "observation" /\ Observed /\ OutputIsJson /\ ContractHolds

Passes ==
    /\ output = "observation" /\ Observed /\ OutputIsJson /\ ContractHolds
    /\ observation.verdict # "off_curriculum"

\* The checks that end in reject_observation.
Rejects ==
    /\ output # "empty" /\ Observed /\ OutputIsJson
    /\ \/ ~ContractHolds
       \/ output = "observation" /\ observation.verdict = "off_curriculum"

\* A plausible bug: the retries of the task are not counted against a maximum.
CheckFailedUncounted ==
    /\ phase' = "thinking"
    /\ taskRetries' = taskRetries + 1
    /\ output' = "none"

\* A failed check restarts the agent, max_retries times.
CheckFailed ==
    /\ IF taskRetries < MaxTaskRetries
       THEN phase' = "thinking" /\ taskRetries' = taskRetries + 1
       ELSE phase' = "raised" /\ UNCHANGED taskRetries
    /\ output' = "none"

CheckOutput ==
    /\ phase = "checking"
    /\ \/ Passes /\ AcceptObservation
          /\ phase' = "accepted" /\ UNCHANGED <<output, taskRetries>>
       \/ Rejects /\ RejectObservation /\ CheckFailed
       \/ ~Passes /\ ~Rejects /\ CheckFailed
          /\ UNCHANGED <<observation, validated, rejected>>
    /\ UNCHANGED <<react, llmCalls, status, success, executions, successes,
                   semanticRetries, callVars>>

\* _validate_vision_tool_call and what run_tutor_workflow does with the
\* analysis: without a crew, the observation is validated here, against the
\* contract alone; an analysis in markdown has rules of its own.
MaxExecutions == IF react THEN 2 ELSE 1

CountsHold == success /\ executions <= MaxExecutions /\ successes \in 1..MaxExecutions

Finish ==
    /\ phase = "accepted"
    /\ \/ /\ CountsHold
          /\ react \/ observation.verdict # "invalid"
          /\ phase' = "returned"
       \/ /\ ~CountsHold \/ (~react /\ observation.verdict \in {"invalid", "not_json"})
          /\ phase' = "raised"
    /\ UNCHANGED <<react, output, llmCalls, taskRetries, toolVars, callVars>>

Crew == RunDirectly \/ AskModel \/ BudgetExceeded \/ EndBatch \/ CheckOutput \/ Finish

Next == Crew \/ \E c \in Callers : ToolCall(c)

Spec == Init /\ [][Next]_vars

\* The loop goes on, and so does each tool call: a model call has a timeout.
FairSpec ==
    /\ Spec
    /\ WF_vars(Crew)
    /\ \A c \in Callers : WF_vars(ToolCall(c))

-----------------------------------------------------------------------------
(* Properties.                                                             *)

CallStates == {"idle", "claiming", "executing", "waiting", "answered", "failed"}
Phases == {"thinking", "tools", "checking", "accepted", "returned", "raised"}

TypeOK ==
    /\ react \in BOOLEAN
    /\ status \in {"not_started", "running", "succeeded", "failed"}
    /\ observation \in Observation \cup {NoObservation}
    /\ success \in BOOLEAN /\ validated \in BOOLEAN /\ rejected \in BOOLEAN
    /\ executions \in 0..(1 + SemanticBudget)
    /\ successes \in 0..(1 + SemanticBudget)
    /\ semanticRetries \in 0..SemanticBudget
    /\ caller \in [Callers -> CallStates]
    /\ given \in [Callers -> Observation \cup {NoObservation}]
    /\ phase \in Phases
    /\ output \in Outputs
    /\ llmCalls \in 0..MaxLlmCalls
    /\ taskRetries \in 0..MaxTaskRetries

Executing == {c \in Callers : caller[c] = "executing"}

\* However tool calls interleave, at most one of them runs the model, and the
\* state says "running" exactly while one does, so that waiters neither wait
\* for nobody nor go on too early.
SingleExecution ==
    /\ \A c, d \in Executing : c = d
    /\ status = "running" <=> Executing # {}

\* A call that waits is waiting for a running execution or finds an answer:
\* the "invalid memoization state" of _wait_for_or_replay is never reached.
WaiterIsServed ==
    (\E c \in Callers : caller[c] = "waiting") =>
        \/ status \in {"running", "failed"}
        \/ status = "succeeded" /\ (CanReplay \/ rejected)

\* A workflow with a crew returns only what the guardrail accepted: the
\* observation of the latest execution, valid or marked for review, and never
\* one that was rejected, whatever retries and failures came before.
ReturnsAcceptedObservation ==
    (react /\ phase = "returned") =>
        /\ validated /\ ~rejected
        /\ observation.verdict \in {"valid", "marked"}
        /\ observation.run = executions
        /\ output = "observation"

\* Every observation that a call of the current batch returned is the stored
\* one: two calls of a batch never return different analyses.
BatchAgrees ==
    phase = "tools" =>
        \A c \in Callers : caller[c] = "answered" =>
            given[c] = observation /\ ~rejected

Claiming == {c \in Callers : caller[c] = "claiming"}
AtWork == {c \in Callers : caller[c] \in {"executing", "waiting"}}

\* What the tool calls of the batch have before them, and what is left of the
\* loop's round: the agent thinks at its end, the direct path at its start.
CallsLeft == 2 * Cardinality(Claiming) + Cardinality(AtWork)
RoundLeft ==
    CASE phase = "thinking" -> IF react THEN 2 ELSE 5
      [] phase = "tools" -> 4
      [] phase = "checking" -> 3
      [] phase = "accepted" -> 1
      [] OTHER -> 0

\* No retry of whatever kind gives back what it cost: each step takes a model
\* call from the budget, or, within one, the rest of the round gets shorter, or
\* a tool call comes nearer to its end.  So a workflow takes a bounded number
\* of steps whatever the model answers (factories.py:155-210, tools.py:413-469).
StepsAreBounded ==
    [][\/ llmCalls' > llmCalls
       \/ llmCalls' = llmCalls /\ RoundLeft' < RoundLeft
       \/ /\ llmCalls' = llmCalls /\ RoundLeft' = RoundLeft
          /\ CallsLeft' < CallsLeft]_vars

\* The workflow seen as AnalysisLifecycle.
LifeStage ==
    IF phase \in {"returned", "raised"} THEN phase
    ELSE IF status = "not_started" THEN "none"
    ELSE IF status # "succeeded" THEN status
    ELSE IF rejected THEN "rejected"
    ELSE IF validated THEN "accepted" ELSE "observed"

Rejections == IF status = "succeeded" /\ rejected THEN semanticRetries + 1
              ELSE semanticRetries

Lifecycle ==
    INSTANCE AnalysisLifecycle
    WITH Reruns <- SemanticBudget, guarded <- react,
         stage <- LifeStage, rejections <- Rejections

\* Whatever the calls of the agent and its answers, the model is asked again
\* only for a rejected observation; one that was rejected is never accepted
\* later, one that was accepted is what is returned, and after a failure no
\* earlier observation comes back (tools.py:90-148, task_guardrails.py:116-218).
LifecycleSpec == Lifecycle!Spec

\* The workflow returns or raises: no tool call waits for ever, and the loop of
\* retries ends.
WorkflowEnds == <>(phase \in {"returned", "raised"})

\* An observation that is not valid for the invocation is rejected by the check
\* that fails on it, and so is not replayed.
InvalidIsRejected ==
    (phase = "thinking" /\ taskRetries > 0 /\ Observed /\ ~ContractHolds) => rejected
=============================================================================
