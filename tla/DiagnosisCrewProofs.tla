------------------------ MODULE DiagnosisCrewProofs ------------------------
(***************************************************************************)
(* Theorems about DiagnosisCrew, for any number of concurrent tool calls   *)
(* and any budgets.                                                        *)
(*                                                                         *)
(* The safety properties depend on each other: a batch agrees because a    *)
(* rerun needs a rejected observation, which no call of the batch can have *)
(* returned; the counts tell which execution an observation is from.       *)
(***************************************************************************)
EXTENDS DiagnosisCrew, FiniteSetTheorems, TLAPS

\* The counters and the outcome of the last execution agree with the status.
Counted ==
    /\ status = "not_started" =>
          semanticRetries = 0 /\ executions = 0 /\ successes = 0
    /\ status # "not_started" => executions = semanticRetries + 1
    /\ status = "running" => executions = successes + 1
    /\ status = "succeeded" =>
          /\ success /\ executions = successes
          /\ observation # NoObservation /\ observation.run = executions
    /\ successes <= executions
    /\ success => status \in {"running", "succeeded"}

\* Tool calls run only while the loop waits for them.
CallsInBatch == phase # "tools" => BatchEnded

\* A call waits only after another one has claimed the execution.
WaitersFollow == \A c \in Callers : caller[c] = "waiting" => status # "not_started"

\* An observation is rejected by a check that restarts the agent or ends it.
RejectedByCheck == rejected => taskRetries > 0 \/ phase = "raised"

\* A call that has answered leaves nothing to rerun for the others.
AnswersStand ==
    phase = "tools" =>
        \A c \in Callers : caller[c] = "answered" =>
            given[c] = observation /\ ~rejected /\ status = "succeeded"

\* What a crew's output is accepted for.
AcceptedByCheck ==
    (react /\ phase \in {"accepted", "returned"}) =>
        /\ validated /\ ~rejected
        /\ observation.verdict \in {"valid", "marked"}
        /\ observation.run = executions
        /\ output = "observation"

IInv ==
    /\ TypeOK
    /\ SingleExecution
    /\ Counted
    /\ CallsInBatch
    /\ WaitersFollow
    /\ RejectedByCheck
    /\ AnswersStand
    /\ AcceptedByCheck
-----------------------------------------------------------------------------
(* The tool calls.                                                         *)

\* A call that claims the execution is the only one at work.
LEMMA ClaimStep ==
    ASSUME IInv, NEW c \in Callers, Claim(c)
    PROVE  IInv'
<1> USE DEF IInv
<1>1. caller[c] = "claiming" /\ phase = "tools" /\ phase' = "tools"
  BY DEF Claim, CallsInBatch, BatchEnded, crewVars
<1>2. CASE status = "not_started" \/ CanRetry
  <2>1. /\ status' = "running" /\ executions' = executions + 1
        /\ caller' = [caller EXCEPT ![c] = "executing"]
        /\ semanticRetries' = IF CanRetry THEN semanticRetries + 1 ELSE semanticRetries
        /\ UNCHANGED <<observation, success, validated, rejected, successes, given,
                       react, phase, output, llmCalls, taskRetries>>
    BY <1>2 DEF Claim, Becomes, crewVars
  <2>2. TypeOK'
    BY <2>1, <1>2, CrewAssumptions DEF TypeOK, Counted, CanRetry, CallStates, Phases
  <2>3. SingleExecution'
    BY <2>1, <1>2 DEF TypeOK, SingleExecution, Executing, CanRetry
  <2>4. Counted'
    BY <2>1, <1>2 DEF TypeOK, Counted, CanRetry
  <2>5. (CallsInBatch /\ WaitersFollow /\ RejectedByCheck /\ AcceptedByCheck)'
    BY <2>1, <1>1 DEF TypeOK, CallsInBatch, WaitersFollow, RejectedByCheck, AcceptedByCheck
  <2>6. AnswersStand'
    BY <2>1, <1>1, <1>2 DEF TypeOK, AnswersStand, CanRetry
  <2> QED BY <2>2, <2>3, <2>4, <2>5, <2>6
<1>3. CASE ~(status = "not_started" \/ CanRetry)
  <2>1. /\ caller' = [caller EXCEPT ![c] = "waiting"]
        /\ UNCHANGED <<status, executions, semanticRetries, observation, success,
                       validated, rejected, successes, given,
                       react, phase, output, llmCalls, taskRetries>>
    BY <1>3 DEF Claim, Becomes, crewVars
  <2>2. (TypeOK /\ SingleExecution)'
    BY <2>1, <1>1 DEF TypeOK, SingleExecution, Executing, CallStates
  <2>3. (Counted /\ CallsInBatch /\ RejectedByCheck /\ AcceptedByCheck)'
    BY <2>1, <1>1 DEF Counted, CallsInBatch, RejectedByCheck, AcceptedByCheck
  <2>4. (WaitersFollow /\ AnswersStand)'
    BY <2>1, <1>3 DEF TypeOK, WaitersFollow, AnswersStand
  <2> QED BY <2>2, <2>3, <2>4
<1> QED BY <1>2, <1>3

\* The execution that ends well replaces the observation, which no call of the
\* batch has returned.
LEMMA ExecuteStep ==
    ASSUME IInv, NEW c \in Callers, Execute(c)
    PROVE  IInv'
<1> USE DEF IInv
<1>1. /\ caller[c] = "executing" /\ status = "running"
      /\ phase = "tools" /\ phase' = "tools"
  BY DEF Execute, CallsInBatch, BatchEnded, SingleExecution, Executing, crewVars
<1>2. /\ status' = "succeeded" /\ success' = TRUE /\ successes' = successes + 1
      /\ validated' = FALSE /\ rejected' = FALSE
      /\ caller' = [caller EXCEPT ![c] = "answered"]
      /\ given' = [given EXCEPT ![c] = observation']
      /\ UNCHANGED <<executions, semanticRetries, react, phase, output, llmCalls,
                     taskRetries>>
  BY DEF Execute, Becomes, crewVars
<1>3. PICK v \in Verdicts : observation' = [run |-> executions, verdict |-> v]
  BY DEF Execute
<1>4. observation' \in Observation /\ observation' # NoObservation
  BY <1>1, <1>3, NoneIsNoObservation, CrewAssumptions DEF TypeOK, Counted, Observation
<1>5. TypeOK'
  BY <1>1, <1>2, <1>4, CrewAssumptions DEF TypeOK, Counted, CallStates
<1>6. SingleExecution'
  BY <1>1, <1>2 DEF TypeOK, SingleExecution, Executing
<1>7. Counted'
  BY <1>1, <1>2, <1>3, <1>4 DEF TypeOK, Counted
<1>8. (CallsInBatch /\ WaitersFollow /\ RejectedByCheck /\ AcceptedByCheck)'
  BY <1>1, <1>2 DEF CallsInBatch, WaitersFollow, RejectedByCheck, AcceptedByCheck
<1>9. AnswersStand'
  BY <1>1, <1>2 DEF TypeOK, AnswersStand
<1> QED BY <1>5, <1>6, <1>7, <1>8, <1>9

\* A failed execution leaves no call executing.
LEMMA FailStep ==
    ASSUME IInv, NEW c \in Callers, ExecutionFails(c)
    PROVE  IInv'
<1> USE DEF IInv
<1>1. /\ caller[c] = "executing" /\ status = "running"
      /\ phase = "tools" /\ phase' = "tools"
  BY DEF ExecutionFails, CallsInBatch, BatchEnded, SingleExecution, Executing, crewVars
<1>2. /\ status' = "failed" /\ success' = FALSE
      /\ caller' = [caller EXCEPT ![c] = "failed"]
      /\ UNCHANGED <<observation, validated, rejected, executions, successes,
                     semanticRetries, given, react, phase, output, llmCalls, taskRetries>>
  BY DEF ExecutionFails, Becomes, crewVars
<1>3. TypeOK'
  BY <1>2 DEF TypeOK, CallStates
<1>4. SingleExecution'
  BY <1>1, <1>2 DEF TypeOK, SingleExecution, Executing
<1>5. Counted'
  BY <1>1, <1>2 DEF TypeOK, Counted
<1>6. (CallsInBatch /\ WaitersFollow /\ RejectedByCheck /\ AcceptedByCheck)'
  BY <1>1, <1>2 DEF CallsInBatch, WaitersFollow, RejectedByCheck, AcceptedByCheck
<1>7. AnswersStand'
  BY <1>1, <1>2 DEF TypeOK, AnswersStand
<1> QED BY <1>3, <1>4, <1>5, <1>6, <1>7

\* A call that waited ends without touching the call state.
LEMMA WaiterStep ==
    ASSUME IInv, NEW c \in Callers,
           Replay(c) \/ ReplayRefused(c) \/ WaiterTimesOut(c)
    PROVE  IInv'
<1> USE DEF IInv
<1>1. caller[c] = "waiting" /\ phase = "tools" /\ phase' = "tools"
  BY DEF Replay, ReplayRefused, WaiterTimesOut, CallsInBatch, BatchEnded, crewVars
<1>2. /\ \/ /\ caller' = [caller EXCEPT ![c] = "answered"]
            /\ given' = [given EXCEPT ![c] = observation]
            /\ CanReplay
         \/ caller' = [caller EXCEPT ![c] = "failed"] /\ given' = given
      /\ UNCHANGED <<status, observation, success, validated, rejected, executions,
                     successes, semanticRetries, react, phase, output, llmCalls, taskRetries>>
  BY DEF Replay, ReplayRefused, WaiterTimesOut, Becomes, toolVars, crewVars
<1>3. TypeOK'
  BY <1>2 DEF TypeOK, CallStates
<1>4. SingleExecution'
  BY <1>1, <1>2 DEF TypeOK, SingleExecution, Executing
<1>5. (Counted /\ CallsInBatch /\ WaitersFollow /\ RejectedByCheck /\ AcceptedByCheck)'
  BY <1>1, <1>2 DEF Counted, CallsInBatch, WaitersFollow, RejectedByCheck, AcceptedByCheck, TypeOK
<1>6. AnswersStand'
  BY <1>1, <1>2 DEF TypeOK, AnswersStand, CanReplay
<1> QED BY <1>3, <1>4, <1>5, <1>6

-----------------------------------------------------------------------------
(* The agent loop and the guardrail.                                       *)

\* A new batch starts when no call is at work.
LEMMA SubmitStep ==
    ASSUME IInv, phase = "thinking", NEW batch \in SUBSET Callers, Submit(batch),
           llmCalls' \in 0..MaxLlmCalls, UNCHANGED <<react, toolVars>>
    PROVE  IInv'
<1> USE DEF IInv
<1>1. \A c \in Callers : caller[c] \in {"idle", "answered", "failed"}
  BY DEF CallsInBatch, BatchEnded
<1>2. /\ phase' = "tools"
      /\ caller' = [c \in Callers |-> IF c \in batch THEN "claiming" ELSE "idle"]
      /\ given' = [c \in Callers |-> NoObservation]
      /\ UNCHANGED <<status, observation, success, validated, rejected, executions,
                     successes, semanticRetries, react, output, taskRetries>>
  BY DEF Submit, toolVars
<1>3. TypeOK'
  BY <1>2 DEF TypeOK, CallStates, Phases
<1>4. SingleExecution'
  BY <1>1, <1>2 DEF SingleExecution, Executing
<1>5. (Counted /\ CallsInBatch /\ WaitersFollow /\ AnswersStand)'
  BY <1>2 DEF Counted, CallsInBatch, WaitersFollow, AnswersStand
<1>6. (RejectedByCheck /\ AcceptedByCheck)'
  BY <1>2 DEF RejectedByCheck, AcceptedByCheck
<1> QED BY <1>3, <1>4, <1>5, <1>6

\* A step of the loop that leaves the tool alone and accepts nothing for a crew.
LEMMA LoopStep ==
    ASSUME IInv,
           UNCHANGED <<react, toolVars, callVars, taskRetries>>,
           llmCalls' \in 0..MaxLlmCalls, output' \in Outputs,
           \/ phase = "thinking" /\ phase' \in {"checking", "raised"}
           \/ phase = "tools" /\ BatchEnded /\ phase' \in {"checking", "thinking"}
           \/ phase = "tools" /\ BatchEnded /\ ~react /\ phase' \in {"accepted", "raised"}
           \/ phase = "accepted" /\ output' = output /\ phase' \in {"returned", "raised"}
    PROVE  IInv'
<1> USE DEF IInv
<1>1. /\ BatchEnded
      /\ UNCHANGED <<status, observation, success, validated, rejected, executions,
                     successes, semanticRetries, caller, given, react, taskRetries>>
  BY DEF CallsInBatch, toolVars, callVars
<1>2. TypeOK'
  BY <1>1 DEF TypeOK, Phases
<1>3. (SingleExecution /\ Counted /\ WaitersFollow)'
  BY <1>1 DEF SingleExecution, Executing, Counted, WaitersFollow
<1>4. (CallsInBatch /\ AnswersStand)'
  BY <1>1 DEF CallsInBatch, AnswersStand, BatchEnded
<1>5. RejectedByCheck'
  BY <1>1 DEF RejectedByCheck
<1>6. AcceptedByCheck'
  BY <1>1 DEF AcceptedByCheck
<1> QED BY <1>2, <1>3, <1>4, <1>5, <1>6

\* The guardrail: what it accepts is the latest observation, and valid.
LEMMA CheckStep ==
    ASSUME IInv, CheckOutput
    PROVE  IInv'
<1> USE DEF IInv
<1>1. /\ phase = "checking" /\ BatchEnded
      /\ UNCHANGED <<status, success, executions, successes, semanticRetries,
                     caller, given, react, llmCalls>>
  BY DEF CheckOutput, CallsInBatch, callVars
<1>2. status # "running"
  BY <1>1 DEF SingleExecution, Executing, BatchEnded
<1>3. CASE Passes /\ AcceptObservation /\ phase' = "accepted" /\ UNCHANGED <<output, taskRetries>>
  <2>1. /\ output = "observation" /\ success
        /\ observation \in Observation
        /\ observation.verdict \in {"valid", "unknown_label", "marked"}
        /\ observation.run = executions
    BY <1>2, <1>3 DEF Passes, Observed, ContractHolds, TypeOK, Observation, Verdicts, Counted
  <2>2. /\ validated' = TRUE /\ rejected' = FALSE
        /\ observation' \in Observation
        /\ observation'.run = observation.run
        /\ observation'.verdict \in {"valid", "marked"}
    BY <1>3, <2>1 DEF AcceptObservation, Observation
  <2>3. observation' # NoObservation
    BY <2>2, NoneIsNoObservation
  <2>4. TypeOK'
    BY <1>1, <1>3, <2>2 DEF TypeOK, Phases
  <2>5. (SingleExecution /\ WaitersFollow)'
    BY <1>1 DEF SingleExecution, Executing, WaitersFollow
  <2>6. Counted'
    BY <1>1, <2>1, <2>2, <2>3 DEF Counted
  <2>7. (CallsInBatch /\ AnswersStand /\ RejectedByCheck)'
    BY <1>1, <1>3, <2>2 DEF CallsInBatch, AnswersStand, RejectedByCheck, BatchEnded
  <2>8. AcceptedByCheck'
    BY <1>1, <1>3, <2>1, <2>2 DEF AcceptedByCheck
  <2> QED BY <2>4, <2>5, <2>6, <2>7, <2>8
<1>4. CASE /\ CheckFailed /\ observation' = observation
           /\ \/ validated' = FALSE /\ rejected' = TRUE
              \/ UNCHANGED <<validated, rejected>>
  <2>1. /\ output' = "none" /\ phase' \in {"thinking", "raised"}
        /\ taskRetries' \in 0..MaxTaskRetries
        /\ phase' = "thinking" => taskRetries' > 0
    BY <1>4, CrewAssumptions DEF CheckFailed, TypeOK
  <2>2. TypeOK'
    BY <1>1, <1>4, <2>1 DEF TypeOK, Phases, Outputs
  <2>3. (SingleExecution /\ WaitersFollow /\ Counted)'
    BY <1>1, <1>4 DEF SingleExecution, Executing, WaitersFollow, Counted
  <2>4. (CallsInBatch /\ AnswersStand)'
    BY <1>1, <2>1 DEF CallsInBatch, AnswersStand, BatchEnded
  <2>5. (RejectedByCheck /\ AcceptedByCheck)'
    BY <2>1 DEF RejectedByCheck, AcceptedByCheck
  <2> QED BY <2>2, <2>3, <2>4, <2>5
<1> QED BY <1>3, <1>4 DEF CheckOutput, RejectObservation

-----------------------------------------------------------------------------
(* The theorems.                                                           *)

\* Every step keeps the invariant.
LEMMA InvariantStep == IInv /\ [Next]_vars => IInv'
<1> SUFFICES ASSUME IInv, [Next]_vars PROVE IInv'
  OBVIOUS
<1> USE DEF IInv
<1>1. ASSUME NEW c \in Callers, ToolCall(c) PROVE IInv'
  BY <1>1, ClaimStep, ExecuteStep, FailStep, WaiterStep DEF ToolCall
<1>2. CASE RunDirectly
  <2>1. PICK c \in Callers : Submit({c})
    BY <1>2 DEF RunDirectly
  <2> QED BY <1>2, <2>1, SubmitStep DEF RunDirectly, TypeOK
<1>3. CASE AskModel
  <2>1. /\ phase = "thinking" /\ llmCalls' \in 0..MaxLlmCalls
        /\ UNCHANGED <<react, toolVars>>
    BY <1>3, CrewAssumptions DEF AskModel, TypeOK
  <2>2. CASE \E batch \in SUBSET Callers : Submit(batch)
    BY <2>1, <2>2, SubmitStep
  <2>3. CASE phase' = "checking" /\ output' \in Outputs /\ UNCHANGED <<callVars, taskRetries>>
    BY <2>1, <2>3, LoopStep
  <2>4. CASE phase' = "raised" /\ UNCHANGED <<output, callVars, taskRetries>>
    BY <2>1, <2>4, LoopStep DEF TypeOK
  <2> QED BY <1>3, <2>2, <2>3, <2>4 DEF AskModel
<1>4. CASE BudgetExceeded
  BY <1>4, LoopStep DEF BudgetExceeded, TypeOK
<1>5. CASE EndBatch
  <2>1. output' \in Outputs
    BY <1>5 DEF EndBatch, TypeOK, Outputs
  <2> QED BY <1>5, <2>1, LoopStep DEF EndBatch, TypeOK
<1>6. CASE CheckOutput
  BY <1>6, CheckStep
<1>7. CASE Finish
  BY <1>7, LoopStep DEF Finish, TypeOK
<1>8. CASE UNCHANGED vars
  <2>1. UNCHANGED <<status, observation, success, validated, rejected, executions,
                    successes, semanticRetries, caller, given, react, phase, output,
                    llmCalls, taskRetries>>
    BY <1>8 DEF vars, toolVars, callVars, crewVars
  <2> QED BY <2>1 DEF TypeOK, SingleExecution, Executing, Counted, CallsInBatch, BatchEnded,
                      WaitersFollow, RejectedByCheck, AnswersStand, AcceptedByCheck
<1> QED BY <1>1, <1>2, <1>3, <1>4, <1>5, <1>6, <1>7, <1>8 DEF Next, Crew

\* The invariant holds of every reachable state.
THEOREM InductiveInvariant == Spec => []IInv
<1>1. Init => IInv
  <2> SUFFICES ASSUME Init PROVE IInv
    OBVIOUS
  <2> USE DEF Init
  <2>1. TypeOK
    <3>1. /\ react \in BOOLEAN
          /\ success \in BOOLEAN /\ validated \in BOOLEAN /\ rejected \in BOOLEAN
      OBVIOUS
    <3>2. /\ executions \in 0..(1 + SemanticBudget) /\ successes \in 0..(1 + SemanticBudget)
          /\ semanticRetries \in 0..SemanticBudget
          /\ llmCalls \in 0..MaxLlmCalls /\ taskRetries \in 0..MaxTaskRetries
      BY CrewAssumptions
    <3>3. /\ status \in {"not_started", "running", "succeeded", "failed"}
          /\ observation \in Observation \cup {NoObservation}
          /\ caller \in [Callers -> CallStates]
          /\ given \in [Callers -> Observation \cup {NoObservation}]
          /\ phase \in Phases /\ output \in Outputs
      BY DEF CallStates, Phases, Outputs
    <3> QED BY <3>1, <3>2, <3>3 DEF TypeOK
  <2>2. SingleExecution /\ Counted /\ CallsInBatch /\ WaitersFollow
    BY DEF SingleExecution, Executing, Counted, CallsInBatch, BatchEnded, WaitersFollow
  <2>3. RejectedByCheck /\ AnswersStand /\ AcceptedByCheck
    BY DEF RejectedByCheck, AnswersStand, AcceptedByCheck
  <2> QED BY <2>1, <2>2, <2>3 DEF IInv
<1> QED BY <1>1, InvariantStep, PTL DEF Spec

\* The types of the call state and of the loop; the budgets of executions,
\* semantic retries, model calls and task retries are kept.
THEOREM TypeCorrect == Spec => []TypeOK
BY InductiveInvariant, PTL DEF IInv

\* However tool calls interleave, one at a time runs the model, and the status
\* says so.
THEOREM OneExecution == Spec => []SingleExecution
BY InductiveInvariant, PTL DEF IInv

\* No waiting call finds the call state without an execution to wait for, an
\* observation, or a reason to fail.
THEOREM WaitersServed == Spec => []WaiterIsServed
<1>1. IInv => WaiterIsServed
  BY DEF IInv, TypeOK, WaitersFollow, Counted, WaiterIsServed, CanReplay
<1> QED BY <1>1, InductiveInvariant, PTL

\* The calls of a batch return one observation, whatever each of them did.
THEOREM BatchesAgree == Spec => []BatchAgrees
<1>1. IInv => BatchAgrees
  BY DEF IInv, AnswersStand, BatchAgrees
<1> QED BY <1>1, InductiveInvariant, PTL

\* A workflow with a crew returns the latest observation, accepted by the check.
THEOREM AcceptedOnly == Spec => []ReturnsAcceptedObservation
<1>1. IInv => ReturnsAcceptedObservation
  BY DEF IInv, AcceptedByCheck, ReturnsAcceptedObservation
<1> QED BY <1>1, InductiveInvariant, PTL

\* The second execution happens only for a semantic retry: the model is not
\* asked again after a failure, nor for an observation that was not rejected.
RerunsOnlyRejected ==
    [][executions' # executions =>
          \/ executions = 0
          \/ rejected /\ success /\ taskRetries > 0 /\ executions = successes]_vars

\* The analysis runs again only for an observation that a check rejected.
THEOREM RerunsJustified == Spec => RerunsOnlyRejected
<1> DEFINE Justified == executions' # executions =>
               \/ executions = 0
               \/ rejected /\ success /\ taskRetries > 0 /\ executions = successes
<1>1. IInv /\ [Next]_vars => [Justified]_vars
  <2> SUFFICES ASSUME IInv, Next, executions' # executions PROVE Justified
    BY DEF vars, toolVars
  <2>1. PICK c \in Callers : Claim(c)
    BY DEF Next, Crew, ToolCall, RunDirectly, AskModel, BudgetExceeded, EndBatch,
           CheckOutput, Finish, Execute, ExecutionFails, Replay, ReplayRefused,
           WaiterTimesOut, toolVars
  <2>2. phase # "raised"
    BY <2>1 DEF IInv, CallsInBatch, BatchEnded, Claim
  <2>3. CASE status = "not_started"
    BY <2>3 DEF IInv, Counted
  <2>4. CASE CanRetry
    BY <2>2, <2>4 DEF IInv, Counted, CanRetry, RejectedByCheck
  <2> QED BY <2>1, <2>3, <2>4 DEF Claim
<1> QED BY <1>1, InductiveInvariant, PTL DEF Spec, RerunsOnlyRejected
-----------------------------------------------------------------------------
(* The workflow implements AnalysisLifecycle.  What ties the flags of the    *)
(* call state to one stage is that a rejected observation stays as bad as it *)
(* was, so no later check of it comes to another result.                     *)

Bad == {"not_json", "invalid", "off_curriculum"}

JudgedOnce ==
    /\ phase = "checking" => react
    /\ ~react => ~validated /\ ~rejected
    /\ validated => phase \in {"accepted", "returned", "raised"}
    /\ rejected /\ status = "succeeded" => observation.verdict \in Bad

\* What a check does to the observation it is about.
LEMMA CheckJudges ==
    ASSUME IInv, JudgedOnce, CheckOutput
    PROVE  /\ phase = "checking" /\ react /\ ~validated /\ status # "running"
           /\ UNCHANGED <<react, status, semanticRetries>>
           /\ \/ /\ status = "succeeded" /\ ~rejected
                 /\ phase' = "accepted" /\ validated' /\ ~rejected'
              \/ /\ status = "succeeded" /\ observation.verdict \in Bad
                 /\ phase' \in {"thinking", "raised"} /\ ~validated' /\ rejected'
                 /\ observation' = observation
              \/ /\ phase' \in {"thinking", "raised"}
                 /\ UNCHANGED <<observation, validated, rejected>>
<1> USE DEF IInv
<1>1. /\ phase = "checking" /\ react /\ ~validated
      /\ UNCHANGED <<react, status, semanticRetries>>
  BY DEF CheckOutput, JudgedOnce
<1>2. status # "running"
  BY <1>1 DEF SingleExecution, Executing, CallsInBatch, BatchEnded
<1>3. Observed => status = "succeeded" /\ observation \in Observation
  BY <1>2 DEF Observed, Counted, TypeOK
<1>4. CASE Passes /\ AcceptObservation /\ phase' = "accepted"
  <2>1. observation.verdict \notin Bad
    BY <1>4 DEF Passes, ContractHolds, Bad
  <2> QED BY <1>1, <1>2, <1>3, <1>4, <2>1 DEF Passes, AcceptObservation, JudgedOnce
<1>5. CASE Rejects /\ RejectObservation /\ CheckFailed
  <2>1. status = "succeeded" /\ observation.verdict \in Bad
    BY <1>3, <1>5 DEF Rejects, ContractHolds, Bad
  <2> QED BY <1>1, <1>2, <1>5, <2>1 DEF RejectObservation, CheckFailed
<1>6. CASE CheckFailed /\ UNCHANGED <<observation, validated, rejected>>
  BY <1>1, <1>2, <1>6 DEF CheckFailed
<1> QED BY <1>4, <1>5, <1>6 DEF CheckOutput

\* Steps of the loop that leave the call state alone.
Onward == RunDirectly \/ AskModel \/ BudgetExceeded \/ EndBatch \/ Finish

LEMMA OnwardLeavesState ==
    ASSUME IInv, Onward
    PROVE  /\ UNCHANGED <<status, observation, success, validated, rejected,
                          executions, successes, semanticRetries, react>>
           /\ status # "running"
           /\ \/ phase = "thinking" /\ phase' \in {"tools", "checking", "raised"}
              \/ phase = "tools" /\ phase' \in {"checking", "thinking", "accepted", "raised"}
              \/ phase = "accepted" /\ phase' = "returned" /\ success
              \/ phase = "accepted" /\ phase' = "raised"
           /\ phase' = "checking" => react
<1>1. UNCHANGED <<status, observation, success, validated, rejected,
                  executions, successes, semanticRetries, react>>
  BY DEF Onward, RunDirectly, AskModel, BudgetExceeded, EndBatch, Finish, toolVars
<1>2. BatchEnded
  BY DEF IInv, CallsInBatch, Onward, RunDirectly, AskModel, BudgetExceeded, EndBatch, Finish
<1>3. status # "running"
  BY <1>2 DEF IInv, SingleExecution, Executing, BatchEnded
<1>4. CASE RunDirectly \/ AskModel \/ BudgetExceeded
  BY <1>1, <1>3, <1>4 DEF RunDirectly, AskModel, BudgetExceeded, Submit
<1>5. CASE EndBatch
  BY <1>1, <1>3, <1>5 DEF EndBatch
<1>6. CASE Finish
  BY <1>1, <1>3, <1>6 DEF Finish, CountsHold
<1> QED BY <1>4, <1>5, <1>6 DEF Onward

\* What a tool call does to the call state.
LEMMA ToolCallSteps ==
    ASSUME IInv, JudgedOnce, NEW c \in Callers, ToolCall(c)
    PROVE  /\ phase = "tools" /\ ~validated /\ UNCHANGED <<react, phase>>
           /\ \/ /\ status = "not_started" \/ CanRetry
                 /\ status' = "running"
                 /\ semanticRetries' = IF CanRetry THEN semanticRetries + 1 ELSE semanticRetries
                 /\ UNCHANGED <<observation, validated, rejected>>
              \/ /\ status = "running" /\ status' = "succeeded"
                 /\ ~validated' /\ ~rejected' /\ UNCHANGED semanticRetries
              \/ /\ status = "running" /\ status' = "failed"
                 /\ UNCHANGED <<observation, validated, rejected, semanticRetries>>
              \/ UNCHANGED <<status, observation, validated, rejected, semanticRetries>>
<1> USE DEF IInv
<1>1. phase = "tools" /\ UNCHANGED <<react, phase>>
  BY DEF ToolCall, Claim, Execute, ExecutionFails, Replay, ReplayRefused,
         WaiterTimesOut, CallsInBatch, BatchEnded, crewVars
<1>2. ~validated
  BY <1>1 DEF JudgedOnce
<1>3. CASE Claim(c)
  BY <1>1, <1>2, <1>3 DEF Claim
<1>4. CASE Execute(c) \/ ExecutionFails(c)
  <2>1. status = "running"
    BY <1>4 DEF Execute, ExecutionFails, SingleExecution, Executing
  <2> QED BY <1>1, <1>2, <1>4, <2>1 DEF Execute, ExecutionFails
<1>5. CASE Replay(c) \/ ReplayRefused(c) \/ WaiterTimesOut(c)
  BY <1>1, <1>2, <1>5 DEF Replay, ReplayRefused, WaiterTimesOut, toolVars
<1> QED BY <1>3, <1>4, <1>5 DEF ToolCall

LEMMA JudgedStep ==
    ASSUME IInv, JudgedOnce, [Next]_vars
    PROVE  JudgedOnce'
<1>1. ASSUME NEW c \in Callers, ToolCall(c) PROVE JudgedOnce'
  BY <1>1, ToolCallSteps DEF JudgedOnce
<1>2. CASE CheckOutput
  BY <1>2, CheckJudges DEF JudgedOnce
<1>3. CASE Onward
  BY <1>3, OnwardLeavesState DEF JudgedOnce
<1>4. CASE UNCHANGED vars
  BY <1>4 DEF vars, toolVars, crewVars, JudgedOnce
<1> QED BY <1>1, <1>2, <1>3, <1>4 DEF Next, Crew, Onward

\* A claim asks the model for the first time, or for a rejected observation.
LEMMA ClaimIsRun ==
    ASSUME IInv, JudgedOnce, phase = "tools", phase' = "tools",
           status = "not_started" \/ CanRetry, status' = "running",
           semanticRetries' = IF CanRetry THEN semanticRetries + 1 ELSE semanticRetries,
           UNCHANGED react
    PROVE  Lifecycle!Next
<1>1. LifeStage' = "running" /\ Rejections' = semanticRetries'
  BY DEF LifeStage, Rejections
<1>2. CASE status = "not_started"
  <2>1. LifeStage = "none" /\ Rejections = semanticRetries /\ ~CanRetry
    BY <1>2 DEF LifeStage, Rejections, CanRetry
  <2> QED BY <1>1, <2>1 DEF Lifecycle!Next, Lifecycle!Run
<1>3. CASE CanRetry
  <2>1. LifeStage = "rejected" /\ Rejections = semanticRetries + 1
    BY <1>3 DEF LifeStage, Rejections, CanRetry
  <2>2. Rejections <= SemanticBudget
    BY <1>3, <2>1, CrewAssumptions DEF CanRetry, IInv, TypeOK
  <2> QED BY <1>1, <1>3, <2>1, <2>2 DEF Lifecycle!Next, Lifecycle!Run
<1> QED BY <1>2, <1>3

\* Every step of the crew is a step of the observation's life, or none.
LEMMA LifecycleStep ==
    ASSUME IInv, JudgedOnce, [Next]_vars
    PROVE  [Lifecycle!Next]_(Lifecycle!vars)
<1>1. ASSUME NEW c \in Callers, ToolCall(c)
      PROVE  [Lifecycle!Next]_(Lifecycle!vars)
  <2>1. phase = "tools" /\ phase' = "tools" /\ ~validated /\ react' = react
    BY <1>1, ToolCallSteps
  <2>2. CASE /\ status = "not_started" \/ CanRetry
             /\ status' = "running"
             /\ semanticRetries' = IF CanRetry THEN semanticRetries + 1 ELSE semanticRetries
    BY <2>1, <2>2, ClaimIsRun
  <2>3. CASE /\ status = "running" /\ status' = "succeeded"
             /\ ~validated' /\ ~rejected' /\ UNCHANGED semanticRetries
    BY <2>1, <2>3 DEF LifeStage, Rejections, Lifecycle!Next, Lifecycle!Observe
  <2>4. CASE /\ status = "running" /\ status' = "failed"
             /\ UNCHANGED <<observation, validated, rejected, semanticRetries>>
    BY <2>1, <2>4 DEF LifeStage, Rejections, Lifecycle!Next, Lifecycle!Fail
  <2>5. CASE UNCHANGED <<status, observation, validated, rejected, semanticRetries>>
    BY <2>1, <2>5 DEF LifeStage, Rejections, Lifecycle!vars
  <2> QED BY <1>1, <2>2, <2>3, <2>4, <2>5, ToolCallSteps
<1>2. CASE CheckOutput
  <2>1. /\ phase = "checking" /\ react /\ ~validated /\ status # "running"
        /\ UNCHANGED <<react, status, semanticRetries>>
    BY <1>2, CheckJudges
  <2>2. CASE /\ status = "succeeded" /\ ~rejected
             /\ phase' = "accepted" /\ validated' /\ ~rejected'
    BY <2>1, <2>2 DEF LifeStage, Rejections, Lifecycle!Next, Lifecycle!Accept
  <2>3. CASE /\ status = "succeeded" /\ phase' \in {"thinking", "raised"}
             /\ ~validated' /\ rejected'
    <3>1. CASE rejected
      <4>1. LifeStage = "rejected" /\ Rejections' = Rejections
        BY <2>1, <2>3, <3>1 DEF LifeStage, Rejections
      <4>2. LifeStage' \in {"rejected", "raised"}
        BY <2>1, <2>3 DEF LifeStage
      <4> QED BY <2>1, <4>1, <4>2 DEF Lifecycle!Next, Lifecycle!Raise, Lifecycle!vars
    <3>2. CASE ~rejected
      <4>1. LifeStage = "observed" /\ Rejections' = Rejections + 1
        BY <2>1, <2>3, <3>2 DEF LifeStage, Rejections
      <4>2. LifeStage' \in {"rejected", "raised"}
        BY <2>1, <2>3 DEF LifeStage
      <4> QED BY <2>1, <4>1, <4>2 DEF Lifecycle!Next, Lifecycle!Reject
    <3> QED BY <3>1, <3>2
  <2>4. CASE /\ phase' \in {"thinking", "raised"}
             /\ UNCHANGED <<observation, validated, rejected>>
    <3>1. LifeStage \notin {"returned", "raised"} /\ Rejections' = Rejections
      BY <2>1, <2>4 DEF LifeStage, Rejections, IInv, TypeOK
    <3>2. LifeStage' = LifeStage \/ LifeStage' = "raised"
      BY <2>1, <2>4 DEF LifeStage
    <3> QED BY <2>1, <3>1, <3>2 DEF Lifecycle!Next, Lifecycle!Raise, Lifecycle!vars
  <2> QED BY <1>2, <2>2, <2>3, <2>4, CheckJudges
<1>3. CASE Onward
  <2>1. /\ UNCHANGED <<status, observation, success, validated, rejected,
                       executions, successes, semanticRetries, react>>
        /\ status # "running"
    BY <1>3, OnwardLeavesState
  <2>2. Rejections' = Rejections
    BY <2>1 DEF Rejections
  <2>3. CASE /\ phase \in {"thinking", "tools", "accepted"}
             /\ phase' \in {"thinking", "tools", "checking", "accepted", "raised"}
    <3>1. LifeStage \notin {"returned", "raised"}
      BY <2>3 DEF LifeStage, IInv, TypeOK
    <3>2. LifeStage' = LifeStage \/ LifeStage' = "raised"
      BY <2>1, <2>3 DEF LifeStage
    <3> QED BY <2>1, <2>2, <3>1, <3>2 DEF Lifecycle!Next, Lifecycle!Raise, Lifecycle!vars
  <2>4. CASE phase = "accepted" /\ phase' = "returned" /\ success
    <3>1. status = "succeeded"
      BY <2>1, <2>4 DEF IInv, Counted
    <3>2. LifeStage' = "returned" /\ react \in BOOLEAN
      BY <2>4 DEF LifeStage, IInv, TypeOK
    <3>3. react => LifeStage = "accepted"
      BY <2>4, <3>1 DEF LifeStage, IInv, AcceptedByCheck
    <3>4. ~react => LifeStage = "observed"
      BY <2>4, <3>1 DEF LifeStage, JudgedOnce
    <3> QED BY <2>1, <2>2, <3>2, <3>3, <3>4 DEF Lifecycle!Next, Lifecycle!Return
  <2> QED BY <1>3, <2>3, <2>4, OnwardLeavesState
<1>4. CASE UNCHANGED vars
  BY <1>4 DEF vars, toolVars, crewVars, LifeStage, Rejections, Lifecycle!vars
<1> QED BY <1>1, <1>2, <1>3, <1>4 DEF Next, Crew, Onward

\* The refinement: concurrent calls, replays, answers of any kind and retries
\* come to one observation at a time, asked for again only if it was rejected.
THEOREM CrewKeepsLifecycle == Spec => LifecycleSpec
<1>1. Init => JudgedOnce /\ Lifecycle!Init
  BY DEF Init, JudgedOnce, LifeStage, Rejections, Lifecycle!Init
<1>2. IInv /\ JudgedOnce /\ [Next]_vars => JudgedOnce'
  BY JudgedStep
<1>3. IInv /\ JudgedOnce /\ [Next]_vars => [Lifecycle!Next]_(Lifecycle!vars)
  BY LifecycleStep
<1> QED BY <1>1, <1>2, <1>3, InductiveInvariant, PTL DEF Spec, LifecycleSpec, Lifecycle!Spec
-----------------------------------------------------------------------------
(* The workflow takes finitely many steps.                                   *)

\* A step of a tool call leaves less for the batch to do.
LEMMA CallsComeToAnEnd ==
    ASSUME TypeOK, NEW c \in Callers, ToolCall(c)
    PROVE  CallsLeft' < CallsLeft
<1>1. IsFiniteSet(Claiming) /\ IsFiniteSet(AtWork)
  BY CrewAssumptions, FS_Subset DEF Claiming, AtWork
<1>2. Cardinality(Claiming) \in Nat /\ Cardinality(AtWork) \in Nat
  BY <1>1, FS_CardinalityType
<1>3. CASE Claim(c)
  <2>1. PICK state \in {"executing", "waiting"} :
           caller' = [caller EXCEPT ![c] = state]
    BY <1>3 DEF Claim, Becomes
  <2>2. c \in Claiming /\ Claiming' = Claiming \ {c}
    BY <1>3, <2>1 DEF Claim, Claiming, TypeOK
  <2>3. c \notin AtWork /\ AtWork' = AtWork \cup {c}
    BY <1>3, <2>1 DEF Claim, AtWork, TypeOK
  <2>4. Cardinality(Claiming') = Cardinality(Claiming) - 1
    BY <1>1, <2>2, FS_RemoveElement
  <2>5. Cardinality(AtWork') = Cardinality(AtWork) + 1
    BY <1>1, <2>3, FS_AddElement
  <2> QED BY <1>2, <2>4, <2>5 DEF CallsLeft
<1>4. CASE ~Claim(c)
  <2>1. /\ caller[c] \in {"executing", "waiting"}
        /\ \E state \in {"answered", "failed"} : caller' = [caller EXCEPT ![c] = state]
    BY <1>4 DEF ToolCall, Execute, ExecutionFails, Replay, ReplayRefused,
                WaiterTimesOut, Becomes
  <2>2. PICK state \in {"answered", "failed"} : caller' = [caller EXCEPT ![c] = state]
    BY <2>1
  <2>3. c \in AtWork /\ AtWork' = AtWork \ {c}
    BY <2>1, <2>2 DEF AtWork, TypeOK
  <2>4. Claiming' = Claiming
    BY <2>1, <2>2 DEF Claiming, TypeOK
  <2>5. Cardinality(AtWork') = Cardinality(AtWork) - 1
    BY <1>1, <2>3, FS_RemoveElement
  <2> QED BY <1>2, <2>4, <2>5 DEF CallsLeft
<1> QED BY <1>3, <1>4

\* However many calls a batch has and whatever the budgets are, no retry gives
\* back what it cost: with the budget of TypeCorrect, a workflow is finite.
THEOREM WorkflowIsBounded == Spec => StepsAreBounded
<1> DEFINE Costs == \/ llmCalls' > llmCalls
                    \/ llmCalls' = llmCalls /\ RoundLeft' < RoundLeft
                    \/ /\ llmCalls' = llmCalls /\ RoundLeft' = RoundLeft
                       /\ CallsLeft' < CallsLeft
<1>1. IInv /\ JudgedOnce /\ [Next]_vars => [Costs]_vars
  <2> SUFFICES ASSUME IInv, JudgedOnce, Next PROVE Costs
    OBVIOUS
  <2>1. ASSUME NEW c \in Callers, ToolCall(c) PROVE Costs
    <3>1. UNCHANGED crewVars
      BY <2>1 DEF ToolCall, Claim, Execute, ExecutionFails, Replay, ReplayRefused,
                  WaiterTimesOut
    <3>2. llmCalls' = llmCalls /\ RoundLeft' = RoundLeft
      BY <3>1 DEF crewVars, RoundLeft
    <3> QED BY <2>1, <3>2, CallsComeToAnEnd DEF IInv
  <2>2. CASE RunDirectly
    BY <2>2 DEF RunDirectly, Submit, RoundLeft
  <2>3. CASE AskModel
    BY <2>3 DEF AskModel, IInv, TypeOK
  <2>4. CASE BudgetExceeded
    BY <2>4 DEF BudgetExceeded, RoundLeft
  <2>5. CASE EndBatch
    BY <2>5 DEF EndBatch, RoundLeft
  <2>6. CASE CheckOutput
    <3>1. /\ phase = "checking" /\ react' = react /\ react /\ llmCalls' = llmCalls
          /\ phase' \in {"accepted", "thinking", "raised"}
      BY <2>6, CheckJudges DEF CheckOutput
    <3> QED BY <3>1 DEF RoundLeft
  <2>7. CASE Finish
    BY <2>7 DEF Finish, RoundLeft
  <2> QED BY <2>1, <2>2, <2>3, <2>4, <2>5, <2>6, <2>7 DEF Next, Crew
<1>2. Init => JudgedOnce
  BY DEF Init, JudgedOnce
<1>3. IInv /\ JudgedOnce /\ [Next]_vars => JudgedOnce'
  BY JudgedStep
<1> QED BY <1>1, <1>2, <1>3, InductiveInvariant, PTL DEF Spec, StepsAreBounded
=============================================================================
