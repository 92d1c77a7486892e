# Verification of the JEE tutor agent

TLA+ models of the tutor agent's runtime, the TLC configurations that check
them on small instances, and theorems about them whose proofs TLAPS checks.
Source paths are relative to `src/src/jee_tutor/` unless they start with
`docs/` or `openspec/`.

## The system

The agent diagnoses a student's answers to JEE questions from images. A request
reaches a runtime process (`app.py`, `handler.py`, `tasks/router.py`), which
builds a service for it (`infrastructure/composition.py`) and runs it on a
thread. Requests share three things: the process-wide idempotency store, the
process-wide rate limiter, and the tables and buckets outside of the process.

| Component | State | Operations | Interacts with |
|---|---|---|---|
| Idempotency store, `invocation/idempotency.py` | dict of entries (fingerprint, created_at, response) under a lock | claim, complete, abandon; expiry inside claim | called by the service of every request |
| Invocation service, `invocation/service.py` | the request's thread | `handle` and what it calls | store, status store, guardrails, workflow, artifacts, email |
| Status store, `invocation/status_store.py` | a DynamoDB row per invocation_id | upsert, update, append of calls and events | written by the service, the vision tool and the crew callbacks |
| Vision tool, `agent/tools.py` | `VisionToolCallState` under a condition variable | claim an execution, execute, cache a failure, wait, replay | the agent loop, the vision model client, the guardrail |
| Task guardrail, `agent/task_guardrails.py` | none of its own; marks the call state | check an output, reject, accept, soften labels | vision tool state, output validation, curriculum validator |
| Workflow and agent loop, `agent/workflow.py`, `factories.py`, `crew.py` | calls made, retries made | kickoff, mandatory first call, budget, final checks | CrewAI (external), tool, guardrail |
| Rate limiter, `agent/rate_limit.py` | `_next_allowed_at` under a lock | reserve a slot, sleep, retry after a backoff | every thread that calls Gemini |
| Vision model client, `agent/llm_client.py` | attempt count | one completion, validated when structured | rate limiter, output validation |
| Output validation, `agent/diagnosis_output.py`, `output_validation.py` | none | parse, check counts and question numbers, render | tool, guardrail, workflow |
| Curriculum, `curriculum/` | a cached taxonomy | load, resolve labels, validate | guardrail |
| Artifacts, `artifacts/` | S3 objects named after the image prefix | PDF, markdown fallback, JSON | service |
| Email, `email/` | coordinator's and worker's stores of outcomes | request, deliver | service, Lambda, SES |
| Student profile, `application/profile.py`, `profile/` | metadata table, report bucket, embedding cache | read evidence, embed, cluster, analyse strands, repair, write | profile model, S3, DynamoDB |
| Execution profile, `infrastructure/execution_profile.py`, `model_routing.py` | cached secret, bundle bound to the request | authenticate, resolve, bind | handler |

What is hard here:

* *Concurrency.* Duplicates of a request race on one key, and on one row of the
  table, which is named after the key. The tool calls of one model answer race
  on one call state. All threads race for slots.
* *Time.* A claim lives for 600 s, a model call may take 360 s and be retried,
  a waiter gives up after 30 s.
* *Failure.* Every write of a row may raise, and may have reached the table; the
  process may die; an event may be accepted by a call that raises.
* *Retries on retries.* Transport attempts, semantic retries, task retries, a
  budget of model calls, and retries of the whole request by its caller.

What makes each component correct: the *store* lets one call per key work, and
replays an answer only to the request it answers. The *service* leaves a row
that says what it returned, and caches nothing that is not on record. The *tool*
executes once, again only for an observation that was rejected, and leaves
nobody waiting. The *guardrail* lets only a validated observation become the
analysis. The *workflow* ends within its budgets. The *limiter* keeps requests an
interval apart, gives no slot away and starves nobody. The *output checks* let out only a
diagnosis that answers the images it was made from. What a success *leaves
behind* is what its response says, and an email carries no PDF older than its
run's. A *profile* shows the student's history and says what it could not read;
the vectors it compares are comparable. The *strands* it reports are supported by
judgements the classifier made, and no question of the student is lost or counted
twice.

## Modules

| Module | Models | Extends / uses |
|---|---|---|
| `IdempotencyStore` | the store, with the callers' protocol around it | |
| `TutorInvocation` | `TutorInvocationService.handle`, one thread per request, and the rows | instantiates `IdempotencyStore` |
| `AnalysisLifecycle` | abstract: what may become of the observation of a workflow | |
| `DiagnosisCrew` | one workflow: vision tool, guardrail, agent loop | implements `AnalysisLifecycle` |
| `GeminiRateLimiter` | the limiter | |
| `CurriculumLabels` | the curriculum validator's verdict on a chapter and topic | |
| `DiagnosisOutput` | images, batches, merging, the validators, the marking of labels | extends `CurriculumLabels`, implements `AnalysisLifecycle` |
| `AnalysisDelivery` | artifacts, metadata row, response, email and worker of any number of runs | |
| `StudentProfile` | profile requests beside the runs that write their history | extends `AnalysisDelivery` |
| `StrandAnalysis` | candidate pairs, strands and insights of one profile request | |
| `MC...` | the instances for TLC | the module they are named after |
| `...Proofs` | theorems and proofs | the module they are named after |

Each definition that models code is listed with its lines in `PROJECT.json`.
An operator commented "A plausible bug" is no part of a model: it is a changed
form of the definition after it, with which the property that `PROJECT.json`
names fails. It shows that the property can fail.

### IdempotencyStore

`entries` is `_entries`. An entry has an age instead of `created_at`, because
`claim` looks at nothing but the difference; ages stop at the TTL, where they
stop mattering. `claim` is `GrantClaim` and `RefuseClaim` with its three
answers; each removes the expired entries first, as the code does. `complete`
and `abandon` look the key up anew: they act on whatever entry it has.

The store alone promises little, so the module adds its callers: `call[r]` is
where a call of `handle` stands between its claim and its end. `Leak` is the
status write between the claim and the `try` that raises; `Restart` ends the
process. `served`, `age` and `late` are history variables: who was granted a
claim by this process, how long ago, and who outlived it.

Properties. `OneRunPerWindow`, `ReplayFaithful` and `InProgressHasOwner` say what
the store achieves, all until some call of the key runs past the TTL
(`Punctual`). That condition is not a convenience: after it, a late `complete`
or `abandon` hits the entry of a later call and each of the three fails.
`InProgressEnds` says that expiry frees every key in the end, whatever happens to
its owner. Without the condition the specification's promise about concurrent
duplicates does not hold, `NeverTwoRunning`, and a replay may answer another payload,
`ReplayIsOfSamePayload`; see *Findings*.

### TutorInvocation

One thread per request. `pc` names the points between writes that another
request can observe; a step contains everything from one such write to the
next. `rows` is the invocation table with the fields that a property needs:
status, whether image_count is set, error_type, completed_at, email_status.
`Upserted` follows `upsert_invocation` field by field: status and image_count
are always written, the others only if they have a value, so an old value stays.
`Record` is a write that may raise and may then have reached the table or not.

The variables of the store are the variables of the instance `Store`, used
through the operators of `IdempotencyStore`; the caller's state there is the
function `CallView` of `pc` and `claim`. `StoreSpec`, checked as a property,
says that under this mapping every step of the service is a step of
`IdempotencyStore`, or a stutter: the abstract callers' protocol is what `handle`
follows, so the theorems about the store are theorems about the service's use of
it (proved, see *Proofs*). This is where `Leak` comes from.

`CachedSuccessIsRecorded` relates three stores of state that different
statements write: the cached response, the row and the email status.
`LoneReturnIsRecorded` and `LoneRecordMovesForward` describe the row of a request
that no duplicate has joined; with duplicates the row is shared and neither
holds. The first is about what a run reports once its images are resolved: a success
with its email status, a block, a failure. An invocation that ends before that should have
a terminal status too and has not: `ReturnedRowTerminal`, see *Findings*. Errors are
cached like successes, and a blocked or failed run does not set completed_at: that is what the code does, and the properties say no more.

### AnalysisLifecycle

The contract of `VisionToolCallState` without calls, batches and retries: an
execution ends observed or failed, an observation is accepted or rejected, a
rejection allows one more execution within the budget, and what is returned was
accepted last if a guardrail judges it (`guarded`). `DiagnosisCrew` and
`DiagnosisOutput` look at one workflow from two sides, the interleaving of tool
calls and the making of observations and verdicts. Each implements this module
(`LifecycleSpec`, with `LifeStage` as the mapping of the stage), which is where the
two accounts meet: neither knows an outcome that the contract does not allow.

### DiagnosisCrew

`status` to `semanticRetries` are fields of `VisionToolCallState`. A tool call is
`claiming`, then `executing` or `waiting`; each step is one critical section of
the condition's lock. The observation carries the number of the execution that
produced it and the verdict that validation will reach (`Verdicts`), so that
replaying an old one can be told from a new one. `CheckOutput` keeps the order of
the guardrail's checks: empty output, missing observation, output that is not
JSON, observation contract, difference, taxonomy. A taxonomy verdict is that of
the first check that fails, as in the validator. `Finish` is what the workflow
does after the crew: the counts of the call state and, without a crew, the
observation's validation.

CrewAI is not in the repository. The model takes from the code's use of it that
tool results are final answers, that a failed guardrail restarts the agent up to
`max_retries` times with the same model object and call state, and that a model
answer may ask for several calls at once, which then run concurrently. The last
one is more than an executor that runs them in turn would do, and it is what the
lock and the test `tests/agent/test_vision_tool.py:304` are for. What the model
answers is arbitrary.

`StepsAreBounded` is what termination rests on, without fairness: three budgets and
the waiting of tool calls meet in one loop, and every step uses up one of them in
lexicographic order (model calls, then the rest of the round, `RoundLeft`, then the
tool calls of the batch, `CallsLeft`). `LifecycleSpec` says that in all this the model is
asked again only for a rejected observation, that a rejected one is never accepted
by a later check, and that a failure does not bring an earlier observation back.

### GeminiRateLimiter

`lead` is how far `_next_allowed_at` is ahead of now, and `remaining` how long a
thread still sleeps, so that time needs no bound. `Reserve` is the critical
section of `_wait_for_slot`; the sleep, outside of the lock, is `remaining`
running down; a thread may be scheduled later than its sleep ends. `sinceSlot`
is a history variable for the distance to the last slot that began. Slots, not
the sending of requests, are kept apart: a thread that is scheduled late sends
late, in the code as here.

### CurriculumLabels and DiagnosisOutput

`DiagnosisCrew` takes a verdict for each check of an observation;
`DiagnosisOutput` is where verdicts come from. Its state is one invocation:
`images` holds the number of each image's file name in the order of sending
(`_s3_image_sort_key`), or `Unnumbered`; an answer is a format and what the number
of each of its questions says. `AnalyzeBatch` takes an arbitrary answer for the
next batch, restricted by what the client validates when output is structured;
`Merge` has the three ways of `_merge_batch_outputs`. On the crew's path
(`react`) the guardrail follows: `CheckContract`, then the labels; the analysis is
repeated once. On the direct path `Render` applies both validators, `Parses` and
then `TableHolds` to the rendered table.

`CurriculumLabels` is `curriculum/validator.py` over any taxonomy: labels are what
`normalize_label` leaves, and which words they share and whose text contains
whose are constants. `KindOf` is the loop body of
`validate_diagnosis_against_taxonomy`; the loop is `IsFirstFailure`.

Properties. Batches, the merge, two validators and the guardrail each check
something else; `ReturnedAnswersImages` and `NoQuestionReturnedTwice` say what
they come to together, on both paths. `TableRefusedOnlyIfMixed` finds the one
case in which the two validators of the direct path disagree: file names of
which some have a number and some have none. The diagnosis parses, is rendered,
and is then refused; the crew's path returns the same diagnosis.
`UnknownLabelsFollowAMark` is what is left of the promise that unknown labels are
marked: only the first failure is, and questions behind it are not looked at.
`VerdictsFollowTaxonomy` bounds the five ways in which a topic passes from both
sides: a topic is never refused under the chapter that lists it, and none passes
that is unlike all topics of the taxonomy. Between the two lies the topic of another
chapter, which must not pass and does. What the specification asks of both, unknown
labels and topics of other chapters, is `ContradictedLabelsAreMarked`, which fails; see
*Findings*.

### AnalysisDelivery and StudentProfile

A run is one execution of the workflow that reached `_success_response`; two runs
may have one idempotency key. `objects` keeps, for each kind of artifact and
prefix, the runs that wrote it in order: the last is its content. Steps on
external services may fail once they took effect or before. `FetchPdf` and
`SendMail` are the two steps of the worker's process; a worker is made for each
delivery of an event, so its store of outcomes plays no part. `dated` is the order
of diagnosis dates, which is the order in which a history is read.

A profile request (`phase`) takes the rows of the student, loads the JSON each
row names, one at a time, while runs go on writing. `reports` is
`reports_by_id`, so of two rows with one report id the last one's JSON stays.
`cache` is the embedding table; `Embed` reads it, calls the provider once for what
is missing, and `SaveEmbedding` writes record by record. `Analyse` stands for
`StrandAnalysis`, of which this module needs only what can raise.

Properties. `ResponseIsHonest` relates the response to the objects and rows.
`MailAttachesFreshPdf` is about two processes and a shared name: the PDF may be a
newer one, never an older. That it may go out twice is `NoDeliveryRepeated`, see
*Findings*. `OmittedRowWasOverwritten` and `DataErrorsNeedRerun` say
exactly when a history goes wrong for a profile without a service failing: a
later run of another key on the same prefix, or two runs of one key. The second
does happen, see *Findings*. `VectorsMatchEvidence` is the cache's promise.

### StrandAnalysis

One request: `PairNeighbors` takes any similarities and computes ranks, reciprocal
neighbours and the floor; `Classify` decides any relationships; `RepairStrand` reads
the answer strand by strand, and a strand of the answer is chosen when it is read,
because nothing before depends on it. `Discard`, `Validate` and `Report` follow
`hierarchical.py` and `actionable.py`; `ListedPriorities` is `weightage.py`.
`Reachable` is the search over same-gap pairs, stated as the least closed set.

Properties. `RepairLeavesNothingToReject` says that repair and validation, written
apart, agree: the last `raise` is dead code whatever the model answers.
`EveryMistakeOnce` follows a question through repair, discarding, recurrence,
ranking and truncation to exactly one place in the report. It holds for a question
that a supported strand lost to one that was then discarded, too: its mistake goes to the
feedback. The strand keeps such losses in the history field `lost`, and that there are
some is `SupportedStrandIsWhole`, see *Findings*.
`InsightsAreSupported` restates support as what it is for: no split of the items
separates them. `ShownOutrankOmitted` is about the ranking with its truncation. That the
list of chapters is ranked likewise and that an item has few candidates is proved
(`ListedAreHeaviest`, `FewNeighbors`).

## Runs

| Run | Instance | Checks | Shows |
|---|---|---|---|
| `idempotency_store` | 4 calls: 3 of one key, one of these with another payload, and 1 of another key; TTL 2; 514,058 states | `StoreTypeOK` `OneRunPerWindow` `ReplayFaithful` `InProgressHasOwner` `InProgressEnds` | the store's promises under expiry, leaks and restarts |
| `tutor_invocation` | 3 requests of one key, one with another payload; TTL 1; 2 in the service at once; 1 mishap | `TypeOK` `CachedSuccessIsRecorded` `LoneReturnIsRecorded` `LoneRecordMovesForward` `StoreSpec` | cache, rows and returned answers agree; the service implements the callers' protocol |
| `diagnosis_crew` | 3 tool calls, budgets of the code | `TypeOK` `SingleExecution` `WaiterIsServed` `BatchAgrees` `ReturnsAcceptedObservation` `StepsAreBounded` `LifecycleSpec` `WorkflowEnds` | the memoised tool and the retries, with and without a crew |
| `rate_limiter` | 3 threads, interval 2, 2 attempts, backoff 1 to 3 | `TypeOK` `SlotsApart` `WaitIsBounded` `CallsEnd` | spacing, no lost slot, termination |
| `student_profile` | 2 runs of one key and 1 of another on one prefix, 2 profile requests, reports of 1 or 2 questions, 1 failure, 1 delivery; 862,904 states | `TypeOK` `ResponseIsHonest` `MailAttachesFreshPdf` `OmittedRowWasOverwritten` `DataErrorsNeedRerun` `VectorsMatchEvidence` | artifacts, email, history and profiles under interleaving and partial failure |
| `strand_analysis` | 5 questions, 2 families, 2 reports, answers of up to 3 strands; 4,585,070 states | `TypeOK` `RepairLeavesNothingToReject` `EveryMistakeOnce` `InsightsAreSupported` `ShownOutrankOmitted` | the repaired analysis is valid, supported, complete and ranked, whatever the model answers |
| `diagnosis_output` | up to 3 images in batches of 2, a taxonomy of 2 chapters and 3 topics; 4,791,394 states | `TypeOK` `ReturnedAnswersImages` `NoQuestionReturnedTwice` `TableRefusedOnlyIfMixed` `UnknownLabelsFollowAMark` `VerdictsFollowTaxonomy` `LifecycleSpec` | what passes all checks answers the images; how labels are judged and marked; the contract of the observation is kept |

Five more runs are expected to find a violation, and five more configurations beside
the runs find one too; see *Findings*.

### Bounds

* *Requests.* Every hazard of the store needs at most an owner, a duplicate and a
  request with another payload; the fourth call shows that keys do not
  interfere. In `TutorInvocation` `MaxActive` = 2 lets any two overlap, with the
  third before or after. Two requests that differ in nothing are symmetric.
* *TTL.* With TTL 2 an entry can be new, aged and expired, and two entries of
  different age can coexist. `TutorInvocation` uses 1: expired or not.
* *Mishaps.* `MaxMishaps` = 1 counts raised writes and crashes together: each
  path of failure is taken, from every state; two in one behaviour are not.
* *Budgets* of `DiagnosisCrew` are those of the code: one semantic retry
  (`agent/tools.py:66`), one task retry (`factories.py:162`), three model calls
  (`factories.py:182`).
* *Limiter.* Two attempts is the code's; the backoff can be shorter or longer
  than the interval, so retries arrive before and after waiting threads.

* *Profiles.* Two runs of one key are what it takes to repeat a report, a third
  of another key to overwrite it; the second request finds a filled cache. The
  symmetric elements are the two runs of one key and the two requests, which
  have the same values under every function of the instance. The
  constraint `MCOverlap` leaves out behaviours whose parts do not meet: workers
  and requests both read what runs write and nothing of each other, so no
  behaviour has steps of both; two runs are under way at a time, none
  while a request works after the first has begun except one. The one model of
  the instance leaves the `#model` part of the cache key to the theorem
  `FreshVectors`. The theorems need none of these bounds.
* *Strands.* Five questions are enough for a connected strand of four that has a
  contradicting pair, for a neighbour beyond `max_neighbors` (2), and for two families
  in a tie; three strands for one that loses items to an earlier one and one that is
  not shown. The source strands list unknown, repeated and mixed ids.
* *Outputs.* Three images in batches of two give a full and a partial batch, and a
  number that repeats across them; answers may have one question too many or too
  few, unreadable numbers, and numbers of two other wordings, equal and different.
  Each label pair of the instance takes another way through `KindOf`, among them a
  topic under its own chapter, under another one, and one unlike any topic.

Deadlock is checked in `strand_analysis` and `diagnosis_output`, whose requests end
in a state named `Finished`. In the others it is not: each request, run, tool call
and limiter call ends, and then the system rests.

### Fairness

* `IdempotencyStore`: weak fairness of `Tick` alone. Calls may hang or die, and
  the property must not depend on them.
* `DiagnosisCrew`: weak fairness of the agent loop and of each tool call. The
  loop is a sequential program; a model call has a timeout, so an execution ends
  in an answer or an exception; a waiter has a deadline.
* `GeminiRateLimiter`: weak fairness of each thread and of time. A request ends
  by its timeout. Nothing is assumed of the order in which waiting threads are
  served.
* `TutorInvocation`, `StudentProfile`, `StrandAnalysis` and `DiagnosisOutput` have
  safety properties only. The first two must hold when a process dies, which in
  `StudentProfile` is a run or request that takes no more steps; the other two are
  one request's sequential computation.

## Findings

Runs that TLC must find violated; each states a sentence of the documentation.

* `overlapping_runs`, `NeverTwoRunning`: a claim expires by age even if its call is
  running (`invocation/idempotency.py:67`), and a duplicate runs beside it.
  `openspec/specs/tutor-invocation/spec.md:83`. The theorem
  `PunctualExclusion` is the part that holds.
* `email_enqueued_twice`, `EnqueuedOncePerWindow`: the last record write raises
  after the email was enqueued, the key is abandoned and the retry enqueues
  again; the coordinator's own store lives for one request.
  `docs/send-email-spec.md:175`.
* `invalid_json_not_rejected`, `InvalidIsRejected`: an output that is not JSON
  leaves the guardrail before the observation is looked at, so a non-JSON
  observation is not rejected and is replayed (`agent/task_guardrails.py:116`).
  `openspec/specs/controlled-crewai-orchestration/spec.md:40-42`.
* `duplicate_evidence`, `EvidenceIdsUnique`: the sort key of a metadata row holds
  the time (`profile/storage.py:162`), so a second run of a key adds a second row
  with the same report id; the report is read under both rows, the evidence ids
  repeat, and `profile/clustering.py:50` raises for this and every later profile
  of the student. `DataErrorsNeedRerun` is the part that holds.
* `contradicted_labels`, `ContradictedLabelsAreMarked`: a topic of another chapter
  passes and is returned unmarked, because the last of the five ways for a topic to
  pass look at the whole taxonomy (`curriculum/validator.py:111-116`) and no code raises
  `topic_not_in_chapter`; a second unknown label is returned unmarked, because
  validation stops at the first (`agent/task_guardrails.py:279`).
  `openspec/specs/curriculum-taxonomy-validation/spec.md:81-83` and `101-104`.
  `VerdictsFollowTaxonomy` and `UnknownLabelsFollowAMark` are the parts that hold.

The statements below fail too. Each has a configuration of its own, which TLC is run
with in the same way; they are not among the runs of `PROJECT.json`.

| Configuration, module | Statement | What happens |
|---|---|---|
| `TutorInvocationTerminal.cfg`, `MCTutorInvocation` | `ReturnedRowTerminal`, `openspec/specs/tutor-invocation/spec.md:115` | when `resolve_images` raises, nothing is recorded any more, and the row stays at VALIDATED (`invocation/service.py:172-184`, `ResolveFails`) |
| `TutorInvocationCompleted.cfg`, `MCTutorInvocation` | `ActiveIsNotCompleted`, `docs/agent-invocation-status-spec.md:137-138` | a refused duplicate writes completed_at into the row of the running invocation, and nothing clears it (`invocation/service.py:116`) |
| `IdempotencyStoreReplay.cfg`, `MCIdempotencyStore` | `ReplayIsOfSamePayload`, `openspec/specs/tutor-invocation/spec.md:76-78` | a call that outlived its claim completes the entry that the key has by then; if that was granted for another payload, repeats of it get the late response (`invocation/idempotency.py:54`); `ReplayFaithful` is the part that holds |
| `StudentProfileRepeatedDelivery.cfg`, `MCStudentProfile` | `NoDeliveryRepeated`, `openspec/specs/email-delivery/spec.md:82-84` | every event has a new worker, so an event that Lambda repeats is mailed again (`email/worker.py:123`); the instance has two deliveries and no failure |
| `StrandAnalysisWhole.cfg`, `MCStrandAnalysis` | `SupportedStrandIsWhole`, `openspec/specs/profile-semantic-candidate-clustering/spec.md:68-70` | a strand gives up evidence that an earlier strand of the answer also claims, also if that one is then discarded (`profile/hierarchical.py:294-367`, `479-511`) |

Met while modelling, without a configuration:

* no code raises `ambiguous_chapter_topic`: a label that means several chapters is
  taken to mean all of them;
  `openspec/specs/curriculum-taxonomy-validation/spec.md:85-87`;
* the question to mark is found by its number, so an unreadable question marks all
  unreadable ones (`Softened`);
* the query of a student's history reads one page of DynamoDB
  (`profile/storage.py:93-104`).

## Proofs

TLAPS proves the following for every value of the constants that satisfies the
modules' assumptions.

**`IdempotencyStoreProofs`**, from `StoreAssumptions` (each request has a key, each
response a producer, "no response" is not a response, the TTL is positive).
`OneRunPerWindow` is not inductive: that the newest claim of a key is the only one
in its window follows only if the entry is as old as that claim. The inductive
invariant `IInv` is the conjunction of

* `StoreTypeOK`;
* `WorkIsClaimed`: a call at work that is not late was granted its claim by this
  process and is in its window;
* `WindowOwnsEntry`: while all calls of a key are punctual, a call in its window
  has an entry in the store, with its fingerprint and its age; this is what
  expiry and age, kept in two places, have to agree on;
* `OneRunPerWindow` itself;
* `StoredFaithfully`: while all calls of a key are punctual, its stored response
  was produced by a call of the key with the entry's fingerprint;
* `ReplayFaithful` and `InProgressHasOwner`.

`TypeCorrect`, `SingleRun`, `FaithfulReplay` and `OwnedProgress` follow from it.
`PunctualExclusion` follows too: while the calls of a key end within the TTL, no two
hold it at once. `WorkIsExclusive` adds that the entry is then in progress
(`WorkIsUnanswered`), so that a duplicate gets neither a claim nor an answer.

**`TutorInvocationProofs`**, from `InvocationAssumptions` (keyed requests have a key,
the TTL and the number of threads are positive, "no response" is not a response),
for any requests and keys and any number of raised writes and crashes.
`ServiceInv` says of every thread that its label, the answer to its claim and the
response in its hand fit together (`Fits`), and of every entry that it is one the
store makes. With it `ServiceStep` shows for each action of the service which
action of `IdempotencyStore` it is, if any: `Admit` that raises is `Leak`, a crash is
`Restart`, every step that only writes a row is a stutter. `ServiceUsesStore` is the
refinement, `Spec => StoreSpec`, and `ServiceKeepsStorePromises` brings the theorems of
`IdempotencyStoreProofs` over to the service. `ServiceTypeCorrect` is the service's
`TypeOK`. `LoneReturn` and `LoneProgress` are about the row of a request that is
alone: `LoneInv` says at every label what its thread has last written (`RowFits`),
which needs that such a request is never replayed or refused, because an entry
of a key was made by a claim of that key (`EntriesClaimed`).
`CachedSuccess` is about the rows that duplicates do share. Its invariant
`RecordInv` says that a thread with a success in its hand has it on record before
`complete` puts it into the store (`ConcludedOnRecord`), and that it stays there
(`CachedOnRecord`). Both could be undone by another writer of the row, and what
excludes one comes from the store: by `WorkIsExclusive`, carried over by the
refinement, nobody else works on a punctual key, and a duplicate that is turned
away writes nothing but its own statuses. The row of a request without a
key must be another one: its invocation_id is a fresh uuid, which
`InvocationAssumptions` says is no request's key.

**`GeminiRateLimiterProofs`**, from `LimiterAssumptions` (finitely many threads, a
positive interval and number of attempts). `TypeCorrect` bounds the attempts.
`SlotsApart` is inductive with the types, and gives `SlotsNeverCollide`. `WaitBounded`
counts: the reserved slots that are still to come follow each other at exactly the
interval (`SlotsFollow`), the first is at most an interval away
(`FirstSlotIsNear`), and the next free slot is one interval after as many slots as
there are threads ahead (`LeadIsCounted`); adding a thread adds one to a
cardinality and one interval to `lead`. `EverySleepEnds` follows: a thread sleeps at most
an interval for each thread of the process until its slot, and at most the longest
backoff after it, which with the bounded attempts is the part of `CallsEnd` that needs
no fairness.

**`DiagnosisCrewProofs`**, from `CrewAssumptions` (the budgets are natural numbers, the
concurrent calls finitely many) and `NoneIsNoObservation` (the marker for "no observation" is not one), for any number
of concurrent tool calls. No property is inductive alone: a batch agrees because a
rerun needs a rejected observation, which no call of the batch can have returned,
and an accepted observation is the latest because the counters and the status move
together. `IInv` is the conjunction of

* `TypeOK` and `SingleExecution`;
* `Counted`: the counters agree with the status; after a first claim there is one
  execution more than there were semantic retries, while running one more than
  there were successes, and a stored observation is from the last execution;
* `CallsInBatch`: calls run only while the loop waits for them;
* `WaitersFollow`: a call waits only after another one has claimed;
* `RejectedByCheck`: a rejection goes with a restart or the end of the agent;
* `AnswersStand`: a call that has answered returned the stored observation, and
  nothing is left that another call could rerun;
* `AcceptedByCheck`: what an accepted output of a crew looks like, before `Finish`.

`TypeCorrect`, `OneExecution`, `WaitersServed`, `BatchesAgree`, `AcceptedOnly` and
`RerunsJustified` (an action property, from the same invariant, which refines what
`LifecycleSpec` says of a second execution) follow.
`CrewKeepsLifecycle` is the refinement of `AnalysisLifecycle`. `IInv` does not suffice for
it: that a check accepts no observation rejected before needs `JudgedOnce`, by which
a rejected observation stays as bad as it was and an accepted one ends the
agent. `WorkflowIsBounded` proves `StepsAreBounded` action by action, by counting the calls
that are `claiming` and at work. With these, all safety properties of the run
`diagnosis_crew` are proved.

**`StudentProfileProofs`**, from `DeliveryAssumptions` and `ProfileAssumptions`, for any
runs, keys, prefixes, requests and models and any number of failures: every
property of the run `student_profile`. The argument rests on one fact, that the
history of an object only grows (`HistoryGrows`): whoever was a writer stays one,
and an order of two writers stays. `DeliverySafe` says that what a response,
row or event tells of was written (`ToldSoFar`) and what a worker holds was
written no earlier than its run's PDF (`FreshSoFar`); the profile's `Reading`
says that what a request has loaded was in the history (`ReportsAreTrue`) and that
rows are loaded in order (`LoadingIsOrderly`); `Embedded` says that the cache holds
no vector of another model under a model's key (`CacheByModel`) and that a
request's vectors are of its own items (`VectorsAreFresh`).

**`StrandAnalysisProofs`**, from `AnalysisAssumptions` (finitely many questions and
chapters, numbers for similarities, weights and bounds, a model that may name
unknown ids): every property of the run `strand_analysis`. `IInv` is `TypeOK` and

* `Repaired`: strands are disjoint, known and of one family, exclusions are
  unassigned, every pair is decided before strands are read, and what is left after
  discarding is supported;
* `Placed`: strands are finitely many and no two have one place in the answer, so
  that ranking them has no ties;
* `ReportIsRanked`: the report is made from the strands as they are.

`NothingToReject` is part of it; `FewNeighbors` counts ranks below `max_neighbors`, which
are different numbers for different neighbours. The rankings are `InOrder`: a
sequence of the elements of a set, each before those it outranks. Its lemmas say
that such a sequence exists, lists each element once, and that what a prefix of it
leaves out is outranked by what it has; `AnalysisTypeOK`, `EachMistakeOnce`,
`EveryInsightIsSupported`, `ShownAreBest` and `ListedAreHeaviest` need no more of them.

**`DiagnosisOutputProofs`**, from `OutputAssumptions` and `TaxonomyAssumptions`: all
properties of the run `diagnosis_output`. `Checked` carries the contract
check of the guardrail to the end of its path, `MarksLead` the first failure's mark.
`VerdictsSound` needs that a name means the chapters that have it and no others
(`ListedIsKnown`), that four of the five ways to pass are special cases of
`_topic_exists_anywhere` (`AnyWayIsAnywhere`), and that the labels that were checked are
pairs of the instance. `OutputTypeOK` has to say what
`FlattenSeq` makes of the answers of batches: `FlattenType` takes the least prefix at
which its type would be wrong (`HasFirst`, from the well-founded order of
finite sets) and finds none. `OutputKeepsLifecycle` is the refinement of
`AnalysisLifecycle`; `Gathered` says when answers of batches are kept.

Every invariant and action property of every passing run, and both kinds of refinement,
are theorems. Only model-checked are the liveness properties `InProgressEnds`,
`WorkflowEnds` and `CallsEnd`: they need fairness, hence ENABLED, which the prover does
not treat. The parts without fairness are proved: `WorkflowIsBounded` and `EverySleepEnds`.
Out of the prover's reach as well are induction over data and RECURSIVE operators;
the models have none.

## Not modelled

Payload validation, prompts, messages, rendering, wording, telemetry, ports and
adapters: no decision of the models depends on them beyond the choices they
already make. Similarities, embeddings, words and texts are abstract: what the
models compare is the order of similarities, equality of texts, and which words
are shared. The classification of a single question's failure
(`QuestionFailureClassifier`) is a match of keywords without state. The execution
profile is a signature check over one request; its secret is loaded once per
process. The output guardrail replaces the text of an answer and changes no
state. `llm_calls` and `events` of a row are only appended to. Deployment scripts
and Terraform are outside of the runtime. `PROJECT.json` lists every component
with its status, and every hazard with the properties that cover it.

## Plan

Done, in this order, the most shared state first: `IdempotencyStore`,
`TutorInvocation` over it, `DiagnosisCrew`, `GeminiRateLimiter`, `AnalysisDelivery` and
`StudentProfile` over it, `StrandAnalysis`, `DiagnosisOutput` over `CurriculumLabels`,
and the proofs: the refinement of `IdempotencyStore` by `TutorInvocation`, of
`AnalysisLifecycle` by `DiagnosisCrew` and by `DiagnosisOutput`, and the invariants and
action properties of all passing runs.

Left: `ExecutionProfile`, the bundle bound to a request and its part in the claim's
fingerprint, composed with `TutorInvocation`.
