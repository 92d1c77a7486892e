-------------------------- MODULE TutorInvocation --------------------------
(***************************************************************************)
(* TutorInvocationService.handle (invocation/service.py), run by one       *)
(* thread per request, all sharing the process-wide idempotency store and  *)
(* the DynamoDB table of invocation records.  Each action ends at a write  *)
(* another request can observe.  The idempotency store is the one of       *)
(* IdempotencyStore; StoreSpec states that the service uses it as that     *)
(* module says a caller does.                                              *)
(*                                                                         *)
(* A write of an invocation record may raise (the service lets the         *)
(* exception through) and a raised write may still have reached the table. *)
(* The process may die at any time; the table survives, the store does not.*)
(***************************************************************************)
EXTENDS Naturals, FiniteSets

CONSTANTS
    Requests,       \* requests with a valid payload, one thread each
    Keyed,          \* those that carry an idempotency_key
    Keys, KeyOf, FingerprintOf, TTL,   \* as in IdempotencyStore
    WantsEmail,     \* requests with a recipient_email
    NoResponse,     \* None
    MaxActive,      \* bound: requests in the service at the same time
    MaxMishaps      \* bound: record writes that raise, and deaths of the process

Outcomes == {"succeeded", "rejected", "images_failed", "blocked",
             "workflow_failed"}
EmailStates == {"not_requested", "queued", "failed"}

ResponseOf(r) ==
    [by : {r}, outcome : Outcomes, email : EmailStates]
StoredResponses == [by : Keyed, outcome : Outcomes, email : EmailStates]

ASSUME InvocationAssumptions ==
    /\ Keyed \subseteq Requests
    /\ WantsEmail \subseteq Requests
    /\ KeyOf \in [Keyed -> Keys]
    /\ (Requests \ Keyed) \cap Keys = {}
    /\ TTL \in Nat \ {0}
    /\ MaxActive \in Nat \ {0}
    /\ MaxMishaps \in Nat
    /\ NoResponse \notin StoredResponses

VARIABLES
    pc,             \* where each request's thread stands
    claim,          \* claim.status, once claim has returned
    response,       \* the response the thread has in hand
    rows,           \* the invocation table, by invocation_id
    entries, age, served, late,    \* the idempotency store
    enqueued,       \* requests whose email event Lambda has accepted
    forgotten,      \* claims that were granted by a process that died
    mishaps

threadVars == <<pc, claim, response>>
idemVars == <<entries, age, served, late>>
vars == <<threadVars, rows, idemVars, enqueued, forgotten, mishaps>>

Answering == {"received", "replaying", "busy", "refused"}
Working == {"admitted", "validated", "running", "failing",
            "stored", "unstored", "recording", "abandoning", "concluding"}
Ended == {"returned", "raised", "abandoned", "died"}

\* A plausible bug: error responses lack the email status.
FailureWithoutEmail(r, outcome) == [by |-> r, outcome |-> outcome]

Failure(r, outcome) ==
    [by |-> r, outcome |-> outcome, email |-> "not_requested"]

\* _invocation_id: the key, or a fresh id (a random UUID, which is no key) for a
\* request without one.
IdOf(r) == IF r \in Keyed THEN KeyOf[r] ELSE r

Init ==
    /\ pc = [r \in Requests |-> "new"]
    /\ claim = [r \in Requests |-> "none"]
    /\ response = [r \in Requests |-> NoResponse]
    /\ rows = [i \in {} |-> NoResponse]
    /\ entries = [k \in {} |-> NoResponse]
    /\ age = [r \in Keyed |-> 0]
    /\ served = {} /\ late = {}
    /\ enqueued = {}
    /\ forgotten = {}
    /\ mishaps = 0

-----------------------------------------------------------------------------
(* The store as its callers see it.                                        *)

\* The state of a keyed request in the terms of IdempotencyStore.
CallView(r) ==
    CASE r \in forgotten -> "lost"
      [] r \notin forgotten /\ claim[r] = "none" -> "new"
      [] r \notin forgotten /\ claim[r] = "completed" -> "replayed"
      [] r \notin forgotten /\ claim[r] = "in_progress" -> "busy"
      [] r \notin forgotten /\ claim[r] = "conflict" -> "conflict"
      [] r \notin forgotten /\ claim[r] = "acquired" ->
            CASE pc[r] = "returned" -> "completed"
              [] pc[r] = "abandoned" -> "abandoned"
              [] pc[r] = "raised" -> "leaked"
              [] OTHER -> "holding"

AnswerView(r) == IF claim[r] = "completed" THEN response[r] ELSE NoResponse

ResponseProducer == [x \in StoredResponses |-> x.by]

Store == INSTANCE IdempotencyStore WITH
    Requests <- Keyed,
    Responses <- StoredResponses,
    ProducerOf <- ResponseProducer,
    call <- [r \in Keyed |-> CallView(r)],
    answer <- [r \in Keyed |-> AnswerView(r)]

-----------------------------------------------------------------------------
(* The invocation table.                                                   *)

Statuses == {"RECEIVED", "VALIDATED", "IN_PROGRESS", "SUCCEEDED", "FAILED",
             "REPLAYED", "BLOCKED"}
ErrorTypes == {"none", "IdempotencyInProgress", "IdempotencyConflict",
               "GuardrailBlockedError", "WorkflowError"}
Row == [status : Statuses, images : BOOLEAN, error : ErrorTypes,
        completed : BOOLEAN, email : EmailStates]

OldRow(r) ==
    IF IdOf(r) \in DOMAIN rows THEN rows[IdOf(r)]
    ELSE [status |-> "RECEIVED", images |-> FALSE, error |-> "none",
          completed |-> FALSE, email |-> "not_requested"]

\* upsert_invocation: status and image_count are always written, image_count
\* as 0 unless the caller passes it; every other field only when it has a
\* value, so an older value stays.
Upserted(r, status, images, error, completed, email) ==
    [status |-> status,
     images |-> images,
     error |-> IF error = "none" THEN OldRow(r).error ELSE error,
     completed |-> OldRow(r).completed \/ completed,
     email |-> IF email = "not_requested" THEN OldRow(r).email ELSE email]

\* update_invocation, as _record_invocation calls it for REPLAYED.
Updated(r) == [OldRow(r) EXCEPT !.status = "REPLAYED", !.completed = TRUE]

WithRow(r, row) ==
    [i \in DOMAIN rows \cup {IdOf(r)} |-> IF i = IdOf(r) THEN row ELSE rows[i]]

Goto(r, label) == pc' = [pc EXCEPT ![r] = label]

\* _record_invocation: the thread goes on at next or, if the write raises
\* (having reached the table or not), at onError.
Record(r, row, next, onError) ==
    \/ /\ rows' = WithRow(r, row)
       /\ Goto(r, next)
       /\ UNCHANGED mishaps
    \/ /\ mishaps < MaxMishaps
       /\ mishaps' = mishaps + 1
       /\ rows' \in {rows, WithRow(r, row)}
       /\ Goto(r, onError)

Reply(r, x) == response' = [response EXCEPT ![r] = x]

-----------------------------------------------------------------------------
(* handle, up to the idempotency decision.                                 *)

Active == {r \in Requests : pc[r] \in Answering \cup Working}

Receive(r) ==
    /\ pc[r] = "new"
    /\ Cardinality(Active) < MaxActive
    /\ Record(r, Upserted(r, "RECEIVED", FALSE, "none", FALSE, "not_requested"),
              IF r \in Keyed THEN "received" ELSE "admitted", "raised")
    /\ UNCHANGED <<claim, response, idemVars, enqueued, forgotten>>

Claimed(r, status) == claim' = [claim EXCEPT ![r] = status]

ClaimKey(r) ==
    /\ pc[r] = "received"
    /\ \/ /\ Store!GrantClaim(r)
          /\ Claimed(r, "acquired")
          /\ Goto(r, "admitted")
          /\ UNCHANGED response
       \/ /\ Store!ClaimCompleted(r)
          /\ Claimed(r, "completed")
          /\ Goto(r, "replaying")
          /\ Reply(r, entries[KeyOf[r]].response)
       \/ /\ Store!ClaimInProgress(r)
          /\ Claimed(r, "in_progress")
          /\ Goto(r, "busy")
          /\ Reply(r, Failure(r, "rejected"))
       \/ /\ Store!ClaimConflicts(r)
          /\ Claimed(r, "conflict")
          /\ Goto(r, "refused")
          /\ Reply(r, Failure(r, "rejected"))
    /\ UNCHANGED <<rows, enqueued, forgotten, mishaps>>

\* The branches that return without running the workflow.
Replay(r) ==
    /\ pc[r] = "replaying"
    /\ Record(r, Updated(r), "returned", "raised")
    /\ UNCHANGED <<claim, response, idemVars, enqueued, forgotten>>

Refuse(r, label, error) ==
    /\ pc[r] = label
    /\ Record(r, Upserted(r, "BLOCKED", FALSE, error, TRUE, "not_requested"),
              "returned", "raised")
    /\ UNCHANGED <<claim, response, idemVars, enqueued, forgotten>>

RefuseBusy(r) == Refuse(r, "busy", "IdempotencyInProgress")

RefuseConflict(r) == Refuse(r, "refused", "IdempotencyConflict")

\* The VALIDATED record is written outside the try whose handler abandons the
\* key: if it raises, the key stays claimed.
Admit(r) ==
    /\ pc[r] = "admitted"
    /\ Record(r, Upserted(r, "VALIDATED", FALSE, "none", FALSE, "not_requested"),
              "validated", "raised")
    /\ UNCHANGED <<claim, response, idemVars, enqueued, forgotten>>

-----------------------------------------------------------------------------
(* _handle_validated_invocation and _run_guarded_workflow.                 *)

\* resolve_images raises: an error response, no record.
ResolveFails(r) ==
    /\ pc[r] = "validated"
    /\ Goto(r, "concluding")
    /\ Reply(r, Failure(r, "images_failed"))
    /\ UNCHANGED <<claim, rows, idemVars, enqueued, forgotten, mishaps>>

InputBlocked(r) ==
    /\ pc[r] = "validated"
    /\ Record(r, Upserted(r, "BLOCKED", TRUE, "GuardrailBlockedError", FALSE,
                          "not_requested"),
              "concluding", "abandoning")
    /\ Reply(r, Failure(r, "blocked"))
    /\ UNCHANGED <<claim, idemVars, enqueued, forgotten>>

\* The IN_PROGRESS record is written inside the workflow's try block.
StartWorkflow(r) ==
    /\ pc[r] = "validated"
    /\ Record(r, Upserted(r, "IN_PROGRESS", TRUE, "none", FALSE, "not_requested"),
              "running", "failing")
    /\ UNCHANGED <<claim, response, idemVars, enqueued, forgotten>>

\* A plausible bug: an exception of the FAILED record is swallowed.
RecordFailureSwallows(r) ==
    /\ pc[r] \in {"failing", "running"}
    /\ Record(r, Upserted(r, "FAILED", TRUE, "WorkflowError", FALSE,
                          "not_requested"),
              "concluding", "concluding")
    /\ Reply(r, Failure(r, "workflow_failed"))
    /\ UNCHANGED <<claim, idemVars, enqueued, forgotten>>

\* The IN_PROGRESS record or the workflow raised.
RecordFailure(r) ==
    /\ pc[r] \in {"failing", "running"}
    /\ Record(r, Upserted(r, "FAILED", TRUE, "WorkflowError", FALSE,
                          "not_requested"),
              "concluding", "abandoning")
    /\ Reply(r, Failure(r, "workflow_failed"))
    /\ UNCHANGED <<claim, idemVars, enqueued, forgotten>>

\* The workflow returned.  Rendering or uploading the PDF may fail, and the
\* invocation goes on without it.
WriteArtifacts(r) ==
    /\ pc[r] = "running"
    /\ \E next \in {"stored", "unstored"} : Goto(r, next)
    /\ UNCHANGED <<claim, response, rows, idemVars, enqueued, forgotten, mishaps>>

\* request_delivery.  The coordinator is created with the service, for this
\* request alone, so its own store of deliveries is empty.  An invoke call that
\* raises may still have enqueued the event.
RequestDelivery(r, status) ==
    \/ status = "queued" /\ enqueued' = enqueued \cup {r}
    \/ status = "failed" /\ enqueued' \in {enqueued, enqueued \cup {r}}

\* _request_email_delivery, and the response that reports its outcome.
RequestEmail(r) ==
    /\ pc[r] \in {"stored", "unstored"}
    /\ \E status \in EmailStates :
          /\ CASE r \notin WantsEmail -> status = "not_requested" /\ UNCHANGED enqueued
               [] r \in WantsEmail /\ pc[r] = "unstored" -> status = "failed" /\ UNCHANGED enqueued
               [] r \in WantsEmail /\ pc[r] = "stored" -> RequestDelivery(r, status)
          /\ Reply(r, [by |-> r, outcome |-> "succeeded", email |-> status])
    /\ Goto(r, "recording")
    /\ UNCHANGED <<claim, rows, idemVars, forgotten, mishaps>>

\* A plausible bug: the final record leaves the email status out.
RecordSuccessDropsEmail(r) ==
    /\ pc[r] = "recording"
    /\ Record(r, Upserted(r, "SUCCEEDED", TRUE, "none", TRUE, "not_requested"),
              "concluding", "abandoning")
    /\ UNCHANGED <<claim, response, idemVars, enqueued, forgotten>>

\* A plausible bug: the final record is written with the status of the last one.
RecordSuccessKeepsStatus(r) ==
    /\ pc[r] = "recording"
    /\ Record(r, Upserted(r, OldRow(r).status, TRUE, "none", TRUE, response[r].email),
              "concluding", "abandoning")
    /\ UNCHANGED <<claim, response, idemVars, enqueued, forgotten>>

RecordSuccess(r) ==
    /\ pc[r] = "recording"
    /\ Record(r, Upserted(r, "SUCCEEDED", TRUE, "none", TRUE, response[r].email),
              "concluding", "abandoning")
    /\ UNCHANGED <<claim, response, idemVars, enqueued, forgotten>>

-----------------------------------------------------------------------------
(* The end of handle.                                                      *)

\* A plausible bug: an exception leaves the key claimed.
AbandonForgotten(r) ==
    /\ pc[r] = "abandoning"
    /\ Goto(r, "abandoned")
    /\ UNCHANGED <<claim, response, rows, idemVars, enqueued, forgotten, mishaps>>

Abandon(r) ==
    /\ pc[r] = "abandoning"
    /\ IF r \in Keyed THEN Store!StoreAbandon(r) ELSE UNCHANGED idemVars
    /\ Goto(r, "abandoned")
    /\ UNCHANGED <<claim, response, rows, enqueued, forgotten, mishaps>>

Conclude(r) ==
    /\ pc[r] = "concluding"
    /\ IF r \in Keyed THEN Store!StoreComplete(r, response[r]) ELSE UNCHANGED idemVars
    /\ Goto(r, "returned")
    /\ UNCHANGED <<claim, response, rows, enqueued, forgotten, mishaps>>

\* The process ends: its threads and its idempotency store are gone.
Crash ==
    /\ mishaps < MaxMishaps
    /\ mishaps' = mishaps + 1
    /\ pc' = [r \in Requests |->
                 IF pc[r] \in Answering \cup Working THEN "died" ELSE pc[r]]
    /\ forgotten' = forgotten \cup
          {r \in Keyed : claim[r] = "acquired" /\ pc[r] # "abandoned"}
    /\ Store!StoreRestart
    /\ UNCHANGED <<claim, response, rows, enqueued>>

AtWork == {r \in Keyed : CallView(r) = "holding"}

Tick ==
    /\ Store!StoreTick(AtWork)
    /\ UNCHANGED <<threadVars, rows, enqueued, forgotten, mishaps>>

Thread(r) ==
    \/ Receive(r) \/ ClaimKey(r) \/ Replay(r) \/ RefuseBusy(r) \/ RefuseConflict(r)
    \/ Admit(r) \/ ResolveFails(r) \/ InputBlocked(r) \/ StartWorkflow(r)
    \/ RecordFailure(r) \/ WriteArtifacts(r) \/ RequestEmail(r)
    \/ RecordSuccess(r) \/ Abandon(r) \/ Conclude(r)

Next == (\E r \in Requests : Thread(r)) \/ Crash \/ Tick

Spec == Init /\ [][Next]_vars

-----------------------------------------------------------------------------
(* Properties.                                                             *)

TypeOK ==
    /\ pc \in [Requests -> {"new"} \cup Answering \cup Working \cup Ended]
    /\ claim \in [Requests ->
          {"none", "acquired", "completed", "in_progress", "conflict"}]
    /\ \A r \in Requests : response[r] \in
          {NoResponse} \cup ResponseOf(r) \cup StoredResponses
    /\ DOMAIN rows \subseteq {IdOf(r) : r \in Requests}
    /\ \A i \in DOMAIN rows : rows[i] \in Row
    /\ enqueued \subseteq Requests
    /\ forgotten \subseteq Keyed
    /\ mishaps \in 0..MaxMishaps

\* handle claims, completes, abandons and leaks keys as IdempotencyStore says
\* its callers do, so what is proved of that module holds of the service.
StoreSpec == Store!Spec

\* A success that the store will replay is on record: its row is completed,
\* has the email status of that very response, and its status is SUCCEEDED or
\* what a later duplicate wrote over it, never a step of a run.
CachedSuccessIsRecorded ==
    \A k \in Store!Unexpired :
        LET x == entries[k].response IN
        (Store!Punctual(k) /\ x # NoResponse /\ x.outcome = "succeeded") =>
            /\ rows[k].completed
            /\ x.email # "not_requested" => rows[k].email = x.email
            /\ rows[k].status \in {"SUCCEEDED", "RECEIVED", "REPLAYED", "BLOCKED"}

\* No other request with r's invocation_id has been received.
Alone(r) == \A s \in Requests \ {r} : IdOf(s) = IdOf(r) => pc[s] = "new"

\* What a run reports once its images are resolved is what its row says, as
\* long as no other request has come with the same key: whether it succeeded,
\* with which email status, and why not (service.py:188-319).
LoneReturnIsRecorded ==
    \A r \in Requests : (Alone(r) /\ pc[r] = "returned") =>
        LET row == rows[IdOf(r)] IN
        /\ response[r].outcome = "succeeded" =>
              /\ row.status = "SUCCEEDED" /\ row.completed /\ row.images
              /\ row.email = response[r].email
        /\ response[r].outcome = "blocked" =>
              row.status = "BLOCKED" /\ row.error = "GuardrailBlockedError"
        /\ response[r].outcome = "workflow_failed" =>
              row.status = "FAILED" /\ row.error = "WorkflowError"

Rank(status) ==
    CASE status = "RECEIVED" -> 1
      [] status = "VALIDATED" -> 2
      [] status = "IN_PROGRESS" -> 3
      [] OTHER -> 4

\* A row moves forward through received, validated, in progress and a
\* terminal status, unless another request comes with the same key.
LoneRecordMovesForward ==
    [][\A r \in Requests : (Alone(r) /\ Alone(r)' /\ IdOf(r) \in DOMAIN rows) =>
          LET old == rows[IdOf(r)]
              new == rows'[IdOf(r)]
          IN  old = new \/ Rank(old.status) < Rank(new.status)]_vars

\* completed_at remains null while a record is active.
ActiveIsNotCompleted ==
    \A i \in DOMAIN rows :
        rows[i].status \in {"RECEIVED", "VALIDATED", "IN_PROGRESS"} =>
            ~rows[i].completed

\* For the same idempotency key the email request is enqueued only once: among
\* the calls of a key claimed within one TTL window, none of them late, at most
\* one has had its email event accepted.
EnqueuedOncePerWindow ==
    \A r, s \in enqueued \cap served :
        (/\ KeyOf[r] = KeyOf[s] /\ Store!Punctual(KeyOf[r])
         /\ age[r] < TTL /\ age[s] < TTL) => r = s

\* What the invocation specification promises of every invocation that is
\* handled: its record ends with a terminal status, also when its images cannot
\* be resolved.
ReturnedRowTerminal ==
    \A r \in Requests : (Alone(r) /\ pc[r] = "returned") =>
        rows[IdOf(r)].status \in {"SUCCEEDED", "FAILED", "BLOCKED", "REPLAYED"}
=============================================================================
