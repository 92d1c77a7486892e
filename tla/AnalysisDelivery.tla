-------------------------- MODULE AnalysisDelivery --------------------------
(***************************************************************************)
(* What a diagnosis leaves behind once its analysis has passed the         *)
(* guardrails (TutorInvocationService._success_response): the PDF, its     *)
(* markdown fallback and the diagnosis JSON in S3, a metadata row in the   *)
(* student's history, an email event for the worker Lambda, and the        *)
(* response that says which of them exist.  The names of the objects       *)
(* depend on the image prefix (and subject) alone, so runs that share a    *)
(* prefix overwrite each other's objects.                                  *)
(*                                                                         *)
(* Every step on an external service may fail; the code catches the        *)
(* failure, and a failed write may still have reached the service.  Any    *)
(* number of runs work at once, also runs of one idempotency key: the      *)
(* store forgets a key after its TTL, when its run raises and when the     *)
(* process restarts (IdempotencyStore), and the key is the report's id.    *)
(* Nothing makes a run take its next step: one that takes no more is one   *)
(* whose process has died.                                                 *)
(***************************************************************************)
EXTENDS Naturals, Sequences, FiniteSets

CONSTANTS
    Run,             \* executions of the workflow that reached a success
    Key, KeyOf,      \* idempotency keys, and that of each run
    Prefix,          \* image prefix and subject: where the objects go
    PrefixOf,        \* of each key, or Nowhere for an image data URI
    Nowhere,
    Mailed,          \* keys whose payload has a recipient_email
    Saved,           \* keys whose payload says save_analysis_pdf
    QuestionCounts,  \* bound: questions of a report
    MaxDeliveries,   \* bound: times Lambda hands one event to a worker
    MaxFaults        \* bound: failures of external services

ASSUME DeliveryAssumptions ==
    /\ KeyOf \in [Run -> Key]
    /\ PrefixOf \in [Key -> Prefix \cup {Nowhere}]
    /\ Nowhere \notin Prefix
    /\ Mailed \subseteq {k \in Key : PrefixOf[k] # Nowhere}
    /\ Saved \subseteq Key
    /\ QuestionCounts \subseteq Nat \ {0}
    /\ MaxDeliveries \in Nat
    /\ MaxFaults \in Nat

VARIABLES
    pc,         \* where each run stands
    questions,  \* questions in the run's report, 0 when there is none
    stored,     \* the URIs in the response of each run
    errors,     \* the artifact_errors in it
    mail,       \* the email_status in it
    objects,    \* runs that wrote each object, the last being its content
    dated,      \* runs in the order of their diagnosis_date
    rows,       \* runs whose metadata row is in the table
    events,     \* runs whose email event Lambda accepted
    tries,      \* deliveries of each event that have ended
    attached,   \* the PDF a worker holds for an event, as a set of its writer
    sent,       \* emails: <<run that requested it, run whose PDF it carries>>
    faults

runVars == <<pc, questions, stored, errors, mail>>
mailVars == <<events, tries, attached, sent>>
deliveryVars == <<runVars, objects, dated, rows, mailVars, faults>>

Kinds == {"pdf", "markdown", "json"}
Steps == {"new", "pdf", "markdown", "json", "row", "mail", "done"}
Place(r) == PrefixOf[KeyOf[r]]
History(kind, r) == objects[<<kind, Place(r)>>]
Content(kind, r) == History(kind, r)[Len(History(kind, r))]
Elements(s) == {s[i] : i \in DOMAIN s}

\* A failure of an external service.
Fault ==
    /\ faults < MaxFaults
    /\ faults' = faults + 1

DeliveryInit ==
    /\ pc = [r \in Run |-> "new"]
    /\ questions = [r \in Run |-> 0]
    /\ stored = [r \in Run |-> {}]
    /\ errors = [r \in Run |-> {}]
    /\ mail = [r \in Run |-> "not_requested"]
    /\ objects = [o \in Kinds \X Prefix |-> << >>]
    /\ dated = << >>
    /\ rows = {}
    /\ events = {}
    /\ tries = [r \in Run |-> 0]
    /\ attached = [r \in Run |-> {}]
    /\ sent = {}
    /\ faults = 0

-----------------------------------------------------------------------------
(* The run.                                                                *)

Goto(r, step) == pc' = [pc EXCEPT ![r] = step]

\* put_object: the object now holds what r wrote.
Put(kind, r) ==
    objects' = [objects EXCEPT ![<<kind, Place(r)>>] = Append(@, r)]

\* A call that raises may have written nothing, or the object.
PutRaises(kind, r) == Fault /\ (Put(kind, r) \/ UNCHANGED objects)

\* _build_diagnosis_report, with today's date, then whether artifacts are
\* written at all: no report without a prefix, no artifact either.
Respond(r) ==
    /\ pc[r] = "new"
    /\ \E n \in (IF Place(r) = Nowhere THEN {0} ELSE QuestionCounts \cup {0}) :
          questions' = [questions EXCEPT ![r] = n]
    /\ dated' = Append(dated, r)
    /\ Goto(r, IF KeyOf[r] \in Mailed \cup Saved /\ Place(r) # Nowhere
               THEN "pdf" ELSE "mail")
    /\ UNCHANGED <<stored, errors, mail, objects, rows, mailVars, faults>>

AfterAnalysis(r) == IF questions[r] > 0 THEN "json" ELSE "mail"

\* A plausible bug: the failure of the PDF is not reported.
StorePdfQuietly(r) ==
    /\ pc[r] = "pdf"
    /\ \/ /\ Put("pdf", r) /\ UNCHANGED faults
          /\ stored' = [stored EXCEPT ![r] = @ \cup {"pdf"}]
          /\ Goto(r, AfterAnalysis(r))
       \/ /\ PutRaises("pdf", r)
          /\ Goto(r, "markdown") /\ UNCHANGED stored
    /\ UNCHANGED <<questions, errors, mail, dated, rows, mailVars>>

\* A write of write_for_invocation: its URI or its error enters the result.
Store(kind, r, next, otherwise) ==
    /\ pc[r] = kind
    /\ \/ /\ Put(kind, r) /\ UNCHANGED faults
          /\ stored' = [stored EXCEPT ![r] = @ \cup {kind}]
          /\ Goto(r, next) /\ UNCHANGED errors
       \/ /\ PutRaises(kind, r)
          /\ errors' = [errors EXCEPT ![r] = @ \cup {kind}]
          /\ Goto(r, otherwise) /\ UNCHANGED stored
    /\ UNCHANGED <<questions, mail, dated, rows, mailVars>>

StorePdf(r) == Store("pdf", r, AfterAnalysis(r), "markdown")
StoreMarkdown(r) == Store("markdown", r, AfterAnalysis(r), AfterAnalysis(r))
StoreJson(r) == Store("json", r, IF KeyOf[r] \in Mailed THEN "row" ELSE "mail",
                      "mail")

\* _write_diagnosis_metadata: the row names the JSON and the question count.
WriteRow(r) ==
    /\ pc[r] = "row"
    /\ \/ /\ rows' = rows \cup {r} /\ UNCHANGED <<errors, faults>>
       \/ /\ Fault /\ rows' \in {rows, rows \cup {r}}
          /\ errors' = [errors EXCEPT ![r] = @ \cup {"row"}]
    /\ Goto(r, "mail")
    /\ UNCHANGED <<questions, stored, mail, objects, dated, mailVars>>

MailStatus(r, status) == mail' = [mail EXCEPT ![r] = status]

\* A plausible bug: the email is requested whether the PDF was stored or not.
RequestMailAnyway(r) ==
    /\ pc[r] = "mail"
    /\ \/ KeyOf[r] \notin Mailed /\ UNCHANGED <<mail, events, faults>>
       \/ /\ KeyOf[r] \in Mailed /\ UNCHANGED faults
          /\ MailStatus(r, "queued") /\ events' = events \cup {r}
    /\ Goto(r, "done")
    /\ UNCHANGED <<questions, stored, errors, objects, dated, rows, tries,
                   attached, sent>>

\* _request_email_delivery and EmailDeliveryCoordinator.request_delivery: the
\* coordinator is the service's own, made for this run, so its store is empty.
\* Its failures: configuration, or an invocation that raises, perhaps after
\* Lambda took the event.
RequestMail(r) ==
    /\ pc[r] = "mail"
    /\ \/ KeyOf[r] \notin Mailed /\ UNCHANGED <<mail, events, faults>>
       \/ /\ KeyOf[r] \in Mailed /\ "pdf" \notin stored[r]
          /\ MailStatus(r, "failed") /\ UNCHANGED <<events, faults>>
       \/ /\ KeyOf[r] \in Mailed /\ "pdf" \in stored[r] /\ UNCHANGED faults
          /\ MailStatus(r, "queued") /\ events' = events \cup {r}
       \/ /\ KeyOf[r] \in Mailed /\ "pdf" \in stored[r] /\ Fault
          /\ MailStatus(r, "failed") /\ events' \in {events, events \cup {r}}
    /\ Goto(r, "done")
    /\ UNCHANGED <<questions, stored, errors, objects, dated, rows, tries,
                   attached, sent>>

-----------------------------------------------------------------------------
(* The email worker: handle_email_delivery makes an EmailDeliveryWorker for *)
(* each event Lambda hands it, so the store in which the worker looks for a *)
(* duplicate is always empty.  It never raises.                            *)

\* An attempt ends, with whatever outcome.
EndDelivery(r) == tries' = [tries EXCEPT ![r] = @ + 1]

FetchPdf(r) ==
    /\ r \in events /\ tries[r] < MaxDeliveries /\ attached[r] = {}
    /\ \/ /\ History("pdf", r) # << >>
          /\ attached' = [attached EXCEPT ![r] = {Content("pdf", r)}]
          /\ UNCHANGED <<tries, faults>>
       \/ EndDelivery(r) /\ Fault /\ UNCHANGED attached
    /\ UNCHANGED <<runVars, objects, dated, rows, events, sent>>

SendMail(r) ==
    /\ attached[r] # {}
    /\ \/ sent' = sent \cup ({r} \X attached[r]) /\ UNCHANGED faults
       \/ UNCHANGED sent /\ Fault
    /\ attached' = [attached EXCEPT ![r] = {}]
    /\ EndDelivery(r)
    /\ UNCHANGED <<runVars, objects, dated, rows, events>>

RunStep(r) ==
    \/ Respond(r) \/ StorePdf(r) \/ StoreMarkdown(r) \/ StoreJson(r)
    \/ WriteRow(r) \/ RequestMail(r)
WorkerStep(r) == FetchPdf(r) \/ SendMail(r)
DeliveryNext == \E r \in Run : RunStep(r) \/ WorkerStep(r)

-----------------------------------------------------------------------------
DeliveryTypeOK ==
    /\ pc \in [Run -> Steps]
    /\ questions \in [Run -> QuestionCounts \cup {0}]
    /\ stored \in [Run -> SUBSET Kinds]
    /\ errors \in [Run -> SUBSET (Kinds \cup {"row"})]
    /\ mail \in [Run -> {"not_requested", "queued", "failed"}]
    /\ objects \in [Kinds \X Prefix -> Seq(Run)]
    /\ dated \in Seq(Run)
    /\ rows \subseteq Run
    /\ events \subseteq Run
    /\ tries \in [Run -> Nat]
    /\ attached \in [Run -> SUBSET Run]
    /\ sent \subseteq Run \X Run
    /\ faults \in Nat

\* Partial failures are told.  The URIs in a response are of objects the run
\* wrote, and a response without errors to a run that had something to write
\* means that its PDF is stored and, if it has a report and a recipient, that
\* its JSON and its metadata row are (service.py:341-384, writer.py:41-109).
ResponseIsHonest ==
    \A r \in Run :
        /\ \A kind \in stored[r] : r \in Elements(History(kind, r))
        /\ pc[r] = "done" /\ KeyOf[r] \in Mailed /\ errors[r] = {}
              => /\ "pdf" \in stored[r]
                 /\ questions[r] > 0 => "json" \in stored[r] /\ r \in rows

\* An email carries the PDF of the run that requested it or one that replaced
\* it under the same name later; never an older one that was there before
\* (worker.py:62-75, delivery and fetch being two steps of two processes).  It
\* may go out more than once: NoDeliveryRepeated.
CarriesFreshPdf(r, content) ==
    \E i, j \in DOMAIN History("pdf", r) :
        /\ i =< j
        /\ History("pdf", r)[i] = r
        /\ History("pdf", r)[j] = content
MailAttachesFreshPdf == \A m \in sent : CarriesFreshPdf(m[1], m[2])

\* What the email specification promises of a repeated delivery: when an email
\* has gone out for an event, its PDF is not fetched again to send another
\* (worker.py:52-62, 123-124: each delivery has a worker, and a store, of its own).
NoDeliveryRepeated ==
    \A r \in Run : (\E m \in sent : m[1] = r) => attached[r] = {}
=============================================================================
