--------------------------- MODULE StudentProfile ---------------------------
(***************************************************************************)
(* The profile task (application/profile.py) of one student and subject,   *)
(* beside the diagnoses of AnalysisDelivery that write the history it      *)
(* reads.  A request takes the metadata rows, loads the JSON each one      *)
(* names, pairs rows and reports by report id, takes an embedding for each *)
(* question from the cache or the provider, has the strands analysed       *)
(* (StrandAnalysis) and publishes a PDF.                                   *)
(***************************************************************************)
EXTENDS AnalysisDelivery

CONSTANTS
    Request,         \* profile requests of the student for the subject
    Model, ModelOf   \* embedding models, and that of each request's bundle

ASSUME ProfileAssumptions == ModelOf \in [Request -> Model]

VARIABLES
    phase,      \* where each request stands
    snapshot,   \* the metadata rows it was given
    todo,       \* where the rows it has still to load stand in dated
    reports,    \* the report it has under each report id, if any
    broken,     \* rows whose JSON could not be loaded
    vectors,    \* the embedding it has for each evidence id
    unsaved,    \* evidence ids whose new embedding is not yet in the cache
    cache,      \* the embedding table
    published   \* the runs whose reports the profile PDF shows

requestVars == <<phase, snapshot, todo, reports, broken, vectors, unsaved,
                 published>>
vars == <<deliveryVars, requestVars, cache>>

Phases == {"idle", "loading", "pairing", "embedding", "saving", "analysing",
           "publishing", "succeeded", "no_history", "artifact_failed",
           "raised", "bad_data"}
Ended == {"succeeded", "no_history", "artifact_failed", "raised", "bad_data"}

Move(p, to) == phase' = [phase EXCEPT ![p] = to]

-----------------------------------------------------------------------------
(* Evidence.  A report is named by the run that wrote it: its id is the     *)
(* run's key, its questions are numbered, and no two runs word a question   *)
(* alike.                                                                   *)

SameReport(q, r) == KeyOf[q] = KeyOf[r]

\* A plausible bug: reports are found by where they are stored.
ReportOfPlace(p, row) == UNION {reports[p][k] : k \in {k \in Key : PrefixOf[k] = Place(row)}}

\* reports_by_id.get: the report with the row's report id.
ReportOf(p, row) == reports[p][KeyOf[row]]

\* The questions of the reports, each under a row it is attributed to.
ItemsOf(row, report) ==
    {[row |-> row, id |-> <<KeyOf[row], q>>, report |-> report] :
        q \in 1..questions[report]}
Items(p) ==
    UNION {UNION {ItemsOf(row, report) : report \in ReportOf(p, row)} : row \in snapshot[p]}
Ids(p) == {item.id : item \in Items(p)}
ItemOf(p, id) == CHOOSE item \in Items(p) : item.id = id

\* "Structured diagnosis report question count does not match metadata."
Mismatch(p) ==
    \E row \in snapshot[p] : \E report \in ReportOf(p, row) :
        questions[report] # questions[row]

\* "Evidence items must have unique evidence ids."
DuplicateIds(p) ==
    \E a, b \in Items(p) : a # b /\ a.id = b.id

-----------------------------------------------------------------------------
(* Embeddings.  build_embedding_key is the evidence id, the model and the   *)
(* input version (one for all); the table's key adds the JSON's URI.  The   *)
(* text hash of a record is the report the text is from.                    *)

CacheKey(p, id) == <<PrefixOf[id[1]], id, ModelOf[p]>>

\* A plausible bug: the hash of a record is that of the id, not of the text.
EmbeddingOfId(p, id) == [model |-> ModelOf[p], text |-> id]

Embedding(p, id) == [model |-> ModelOf[p], text |-> ItemOf(p, id).report]

\* A plausible bug: a record is reused whatever text it was made from.
ReusableByKey(p, id) == CacheKey(p, id) \in DOMAIN cache

Reusable(p, id) ==
    /\ CacheKey(p, id) \in DOMAIN cache
    /\ cache[CacheKey(p, id)].text = ItemOf(p, id).report

-----------------------------------------------------------------------------
ProfileInit ==
    /\ phase = [p \in Request |-> "idle"]
    /\ snapshot = [p \in Request |-> {}]
    /\ todo = [p \in Request |-> {}]
    /\ reports = [p \in Request |-> [k \in Key |-> {}]]
    /\ broken = [p \in Request |-> {}]
    /\ vectors = [p \in Request |-> [id \in {} |-> {}]]
    /\ unsaved = [p \in Request |-> {}]
    /\ cache = [k \in {} |-> {}]
    /\ published = {}

\* query_by_email_subject.
Query(p) ==
    /\ phase[p] = "idle"
    /\ snapshot' = [snapshot EXCEPT ![p] = rows]
    /\ todo' = [todo EXCEPT ![p] = {i \in DOMAIN dated : dated[i] \in rows}]
    /\ Move(p, IF rows = {} THEN "no_history" ELSE "loading")
    /\ UNCHANGED <<deliveryVars, reports, broken, vectors, unsaved, cache,
                   published>>

\* Rows are loaded by diagnosis_date, the sort key of the table.
IsNext(p, i) == i \in todo[p] /\ \A j \in todo[p] : i =< j

\* A plausible bug: the first report that fails to load ends the loading.
LoadUntilFailure(p) ==
    /\ phase[p] = "loading"
    /\ \E i \in todo[p] :
          /\ IsNext(p, i)
          /\ LET report == Content("json", dated[i])
             IN  \/ /\ reports' = [reports EXCEPT ![p][KeyOf[report]] = {report}]
                    /\ todo' = [todo EXCEPT ![p] = @ \ {i}]
                    /\ Move(p, IF todo[p] = {i} THEN "pairing" ELSE "loading")
                    /\ UNCHANGED <<broken, faults>>
                 \/ /\ broken' = [broken EXCEPT ![p] = @ \cup {dated[i]}] /\ Fault
                    /\ todo' = [todo EXCEPT ![p] = {}]
                    /\ Move(p, "pairing") /\ UNCHANGED reports
    /\ UNCHANGED <<runVars, objects, dated, rows, mailVars, snapshot, vectors,
                   unsaved, cache, published>>

\* load_report: whatever the row's URI holds at that moment.  Of the reports
\* with one id the last one loaded stays in reports_by_id.
LoadReport(p) ==
    /\ phase[p] = "loading"
    /\ \E i \in todo[p] :
          /\ IsNext(p, i)
          /\ LET report == Content("json", dated[i])
             IN  \/ /\ reports' = [reports EXCEPT ![p][KeyOf[report]] = {report}]
                    /\ UNCHANGED <<broken, faults>>
                 \/ /\ broken' = [broken EXCEPT ![p] = @ \cup {dated[i]}] /\ Fault
                    /\ UNCHANGED reports
          /\ todo' = [todo EXCEPT ![p] = @ \ {i}]
          /\ Move(p, IF todo[p] = {i} THEN "pairing" ELSE "loading")
    /\ UNCHANGED <<runVars, objects, dated, rows, mailVars, snapshot, vectors,
                   unsaved, cache, published>>

\* _evidence_items_from_reports: its ValueError is not caught.
Pair(p) ==
    /\ phase[p] = "pairing"
    /\ Move(p, IF Mismatch(p) THEN "bad_data"
               ELSE IF Items(p) = {} THEN "no_history" ELSE "embedding")
    /\ UNCHANGED <<deliveryVars, snapshot, todo, reports, broken, vectors, unsaved,
                   cache, published>>

\* ensure_embeddings: reuse what the cache has, embed the rest in one call.
Embed(p) ==
    /\ phase[p] = "embedding"
    /\ LET missing == {id \in Ids(p) : ~Reusable(p, id)}
       IN  \/ /\ vectors' = [vectors EXCEPT ![p] =
                     [id \in Ids(p) |-> IF id \in missing THEN Embedding(p, id)
                                        ELSE cache[CacheKey(p, id)]]]
              /\ unsaved' = [unsaved EXCEPT ![p] = missing]
              /\ Move(p, IF missing = {} THEN "analysing" ELSE "saving")
              /\ UNCHANGED faults
           \/ /\ Fault /\ missing # {}
              /\ Move(p, "raised") /\ UNCHANGED <<vectors, unsaved>>
    /\ UNCHANGED <<runVars, objects, dated, rows, mailVars, snapshot, todo,
                   reports, broken, cache, published>>

\* put_embedding, one record at a time; a failure leaves those before it.
SaveEmbedding(p) ==
    /\ phase[p] = "saving"
    /\ \E id \in unsaved[p] :
          \/ /\ cache' = [k \in DOMAIN cache \cup {CacheKey(p, id)} |->
                             IF k = CacheKey(p, id) THEN vectors[p][id] ELSE cache[k]]
             /\ unsaved' = [unsaved EXCEPT ![p] = @ \ {id}]
             /\ Move(p, IF unsaved[p] = {id} THEN "analysing" ELSE "saving")
             /\ UNCHANGED faults
          \/ /\ Move(p, "raised") /\ Fault /\ UNCHANGED <<cache, unsaved>>
    /\ UNCHANGED <<runVars, objects, dated, rows, mailVars, snapshot, todo,
                   reports, broken, vectors, published>>

\* ConceptualStrandAnalyzer.analyze after the embeddings, and the report: the
\* candidate pairs refuse duplicate ids, the classifier may fail.
Analyse(p) ==
    /\ phase[p] = "analysing"
    /\ \/ DuplicateIds(p) /\ Move(p, "bad_data") /\ UNCHANGED faults
       \/ ~DuplicateIds(p) /\ Move(p, "publishing") /\ UNCHANGED faults
       \/ ~DuplicateIds(p) /\ Move(p, "raised") /\ Fault
    /\ UNCHANGED <<runVars, objects, dated, rows, mailVars, snapshot, todo,
                   reports, broken, vectors, unsaved, cache, published>>

\* ProfileReportArtifactWriter.write: one name per student and subject.
Publish(p) ==
    /\ phase[p] = "publishing"
    /\ \/ /\ published' = {item.report : item \in Items(p)}
          /\ Move(p, "succeeded") /\ UNCHANGED faults
       \/ Move(p, "artifact_failed") /\ Fault /\ UNCHANGED published
    /\ UNCHANGED <<runVars, objects, dated, rows, mailVars, snapshot, todo,
                   reports, broken, vectors, unsaved, cache>>

RequestStep(p) ==
    \/ Query(p) \/ LoadReport(p) \/ Pair(p) \/ Embed(p) \/ SaveEmbedding(p)
    \/ Analyse(p) \/ Publish(p)

Init == DeliveryInit /\ ProfileInit
Next ==
    \/ DeliveryNext /\ UNCHANGED <<requestVars, cache>>
    \/ \E p \in Request : RequestStep(p)

Spec == Init /\ [][Next]_vars

-----------------------------------------------------------------------------
Vector == [model : Model, text : Run]
EvidenceId == Key \X Nat

TypeOK ==
    /\ DeliveryTypeOK
    /\ phase \in [Request -> Phases]
    /\ snapshot \in [Request -> SUBSET Run]
    /\ todo \in [Request -> SUBSET Nat]
    /\ reports \in [Request -> [Key -> SUBSET Run]]
    /\ broken \in [Request -> SUBSET Run]
    /\ unsaved \in [Request -> SUBSET EvidenceId]
    /\ \A p \in Request : \A id \in DOMAIN vectors[p] : vectors[p][id] \in Vector
    /\ \A k \in DOMAIN cache : cache[k] \in Vector
    /\ published \subseteq Run

\* A row whose questions the profile leaves out without a loading error has
\* lost its JSON to a later run of another key on the same prefix
\* (evidence.py:96-104: a row without a report is skipped in silence).
Overwritten(row) ==
    \E i, j \in DOMAIN History("json", row) :
        /\ i < j
        /\ History("json", row)[i] = row
        /\ ~SameReport(History("json", row)[j], row)
OmittedRowWasOverwritten ==
    \A p \in Request : phase[p] \notin {"idle", "loading"} =>
        \A row \in snapshot[p] \ broken[p] : ReportOf(p, row) = {} => Overwritten(row)

\* The data of a history can break a profile only when the workflow ran twice
\* under one key and both runs wrote a JSON (evidence.py:104, clustering.py:50).
DataErrorsNeedRerun ==
    \A p \in Request : phase[p] = "bad_data" =>
        \E q, r \in Run :
            /\ q # r /\ SameReport(q, r)
            /\ {q, r} \subseteq Elements(History("json", r))

\* What is compared in one analysis is comparable: an embedding for every
\* item, of the request's own model and of the text the item has now, whatever
\* other requests and models have left in the table (embeddings.py:283-301).
VectorsMatchEvidence ==
    \A p \in Request : phase[p] \in {"saving", "analysing", "publishing"} =>
        /\ DOMAIN vectors[p] = Ids(p)
        /\ \A item \in Items(p) :
              vectors[p][item.id] = [model |-> ModelOf[p], text |-> item.report]

\* What a code assertion says of the evidence (clustering.py:49-50): "Evidence
\* items must have unique evidence ids."
EvidenceIdsUnique ==
    \A p \in Request : phase[p] = "analysing" => ~DuplicateIds(p)
=============================================================================
