--------------------------- MODULE DiagnosisOutput ---------------------------
(***************************************************************************)
(* What becomes of the images of one invocation: they are listed and       *)
(* numbered by file name (invocation/image_inputs.py), analysed in batches *)
(* (application/vision.py, agent/llm_client.py), merged into one           *)
(* observation (agent/tools.py), checked against the contract and the      *)
(* curriculum (agent/diagnosis_output.py, agent/task_guardrails.py,        *)
(* curriculum/), and rendered as a table, which has a validator of its own *)
(* (agent/output_validation.py).  DiagnosisCrew has the control around it: *)
(* concurrent calls, replays and the agent's answers.                      *)
(*                                                                         *)
(* A question in an answer is known by what its number says, and, once the *)
(* curriculum is consulted, by its chapter and topic (CurriculumLabels).   *)
(***************************************************************************)
EXTENDS CurriculumLabels, Sequences, SequencesExt

CONSTANTS
    Number,            \* question numbers
    Unnumbered,        \* of an image whose file name has no digits
    Unreadable,        \* the number says UNREADABLE_SENTINEL
    Wordy,             \* other texts without digits that a number may be
    Answer,            \* bound: the answers a batch may get
    LabelPair,         \* bound: the chapter and topic a question may get
    MaxImages,         \* bound: images of an invocation
    MaxImagesPerCall

Formats == {"json", "markdown", "other"}
Says == Number \cup {Unreadable} \cup Wordy

ASSUME OutputAssumptions ==
    /\ Number \subseteq Nat
    /\ ({Unnumbered, Unreadable} \cup Wordy) \cap Nat = {}
    /\ Answer \subseteq [format : Formats, says : Seq(Says)]
    /\ LabelPair \subseteq (Label \cup {Undetermined}) \X (Label \cup {Undetermined})
    /\ MaxImages \in Nat /\ MaxImagesPerCall \in Nat \ {0}

VARIABLES
    react,        \* use_react
    structured,   \* structured_output of the client
    curriculum,   \* the taxonomy is "off", "optional" or "required"
    images,       \* the question number of each image, in the order sent
    outputs,      \* the answers of the batches so far
    observation,
    stage,
    retried,      \* the analysis has been repeated after a rejection
    cached,       \* the taxonomy has been loaded
    labels,       \* each question's chapter and topic, if they were checked
    marked        \* positions whose label was marked for human validation

config == <<react, structured, curriculum>>
vars == <<config, images, outputs, observation, stage, retried, cached, labels,
          marked>>

Nothing == [format |-> "other", says |-> << >>]

Stages == {"resolving", "analysing", "merging", "checking", "labelling",
           "rendering", "returned", "raised", "refused_table"}

Init ==
    /\ react \in BOOLEAN
    /\ structured \in BOOLEAN
    /\ curriculum \in {"off", "optional", "required"}
    /\ images = << >>
    /\ outputs = << >>
    /\ observation = Nothing
    /\ stage = "resolving"
    /\ retried = FALSE
    /\ cached = FALSE
    /\ labels = << >>
    /\ marked = {}

-----------------------------------------------------------------------------
(* The contract.                                                           *)

AllNumbered(expected) == \A i \in DOMAIN expected : expected[i] # Unnumbered

\* A plausible bug: the numbers may come in any order.
ParsesAnyOrder(says, count, expected) ==
    /\ Len(says) = count
    /\ \A i, j \in DOMAIN says : i # j /\ says[i] = says[j] => says[i] = Unreadable
    /\ expected # << >> /\ AllNumbered(expected) =>
          {says[i] : i \in DOMAIN says} = {expected[i] : i \in DOMAIN expected}

\* A plausible bug: numbers that repeat are not looked for.
ParsesRepeated(says, count, expected) ==
    /\ Len(says) = count
    /\ expected # << >> /\ AllNumbered(expected) => says = expected

\* parse_and_validate_diagnosis, of JSON that has the schema: as many questions
\* as images, none with the number or text of another unless unreadable, and the
\* expected numbers in their order if every image has one.
Parses(says, count, expected) ==
    /\ Len(says) = count
    /\ \A i, j \in DOMAIN says : i # j /\ says[i] = says[j] => says[i] = Unreadable
    /\ expected # << >> /\ AllNumbered(expected) => says = expected

Occurs(n, numbers) == Cardinality({i \in DOMAIN numbers : numbers[i] = n})

\* A plausible bug: rows without a number are refused whatever is expected.
TableHoldsNumbers(says, expected) ==
    /\ Len(says) = Len(expected)
    /\ \A i \in DOMAIN says : says[i] \in Number
    /\ AllNumbered(expected) =>
          \A n \in Number : Occurs(n, says) = Occurs(n, expected)

\* validate_markdown_analysis: with no image numbered only the rows count; with
\* some, all must be, and the rows must have the same numbers in any order.
TableHolds(says, expected) ==
    /\ Len(says) = Len(expected)
    /\ \/ \A i \in DOMAIN expected : expected[i] = Unnumbered
       \/ /\ AllNumbered(expected)
          /\ \A i \in DOMAIN says : says[i] \in Number
          /\ \A n \in Number : Occurs(n, says) = Occurs(n, expected)

-----------------------------------------------------------------------------
(* The analysis.                                                           *)

\* _s3_image_sort_key: numbered images first, by number.
SendingOrder(numbers) ==
    \A i, j \in DOMAIN numbers : i < j =>
        \/ numbers[j] = Unnumbered
        \/ numbers[i] # Unnumbered /\ numbers[i] =< numbers[j]

\* resolve_images: the supported files directly under the prefix, two of which
\* may have one number, or the one image of a data URI; none is an error.
ResolveImages ==
    /\ stage = "resolving"
    /\ \/ /\ \E n \in 1..MaxImages :
                images' \in {f \in [1..n -> Number \cup {Unnumbered}] : SendingOrder(f)}
          /\ stage' = "analysing"
       \/ stage' = "raised" /\ UNCHANGED images
    /\ UNCHANGED <<config, outputs, observation, retried, cached, labels, marked>>

Upto(n) == IF n < Len(images) THEN n ELSE Len(images)
Start(b) == (b - 1) * MaxImagesPerCall + 1
\* The numbers of the images of batch b.
Batch(b) == SubSeq(images, Start(b), Upto(b * MaxImagesPerCall))
IsLast(b) == b * MaxImagesPerCall >= Len(images)

\* VisionLLMClient.analyze_vision: structured output is JSON and validated for
\* the batch; otherwise the model's text is the answer.
MayAnswer(answer, batch) ==
    structured => answer.format = "json" /\ Parses(answer.says, Len(batch), batch)

\* The next batch is analysed.
AnalyzeBatch ==
    /\ stage = "analysing"
    /\ LET b == Len(outputs) + 1
       IN  /\ \E answer \in Answer :
                 MayAnswer(answer, Batch(b)) /\ outputs' = Append(outputs, answer)
           /\ stage' = IF IsLast(b) THEN "merging" ELSE "analysing"
    /\ UNCHANGED <<config, images, observation, retried, cached, labels, marked>>

\* The provider or the validation of the answer raises: the tool caches the
\* failure and no batch is asked again.
BatchFails ==
    /\ stage = "analysing"
    /\ stage' = "raised"
    /\ UNCHANGED <<config, images, outputs, observation, retried, cached,
                   labels, marked>>

All(format) == \A b \in DOMAIN outputs : outputs[b].format = format
Joined == FlattenSeq([b \in DOMAIN outputs |-> outputs[b].says])
EachParses == \A b \in DOMAIN outputs :
                 Parses(outputs[b].says, Len(Batch(b)), << >>)

\* A plausible bug: answers of different formats are joined.
MergeMixed ==
    /\ stage = "merging"
    /\ observation' = [format |-> IF All("json") THEN "json" ELSE "mixed", says |-> Joined]
    /\ outputs' = << >>
    /\ stage' = IF react THEN "checking" ELSE "rendering"
    /\ UNCHANGED <<config, images, retried, cached, labels, marked>>

\* _merge_batch_outputs: JSON answers are parsed one by one, so a number in two
\* batches is not seen here; tables are joined row by row.
Merge ==
    /\ stage = "merging"
    /\ \/ /\ \/ All("json") /\ EachParses
             \/ All("markdown")
             \/ All("other") /\ Len(outputs) = 1
          /\ observation' = [format |-> outputs[1].format, says |-> Joined]
          /\ stage' = IF react THEN "checking" ELSE "rendering"
       \/ /\ \/ All("json") /\ ~EachParses
             \/ \A format \in {"json", "markdown"} : ~All(format) /\ Len(outputs) > 1
          /\ stage' = "raised" /\ UNCHANGED observation
    /\ outputs' = << >>
    /\ UNCHANGED <<config, images, retried, cached, labels, marked>>

-----------------------------------------------------------------------------
(* The task guardrail, for the observation itself as the agent's output.   *)

\* A plausible bug: a rejection does not use up the one repetition.
RejectUncounted ==
    /\ \/ retried /\ stage' = "raised"
       \/ ~retried /\ stage' = "analysing"
    /\ observation' = Nothing
    /\ UNCHANGED <<config, images, outputs, retried, labels, marked>>

\* reject_observation: the analysis is repeated once.  A rejected observation
\* is read no more.
Reject ==
    /\ \/ retried /\ stage' = "raised"
       \/ ~retried /\ stage' = "analysing"
    /\ retried' = TRUE
    /\ observation' = Nothing
    /\ UNCHANGED <<config, images, outputs, labels, marked>>

Accept(positions) ==
    /\ marked' = positions
    /\ stage' = "rendering"
    /\ UNCHANGED <<config, images, outputs, observation, retried>>

\* _validate_observation_contract; other formats than JSON end the task.
CheckContract ==
    /\ stage = "checking"
    /\ \/ /\ observation.format # "json"
          /\ stage' = "raised"
          /\ UNCHANGED <<config, images, outputs, observation, retried, labels, marked>>
       \/ /\ observation.format = "json"
          /\ ~Parses(observation.says, Len(images), images)
          /\ Reject
       \/ /\ observation.format = "json"
          /\ Parses(observation.says, Len(images), images)
          /\ stage' = "labelling"
          /\ UNCHANGED <<config, images, outputs, observation, retried, labels, marked>>
    /\ UNCHANGED cached

\* CurriculumTaxonomyLoader.load finds no taxonomy: none is configured, or the
\* first load of it fails; one loaded before is kept.
TaxonomyMissing ==
    /\ stage = "labelling" /\ ~cached
    /\ \/ curriculum # "required" /\ Accept({}) /\ labels' = << >>
       \/ curriculum = "required" /\ Reject
    /\ UNCHANGED cached

Kinds == [pair \in LabelPair |-> KindOf(pair[1], pair[2])]
Kind(pair) == Kinds[pair]
Failing(pairs) == {i \in DOMAIN pairs : Kind(pairs[i]) \notin {"known", "undetermined"}}

\* A plausible bug: it is the last failure that is reported and marked.
IsLastFailure(i, pairs) == i \in Failing(pairs) /\ \A j \in Failing(pairs) : j =< i

\* The validator raises at the first question whose labels fail.
IsFirstFailure(i, pairs) == i \in Failing(pairs) /\ \A j \in Failing(pairs) : i =< j

\* _soften_taxonomy_failure_observation finds its question by what its number
\* says, which other unreadable questions say too.
Softened(i) == {j \in DOMAIN observation.says : observation.says[j] = observation.says[i]}

\* validate_diagnosis_against_taxonomy stops at the first failure: an unknown
\* label is marked and the observation accepted, a partial one rejects it.
CheckLabels ==
    /\ stage = "labelling" /\ curriculum # "off"
    /\ cached' = TRUE
    /\ \E pairs \in [DOMAIN observation.says -> LabelPair] :
          \/ Failing(pairs) = {} /\ Accept({}) /\ labels' = pairs
          \/ \E i \in DOMAIN pairs :
                /\ IsFirstFailure(i, pairs)
                /\ \/ /\ Kind(pairs[i]) # "partial_curriculum_label"
                      /\ Accept(Softened(i)) /\ labels' = pairs
                   \/ Kind(pairs[i]) = "partial_curriculum_label" /\ Reject

-----------------------------------------------------------------------------
(* The end of run_tutor_workflow.                                          *)

\* What the crew's guardrail accepted is rendered as it is; without a crew the
\* observation is parsed, rendered, and the table validated.  Any other text is
\* validated by the table that it holds, wherever in the text that begins.
Render ==
    /\ stage = "rendering"
    /\ \/ react /\ stage' = "returned"
       \/ /\ ~react /\ observation.format = "json"
          /\ stage' = IF ~Parses(observation.says, Len(images), images) THEN "raised"
                      ELSE IF TableHolds(observation.says, images) THEN "returned"
                      ELSE "refused_table"
       \/ /\ ~react /\ observation.format # "json"
          /\ stage' = IF TableHolds(observation.says, images) THEN "returned" ELSE "raised"
    /\ UNCHANGED <<config, images, outputs, observation, retried, cached,
                   labels, marked>>

Finished == stage \in {"returned", "raised", "refused_table"} /\ UNCHANGED vars

Next ==
    \/ ResolveImages \/ AnalyzeBatch \/ BatchFails \/ Merge
    \/ CheckContract \/ TaxonomyMissing \/ CheckLabels \/ Render \/ Finished

Spec == Init /\ [][Next]_vars

-----------------------------------------------------------------------------
TypeOK ==
    /\ react \in BOOLEAN /\ structured \in BOOLEAN
    /\ curriculum \in {"off", "optional", "required"}
    /\ images \in Seq(Number \cup {Unnumbered})
    /\ outputs \in Seq(Answer)
    /\ observation \in [format : Formats, says : Seq(Says)]
    /\ stage \in Stages
    /\ retried \in BOOLEAN /\ cached \in BOOLEAN
    /\ labels \in Seq(LabelPair)
    /\ marked \subseteq DOMAIN observation.says

\* What the workflow returns answers the images it was given: a question for
\* each, and if the file names are numbered, theirs, each of them, in their
\* order when the answer was JSON, however the images were cut into batches
\* and whichever validators the path has (tools.py:365-411, workflow.py:95-120).
ReturnedAnswersImages ==
    stage = "returned" =>
        /\ Len(observation.says) = Len(images)
        /\ AllNumbered(images) =>
              IF observation.format = "json" THEN observation.says = images
              ELSE \A n \in Number : Occurs(n, observation.says) = Occurs(n, images)

\* No structured diagnosis is returned in which two questions claim the same
\* number, also when they come from different batches, where the merge does
\* not see it (tools.py:374-391, diagnosis_output.py:127-138).
NoQuestionReturnedTwice ==
    stage = "returned" /\ observation.format = "json" =>
        \A i, j \in DOMAIN observation.says :
            i # j /\ observation.says[i] = observation.says[j]
                => observation.says[i] = Unreadable

\* The two validators of the direct path agree, except when some file names
\* have a number and others do not: then a diagnosis that parses is thrown
\* away (diagnosis_output.py:147-158, output_validation.py:147-173).
TableRefusedOnlyIfMixed ==
    stage = "refused_table" =>
        /\ ~AllNumbered(images)
        /\ \E i \in DOMAIN images : images[i] # Unnumbered

\* When a taxonomy was consulted, a label that it does not have goes out
\* unmarked only behind a question that is marked for human validation
\* (validator.py:74-118, task_guardrails.py:274-300): that a diagnosis holds such
\* a label can be told from its marks.  ContradictedLabelsAreMarked asks for more.
UnknownLabelsFollowAMark ==
    stage = "returned" =>
        \A i \in Failing(labels) :
            \E j \in marked :
                j =< i /\ Kind(labels[j]) \in {"unknown_chapter", "unknown_topic"}

\* The five ways to pass neither refuse what the taxonomy has nor let through
\* what it knows nothing like: a topic under the chapter it is listed in passes,
\* by name or alias, and one that passes has the name, part of the text or a
\* word of some topic (validator.py:69-116).
VerdictsFollowTaxonomy ==
    \A i \in DOMAIN labels :
        LET chapter == labels[i][1]
            topic   == labels[i][2]
        IN  /\ IsTopicOf(topic, Named(chapter)) => Kind(labels[i]) = "known"
            /\ Kind(labels[i]) = "known" => ExistsAnywhere(topic)

\* The images' way seen as AnalysisLifecycle: the model is asked with the first
\* batch.
LifeStage ==
    CASE stage \in {"resolving", "analysing"} /\ outputs = << >> ->
           IF retried THEN "rejected" ELSE "none"
      [] stage \in {"analysing", "merging"} /\ outputs # << >> -> "running"
      [] stage \in {"checking", "labelling"} \/ (stage = "rendering" /\ ~react) ->
           "observed"
      [] stage = "rendering" /\ react -> "accepted"
      [] stage = "returned" -> "returned"
      [] OTHER -> "raised"

Lifecycle ==
    INSTANCE AnalysisLifecycle
    WITH Reruns <- 1, guarded <- react, stage <- LifeStage,
         rejections <- IF retried THEN 1 ELSE 0

\* Batches, merging and labels follow the same life of an observation as the
\* calls and answers of the agent in DiagnosisCrew: what the two modules say of
\* a workflow agrees (tools.py:90-148, task_guardrails.py:116-218).
LifecycleSpec == Lifecycle!Spec

\* Labels that the taxonomy contradicts: it does not have one, or it has the topic,
\* but under no chapter that the chapter label means.
Contradicted(pair) ==
    \/ Kind(pair) \in {"unknown_chapter", "unknown_topic"}
    \/ /\ Kind(pair) = "known"
       /\ IsTopicOf(pair[2], Chapter)
       /\ ~IsTopicOf(pair[2], Chapters(pair[1]))

\* What the curriculum specification comes to for who reads a diagnosis: no
\* question goes out unmarked whose labels contradict the taxonomy, be it the
\* first one that fails, a later one, or a topic of another chapter
\* (validator.py:69-118, task_guardrails.py:274-300).
ContradictedLabelsAreMarked ==
    stage = "returned" =>
        \A i \in DOMAIN labels : Contradicted(labels[i]) => i \in marked
=============================================================================
