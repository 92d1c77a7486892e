----------------------- MODULE DiagnosisOutputProofs -----------------------
(***************************************************************************)
(* Theorems about DiagnosisOutput, for any images, answers, batch size,    *)
(* taxonomy and labels.  What is returned was checked in an earlier step on *)
(* one path and in the last one on the other: Checked carries the first    *)
(* check to the end.                                                       *)
(***************************************************************************)
EXTENDS DiagnosisOutput, FiniteSetTheorems, TLAPS

\* Past the contract check of the guardrail the observation has not changed.
Checked ==
    stage = "labelling" \/ (stage \in {"rendering", "returned"} /\ react) =>
        /\ observation.format = "json"
        /\ Parses(observation.says, Len(images), images)

\* An image has a number of its file name, or none; what is analysed has one.
ImagesAreNumbered ==
    /\ \A i \in DOMAIN images : images[i] \in Number \cup {Unnumbered}
    /\ stage \notin {"resolving", "raised"} => images # << >> /\ DOMAIN images # {}

\* Without the guardrail, the last validators have spoken.
Validated ==
    stage = "returned" /\ ~react =>
        /\ TableHolds(observation.says, images)
        /\ observation.format = "json" =>
              Parses(observation.says, Len(images), images)

Answered == Checked /\ ImagesAreNumbered /\ Validated

LEMMA InitAnswered == Init => Answered
BY DEF Init, Answered, Checked, ImagesAreNumbered, Validated

\* Every step keeps what is known of the answer.
LEMMA AnsweredStep ==
    ASSUME Answered, [Next]_vars
    PROVE  Answered'
<1> USE DEF Answered
<1>1. CASE ResolveImages
  <2>1. ImagesAreNumbered'
    <3>1. CASE stage' = "raised" /\ UNCHANGED images
      BY <3>1 DEF ImagesAreNumbered
    <3>2. ASSUME NEW n \in 1..MaxImages,
                 images' \in [1..n -> Number \cup {Unnumbered}]
          PROVE  ImagesAreNumbered'
      <4>1. 1 \in DOMAIN images'
        BY <3>2, OutputAssumptions
      <4> QED BY <3>2, <4>1 DEF ImagesAreNumbered
    <3> QED BY <1>1, <3>1, <3>2 DEF ResolveImages
  <2> QED BY <1>1, <2>1 DEF ResolveImages, Checked, Validated
<1>2. CASE AnalyzeBatch \/ BatchFails \/ Merge
  BY <1>2 DEF AnalyzeBatch, BatchFails, Merge, config, Checked, ImagesAreNumbered,
              Validated
<1>3. CASE CheckContract
  BY <1>3 DEF CheckContract, Reject, config, Checked, ImagesAreNumbered, Validated
<1>4. CASE TaxonomyMissing
  BY <1>4 DEF TaxonomyMissing, Accept, Reject, config, Checked, ImagesAreNumbered,
              Validated
<1>5. CASE CheckLabels
  BY <1>5 DEF CheckLabels, Accept, Reject, config, Checked, ImagesAreNumbered,
              Validated
<1>6. CASE Render
  BY <1>6 DEF Render, config, Checked, ImagesAreNumbered, Validated
<1>7. CASE UNCHANGED vars
  BY <1>7 DEF vars, config, Checked, ImagesAreNumbered, Validated
<1> QED BY <1>1, <1>2, <1>3, <1>4, <1>5, <1>6, <1>7 DEF Next, Finished

\* What a run returns answers its images, for any batch size: the agent's path
\* and the direct path both check the merged observation against all images.
THEOREM AnswersImages == Spec => []ReturnedAnswersImages
<1>1. Init => Answered
  BY InitAnswered
<1>2. Answered /\ [Next]_vars => Answered'
  BY AnsweredStep
<1>3. Answered => ReturnedAnswersImages
  <2> SUFFICES ASSUME Answered, stage = "returned"
               PROVE  ReturnedAnswersImages
    BY DEF ReturnedAnswersImages
  <2>1. AllNumbered(images) => ~\A i \in DOMAIN images : images[i] = Unnumbered
    BY DEF Answered, ImagesAreNumbered, AllNumbered
  <2>2. images # << >>
    BY DEF Answered, ImagesAreNumbered
  <2>3. CASE observation.format = "json"
    <3>1. Parses(observation.says, Len(images), images)
      BY <2>3 DEF Answered, Checked, Validated
    <3> QED BY <2>2, <2>3, <3>1 DEF Parses, ReturnedAnswersImages
  <2>4. CASE observation.format # "json"
    <3>1. TableHolds(observation.says, images)
      BY <2>4 DEF Answered, Checked, Validated
    <3> QED BY <2>1, <2>4, <3>1 DEF TableHolds, ReturnedAnswersImages
  <2> QED BY <2>3, <2>4
<1> QED BY <1>1, <1>2, <1>3, PTL DEF Spec

\* However the images are cut into batches, no number is claimed twice in a
\* structured diagnosis: the merge does not look, both checks of the whole do.
THEOREM NoneTwice == Spec => []NoQuestionReturnedTwice
<1>1. Init => Answered
  BY InitAnswered
<1>2. Answered /\ [Next]_vars => Answered'
  BY AnsweredStep
<1>3. Answered => NoQuestionReturnedTwice
  BY DEF Answered, Checked, Validated, NoQuestionReturnedTwice, Parses
<1> QED BY <1>1, <1>2, <1>3, PTL DEF Spec

-----------------------------------------------------------------------------
(* The two validators of the direct path.                                  *)

\* A diagnosis that parses makes a table that holds, unless some images have
\* numbers and others do not.
LEMMA ParsedTableHolds ==
    ASSUME NEW says, NEW expected,
           Parses(says, Len(expected), expected),
           \A i \in DOMAIN expected : expected[i] \in Number \cup {Unnumbered},
           expected # << >>,
           AllNumbered(expected) \/ \A i \in DOMAIN expected : expected[i] = Unnumbered
    PROVE  TableHolds(says, expected)
<1>1. Len(says) = Len(expected)
  BY DEF Parses
<1>2. CASE AllNumbered(expected)
  <2>1. says = expected
    BY <1>2 DEF Parses
  <2>2. \A i \in DOMAIN says : says[i] \in Number
    BY <1>2, <2>1 DEF AllNumbered
  <2> QED BY <1>1, <1>2, <2>1, <2>2 DEF TableHolds
<1>3. CASE \A i \in DOMAIN expected : expected[i] = Unnumbered
  BY <1>1, <1>3 DEF TableHolds
<1> QED BY <1>2, <1>3

LEMMA RefusalStep ==
    ASSUME ImagesAreNumbered, TableRefusedOnlyIfMixed, [Next]_vars
    PROVE  TableRefusedOnlyIfMixed'
<1>1. CASE Render
  <2>1. CASE stage' = "refused_table"
    <3>1. /\ stage = "rendering" /\ images' = images
          /\ Parses(observation.says, Len(images), images)
          /\ ~TableHolds(observation.says, images)
      BY <1>1, <2>1 DEF Render
    <3>2. /\ images # << >>
          /\ \A i \in DOMAIN images : images[i] \in Number \cup {Unnumbered}
      BY <3>1 DEF ImagesAreNumbered
    <3>3. /\ ~AllNumbered(images)
          /\ ~\A i \in DOMAIN images : images[i] = Unnumbered
      BY <3>1, <3>2, ParsedTableHolds
    <3> QED BY <3>1, <3>3 DEF TableRefusedOnlyIfMixed, AllNumbered
  <2> QED BY <2>1 DEF TableRefusedOnlyIfMixed
<1>2. CASE UNCHANGED vars
  BY <1>2 DEF vars, config, TableRefusedOnlyIfMixed, AllNumbered
<1>3. CASE ResolveImages \/ AnalyzeBatch \/ BatchFails \/ Merge
  BY <1>3 DEF ResolveImages, AnalyzeBatch, BatchFails, Merge, TableRefusedOnlyIfMixed
<1>4. CASE CheckContract
  BY <1>4 DEF CheckContract, Reject, TableRefusedOnlyIfMixed
<1>5. CASE TaxonomyMissing \/ CheckLabels
  BY <1>5 DEF TaxonomyMissing, CheckLabels, Accept, Reject, TableRefusedOnlyIfMixed
<1> QED BY <1>1, <1>2, <1>3, <1>4, <1>5 DEF Next, Finished

\* The validators of the direct path disagree over a mixed listing alone, for
\* any images and whatever the model answers.
THEOREM RefusedOnlyIfMixed == Spec => []TableRefusedOnlyIfMixed
<1>1. Init => Answered /\ TableRefusedOnlyIfMixed
  BY InitAnswered DEF Init, TableRefusedOnlyIfMixed
<1>2. (Answered /\ TableRefusedOnlyIfMixed) /\ [Next]_vars
         => (Answered /\ TableRefusedOnlyIfMixed)'
  BY AnsweredStep, RefusalStep DEF Answered
<1> QED BY <1>1, <1>2, PTL DEF Spec

-----------------------------------------------------------------------------
(* The curriculum's labels.                                                *)

\* Labels and marks are given together, and the first failure is marked.
MarksLead ==
    \A i \in Failing(labels) :
        \E j \in marked :
            j =< i /\ Kind(labels[j]) \in {"unknown_chapter", "unknown_topic"}

LEMMA KindType ==
    ASSUME NEW pair \in LabelPair
    PROVE  Kind(pair) = KindOf(pair[1], pair[2]) /\ Kind(pair) \in LabelKinds
BY DEF Kind, Kinds, KindOf, LabelKinds

LEMMA MarksStep ==
    ASSUME MarksLead, [Next]_vars
    PROVE  MarksLead'
<1>1. CASE CheckLabels
  <2>1. PICK pairs \in [DOMAIN observation.says -> LabelPair] :
           \/ Failing(pairs) = {} /\ Accept({}) /\ labels' = pairs
           \/ \E i \in DOMAIN pairs :
                 /\ IsFirstFailure(i, pairs)
                 /\ \/ /\ Kind(pairs[i]) # "partial_curriculum_label"
                       /\ Accept(Softened(i)) /\ labels' = pairs
                    \/ Kind(pairs[i]) = "partial_curriculum_label" /\ Reject
    BY <1>1 DEF CheckLabels
  <2>2. CASE Failing(pairs) = {} /\ Accept({}) /\ labels' = pairs
    BY <2>2 DEF Failing, MarksLead
  <2>3. ASSUME NEW i \in DOMAIN pairs, IsFirstFailure(i, pairs),
               Kind(pairs[i]) # "partial_curriculum_label",
               Accept(Softened(i)), labels' = pairs
        PROVE  MarksLead'
    <3>1. i \in marked'
      BY <2>3 DEF Accept, Softened
    <3>2. Kind(pairs[i]) \in {"unknown_chapter", "unknown_topic"}
      <4>1. pairs[i] \in LabelPair
        BY <2>1, <2>3
      <4> QED BY <2>3, <4>1, KindType DEF IsFirstFailure, Failing, LabelKinds
    <3>3. \A j \in Failing(pairs) : i =< j
      BY <2>3 DEF IsFirstFailure
    <3> QED BY <2>3, <3>1, <3>2, <3>3 DEF MarksLead, Failing
  <2>4. CASE Reject
    BY <2>4 DEF Reject, MarksLead, Failing
  <2> QED BY <2>1, <2>2, <2>3, <2>4
<1>2. CASE TaxonomyMissing
  BY <1>2 DEF TaxonomyMissing, Accept, Reject, MarksLead, Failing
<1>3. CASE CheckContract
  BY <1>3 DEF CheckContract, Reject, MarksLead, Failing
<1>4. CASE ResolveImages \/ AnalyzeBatch \/ BatchFails \/ Merge \/ Render
           \/ UNCHANGED vars
  BY <1>4 DEF ResolveImages, AnalyzeBatch, BatchFails, Merge, Render, vars,
              MarksLead, Failing
<1> QED BY <1>1, <1>2, <1>3, <1>4 DEF Next, Finished

\* For any taxonomy and any labels: a label that it does not have goes out
\* unmarked only behind a marked question.
THEOREM MarksComeFirst == Spec => []UnknownLabelsFollowAMark
<1>1. Init => MarksLead
  BY DEF Init, MarksLead, Failing
<1>2. MarksLead /\ [Next]_vars => MarksLead'
  BY MarksStep
<1>3. MarksLead => UnknownLabelsFollowAMark
  BY DEF MarksLead, UnknownLabelsFollowAMark
<1> QED BY <1>1, <1>2, <1>3, PTL DEF Spec

-----------------------------------------------------------------------------
(* The verdict on one question.                                            *)

\* Of the five ways in which a topic is accepted, four are special cases of
\* the fifth, which looks at the whole taxonomy.
LEMMA AnyWayIsAnywhere ==
    ASSUME NEW label \in Label, NEW chapters \in SUBSET Chapter
    PROVE  IsAccepted(label, chapters) <=> ExistsAnywhere(label)
<1>1. IsTopicOf(label, chapters) => ExistsAnywhere(label)
  BY DEF IsTopicOf, ExistsAnywhere
<1>2. Intersects(label, chapters) => ExistsAnywhere(label)
  BY DEF Intersects, WordsOfTopicsIn, ExistsAnywhere
<1>3. IsCoveredBy(label, chapters) => Intersects(label, chapters)
  <2>1. Cardinality(TopicWords[label]) >= 2 => TopicWords[label] # {}
    BY FS_EmptySet
  <2> QED BY <2>1 DEF IsCoveredBy, Intersects
<1>4. StronglyMatched(label) # {} => ExistsAnywhere(label)
  <2>1. ASSUME NEW t \in Topic,
               Cardinality(TopicWords[label] \cap WordsOfTopic(t)) >= 2
        PROVE  TopicWords[label] \cap WordsOfTopic(t) # {}
    BY <2>1, FS_EmptySet
  <2> QED BY <2>1 DEF StronglyMatched, ExistsAnywhere
<1> QED BY <1>1, <1>2, <1>3, <1>4 DEF IsAccepted

LEMMA ChaptersAreChapters ==
    ASSUME NEW label \in Label
    PROVE  Chapters(label) \subseteq Chapter
BY TaxonomyAssumptions DEF Chapters, FirstOf, ChapterMatches, Named, Similar,
   SharingAWord, MatchesFromTopics, StronglyMatched

\* Labels come from the pairs there are.
LabelsArePairs == \A i \in DOMAIN labels : labels[i] \in LabelPair

LEMMA LabelsStep ==
    ASSUME LabelsArePairs, [Next]_vars
    PROVE  LabelsArePairs'
<1>1. CASE CheckLabels
  BY <1>1 DEF CheckLabels, Accept, Reject, LabelsArePairs
<1>2. CASE TaxonomyMissing
  BY <1>2 DEF TaxonomyMissing, Accept, Reject, LabelsArePairs
<1>3. CASE CheckContract
  BY <1>3 DEF CheckContract, Reject, LabelsArePairs
<1>4. CASE ResolveImages \/ AnalyzeBatch \/ BatchFails \/ Merge \/ Render
           \/ UNCHANGED vars
  BY <1>4 DEF ResolveImages, AnalyzeBatch, BatchFails, Merge, Render, vars,
              LabelsArePairs
<1> QED BY <1>1, <1>2, <1>3, <1>4 DEF Next, Finished

\* A topic listed under a chapter of that name is accepted there, by the chapters
\* that the name alone means.
LEMMA ListedIsKnown ==
    ASSUME NEW pair \in LabelPair, IsTopicOf(pair[2], Named(pair[1]))
    PROVE  Kind(pair) = "known"
<1>1. PICK t \in Topic : ChapterOf[t] \in Named(pair[1]) /\ pair[2] \in TopicLabels[t]
  BY DEF IsTopicOf
<1>2. pair[2] # Undetermined
  BY <1>1, TaxonomyAssumptions
<1>3. pair[1] # Undetermined
  BY <1>1, TaxonomyAssumptions DEF Named
<1>4. Chapters(pair[1]) = Named(pair[1])
  BY <1>1 DEF Chapters, ChapterMatches, FirstOf
<1>5. Chapters(pair[1]) # {} /\ IsAccepted(pair[2], Chapters(pair[1]))
  BY <1>1, <1>4 DEF IsAccepted
<1>6. KindOf(pair[1], pair[2]) = "known"
  BY <1>2, <1>3, <1>5 DEF KindOf
<1> QED BY <1>6, KindType

\* A topic that passes is like one of the taxonomy's, whatever its chapter.
LEMMA KnownIsSomewhere ==
    ASSUME NEW pair \in LabelPair, Kind(pair) = "known"
    PROVE  ExistsAnywhere(pair[2])
<1>1. KindOf(pair[1], pair[2]) = "known"
  BY KindType
<1>2. pair[1] \in Label /\ pair[2] \in Label
  BY <1>1, OutputAssumptions DEF KindOf
<1>3. IsAccepted(pair[2], Chapters(pair[1]))
  BY <1>1 DEF KindOf
<1> QED BY <1>2, <1>3, AnyWayIsAnywhere, ChaptersAreChapters

\* For any taxonomy and any labels: the ways in which a topic passes neither
\* refuse one under the chapter it is listed in nor take one unlike any there is.
THEOREM VerdictsSound == Spec => []VerdictsFollowTaxonomy
<1>1. Init => LabelsArePairs
  BY DEF Init, LabelsArePairs
<1>2. LabelsArePairs /\ [Next]_vars => LabelsArePairs'
  BY LabelsStep
<1>3. LabelsArePairs => VerdictsFollowTaxonomy
  BY ListedIsKnown, KnownIsSomewhere DEF LabelsArePairs, VerdictsFollowTaxonomy
<1> QED BY <1>1, <1>2, <1>3, PTL DEF Spec
-----------------------------------------------------------------------------
(* The types.  Only that the answers joined are an answer takes an argument: *)
(* FlattenSeq is a recursive function, of which it must be shown that there  *)
(* is one, and where its values are, by the least place where that fails.    *)

\* A set of places has a first: the segment below it lies in all the others.
LEMMA HasFirst ==
    ASSUME NEW n \in Nat, NEW T \in SUBSET (1..n), T # {}
    PROVE  \E k \in T : \A j \in T : k =< j
<1> DEFINE Below == {1..k : k \in T}
<1>1. IsWellFoundedOn(StrictSubsetOrdering(1..n), FiniteSubsetsOf(1..n))
  BY FS_StrictSubsetOrderingWellFounded
<1>2. Below \subseteq FiniteSubsetsOf(1..n)
  BY FS_Interval, FS_Subset DEF FiniteSubsetsOf
<1>3. Below # {}
  OBVIOUS
<1> HIDE DEF Below
<1>4. PICK B \in Below : \A C \in Below : <<C, B>> \notin StrictSubsetOrdering(1..n)
  BY <1>1, <1>2, <1>3, WFMin
<1>5. PICK k \in T : B = 1..k
  BY DEF Below
<1>6. ASSUME NEW j \in T, j < k
      PROVE  FALSE
  <2>1. 1..j \in Below
    BY DEF Below
  <2>2. 1..j \subseteq 1..k /\ 1..k \subseteq 1..n /\ k \in 1..k /\ k \notin 1..j
    BY <1>6
  <2>3. <<1..j, 1..k>> \in StrictSubsetOrdering(1..n)
    BY <2>2 DEF StrictSubsetOrdering
  <2> QED BY <1>4, <1>5, <2>1, <2>3
<1> QED BY <1>6

\* What FlattenSeq computes of the first n sequences.
Flattens(f, seqs, n) ==
    f = [i \in 1..n |-> IF i = 1 THEN seqs[i] ELSE f[i-1] \o seqs[i]]

LEMMA FlatteningExists ==
    ASSUME NEW seqs, NEW n \in Nat \ {0}
    PROVE  \E f : Flattens(f, seqs, n)
<1> DEFINE T == {k \in 1..n : ~\E f : Flattens(f, seqs, k)}
<1>1. SUFFICES ASSUME T # {} PROVE FALSE
  BY n \in 1..n
<1>2. PICK k \in T : \A j \in T : k =< j
  BY <1>1, HasFirst
<1>3. CASE k = 1
  <2> DEFINE g == [i \in 1..1 |-> seqs[i]]
  <2>1. g = [i \in 1..1 |-> IF i = 1 THEN seqs[i] ELSE g[i-1] \o seqs[i]]
    OBVIOUS
  <2> QED BY <1>2, <1>3, <2>1 DEF Flattens
<1>4. CASE k # 1
  <2>1. k - 1 \in 1..n /\ k - 1 \notin T /\ k \in 1..n
    BY <1>2, <1>4
  <2>2. PICK f : Flattens(f, seqs, k-1)
    BY <2>1
  <2> DEFINE g == [i \in 1..k |-> IF i = k THEN f[k-1] \o seqs[k] ELSE f[i]]
  <2>3. DOMAIN f = 1..(k-1) /\ \A i \in 1..(k-1) :
              f[i] = IF i = 1 THEN seqs[i] ELSE f[i-1] \o seqs[i]
    BY <2>2 DEF Flattens
  <2>4. ASSUME NEW i \in 1..k
        PROVE  g[i] = IF i = 1 THEN seqs[i] ELSE g[i-1] \o seqs[i]
    <3>1. CASE i = k
      <4>1. k \in 1..k /\ k - 1 \in 1..k /\ k - 1 # k
        BY <2>1
      <4>2. g[k] = f[k-1] \o seqs[k]
        BY <4>1
      <4>3. g[k-1] = f[k-1]
        BY <4>1
      <4> HIDE DEF g
      <4> QED BY <1>4, <3>1, <4>2, <4>3
    <3>2. CASE i # k
      <4>1. i \in 1..(k-1) /\ g[i] = f[i] /\ (i # 1 => g[i-1] = f[i-1])
        BY <2>1, <3>2
      <4> HIDE DEF g
      <4> QED BY <2>3, <4>1
    <3> QED BY <3>1, <3>2
  <2>5. g = [i \in 1..k |-> IF i = 1 THEN seqs[i] ELSE g[i-1] \o seqs[i]]
    BY <2>4
  <2> QED BY <1>2, <2>5 DEF Flattens
<1> QED BY <1>3, <1>4

\* Sequences over a set are joined to a sequence over it.
LEMMA FlattenType ==
    ASSUME NEW S, NEW seqs, NEW n \in Nat, seqs \in [1..n -> Seq(S)]
    PROVE  FlattenSeq(seqs) \in Seq(S)
<1>1. Len(seqs) = n /\ seqs \in Seq(Seq(S))
  OBVIOUS
<1>2. CASE n = 0
  BY <1>1, <1>2 DEF FlattenSeq
<1>3. CASE n # 0
  <2> DEFINE f == CHOOSE f : Flattens(f, seqs, n)
  <2>1. Flattens(f, seqs, n)
    BY <1>3, FlatteningExists
  <2>2. FlattenSeq(seqs) = f[n]
    BY <1>1, <1>3 DEF FlattenSeq, Flattens
  <2> HIDE DEF f
  <2>3. \A i \in 1..n : f[i] = IF i = 1 THEN seqs[i] ELSE f[i-1] \o seqs[i]
    BY <2>1 DEF Flattens
  <2> DEFINE T == {i \in 1..n : f[i] \notin Seq(S)}
  <2>4. SUFFICES ASSUME T # {} PROVE FALSE
    BY <1>3, <2>2
  <2>5. PICK k \in T : \A j \in T : k =< j
    BY <2>4, HasFirst
  <2>6. CASE k = 1
    BY <2>3, <2>5, <2>6
  <2>7. CASE k # 1
    <3>1. k - 1 \in 1..n /\ k - 1 \notin T
      BY <2>5, <2>7
    <3>2. f[k-1] \in Seq(S) /\ seqs[k] \in Seq(S)
      BY <3>1, <2>5
    <3>3. f[k-1] \o seqs[k] \in Seq(S)
      BY <3>2
    <3> QED BY <2>3, <2>5, <2>7, <3>3
  <2> QED BY <2>6, <2>7
<1> QED BY <1>2, <1>3

\* Merge takes the format of the first of the answers there are, and until a
\* judged observation is accepted no position of one is marked.
Handed ==
    /\ stage = "merging" => outputs # << >>
    /\ stage \in {"resolving", "analysing", "merging", "checking", "labelling"}
          => marked = {}

LEMMA JoinedType ==
    ASSUME outputs \in Seq(Answer)
    PROVE  Joined \in Seq(Says)
<1>1. \A b \in 1..Len(outputs) : outputs[b].says \in Seq(Says)
  BY OutputAssumptions
<1>2. [b \in DOMAIN outputs |-> outputs[b].says] \in [1..Len(outputs) -> Seq(Says)]
  BY <1>1
<1> QED BY <1>2, FlattenType DEF Joined

LEMMA TypeStep ==
    ASSUME TypeOK, Handed, [Next]_vars
    PROVE  TypeOK' /\ Handed'
<1> USE DEF TypeOK, Handed, config
<1>1. CASE ResolveImages
  <2>1. ASSUME NEW n \in 1..MaxImages,
               images' \in {f \in [1..n -> Number \cup {Unnumbered}] : SendingOrder(f)}
        PROVE  images' \in Seq(Number \cup {Unnumbered})
    <3>1. n \in Nat /\ images' \in [1..n -> Number \cup {Unnumbered}]
      BY <2>1, OutputAssumptions
    <3> QED BY <3>1
  <2>2. images' \in Seq(Number \cup {Unnumbered}) /\ stage' \in {"analysing", "raised"}
    BY <1>1, <2>1 DEF ResolveImages
  <2> QED BY <1>1, <2>2 DEF ResolveImages, Stages
<1>2. CASE AnalyzeBatch
  <2>1. PICK answer \in Answer : outputs' = Append(outputs, answer)
    BY <1>2 DEF AnalyzeBatch
  <2>2. outputs' \in Seq(Answer) /\ outputs' # << >>
    BY <2>1
  <2> QED BY <1>2, <2>2 DEF AnalyzeBatch, Stages
<1>3. CASE BatchFails
  BY <1>3 DEF BatchFails, Stages
<1>4. CASE Merge
  <2>1. Joined \in Seq(Says)
    BY JoinedType
  <2>2. outputs[1].format \in Formats
    <3>1. outputs[1] \in Answer
      BY <1>4 DEF Merge
    <3> QED BY <3>1, OutputAssumptions
  <2>3. outputs' \in Seq(Answer) /\ marked = {} /\ marked' = {}
    BY <1>4 DEF Merge
  <2>4. CASE observation' = [format |-> outputs[1].format, says |-> Joined]
    <3>1. observation' \in [format : Formats, says : Seq(Says)]
      BY <2>1, <2>2, <2>4
    <3> QED BY <1>4, <2>3, <3>1 DEF Merge, Stages
  <2>5. CASE stage' = "raised" /\ UNCHANGED observation
    BY <1>4, <2>3, <2>5 DEF Merge, Stages
  <2> QED BY <1>4, <2>4, <2>5 DEF Merge
<1>5. Nothing \in [format : Formats, says : Seq(Says)] /\ DOMAIN Nothing.says = {}
  BY DEF Nothing, Formats
<1>6. CASE CheckContract
  BY <1>5, <1>6 DEF CheckContract, Reject, Stages
<1>7. CASE TaxonomyMissing
  <2>1. << >> \in Seq(LabelPair)
    OBVIOUS
  <2>2. CASE Accept({}) /\ labels' = << >>
    BY <1>7, <2>1, <2>2 DEF TaxonomyMissing, Accept, Stages
  <2>3. CASE Reject
    BY <1>5, <1>7, <2>3 DEF TaxonomyMissing, Reject, Stages
  <2> QED BY <1>7, <2>2, <2>3 DEF TaxonomyMissing
<1>8. CASE CheckLabels
  <2>1. PICK pairs \in [DOMAIN observation.says -> LabelPair] :
           \/ Failing(pairs) = {} /\ Accept({}) /\ labels' = pairs
           \/ \E i \in DOMAIN pairs :
                 /\ IsFirstFailure(i, pairs)
                 /\ \/ /\ Kind(pairs[i]) # "partial_curriculum_label"
                       /\ Accept(Softened(i)) /\ labels' = pairs
                    \/ Kind(pairs[i]) = "partial_curriculum_label" /\ Reject
    BY <1>8 DEF CheckLabels
  <2>2. pairs \in Seq(LabelPair)
    OBVIOUS
  <2>3. cached' = TRUE /\ marked = {}
    BY <1>8 DEF CheckLabels
  <2>4. CASE Accept({}) /\ labels' = pairs
    BY <2>2, <2>3, <2>4 DEF Accept, Stages
  <2>5. ASSUME NEW i, Accept(Softened(i)), labels' = pairs
        PROVE  TypeOK' /\ Handed'
    BY <2>2, <2>3, <2>5 DEF Accept, Softened, Stages
  <2>6. CASE Reject
    BY <1>5, <2>3, <2>6 DEF Reject, Stages
  <2> QED BY <2>1, <2>4, <2>5, <2>6
<1>9. CASE Render
  BY <1>9 DEF Render, Stages
<1>10. CASE UNCHANGED vars
  BY <1>10 DEF vars
<1> QED BY <1>1, <1>2, <1>3, <1>4, <1>6, <1>7, <1>8, <1>9, <1>10 DEF Next, Finished

LEMMA InitTypes == Init => TypeOK /\ Handed
<1>1. Nothing \in [format : Formats, says : Seq(Says)]
  BY DEF Nothing, Formats
<1>2. \A S : << >> \in Seq(S)
  OBVIOUS
<1>3. Init => TypeOK
  BY <1>1, <1>2 DEF Init, TypeOK, Stages
<1> QED BY <1>3 DEF Init, Handed

\* An observation is always an answer, whatever batches it was joined from,
\* and a mark is always on one of its questions.
THEOREM OutputTypeOK == Spec => []TypeOK
<1>1. Init => TypeOK /\ Handed
  BY InitTypes
<1>2. TypeOK /\ Handed /\ [Next]_vars => TypeOK' /\ Handed'
  BY TypeStep
<1> QED BY <1>1, <1>2, PTL DEF Spec
-----------------------------------------------------------------------------
(* The images' way implements AnalysisLifecycle, as DiagnosisCrew does.      *)

\* Answers of batches are kept until they are merged, and judged by a crew's
\* guardrail only.
Gathered ==
    /\ stage = "resolving" => ~retried
    /\ stage \in {"resolving", "checking", "labelling", "rendering"} => outputs = << >>
    /\ stage \in {"checking", "labelling"} => react

\* What the steps do to the stage, the answers and the one repetition.
LEMMA StageSteps ==
    ASSUME TypeOK, Handed, Gathered, [Next]_vars
    PROVE  /\ react' = react
           /\ \/ UNCHANGED <<stage, outputs, retried>>
              \/ /\ stage = "resolving" /\ stage' \in {"analysing", "raised"}
                 /\ UNCHANGED <<outputs, retried>>
              \/ /\ stage = "analysing" /\ stage' \in {"analysing", "merging"}
                 /\ outputs' # << >> /\ UNCHANGED retried
              \/ /\ stage = "analysing" /\ stage' = "raised"
                 /\ UNCHANGED <<outputs, retried>>
              \/ /\ stage = "merging" /\ outputs # << >> /\ outputs' = << >>
                 /\ stage' \in {IF react THEN "checking" ELSE "rendering", "raised"}
                 /\ UNCHANGED retried
              \/ /\ stage \in {"checking", "labelling"} /\ react
                 /\ stage' \in {"labelling", "rendering", "raised"}
                 /\ UNCHANGED <<outputs, retried>>
              \/ /\ stage \in {"checking", "labelling"} /\ react
                 /\ IF retried THEN stage' = "raised" ELSE stage' = "analysing"
                 /\ retried' = TRUE /\ UNCHANGED outputs
              \/ /\ stage = "rendering" /\ stage' \in {"returned", "raised", "refused_table"}
                 /\ UNCHANGED <<outputs, retried>>
<1> USE DEF config, Gathered
<1>1. CASE ResolveImages
  BY <1>1 DEF ResolveImages
<1>2. CASE AnalyzeBatch
  <2>1. PICK answer \in Answer : outputs' = Append(outputs, answer)
    BY <1>2 DEF AnalyzeBatch
  <2>2. outputs' # << >>
    BY <2>1 DEF TypeOK
  <2> QED BY <1>2, <2>2 DEF AnalyzeBatch
<1>3. CASE BatchFails
  BY <1>3 DEF BatchFails
<1>4. CASE Merge
  BY <1>4 DEF Merge, Handed
<1>5. CASE CheckContract
  BY <1>5 DEF CheckContract, Reject
<1>6. CASE TaxonomyMissing
  BY <1>6 DEF TaxonomyMissing, Accept, Reject
<1>7. CASE CheckLabels
  <2>1. \/ /\ stage' = "rendering" /\ UNCHANGED <<config, outputs, retried>>
        \/ Reject
    BY <1>7 DEF CheckLabels, Accept
  <2> QED BY <1>7, <2>1 DEF CheckLabels, Reject
<1>8. CASE Render
  BY <1>8 DEF Render
<1>9. CASE UNCHANGED vars
  BY <1>9 DEF vars
<1> QED BY <1>1, <1>2, <1>3, <1>4, <1>5, <1>6, <1>7, <1>8, <1>9 DEF Next, Finished

\* Every step is a step of the observation's life, or none: images are resolved
\* before it, batches after the first are within its one execution, and a merge
\* that fails is an execution that fails.
LEMMA LifecycleStep ==
    ASSUME TypeOK, Handed, Gathered, [Next]_vars
    PROVE  [Lifecycle!Next]_(Lifecycle!vars)
<1> USE DEF Lifecycle!vars, LifeStage
<1>1. react' = react /\ react \in BOOLEAN /\ retried \in BOOLEAN
  BY StageSteps DEF TypeOK
<1>2. CASE UNCHANGED <<stage, outputs, retried>>
  BY <1>1, <1>2
<1>3. CASE /\ stage = "resolving" /\ stage' \in {"analysing", "raised"}
           /\ UNCHANGED <<outputs, retried>>
  <2>1. LifeStage = "none" /\ LifeStage' \in {"none", "raised"}
    BY <1>3 DEF Gathered
  <2> QED BY <1>1, <1>3, <2>1 DEF Lifecycle!Next, Lifecycle!Raise
<1>4. CASE /\ stage = "analysing" /\ stage' \in {"analysing", "merging"}
           /\ outputs' # << >> /\ UNCHANGED retried
  <2>1. LifeStage' = "running"
    BY <1>4
  <2>2. LifeStage = IF outputs # << >> THEN "running" ELSE IF retried THEN "rejected" ELSE "none"
    BY <1>4
  <2> QED BY <1>1, <1>4, <2>1, <2>2 DEF Lifecycle!Next, Lifecycle!Run
<1>5. CASE /\ stage = "analysing" /\ stage' = "raised"
           /\ UNCHANGED <<outputs, retried>>
  <2>1. LifeStage \in {"running", "rejected", "none"} /\ LifeStage' = "raised"
    BY <1>5
  <2> QED BY <1>1, <1>5, <2>1 DEF Lifecycle!Next, Lifecycle!Raise
<1>6. CASE /\ stage = "merging" /\ outputs # << >>
           /\ stage' \in {IF react THEN "checking" ELSE "rendering", "raised"}
           /\ UNCHANGED retried
  <2>1. LifeStage = "running" /\ LifeStage' \in {"observed", "raised"}
    BY <1>1, <1>6
  <2> QED BY <1>1, <1>6, <2>1 DEF Lifecycle!Next, Lifecycle!Observe, Lifecycle!Raise
<1>7. CASE /\ stage \in {"checking", "labelling"} /\ react
           /\ stage' \in {"labelling", "rendering", "raised"}
           /\ UNCHANGED <<outputs, retried>>
  <2>1. LifeStage = "observed" /\ LifeStage' \in {"observed", "accepted", "raised"}
    BY <1>1, <1>7
  <2> QED BY <1>1, <1>7, <2>1 DEF Lifecycle!Next, Lifecycle!Accept, Lifecycle!Raise
<1>8. CASE /\ stage \in {"checking", "labelling"} /\ react
           /\ IF retried THEN stage' = "raised" ELSE stage' = "analysing"
           /\ retried' = TRUE /\ UNCHANGED outputs
  <2>1. LifeStage = "observed"
    BY <1>8
  <2>2. CASE retried
    BY <1>1, <1>8, <2>1, <2>2 DEF Lifecycle!Next, Lifecycle!Raise
  <2>3. CASE ~retried
    <3>1. LifeStage' = "rejected"
      BY <1>8, <2>3 DEF Gathered
    <3> QED BY <1>1, <1>8, <2>1, <2>3, <3>1 DEF Lifecycle!Next, Lifecycle!Reject
  <2> QED BY <1>1, <2>2, <2>3
<1>9. CASE /\ stage = "rendering" /\ stage' \in {"returned", "raised", "refused_table"}
           /\ UNCHANGED <<outputs, retried>>
  <2>1. LifeStage = IF react THEN "accepted" ELSE "observed"
    BY <1>1, <1>9
  <2>2. LifeStage' \in {"returned", "raised"}
    BY <1>9
  <2> QED BY <1>1, <1>9, <2>1, <2>2 DEF Lifecycle!Next, Lifecycle!Return, Lifecycle!Raise
<1> QED BY <1>2, <1>3, <1>4, <1>5, <1>6, <1>7, <1>8, <1>9, StageSteps

\* The refinement: for any images, batches, answers, taxonomy and labels.
THEOREM OutputKeepsLifecycle == Spec => LifecycleSpec
<1>1. Init => Gathered /\ Lifecycle!Init
  BY DEF Init, Gathered, LifeStage, Lifecycle!Init
<1>2. TypeOK /\ Handed /\ Gathered /\ [Next]_vars => Gathered'
  BY StageSteps DEF Gathered
<1>3. TypeOK /\ Handed /\ Gathered /\ [Next]_vars => [Lifecycle!Next]_(Lifecycle!vars)
  BY LifecycleStep
<1>4. Init => TypeOK /\ Handed
  BY InitTypes
<1>5. TypeOK /\ Handed /\ [Next]_vars => TypeOK' /\ Handed'
  BY TypeStep
<1> QED BY <1>1, <1>2, <1>3, <1>4, <1>5, PTL DEF Spec, LifecycleSpec, Lifecycle!Spec
=============================================================================
