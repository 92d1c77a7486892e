-------------------------- MODULE CurriculumLabels --------------------------
(***************************************************************************)
(* What the curriculum validator (curriculum/validator.py) makes of the    *)
(* chapter and topic a diagnosis gives to a question.  A label stands for  *)
(* what normalize_label leaves of it; the words it is compared by and      *)
(* which texts contain each other are given.  The subject a chapter is in  *)
(* makes no difference.                                                    *)
(***************************************************************************)
EXTENDS Naturals, FiniteSets

CONSTANTS
    Label, Undetermined,   \* labels, and "Unable to determine from image"
    Word,
    TopicWords,     \* the roots of a label's words, but for stop words
    ChapterWords,   \* the same with the stop words of chapters
    OneInOther,     \* pairs of labels one of whose texts is in the other's
    Chapter, ChapterLabels,   \* the name and aliases of each chapter
    Topic, TopicLabels, ChapterOf

ASSUME TaxonomyAssumptions ==
    /\ Undetermined \notin Label
    /\ TopicWords \in [Label -> SUBSET Word]
    /\ ChapterWords \in [Label -> SUBSET Word]
    /\ \A l \in Label : ChapterWords[l] \subseteq TopicWords[l]
    /\ OneInOther \subseteq Label \X Label
    /\ ChapterLabels \in [Chapter -> SUBSET Label]
    /\ TopicLabels \in [Topic -> SUBSET Label]
    /\ ChapterOf \in [Topic -> Chapter]

LabelKinds == {"known", "undetermined", "partial_curriculum_label",
               "unknown_chapter", "unknown_topic"}

\* The words of a topic or chapter, by its name and aliases.
WordsOfTopic(t) == UNION {TopicWords[l] : l \in TopicLabels[t]}
WordsOfChapter(c) == UNION {ChapterWords[l] : l \in ChapterLabels[c]}
WordsOfTopicsIn(c) == UNION {WordsOfTopic(t) : t \in {t \in Topic : ChapterOf[t] = c}}

-----------------------------------------------------------------------------
(* Chapters that a chapter label may mean, by falling preference.          *)

Named(label) == {c \in Chapter : label \in ChapterLabels[c]}
Similar(label) == {c \in Chapter : \E l \in ChapterLabels[c] : <<label, l>> \in OneInOther}
SharingAWord(label) == {c \in Chapter : ChapterWords[label] \cap WordsOfChapter(c) # {}}

FirstOf(preferred, others) == IF preferred # {} THEN preferred ELSE others

ChapterMatches(label) ==
    FirstOf(Named(label), FirstOf(Similar(label), SharingAWord(label)))

\* _topic_tokens_strongly_match_anywhere.
StronglyMatched(label) ==
    {t \in Topic : Cardinality(TopicWords[label] \cap WordsOfTopic(t)) >= 2}

\* A label that is rather a topic's means the chapter of that topic.
MatchesFromTopics(label) == {ChapterOf[t] : t \in StronglyMatched(label)}

Chapters(label) == FirstOf(ChapterMatches(label), MatchesFromTopics(label))

-----------------------------------------------------------------------------
(* Ways in which a topic label is accepted in chapters that were matched.  *)

IsTopicOf(label, chapters) ==
    \E t \in Topic : ChapterOf[t] \in chapters /\ label \in TopicLabels[t]

IsCoveredBy(label, chapters) ==
    /\ Cardinality(TopicWords[label]) >= 2
    /\ \E c \in chapters : TopicWords[label] \subseteq WordsOfTopicsIn(c)

Intersects(label, chapters) ==
    \E c \in chapters : TopicWords[label] \cap WordsOfTopicsIn(c) # {}

\* _topic_exists_anywhere.
ExistsAnywhere(label) ==
    \E t \in Topic :
        \/ label \in TopicLabels[t]
        \/ \E l \in TopicLabels[t] : <<label, l>> \in OneInOther
        \/ TopicWords[label] \cap WordsOfTopic(t) # {}

\* A plausible bug: the words of a chapter's own name count as a topic's.
IsAcceptedAsChapter(label, chapters) ==
    \/ ExistsAnywhere(label)
    \/ \E c \in chapters : TopicWords[label] \cap WordsOfChapter(c) # {}

IsAccepted(label, chapters) ==
    \/ IsTopicOf(label, chapters)
    \/ IsCoveredBy(label, chapters)
    \/ Intersects(label, chapters)
    \/ ExistsAnywhere(label)
    \/ StronglyMatched(label) # {}

\* One question in validate_diagnosis_against_taxonomy.
KindOf(chapter, topic) ==
    IF chapter = Undetermined /\ topic = Undetermined THEN "undetermined"
    ELSE IF Undetermined \in {chapter, topic} THEN "partial_curriculum_label"
    ELSE IF Chapters(chapter) = {} THEN "unknown_chapter"
    ELSE IF IsAccepted(topic, Chapters(chapter)) THEN "known"
    ELSE "unknown_topic"
=============================================================================
