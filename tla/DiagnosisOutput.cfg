SPECIFICATION Spec
CONSTANTS
    Number <- MCNumber
    Unnumbered = Unnumbered
    Unreadable = Unreadable
    Illegible = Illegible
    Several = Several
    Wordy <- MCWordy
    Answer <- MCAnswer
    LabelPair <- MCLabelPair
    MaxImages = 3
    MaxImagesPerCall = 2
    Label <- MCLabel
    Undetermined = Undetermined
    Word <- MCWord
    TopicWords <- MCWordsOf
    ChapterWords <- MCChapterWords
    OneInOther <- MCOneInOther
    Chapter <- MCChapter
    ChapterLabels <- MCChapterLabels
    Topic <- MCTopic
    TopicLabels <- MCTopicLabels
    ChapterOf <- MCChapterOf
INVARIANTS
    TypeOK
    ReturnedAnswersImages
    NoQuestionReturnedTwice
    TableRefusedOnlyIfMixed
    UnknownLabelsFollowAMark
    VerdictsFollowTaxonomy
PROPERTIES
    LifecycleSpec
