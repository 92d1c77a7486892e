-------------------------- MODULE MCDiagnosisOutput --------------------------
(* A small instance of DiagnosisOutput: up to three images, numbered 1 to 3  *)
(* or not at all, in batches of two, answered with one or two questions, or  *)
(* with more than there are images.                                          *)
EXTENDS DiagnosisOutput

CONSTANTS Illegible, Several

MCNumber == 1..3
MCWordy == {Illegible, Several}

\* Any answer of one or two questions whose text is one of two; one with both,
\* one with too many questions, and texts around a table or without one.
MCAnswer ==
    [format : {"json", "markdown"}, says : UNION {[1..n -> Says \ {Several}] : n \in 1..2}]
    \cup [format : {"json", "markdown"}, says : {<<1, 2, 1>>, <<Illegible, Several>>}]
    \cup [format : {"other"}, says : {<< >>, <<1>>, <<2, 1>>}]

\* A taxonomy of two chapters and three topics, and labels near them.
MCWordsOf ==
    [l \in {"ray optics", "optics", "wave motion", "organic chemistry",
            "thin lens", "interference of light", "resonance", "light resonance",
            "light pipes"} |->
        CASE l = "ray optics" -> {"ray", "optic"}
          [] l = "optics" -> {"optic"}
          [] l = "wave motion" -> {"wave", "motion"}
          [] l = "organic chemistry" -> {"organic", "chemistry"}
          [] l = "thin lens" -> {"thin", "len"}
          [] l = "interference of light" -> {"interference", "light"}
          [] l = "resonance" -> {"resonance"}
          [] l = "light resonance" -> {"light", "resonance"}
          [] l = "light pipes" -> {"light", "pipe"}]
MCLabel == DOMAIN MCWordsOf
MCWord == UNION {MCWordsOf[l] : l \in MCLabel}
MCChapterWords == [l \in MCLabel |-> MCWordsOf[l] \ {"organic", "chemistry"}]
MCOneInOther ==
    {<<l, l>> : l \in MCLabel}
    \cup {<<"optics", "ray optics">>, <<"ray optics", "optics">>,
          <<"resonance", "light resonance">>, <<"light resonance", "resonance">>}
MCChapterLabels == [Optics |-> {"ray optics"}, Waves |-> {"wave motion"}]
MCChapter == DOMAIN MCChapterLabels
MCTopicLabels ==
    [Lenses |-> {"thin lens"}, Light |-> {"interference of light"},
     Resonance |-> {"resonance"}]
MCTopic == DOMAIN MCTopicLabels
MCChapterOf == [t \in MCTopic |-> IF t = "Lenses" THEN "Optics" ELSE "Waves"]

\* A topic of the chapter, of another, covered by and sharing a word with
\* the chapter's, one under a topic used as a chapter, one that only repeats
\* the chapter's name, and every other failure.
MCLabelPair ==
    {<<"ray optics", "thin lens">>, <<"optics", "resonance">>,
     <<"wave motion", "light pipes">>, <<"interference of light", "light resonance">>,
     <<"wave motion", "wave motion">>, <<"organic chemistry", "thin lens">>,
     <<Undetermined, "thin lens">>, <<Undetermined, Undetermined>>}
=============================================================================
