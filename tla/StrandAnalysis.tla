--------------------------- MODULE StrandAnalysis ---------------------------
(***************************************************************************)
(* How one profile request turns evidence with embeddings into insights    *)
(* (ConceptualStrandAnalyzer.analyze, ActionableInsightService.generate):  *)
(* reciprocal nearest neighbours within a chapter family become candidate  *)
(* pairs, a classifier LLM judges the pairs and groups the evidence into   *)
(* strands, and its answer, which may name unknown evidence, mix families  *)
(* and contradict its own judgements, is repaired, pruned and validated.   *)
(* The strands seen in several reports are ranked, and the first few are   *)
(* shown.                                                                  *)
(*                                                                         *)
(* The classifier's strands and exclusions are chosen when the code reads  *)
(* them: nothing before depends on them.  Similarities are small numbers,  *)
(* evidence ids are numbers in their lexical order, and a relationship is  *)
(* "same_underlying_gap" or another.                                       *)
(***************************************************************************)
EXTENDS Naturals, Sequences, FiniteSets

CONSTANTS
    Evidence,        \* ids of the evidence items
    Invented,        \* ids an answer may use that are no item's
    Family,          \* normalised chapter families
    FamilyOf,        \* of each item
    ReportId,
    ReportOf,        \* the diagnosis report of each item
    Similarity,      \* bound: the values a cosine similarity takes
    Floor,           \* similarity_floor
    MaxNeighbors,
    SourceStrand,    \* bound: strands an answer may contain
    MaxStrands,      \* bound: strands in an answer
    MaxExclusions,   \* bound: exclusions in an answer
    MaxInsights,     \* MAX_PROFILE_INSIGHTS
    Chapter,         \* chapters of the curriculum, in document order
    Weight,          \* combined_weightage_percent of each, as a number of
                     \* the same order
    MistakesIn,      \* items whose label matches the chapter or an alias
    MaxPriorities    \* MAX_CHAPTER_PRIORITIES

Confidences == {"high", "medium", "low"}
Relationships == {"same_underlying_gap", "other"}

ASSUME AnalysisAssumptions ==
    /\ Evidence \subseteq Nat /\ IsFiniteSet(Evidence)
    /\ Invented \cap Evidence = {}
    /\ FamilyOf \in [Evidence -> Family]
    /\ ReportOf \in [Evidence -> ReportId]
    /\ Similarity \subseteq Nat
    /\ {MaxNeighbors, MaxInsights, MaxPriorities} \subseteq Nat
    /\ SourceStrand \subseteq [ids : Seq(Nat), family : Family, confidence : Confidences]
    /\ Chapter \subseteq Nat /\ IsFiniteSet(Chapter)
    /\ Weight \in [Chapter -> Nat]
    /\ MistakesIn \in [Chapter -> SUBSET Evidence]

VARIABLES
    step,
    pairs,        \* candidate pairs, each a set of two items
    decided,      \* the relationship of each pair the answer decides
    position,     \* strands of the answer read so far
    strands,      \* the strands kept
    excluded,     \* the exclusions kept
    insights,     \* the strands shown, best first
    feedback,     \* items given question_level_feedback
    priorities    \* important_chapters_to_fix_first

vars == <<step, pairs, decided, position, strands, excluded, insights,
          feedback, priorities>>

Steps == {"pairing", "classifying", "checking", "repairing", "excluding",
          "discarding", "validating", "reporting", "done",
          "failed", "rejected_relationships", "rejected_output"}

Init ==
    /\ step = "pairing"
    /\ pairs = {}
    /\ decided = << >>
    /\ position = 0
    /\ strands = {}
    /\ excluded = {}
    /\ insights = << >>
    /\ feedback = {}
    /\ priorities = << >>

-----------------------------------------------------------------------------
(* Candidate pairs.                                                        *)

Related(a, b) == a # b /\ FamilyOf[a] = FamilyOf[b]
AllPairs == {pair \in SUBSET Evidence : \E a, b \in pair : pair = {a, b} /\ Related(a, b)}

\* Neighbours sort by falling similarity, then by id.
Nearer(similar, a, b, c) ==
    \/ similar[{a, b}] > similar[{a, c}]
    \/ similar[{a, b}] = similar[{a, c}] /\ b < c
Rank(similar, a, b) ==
    1 + Cardinality({c \in Evidence \ {a, b} : Related(a, c) /\ Nearer(similar, a, c, b)})

IsCandidate(similar, pair) ==
    /\ similar[pair] >= Floor
    /\ \A a \in pair : \A b \in pair \ {a} : Rank(similar, a, b) =< MaxNeighbors

\* build_strand_candidate_pairs.
PairNeighbors ==
    /\ step = "pairing"
    /\ \E similar \in [AllPairs -> Similarity] :
          pairs' = {pair \in AllPairs : IsCandidate(similar, pair)}
    /\ step' = "classifying"
    /\ UNCHANGED <<decided, position, strands, excluded, insights, feedback,
                   priorities>>

-----------------------------------------------------------------------------
(* Support.                                                                *)

SameGap(a, b) ==
    /\ {a, b} \in pairs /\ {a, b} \in DOMAIN decided
    /\ decided[{a, b}] = "same_underlying_gap"

\* No candidate pair within the strand is judged otherwise.
Consistent(ids) ==
    \A pair \in pairs \cap DOMAIN decided :
        pair \subseteq ids => decided[pair] = "same_underlying_gap"

\* What a search over same-gap pairs finds, from any item of the strand.
Closed(found, ids) ==
    \A a \in found : \A b \in ids : SameGap(a, b) => b \in found
Reachable(a, ids) ==
    {b \in ids : \A found \in SUBSET ids : a \in found /\ Closed(found, ids) => b \in found}

\* A plausible bug: contradictory pairs within the strand are not looked for.
ConnectedIsEnough(ids) == \A a \in ids : Reachable(a, ids) = ids

\* _validate_strand_relationship_support.
Supported(ids) == Consistent(ids) /\ \A a \in ids : Reachable(a, ids) = ids

-----------------------------------------------------------------------------
(* The classifier's answer and its repair.                                 *)

\* The provider fails, or what it returns does not parse: no more than one
\* attempt is made and the error is not caught.
ClassifierFails ==
    /\ step = "classifying"
    /\ step' = "failed"
    /\ UNCHANGED <<pairs, decided, position, strands, excluded, insights,
                   feedback, priorities>>

\* It should decide every candidate pair, but may leave one out or add one
\* (or decide one twice, which is refused in the same way).
Classify ==
    /\ step = "classifying"
    /\ \E judged \in {pairs} \cup {pairs \ {p} : p \in pairs}
                     \cup {pairs \cup {p} : p \in AllPairs \ pairs} :
          decided' \in [judged -> Relationships]
    /\ step' = "checking"
    /\ UNCHANGED <<pairs, position, strands, excluded, insights, feedback,
                   priorities>>

\* validate_candidate_relationships.
CheckRelationships ==
    /\ step = "checking"
    /\ step' = IF DOMAIN decided = pairs THEN "repairing"
               ELSE "rejected_relationships"
    /\ UNCHANGED <<pairs, decided, position, strands, excluded, insights,
                   feedback, priorities>>

Assigned == UNION {s.ids : s \in strands}
Named(ids) == {ids[i] : i \in DOMAIN ids}
Of(family, known) == {e \in known : FamilyOf[e] = family}
First(ids, set) == CHOOSE i \in DOMAIN ids :
                      ids[i] \in set /\ \A j \in 1..(i - 1) : ids[j] \notin set

\* The declared family if one of the known items is of it, else the one most
\* of them are of, the first named in a tie.
IsChosen(family, source, known) ==
    \/ family = source.family /\ Of(family, known) # {}
    \/ /\ Of(source.family, known) = {} /\ Of(family, known) # {}
       /\ \A g \in Family \ {family} : Of(g, known) # {} =>
             \/ Cardinality(Of(g, known)) < Cardinality(Of(family, known))
             \/ /\ Cardinality(Of(g, known)) = Cardinality(Of(family, known))
                /\ First(source.ids, Of(family, known)) < First(source.ids, Of(g, known))

\* A plausible bug: an id that an earlier strand has is kept.
KnownEvenIfAssigned(source) == Named(source.ids) \cap Evidence

Known(source) == (Named(source.ids) \cap Evidence) \ Assigned

\* History: what a strand that was supported as answered has to give up, if
\* something of it remains.
Lost(source, ids) ==
    LET named == Named(source.ids) \cap Evidence
    IN  IF Supported(named) THEN named \ ids ELSE {}

\* The strand that remains of one in the answer.  Its chapters, topics and
\* manifestations are made anew from its items.
Keep(source, family) ==
    LET ids == Of(family, Known(source))
    IN  strands' = strands \cup
            {[at |-> position, family |-> family, ids |-> ids,
              confidence |-> source.confidence, lost |-> Lost(source, ids)]}

\* A plausible bug: a strand of which nothing remains is kept.
RepairKeepsEmpty ==
    /\ step = "repairing" /\ position < MaxStrands
    /\ \E source \in SourceStrand : Keep(source, source.family)
    /\ position' = position + 1
    /\ UNCHANGED <<step, pairs, decided, excluded, insights, feedback, priorities>>

\* The loop of repair_conceptual_strand_output, one strand of the answer.
RepairStrand ==
    /\ step = "repairing" /\ position < MaxStrands
    /\ \E source \in SourceStrand :
          \/ Known(source) = {} /\ UNCHANGED strands
          \/ \E family \in Family :
                IsChosen(family, source, Known(source)) /\ Keep(source, family)
    /\ position' = position + 1
    /\ UNCHANGED <<step, pairs, decided, excluded, insights, feedback, priorities>>

\* The answer has no more strands.
EndStrands ==
    /\ step = "repairing"
    /\ step' = "excluding"
    /\ UNCHANGED <<pairs, decided, position, strands, excluded, insights,
                   feedback, priorities>>

\* An exclusion is kept unless its id is unknown, assigned or excluded before.
Exclude(e) == excluded' = excluded \cup (({e} \cap Evidence) \ Assigned)

RepairExclusions ==
    /\ step = "excluding"
    /\ \/ /\ Cardinality(excluded) < MaxExclusions
          /\ \E e \in Evidence \cup Invented : Exclude(e)
          /\ UNCHANGED step
       \/ step' = "discarding" /\ UNCHANGED excluded
    /\ UNCHANGED <<pairs, decided, position, strands, insights, feedback,
                   priorities>>

-----------------------------------------------------------------------------
(* What is left of the answer.                                             *)

IsKept(s) == Cardinality(s.ids) < 2 \/ Supported(s.ids)

\* discard_unsupported_strands.
Discard ==
    /\ step = "discarding"
    /\ strands' = {s \in strands : IsKept(s)}
    /\ step' = "validating"
    /\ UNCHANGED <<pairs, decided, position, excluded, insights, feedback,
                   priorities>>

OneFamily(s) == \A e \in s.ids : e \in Evidence /\ FamilyOf[e] = s.family

\* validate_conceptual_strand_output.
OutputIsValid ==
    /\ DOMAIN decided = pairs
    /\ \A s \in strands : OneFamily(s)
    /\ \A s, t \in strands : s # t => s.ids \cap t.ids = {}
    /\ \A s \in strands : Cardinality(s.ids) > 1 => Supported(s.ids)
    /\ excluded \subseteq Evidence
    /\ excluded \cap Assigned = {}

Validate ==
    /\ step = "validating"
    /\ step' = IF OutputIsValid THEN "reporting" ELSE "rejected_output"
    /\ UNCHANGED <<pairs, decided, position, strands, excluded, insights,
                   feedback, priorities>>

-----------------------------------------------------------------------------
(* The report.                                                             *)

Reports(s) == {ReportOf[e] : e \in s.ids}
Recurs(s) == Cardinality(Reports(s)) >= 2 /\ s.confidence # "low"

\* The part of the sort key that says something: reports, questions, then
\* high confidence.
Outranks(s, t) ==
    \/ Cardinality(Reports(s)) > Cardinality(Reports(t))
    \/ /\ Cardinality(Reports(s)) = Cardinality(Reports(t))
       /\ \/ Cardinality(s.ids) > Cardinality(t.ids)
          \/ /\ Cardinality(s.ids) = Cardinality(t.ids)
             /\ s.confidence = "high" /\ t.confidence # "high"
ShownBefore(s, t) == Outranks(s, t) \/ (~Outranks(t, s) /\ s.at < t.at)
ShownFirst == {r \in strands \X strands : ShownBefore(r[1], r[2])}

\* A set sorted by a strict total order, which is given as a set of pairs.
InOrder(S, before) ==
    [i \in 1..Cardinality(S) |->
        CHOOSE x \in S : Cardinality({y \in S : <<y, x>> \in before}) = i - 1]

\* A plausible bug: the first recurring strands are taken, then ranked.
EarliestRecurring ==
    LET early == {s \in strands : Recurs(s) /\
                     Cardinality({t \in strands : Recurs(t) /\ t.at < s.at}) < MaxInsights}
    IN  InOrder(early, ShownFirst)

Upto(s, n) == SubSeq(s, 1, IF Len(s) < n THEN Len(s) ELSE n)

\* recurring_conceptual_strands, ranked, as many as are shown.
Ranked == Upto(InOrder({s \in strands : Recurs(s)}, ShownFirst), MaxInsights)

\* A plausible bug: items of recurring strands that are not shown count as used.
UsedByRecurring(shown) == UNION {s.ids : s \in {t \in strands : Recurs(t)}}

Used(shown) == UNION {shown[i].ids : i \in DOMAIN shown}

Mistakes(c) == Cardinality(MistakesIn[c])

\* The sort key of priorities; the sort is stable.
Heavier(c, d) ==
    \/ Weight[c] > Weight[d]
    \/ Weight[c] = Weight[d] /\ Mistakes(c) > Mistakes(d)
    \/ Weight[c] = Weight[d] /\ Mistakes(c) = Mistakes(d) /\ c < d
HeavierFirst == {r \in Chapter \X Chapter : Heavier(r[1], r[2])}

\* The chapters listed when the document loads.
Priorities ==
    Upto(InOrder({c \in Chapter : Mistakes(c) >= 2}, HeavierFirst), MaxPriorities)

\* _load_or_none: without the document there are none.
ListedPriorities == {Priorities, << >>}

\* ChapterWeightageService.priorities, then ActionableInsightService.generate.
Report ==
    /\ step = "reporting"
    /\ priorities' \in ListedPriorities
    /\ insights' = Ranked
    /\ feedback' = Evidence \ Used(Ranked)
    /\ step' = "done"
    /\ UNCHANGED <<pairs, decided, position, strands, excluded>>

Ended == {"done", "failed", "rejected_relationships", "rejected_output"}

\* The request is answered, or its error raised.
Finished == step \in Ended /\ UNCHANGED vars

Next ==
    \/ PairNeighbors \/ ClassifierFails \/ Classify \/ CheckRelationships
    \/ RepairStrand \/ EndStrands \/ RepairExclusions \/ Discard \/ Validate
    \/ Report \/ Finished

Spec == Init /\ [][Next]_vars

-----------------------------------------------------------------------------
Strand == [at : Nat, family : Family, ids : (SUBSET Evidence) \ {{}},
           confidence : Confidences, lost : SUBSET Evidence]

TypeOK ==
    /\ step \in Steps
    /\ pairs \subseteq AllPairs
    /\ DOMAIN decided \subseteq AllPairs
    /\ \A p \in DOMAIN decided : decided[p] \in Relationships
    /\ position \in Nat
    /\ strands \subseteq Strand
    /\ excluded \subseteq Evidence
    /\ insights \in Seq(Strand)
    /\ feedback \subseteq Evidence
    /\ priorities \in Seq(Chapter)

\* Whatever strands and exclusions the classifier answers with, repair and
\* discard leave nothing the final validation would refuse; only decisions
\* on other pairs than the candidates raise (hierarchical.py:167-186).
RepairLeavesNothingToReject == step # "rejected_output"

\* Each question of the student appears in the report exactly once: in one
\* insight or in the question-level feedback, also if its strand was dropped,
\* did not recur or is not among those shown (actionable.py:144-187).
EveryMistakeOnce ==
    step = "done" =>
        \A e \in Evidence :
            LET showing == {i \in DOMAIN insights : e \in insights[i].ids}
            IN  IF e \in feedback THEN showing = {} ELSE Cardinality(showing) = 1

\* An insight rests on same-gap judgements alone: it spans two reports, none
\* of its candidate pairs is judged otherwise, and however its items are split
\* in two, a pair judged the same gap joins the halves (hierarchical.py:429-484).
InsightsAreSupported ==
    \A i \in DOMAIN insights :
        LET ids == insights[i].ids
        IN  /\ \E a, b \in ids : ReportOf[a] # ReportOf[b]
            /\ \A pair \in pairs : pair \subseteq ids =>
                  decided[pair] = "same_underlying_gap"
            /\ \A part \in SUBSET ids : part \notin {{}, ids} =>
                  \E a \in part, b \in ids \ part : SameGap(a, b)

\* No recurring strand that is left out has more reports, or as many and more
\* questions, or as many and higher confidence, than one shown
\* (actionable.py:133-141, 169).
ShownOutrankOmitted ==
    step = "done" =>
        \A s \in strands : Recurs(s) => \/ s \in {insights[i] : i \in DOMAIN insights}
                                        \/ \A i \in DOMAIN insights : ~Outranks(s, insights[i])

\* A strand of the answer all of whose evidence is connected by same-gap
\* judgements, and contradicted by none, is there to be validated: what repair
\* took from it is in another strand (hierarchical.py:294-304, 367, 479-511).
SupportedStrandIsWhole ==
    step \in {"validating", "reporting", "done"} =>
        \A s \in strands : s.lost \subseteq Assigned
=============================================================================
