------------------------ MODULE StrandAnalysisProofs ------------------------
(***************************************************************************)
(* Theorems about StrandAnalysis, for any evidence, similarities, answers  *)
(* and bounds.  What repair and discard leave satisfies the final          *)
(* validation because each of its rules is kept by every step before:      *)
(* Repaired is their conjunction.                                          *)
(***************************************************************************)
EXTENDS StrandAnalysis, FiniteSetTheorems, FunctionTheorems,
        SequenceTheorems, TLAPS

\* Each strand kept is of one family, and no item is in two of them.
StrandsAreSound ==
    /\ \A s \in strands : OneFamily(s)
    /\ \A s, t \in strands : s # t => s.ids \cap t.ids = {}

\* Exclusions are of items in no strand, and come after the strands.
ExclusionsAreSound ==
    /\ excluded \subseteq Evidence
    /\ excluded \cap Assigned = {}
    /\ step = "repairing" => excluded = {}
    /\ step \in {"pairing", "classifying", "checking"} => excluded = {} /\ strands = {}

\* Every step after the check of the relationships has those of the pairs.
AllDecided ==
    step \in {"repairing", "excluding", "discarding", "validating", "reporting", "done"}
        => DOMAIN decided = pairs

\* After discarding, strands of several items are supported.
OnlySupported ==
    step \in {"validating", "reporting", "done"} => \A s \in strands : IsKept(s)

Repaired ==
    /\ StrandsAreSound /\ ExclusionsAreSound /\ AllDecided /\ OnlySupported
    /\ RepairLeavesNothingToReject

LEMMA InitRepaired == Init => Repaired
BY DEF Init, Repaired, StrandsAreSound, ExclusionsAreSound, AllDecided,
       OnlySupported, RepairLeavesNothingToReject, Assigned

\* A strand that is added takes items no other strand has.
LEMMA KeepStep ==
    ASSUME StrandsAreSound, NEW source \in SourceStrand, NEW family \in Family,
           Keep(source, family)
    PROVE  StrandsAreSound'
<1> DEFINE new == [at |-> position, family |-> family,
                   ids |-> Of(family, Known(source)), confidence |-> source.confidence,
                   lost |-> Lost(source, Of(family, Known(source)))]
<1>1. strands' = strands \cup {new}
  BY DEF Keep
<1>2. new.ids \cap Assigned = {} /\ OneFamily(new)
  BY DEF Of, Known, OneFamily
<1>3. \A s \in strands : new.ids \cap s.ids = {}
  BY <1>2 DEF Assigned
<1> HIDE DEF new
<1>4. \A s \in strands' : OneFamily(s)
  BY <1>1, <1>2 DEF StrandsAreSound
<1>5. \A s, t \in strands' : s # t => s.ids \cap t.ids = {}
  BY <1>1, <1>3 DEF StrandsAreSound
<1> QED BY <1>4, <1>5 DEF StrandsAreSound

LEMMA RepairedStep ==
    ASSUME Repaired, [Next]_vars
    PROVE  Repaired'
<1> USE DEF Repaired
<1>1. CASE PairNeighbors \/ ClassifierFails \/ Classify \/ CheckRelationships
  BY <1>1 DEF PairNeighbors, ClassifierFails, Classify, CheckRelationships,
              StrandsAreSound, ExclusionsAreSound, AllDecided, OnlySupported,
              RepairLeavesNothingToReject, Assigned
<1>2. CASE RepairStrand
  <2>1. StrandsAreSound'
    <3>1. CASE UNCHANGED strands
      BY <3>1 DEF StrandsAreSound
    <3>2. ASSUME NEW source \in SourceStrand, NEW family \in Family,
                 Keep(source, family)
          PROVE  StrandsAreSound'
      BY <3>2, KeepStep
    <3> QED BY <1>2, <3>1, <3>2 DEF RepairStrand
  <2>2. step = "repairing" /\ step' = "repairing" /\ excluded' = excluded
    BY <1>2 DEF RepairStrand
  <2>3. ExclusionsAreSound'
    BY <2>2 DEF ExclusionsAreSound
  <2> QED BY <1>2, <2>1, <2>2, <2>3 DEF RepairStrand, AllDecided, OnlySupported,
             RepairLeavesNothingToReject
<1>3. CASE EndStrands
  BY <1>3 DEF EndStrands, StrandsAreSound, ExclusionsAreSound, AllDecided,
              OnlySupported, RepairLeavesNothingToReject, Assigned
<1>4. CASE RepairExclusions
  <2>1. ExclusionsAreSound'
    BY <1>4 DEF RepairExclusions, Exclude, ExclusionsAreSound, Assigned
  <2> QED BY <1>4, <2>1 DEF RepairExclusions, StrandsAreSound, AllDecided,
             OnlySupported, RepairLeavesNothingToReject
<1>5. CASE Discard
  <2>1. strands' \subseteq strands /\ \A s \in strands' : IsKept(s)
    BY <1>5 DEF Discard
  <2>2. \A s : IsKept(s)' <=> IsKept(s)
    BY <1>5 DEF Discard, IsKept, Supported, Consistent, Reachable, Closed, SameGap
  <2>3. StrandsAreSound'
    BY <2>1 DEF StrandsAreSound, OneFamily
  <2>4. Assigned' \subseteq Assigned
    BY <2>1 DEF Assigned
  <2>5. ExclusionsAreSound'
    BY <1>5, <2>4 DEF Discard, ExclusionsAreSound
  <2> QED BY <1>5, <2>1, <2>2, <2>3, <2>5 DEF Discard, AllDecided, OnlySupported,
             RepairLeavesNothingToReject
<1>6. CASE Validate
  <2>1. step = "validating" /\ UNCHANGED <<pairs, decided, strands, excluded>>
    BY <1>6 DEF Validate
  <2>2. \A s \in strands : Cardinality(s.ids) > 1 => Supported(s.ids)
    <3> TAKE s \in strands
    <3>1. s.ids \subseteq Evidence
      BY DEF StrandsAreSound, OneFamily
    <3>2. Cardinality(s.ids) \in Nat
      BY <3>1, AnalysisAssumptions, FS_Subset, FS_CardinalityType
    <3> QED BY <2>1, <3>2 DEF OnlySupported, IsKept
  <2>3. OutputIsValid
    BY <2>1, <2>2 DEF OutputIsValid, StrandsAreSound, ExclusionsAreSound, AllDecided
  <2>4. step' = "reporting"
    BY <1>6, <2>3 DEF Validate
  <2>5. \A s : IsKept(s)' <=> IsKept(s)
    BY <2>1 DEF IsKept, Supported, Consistent, Reachable, Closed, SameGap
  <2> QED BY <2>1, <2>4, <2>5 DEF StrandsAreSound, OneFamily, ExclusionsAreSound,
             Assigned, AllDecided, OnlySupported, RepairLeavesNothingToReject
<1>7. CASE Report \/ UNCHANGED vars
  <2>1. UNCHANGED <<pairs, decided, strands, excluded>>
    BY <1>7 DEF Report, vars
  <2>2. \A s : IsKept(s)' <=> IsKept(s)
    BY <2>1 DEF IsKept, Supported, Consistent, Reachable, Closed, SameGap
  <2>3. step' = step \/ (step = "reporting" /\ step' = "done")
    BY <1>7 DEF Report, vars
  <2> QED BY <2>1, <2>2, <2>3 DEF StrandsAreSound, OneFamily, ExclusionsAreSound,
             Assigned, AllDecided, OnlySupported, RepairLeavesNothingToReject
<1> QED BY <1>1, <1>2, <1>3, <1>4, <1>5, <1>6, <1>7 DEF Next, Finished

\* Whatever the classifier answers, and however much evidence there is, the
\* final validation finds nothing to refuse.
THEOREM NothingToReject == Spec => []RepairLeavesNothingToReject
<1>1. Init => Repaired
  BY InitRepaired
<1>2. Repaired /\ [Next]_vars => Repaired'
  BY RepairedStep
<1>3. Repaired => RepairLeavesNothingToReject
  BY DEF Repaired
<1> QED BY <1>1, <1>2, <1>3, PTL DEF Spec

-----------------------------------------------------------------------------
(* What support means.                                                     *)

\* Items of a strand that hang together: however they are split in two, a pair
\* judged the same gap joins the halves.
Joined(ids) ==
    \A part \in SUBSET ids : part \notin {{}, ids} =>
        \E a \in part, b \in ids \ part : SameGap(a, b)

\* A search from an item of one half would not leave that half.
LEMMA SupportedIsJoined ==
    ASSUME NEW ids, Supported(ids)
    PROVE  Joined(ids)
<1> SUFFICES ASSUME NEW part \in SUBSET ids, part # {}, part # ids,
                    ~\E a \in part, b \in ids \ part : SameGap(a, b)
             PROVE  FALSE
  BY DEF Joined
<1>1. PICK a \in part : TRUE
  OBVIOUS
<1>2. Closed(part, ids)
  BY DEF Closed
<1>3. Reachable(a, ids) \subseteq part
  BY <1>1, <1>2 DEF Reachable
<1> QED BY <1>1, <1>3 DEF Supported

\* The strands that are ranked and shown hang together, and none of their
\* candidate pairs is judged otherwise.
StrandsHangTogether ==
    step \in {"reporting", "done"} =>
        \A s \in strands : Cardinality(s.ids) >= 2 => Joined(s.ids) /\ Consistent(s.ids)

\* For any answer of the classifier: the strands left for the report rest on
\* its own same-gap judgements, directly or through other items.
THEOREM ReportedStrandsAreSupported == Spec => []StrandsHangTogether
<1>1. Init => Repaired
  BY InitRepaired
<1>2. Repaired /\ [Next]_vars => Repaired'
  BY RepairedStep
<1>3. Repaired => StrandsHangTogether
  <2> SUFFICES ASSUME Repaired, step \in {"reporting", "done"},
                      NEW s \in strands, Cardinality(s.ids) >= 2
               PROVE  Joined(s.ids) /\ Consistent(s.ids)
    BY DEF StrandsHangTogether
  <2>1. s.ids \subseteq Evidence
    BY DEF Repaired, StrandsAreSound, OneFamily
  <2>2. Cardinality(s.ids) \in Nat
    BY <2>1, AnalysisAssumptions, FS_Subset, FS_CardinalityType
  <2>3. Supported(s.ids)
    BY <2>2 DEF Repaired, OnlySupported, IsKept
  <2> QED BY <2>3, SupportedIsJoined DEF Supported
<1> QED BY <1>1, <1>2, <1>3, PTL DEF Spec

-----------------------------------------------------------------------------
(* The candidate pairs.                                                    *)

\* Those before b among the neighbours of a.
Before(similar, a, b) ==
    {c \in Evidence \ {a, b} : Related(a, c) /\ Nearer(similar, a, c, b)}

LEMMA PairOfRelated ==
    ASSUME NEW a \in Evidence, NEW b \in Evidence, Related(a, b)
    PROVE  {a, b} \in AllPairs
BY DEF AllPairs

\* Of two neighbours the nearer one has the smaller rank.
LEMMA NearerRanksBefore ==
    ASSUME NEW similar \in [AllPairs -> Similarity], NEW a \in Evidence,
           NEW b \in Evidence, NEW c \in Evidence,
           Related(a, b), Related(a, c), b # c, Nearer(similar, a, b, c)
    PROVE  Rank(similar, a, b) < Rank(similar, a, c)
<1>1. \A d \in Evidence : Related(a, d) => similar[{a, d}] \in Nat
  BY PairOfRelated, AnalysisAssumptions
<1>2. Before(similar, a, b) \subseteq Before(similar, a, c)
  <2> SUFFICES ASSUME NEW d \in Before(similar, a, b)
               PROVE  d \in Before(similar, a, c)
    OBVIOUS
  <2>1. d \in Evidence /\ d # a /\ Related(a, d) /\ Nearer(similar, a, d, b)
    BY DEF Before
  <2>2. {d, b, c} \subseteq Nat
    BY <2>1, AnalysisAssumptions
  <2>3. similar[{a, d}] \in Nat /\ similar[{a, b}] \in Nat /\ similar[{a, c}] \in Nat
    BY <1>1, <2>1
  <2>4. Nearer(similar, a, d, c) /\ d # c
    BY <2>1, <2>2, <2>3 DEF Nearer
  <2> QED BY <2>1, <2>4 DEF Before
<1>3. b \in Before(similar, a, c) /\ b \notin Before(similar, a, b)
  BY DEF Before, Related
<1>4. IsFiniteSet(Before(similar, a, c))
  BY AnalysisAssumptions, FS_Subset DEF Before
<1>5. /\ Cardinality(Before(similar, a, b)) \in Nat
      /\ Cardinality(Before(similar, a, c)) \in Nat
      /\ Cardinality(Before(similar, a, b)) < Cardinality(Before(similar, a, c))
  BY <1>2, <1>3, <1>4, FS_Subset, FS_CardinalityType
<1>6. /\ Rank(similar, a, b) = 1 + Cardinality(Before(similar, a, b))
      /\ Rank(similar, a, c) = 1 + Cardinality(Before(similar, a, c))
  BY DEF Rank, Before
<1> QED BY <1>5, <1>6

LEMMA RankIsPositive ==
    ASSUME NEW similar, NEW a \in Evidence, NEW b \in Evidence
    PROVE  Rank(similar, a, b) \in Nat \ {0}
<1>1. IsFiniteSet(Before(similar, a, b))
  BY AnalysisAssumptions, FS_Subset DEF Before
<1>2. Cardinality(Before(similar, a, b)) \in Nat
  BY <1>1, FS_CardinalityType
<1> QED BY <1>2 DEF Rank, Before

LEMMA NearerIsTotal ==
    ASSUME NEW similar \in [AllPairs -> Similarity], NEW a \in Evidence,
           NEW b \in Evidence, NEW c \in Evidence,
           Related(a, b), Related(a, c), b # c
    PROVE  Nearer(similar, a, b, c) \/ Nearer(similar, a, c, b)
<1>1. similar[{a, b}] \in Nat /\ similar[{a, c}] \in Nat
  BY PairOfRelated, AnalysisAssumptions
<1>2. b \in Nat /\ c \in Nat
  BY AnalysisAssumptions
<1> QED BY <1>1, <1>2 DEF Nearer

\* The candidates of an item have different ranks among its neighbours, none
\* beyond max_neighbors.
LEMMA CandidatesAreFew ==
    ASSUME NEW similar \in [AllPairs -> Similarity], NEW a \in Evidence
    PROVE  Cardinality({pair \in AllPairs : IsCandidate(similar, pair) /\ a \in pair})
              =< MaxNeighbors
<1> DEFINE S == {pair \in AllPairs : IsCandidate(similar, pair) /\ a \in pair}
           Partner(pair) == CHOOSE b \in pair : b # a
           rank == [pair \in S |-> Rank(similar, a, Partner(pair))]
<1>1. \A pair \in S : /\ Partner(pair) \in Evidence /\ Partner(pair) \in pair
                      /\ Partner(pair) # a
                      /\ pair = {a, Partner(pair)} /\ Related(a, Partner(pair))
  <2> TAKE pair \in S
  <2>1. PICK c, d \in pair : pair = {c, d} /\ Related(c, d)
    BY DEF AllPairs
  <2>2. c # d /\ a \in {c, d} /\ pair \subseteq Evidence
    BY <2>1 DEF Related, AllPairs
  <2>3. \E b \in pair : b # a
    BY <2>1, <2>2
  <2>4. Partner(pair) \in pair /\ Partner(pair) # a
    BY <2>3
  <2>5. pair = {a, Partner(pair)}
    BY <2>1, <2>2, <2>4
  <2> QED BY <2>1, <2>2, <2>4, <2>5 DEF Related
<1>2. \A pair \in S : rank[pair] \in 1..MaxNeighbors
  <2> TAKE pair \in S
  <2>1. Rank(similar, a, Partner(pair)) =< MaxNeighbors
    BY <1>1 DEF IsCandidate
  <2>2. Rank(similar, a, Partner(pair)) \in Nat \ {0}
    BY <1>1, RankIsPositive
  <2> HIDE DEF Partner
  <2> QED BY <2>1, <2>2, AnalysisAssumptions
<1>3. ASSUME NEW p \in S, NEW q \in S, p # q
      PROVE  rank[p] # rank[q]
  <2>1. Partner(p) # Partner(q)
    BY <1>1, <1>3
  <2>2. {Partner(p), Partner(q)} \subseteq Evidence
    BY <1>1
  <2>3. \/ Nearer(similar, a, Partner(p), Partner(q))
        \/ Nearer(similar, a, Partner(q), Partner(p))
    BY <1>1, <2>1, <2>2, NearerIsTotal
  <2>4. \/ Rank(similar, a, Partner(p)) < Rank(similar, a, Partner(q))
        \/ Rank(similar, a, Partner(q)) < Rank(similar, a, Partner(p))
    BY <1>1, <2>1, <2>3, NearerRanksBefore
  <2>5. /\ Rank(similar, a, Partner(p)) \in Nat
        /\ Rank(similar, a, Partner(q)) \in Nat
    BY <2>2, RankIsPositive
  <2> QED BY <2>4, <2>5
<1> HIDE DEF rank, Partner
<1>4. rank \in Injection(S, 1..MaxNeighbors)
  <2>1. rank \in [S -> 1..MaxNeighbors]
    BY <1>2 DEF rank
  <2> QED BY <2>1, <1>3 DEF Injection, IsInjective
<1>5. Cardinality(1..MaxNeighbors) = MaxNeighbors /\ IsFiniteSet(1..MaxNeighbors)
  BY FS_Interval, AnalysisAssumptions
<1> QED BY <1>4, <1>5, FS_Injection

\* No item is a candidate of more than max_neighbors others, however many
\* are similar to it (clustering.py:64-72).
NeighborsAreBounded ==
    \A a \in Evidence : Cardinality({pair \in pairs : a \in pair}) =< MaxNeighbors

LEMMA NeighborsStep ==
    ASSUME NeighborsAreBounded, [Next]_vars
    PROVE  NeighborsAreBounded'
<1>1. CASE PairNeighbors
  <2>1. PICK similar \in [AllPairs -> Similarity] :
           pairs' = {pair \in AllPairs : IsCandidate(similar, pair)}
    BY <1>1 DEF PairNeighbors
  <2>2. ASSUME NEW a \in Evidence
        PROVE  Cardinality({pair \in pairs' : a \in pair}) =< MaxNeighbors
    <3>1. {pair \in pairs' : a \in pair}
             = {pair \in AllPairs : IsCandidate(similar, pair) /\ a \in pair}
      BY <2>1
    <3> QED BY <3>1, CandidatesAreFew
  <2> QED BY <2>2 DEF NeighborsAreBounded
<1>2. CASE UNCHANGED pairs
  BY <1>2 DEF NeighborsAreBounded
<1> QED BY <1>1, <1>2 DEF Next, vars, Finished, ClassifierFails, Classify,
           CheckRelationships, RepairStrand, EndStrands, RepairExclusions, Discard,
           Validate, Report

\* For any evidence and similarities: no item has more candidates than
\* max_neighbors, so the classifier is asked about few pairs.
THEOREM FewNeighbors == Spec => []NeighborsAreBounded
<1>1. Init => NeighborsAreBounded
  <2>1. \A a \in Evidence : {pair \in {} : a \in pair} = {}
    OBVIOUS
  <2> QED BY <2>1, FS_EmptySet, AnalysisAssumptions DEF Init, NeighborsAreBounded
<1>2. NeighborsAreBounded /\ [Next]_vars => NeighborsAreBounded'
  BY NeighborsStep
<1> QED BY <1>1, <1>2, PTL DEF Spec
-----------------------------------------------------------------------------
(* What a sorted sequence is.                                              *)

StrictTotalOrder(R, S) ==
    /\ \A x \in S : <<x, x>> \notin R
    /\ \A x, y, z \in S : <<x, y>> \in R /\ <<y, z>> \in R => <<x, z>> \in R
    /\ \A x, y \in S : x # y => <<x, y>> \in R \/ <<y, x>> \in R

\* How many come before an element.
Place(S, R, x) == Cardinality({y \in S : <<y, x>> \in R})

\* How many come before each element is different for each, so the numbers are
\* 0 to one less than the number of elements, and every place is taken once.
LEMMA PlacesAreTaken ==
    ASSUME NEW S, IsFiniteSet(S), NEW R, StrictTotalOrder(R, S)
    PROVE  /\ \A x \in S : Place(S, R, x) \in 0..(Cardinality(S) - 1)
           /\ \A x, y \in S : <<x, y>> \in R => Place(S, R, x) < Place(S, R, y)
           /\ \A k \in 0..(Cardinality(S) - 1) : \E x \in S : Place(S, R, x) = k
<1> DEFINE Ahead(x) == {y \in S : <<y, x>> \in R}
           place == [x \in S |-> Cardinality(Ahead(x))]
           n == Cardinality(S)
<1>0. n \in Nat
  BY FS_CardinalityType
<1>1. \A x \in S : IsFiniteSet(Ahead(x)) /\ Cardinality(Ahead(x)) \in Nat
  BY FS_Subset, FS_CardinalityType
<1>2. \A x \in S : place[x] \in 0..(n - 1)
  <2> TAKE x \in S
  <2>1. Ahead(x) \subseteq S /\ x \notin Ahead(x)
    BY DEF StrictTotalOrder
  <2>2. Cardinality(Ahead(x)) =< n /\ Cardinality(Ahead(x)) # n
    BY <2>1, FS_Subset
  <2> QED BY <1>0, <1>1, <2>2
<1>3. \A x, y \in S : <<x, y>> \in R => place[x] < place[y]
  <2> SUFFICES ASSUME NEW x \in S, NEW y \in S, <<x, y>> \in R
               PROVE  place[x] < place[y]
    OBVIOUS
  <2>1. Ahead(x) \subseteq Ahead(y)
    BY DEF StrictTotalOrder
  <2>2. x \in Ahead(y) /\ x \notin Ahead(x)
    BY DEF StrictTotalOrder
  <2>3. Cardinality(Ahead(x)) =< Cardinality(Ahead(y))
        /\ Cardinality(Ahead(x)) # Cardinality(Ahead(y))
    BY <1>1, <2>1, <2>2, FS_Subset
  <2> QED BY <1>1, <2>3
<1>4. place \in Injection(S, 0..(n - 1))
  <2>1. place \in [S -> 0..(n - 1)]
    BY <1>2
  <2>2. ASSUME NEW x \in S, NEW y \in S, x # y
        PROVE  place[x] # place[y]
    <3>1. <<x, y>> \in R \/ <<y, x>> \in R
      BY <2>2 DEF StrictTotalOrder
    <3>2. place[x] < place[y] \/ place[y] < place[x]
      BY <1>3, <3>1
    <3>3. place[x] \in Nat /\ place[y] \in Nat
      BY <1>1
    <3> HIDE DEF place
    <3> QED BY <3>2, <3>3
  <2> HIDE DEF place
  <2> QED BY <2>1, <2>2 DEF Injection, IsInjective
<1>5. IsFiniteSet(0..(n - 1)) /\ Cardinality(0..(n - 1)) = n
  <2>1. n - 1 \in Int
    BY <1>0
  <2>2. Cardinality(0..(n - 1)) = IF 0 > n - 1 THEN 0 ELSE n - 1 - 0 + 1
    BY <2>1, FS_Interval
  <2> QED BY <1>0, <2>1, <2>2, FS_Interval
<1>6. place \in Surjection(S, 0..(n - 1))
  BY <1>4, <1>5, FS_Injection
<1>7. \A k \in 0..(n - 1) : \E x \in S : place[x] = k
  BY <1>6 DEF Surjection
<1>8. \A x \in S : place[x] = Place(S, R, x)
  BY DEF Place
<1> HIDE DEF place
<1> QED BY <1>2, <1>3, <1>7, <1>8

\* InOrder lists every element of the set, each before those it precedes.
LEMMA InOrderIsSorted ==
    ASSUME NEW S, IsFiniteSet(S), NEW R, StrictTotalOrder(R, S)
    PROVE  LET q == InOrder(S, R)
           IN  /\ q \in [1..Cardinality(S) -> S]
               /\ \A x \in S : \E i \in DOMAIN q : q[i] = x
               /\ \A i, j \in DOMAIN q : i < j => <<q[i], q[j]>> \in R
               /\ \A i, j \in DOMAIN q : q[i] = q[j] => i = j
<1> DEFINE place(x) == Place(S, R, x)
           n == Cardinality(S)
           q == InOrder(S, R)
<1>1. /\ \A x \in S : place(x) \in 0..(n - 1)
      /\ \A x, y \in S : <<x, y>> \in R => place(x) < place(y)
      /\ \A k \in 0..(n - 1) : \E x \in S : place(x) = k
  BY PlacesAreTaken
<1>2. q = [i \in 1..n |-> CHOOSE x \in S : place(x) = i - 1]
  BY DEF InOrder, Place
<1>3. n \in Nat
  BY FS_CardinalityType
<1> HIDE DEF place, n, q
<1>4. \A i \in 1..n : q[i] \in S /\ place(q[i]) = i - 1
  <2> TAKE i \in 1..n
  <2>1. i - 1 \in 0..(n - 1)
    BY <1>3
  <2>2. \E x \in S : place(x) = i - 1
    BY <1>1, <2>1
  <2> QED BY <1>2, <2>2
<1>5. q \in [1..n -> S] /\ DOMAIN q = 1..n
  BY <1>2, <1>4
<1>6. \A i, j \in 1..n : q[i] = q[j] => i = j
  BY <1>3, <1>4
<1>7. ASSUME NEW i \in 1..n, NEW j \in 1..n, i < j
      PROVE  <<q[i], q[j]>> \in R
  <2>1. q[i] # q[j] /\ q[i] \in S /\ q[j] \in S
    BY <1>4, <1>6, <1>7
  <2>2. <<q[i], q[j]>> \in R \/ <<q[j], q[i]>> \in R
    BY <2>1 DEF StrictTotalOrder
  <2>3. ~(place(q[j]) < place(q[i]))
    BY <1>3, <1>4, <1>7
  <2> QED BY <1>1, <2>1, <2>2, <2>3
<1>8. ASSUME NEW x \in S
      PROVE  \E i \in 1..n : q[i] = x
  <2>1. place(x) \in 0..(n - 1)
    BY <1>1
  <2>2. place(x) + 1 \in 1..n
    BY <1>3, <2>1
  <2>3. q[place(x) + 1] \in S /\ place(q[place(x) + 1]) = place(x)
    BY <1>3, <1>4, <2>1, <2>2
  <2>4. ASSUME NEW y \in S, place(y) = place(x), y # x
        PROVE  FALSE
    <3>1. place(x) < place(y) \/ place(y) < place(x)
      BY <1>1, <2>4 DEF StrictTotalOrder
    <3> QED BY <1>3, <2>1, <2>4, <3>1
  <2> QED BY <2>2, <2>3, <2>4
<1> QED BY <1>5, <1>6, <1>7, <1>8 DEF q, n

\* The first n elements of a sequence.
LEMMA UptoIsPrefix ==
    ASSUME NEW S, NEW m \in Nat, NEW n \in Nat, NEW q \in [1..m -> S]
    PROVE  /\ Upto(q, n) \in Seq(S)
           /\ DOMAIN Upto(q, n) = 1..(IF m < n THEN m ELSE n)
           /\ \A i \in DOMAIN Upto(q, n) : i \in 1..m /\ Upto(q, n)[i] = q[i]
<1> DEFINE k == IF m < n THEN m ELSE n
<1>1. q \in Seq(S) /\ Len(q) = m
  OBVIOUS
<1>2. Upto(q, n) = SubSeq(q, 1, k)
  BY <1>1 DEF Upto
<1>3. k \in Nat /\ k =< m
  OBVIOUS
<1> HIDE DEF k
<1>4. \A i \in 1..k : q[i] \in S
  BY <1>3
<1>5. /\ SubSeq(q, 1, k) \in Seq(S)
      /\ Len(SubSeq(q, 1, k)) = IF 1 =< k THEN k - 1 + 1 ELSE 0
      /\ \A i \in 1..(k - 1 + 1) : SubSeq(q, 1, k)[i] = q[1 + i - 1]
  BY <1>3, <1>4, SubSeqProperties
<1>6. Len(SubSeq(q, 1, k)) = k
  BY <1>3, <1>5
<1>7. DOMAIN SubSeq(q, 1, k) = 1..k
  BY <1>5, <1>6
<1>8. \A i \in 1..k : i \in 1..m /\ SubSeq(q, 1, k)[i] = q[i]
  BY <1>3, <1>5
<1> QED BY <1>2, <1>5, <1>7, <1>8 DEF k
-----------------------------------------------------------------------------
(* What the report shows.                                                  *)

\* Strands keep the place they had in the answer, which no two share.
Placed ==
    /\ IsFiniteSet(strands)
    /\ \A s \in strands : s.at < position
    /\ \A s, t \in strands : s.at = t.at => s = t

\* The report is made of the strands as they are, and is empty before it is made.
ReportIsRanked ==
    /\ step = "done" => /\ insights = Ranked
                        /\ feedback = Evidence \ Used(Ranked)
                        /\ priorities \in ListedPriorities
    /\ step # "done" => insights = << >> /\ priorities = << >>

IInv == TypeOK /\ Repaired /\ Placed /\ ReportIsRanked

Recurring == {s \in strands : Recurs(s)}
Repeated == {c \in Chapter : Mistakes(c) >= 2}

LEMMA StrandCounts ==
    ASSUME NEW s \in Strand
    PROVE  /\ s.at \in Nat /\ IsFiniteSet(s.ids)
           /\ Cardinality(s.ids) \in Nat /\ Cardinality(Reports(s)) \in Nat
           /\ IsFiniteSet(Reports(s)) /\ Cardinality(Reports(s)) =< Cardinality(s.ids)
<1>1. s.at \in Nat /\ s.ids \subseteq Evidence
  BY DEF Strand
<1>2. IsFiniteSet(s.ids)
  BY <1>1, AnalysisAssumptions, FS_Subset
<1>3. [e \in s.ids |-> ReportOf[e]] \in Surjection(s.ids, Reports(s))
  BY DEF Reports, Surjection
<1>4. IsFiniteSet(Reports(s)) /\ Cardinality(Reports(s)) =< Cardinality(s.ids)
  BY <1>2, <1>3, FS_Surjection
<1> QED BY <1>1, <1>2, <1>4, FS_CardinalityType

\* The sort key, with the place in the answer, orders the strands strictly.
LEMMA ShownFirstIsAnOrder ==
    ASSUME TypeOK, Placed, NEW S \in SUBSET strands
    PROVE  StrictTotalOrder(ShownFirst, S)
<1> DEFINE reports(s) == Cardinality(Reports(s))
           items(s) == Cardinality(s.ids)
<1>1. \A s \in S : s.at \in Nat /\ reports(s) \in Nat /\ items(s) \in Nat
  BY StrandCounts DEF TypeOK
<1>2. \A s, t \in S : <<s, t>> \in ShownFirst <=> ShownBefore(s, t)
  BY DEF ShownFirst
<1>3. \A s, t \in S : Outranks(s, t) <=>
         \/ reports(s) > reports(t)
         \/ reports(s) = reports(t) /\ items(s) > items(t)
         \/ /\ reports(s) = reports(t) /\ items(s) = items(t)
            /\ s.confidence = "high" /\ t.confidence # "high"
  BY DEF Outranks
<1> HIDE DEF reports, items
<1>4. \A s, t \in S : s # t => s.at # t.at
  BY DEF Placed
<1>5. \A s \in S : ~ShownBefore(s, s)
  BY <1>1, <1>3 DEF ShownBefore
<1>6. \A s, t \in S : s # t => ShownBefore(s, t) \/ ShownBefore(t, s)
  BY <1>1, <1>3, <1>4 DEF ShownBefore
<1>7. \A s, t, u \in S : ShownBefore(s, t) /\ ShownBefore(t, u) => ShownBefore(s, u)
  BY <1>1, <1>3 DEF ShownBefore
<1> QED BY <1>2, <1>5, <1>6, <1>7 DEF StrictTotalOrder

LEMMA HeavierFirstIsAnOrder ==
    ASSUME NEW S \in SUBSET Chapter
    PROVE  StrictTotalOrder(HeavierFirst, S)
<1>1. \A c \in S : c \in Nat /\ Weight[c] \in Nat /\ Mistakes(c) \in Nat
  <2> TAKE c \in S
  <2>1. MistakesIn[c] \subseteq Evidence
    BY AnalysisAssumptions
  <2>2. Mistakes(c) \in Nat
    BY <2>1, AnalysisAssumptions, FS_Subset, FS_CardinalityType DEF Mistakes
  <2> QED BY <2>2, AnalysisAssumptions
<1>2. \A c, d \in S : <<c, d>> \in HeavierFirst <=> Heavier(c, d)
  BY DEF HeavierFirst
<1> QED BY <1>1, <1>2 DEF Heavier, StrictTotalOrder

\* What is shown: recurring strands, none twice, and every one that is left
\* out is after each of them.
LEMMA RankedIsSorted ==
    ASSUME TypeOK, Placed
    PROVE  /\ Ranked \in Seq(Recurring)
           /\ \A i, j \in DOMAIN Ranked : Ranked[i] = Ranked[j] => i = j
           /\ \A s \in Recurring : \/ \E i \in DOMAIN Ranked : Ranked[i] = s
                                   \/ \A i \in DOMAIN Ranked : ShownBefore(Ranked[i], s)
<1> DEFINE m == Cardinality(Recurring)
           q == InOrder(Recurring, ShownFirst)
<1>1. IsFiniteSet(Recurring) /\ m \in Nat
  BY FS_Subset, FS_CardinalityType DEF Placed, Recurring
<1>2. /\ q \in [1..m -> Recurring]
      /\ \A x \in Recurring : \E i \in DOMAIN q : q[i] = x
      /\ \A i, j \in DOMAIN q : i < j => <<q[i], q[j]>> \in ShownFirst
      /\ \A i, j \in DOMAIN q : q[i] = q[j] => i = j
  <2>1. StrictTotalOrder(ShownFirst, Recurring)
    BY ShownFirstIsAnOrder DEF Recurring
  <2> QED BY <1>1, <2>1, InOrderIsSorted
<1>3. Ranked = Upto(q, MaxInsights)
  BY DEF Ranked, Recurring
<1> HIDE DEF m, q
<1>4. /\ Ranked \in Seq(Recurring)
      /\ DOMAIN Ranked = 1..(IF m < MaxInsights THEN m ELSE MaxInsights)
      /\ \A i \in DOMAIN Ranked : i \in 1..m /\ Ranked[i] = q[i]
  <2>1. MaxInsights \in Nat /\ q \in [1..m -> Recurring]
    BY <1>2, AnalysisAssumptions
  <2>2. /\ Upto(q, MaxInsights) \in Seq(Recurring)
        /\ DOMAIN Upto(q, MaxInsights) = 1..(IF m < MaxInsights THEN m ELSE MaxInsights)
        /\ \A i \in DOMAIN Upto(q, MaxInsights) : i \in 1..m /\ Upto(q, MaxInsights)[i] = q[i]
    BY <1>1, <2>1, UptoIsPrefix
  <2> QED BY <1>3, <2>2
<1>5. DOMAIN q = 1..m
  BY <1>2
<1>6. \A i, j \in DOMAIN Ranked : Ranked[i] = Ranked[j] => i = j
  BY <1>2, <1>4, <1>5
<1>7. ASSUME NEW s \in Recurring, NEW i \in DOMAIN Ranked, ~ShownBefore(Ranked[i], s)
      PROVE  \E j \in DOMAIN Ranked : Ranked[j] = s
  <2>1. PICK k \in 1..m : q[k] = s
    BY <1>2, <1>5
  <2>2. i \in 1..m /\ Ranked[i] = q[i]
    BY <1>4
  <2>3. ~(i < k)
    BY <1>2, <1>5, <1>7, <2>1, <2>2 DEF ShownFirst
  <2>4. k \in DOMAIN Ranked
    BY <1>1, <1>4, <2>1, <2>2, <2>3, AnalysisAssumptions
  <2> QED BY <1>4, <2>1, <2>4
<1> QED BY <1>4, <1>6, <1>7

LEMMA PrioritiesAreSorted ==
    /\ Priorities \in Seq(Chapter)
    /\ \A c \in Repeated : \/ \E i \in DOMAIN Priorities : Priorities[i] = c
                           \/ \A i \in DOMAIN Priorities : Heavier(Priorities[i], c)
<1> DEFINE m == Cardinality(Repeated)
           q == InOrder(Repeated, HeavierFirst)
<1>1. IsFiniteSet(Repeated) /\ m \in Nat
  BY FS_Subset, FS_CardinalityType, AnalysisAssumptions DEF Repeated
<1>2. /\ q \in [1..m -> Repeated]
      /\ \A x \in Repeated : \E i \in DOMAIN q : q[i] = x
      /\ \A i, j \in DOMAIN q : i < j => <<q[i], q[j]>> \in HeavierFirst
  <2>1. StrictTotalOrder(HeavierFirst, Repeated)
    BY HeavierFirstIsAnOrder DEF Repeated
  <2> QED BY <1>1, <2>1, InOrderIsSorted
<1>3. Priorities = Upto(q, MaxPriorities)
  BY DEF Priorities, Repeated
<1> HIDE DEF m, q
<1>4. /\ Priorities \in Seq(Repeated)
      /\ DOMAIN Priorities = 1..(IF m < MaxPriorities THEN m ELSE MaxPriorities)
      /\ \A i \in DOMAIN Priorities : i \in 1..m /\ Priorities[i] = q[i]
  <2>1. MaxPriorities \in Nat /\ q \in [1..m -> Repeated]
    BY <1>2, AnalysisAssumptions
  <2>2. /\ Upto(q, MaxPriorities) \in Seq(Repeated)
        /\ DOMAIN Upto(q, MaxPriorities) = 1..(IF m < MaxPriorities THEN m ELSE MaxPriorities)
        /\ \A i \in DOMAIN Upto(q, MaxPriorities) : i \in 1..m /\ Upto(q, MaxPriorities)[i] = q[i]
    BY <1>1, <2>1, UptoIsPrefix
  <2> QED BY <1>3, <2>2
<1>5. DOMAIN q = 1..m
  BY <1>2
<1>6. ASSUME NEW c \in Repeated, NEW i \in DOMAIN Priorities, ~Heavier(Priorities[i], c)
      PROVE  \E j \in DOMAIN Priorities : Priorities[j] = c
  <2>1. PICK k \in 1..m : q[k] = c
    BY <1>2, <1>5
  <2>2. i \in 1..m /\ Priorities[i] = q[i]
    BY <1>4
  <2>3. ~(i < k)
    BY <1>2, <1>5, <1>6, <2>1, <2>2 DEF HeavierFirst
  <2>4. k \in DOMAIN Priorities
    BY <1>1, <1>4, <2>1, <2>2, <2>3, AnalysisAssumptions
  <2> QED BY <1>4, <2>1, <2>4
<1>7. Priorities \in Seq(Chapter)
  BY <1>4 DEF Repeated
<1> QED BY <1>6, <1>7
-----------------------------------------------------------------------------
(* The inductive invariant.                                                *)

LEMMA InitIInv == Init => IInv
<1> SUFFICES ASSUME Init PROVE IInv
  OBVIOUS
<1>1. TypeOK
  BY DEF Init, TypeOK, Steps
<1>2. Placed
  BY FS_EmptySet DEF Init, Placed
<1>3. ReportIsRanked
  BY DEF Init, ReportIsRanked
<1> QED BY <1>1, <1>2, <1>3, InitRepaired DEF IInv

\* What is kept of a strand is a strand: it has an item, and the place at which
\* it was read.
LEMMA KeepPlaces ==
    ASSUME TypeOK, Placed, NEW source \in SourceStrand, NEW family \in Family,
           IsChosen(family, source, Known(source)), Keep(source, family),
           position' = position + 1
    PROVE  strands' \subseteq Strand /\ Placed'
<1> DEFINE new == [at |-> position, family |-> family,
                   ids |-> Of(family, Known(source)), confidence |-> source.confidence,
                   lost |-> Lost(source, Of(family, Known(source)))]
<1>1. strands' = strands \cup {new}
  BY DEF Keep
<1>2. Of(family, Known(source)) # {} /\ Of(family, Known(source)) \subseteq Evidence
  BY DEF IsChosen, Of, Known
<1>3. new \in Strand
  <2>1. Lost(source, Of(family, Known(source))) \subseteq Evidence
    BY DEF Lost
  <2> QED BY <1>2, <2>1, AnalysisAssumptions DEF Strand, TypeOK
<1>4. new.at = position
  OBVIOUS
<1> HIDE DEF new
<1>5. IsFiniteSet(strands')
  BY <1>1, FS_AddElement DEF Placed
<1>6. \A s \in strands : s.at \in Nat /\ s.at < position
  BY DEF Placed, TypeOK, Strand
<1>7. position \in Nat
  BY DEF TypeOK
<1>8. \A s \in strands' : s.at < position'
  BY <1>1, <1>4, <1>6, <1>7
<1>9. \A s, t \in strands' : s.at = t.at => s = t
  BY <1>1, <1>4, <1>6, <1>7 DEF Placed
<1> QED BY <1>1, <1>3, <1>5, <1>8, <1>9 DEF Placed, TypeOK

LEMMA RankedIsKept ==
    ASSUME UNCHANGED strands
    PROVE  Ranked' = Ranked
BY DEF Ranked, ShownFirst

LEMMA IInvStep ==
    ASSUME IInv, [Next]_vars
    PROVE  IInv'
<1>1. TypeOK /\ Repaired /\ Placed /\ ReportIsRanked
  BY DEF IInv
<1>2. Repaired'
  BY <1>1, RepairedStep
<1>3. CASE Report
  <2>1. /\ insights' = Ranked /\ feedback' = Evidence \ Used(Ranked)
        /\ priorities' \in ListedPriorities /\ step' = "done"
        /\ UNCHANGED <<pairs, decided, position, strands, excluded>>
    BY <1>3 DEF Report
  <2>2. Ranked' = Ranked
    BY <2>1, RankedIsKept
  <2>3. ReportIsRanked'
    BY <2>1, <2>2 DEF ReportIsRanked, Used, ListedPriorities, Priorities, HeavierFirst
  <2>4. insights' \in Seq(Strand)
    <3>1. Ranked \in Seq(Recurring) /\ Recurring \subseteq Strand
      BY <1>1, RankedIsSorted DEF Recurring, TypeOK
    <3> QED BY <2>1, <3>1
  <2>5. priorities' \in Seq(Chapter)
    <3>1. Priorities \in Seq(Chapter) /\ << >> \in Seq(Chapter)
      BY PrioritiesAreSorted
    <3>2. priorities' = Priorities \/ priorities' = << >>
      BY <2>1 DEF ListedPriorities
    <3> QED BY <3>1, <3>2
  <2>6. TypeOK'
    BY <1>1, <2>1, <2>4, <2>5 DEF TypeOK, Steps
  <2>7. Placed'
    BY <1>1, <2>1 DEF Placed
  <2> QED BY <1>2, <2>3, <2>6, <2>7 DEF IInv
<1>4. ASSUME ~Report
      PROVE  ReportIsRanked'
  <2>1. CASE UNCHANGED vars \/ Finished
    <3>1. UNCHANGED vars
      BY <2>1 DEF Finished
    <3> QED BY <1>1, <3>1, RankedIsKept DEF vars, ReportIsRanked, Used,
               ListedPriorities, Priorities, HeavierFirst
  <2>2. CASE Next /\ ~Finished
    <3>1. step # "done" /\ step' # "done" /\ UNCHANGED <<insights, priorities>>
      BY <1>4, <2>2 DEF Next, PairNeighbors, ClassifierFails, Classify,
         CheckRelationships, RepairStrand, EndStrands, RepairExclusions, Discard, Validate
    <3> QED BY <1>1, <3>1 DEF ReportIsRanked
  <2> QED BY <2>1, <2>2
<1>5. CASE PairNeighbors \/ ClassifierFails \/ CheckRelationships \/ EndStrands
           \/ Validate \/ Finished \/ UNCHANGED vars
  <2>1. UNCHANGED <<decided, position, strands, excluded, insights, feedback, priorities>>
    BY <1>5 DEF PairNeighbors, ClassifierFails, CheckRelationships, EndStrands,
       Validate, Finished, vars
  <2>2. step' \in Steps /\ pairs' \subseteq AllPairs
    BY <1>1, <1>5 DEF PairNeighbors, ClassifierFails, CheckRelationships, EndStrands,
       Validate, Finished, vars, TypeOK, Steps
  <2>3. ReportIsRanked'
    BY <1>4, <1>5 DEF Report, PairNeighbors, ClassifierFails, CheckRelationships,
       EndStrands, Validate, Finished, vars
  <2> QED BY <1>1, <1>2, <2>1, <2>2, <2>3 DEF IInv, TypeOK, Placed
<1>6. CASE Classify
  <2>1. PICK judged \in {pairs} \cup {pairs \ {p} : p \in pairs}
                        \cup {pairs \cup {p} : p \in AllPairs \ pairs} :
                decided' \in [judged -> Relationships]
    BY <1>6 DEF Classify
  <2>2. judged \subseteq AllPairs
    BY <1>1, <2>1 DEF TypeOK
  <2>3. DOMAIN decided' \subseteq AllPairs /\ \A p \in DOMAIN decided' : decided'[p] \in Relationships
    BY <2>1, <2>2
  <2>4. TypeOK' /\ Placed'
    BY <1>1, <1>6, <2>3 DEF Classify, TypeOK, Placed, Steps
  <2>5. ReportIsRanked'
    BY <1>4, <1>6 DEF Report, Classify
  <2> QED BY <1>2, <2>4, <2>5 DEF IInv
<1>7. CASE RepairStrand
  <2>1. strands' \subseteq Strand /\ Placed'
    <3>1. position' = position + 1 /\ position \in Nat
      BY <1>1, <1>7 DEF RepairStrand, TypeOK
    <3>2. CASE UNCHANGED strands
      <4>1. \A s \in strands : s.at \in Nat
        BY <1>1 DEF TypeOK, Strand
      <4> QED BY <1>1, <3>1, <3>2, <4>1 DEF TypeOK, Placed
    <3>3. ASSUME NEW source \in SourceStrand, NEW family \in Family,
                 IsChosen(family, source, Known(source)), Keep(source, family)
          PROVE  strands' \subseteq Strand /\ Placed'
      BY <1>1, <3>1, <3>3, KeepPlaces
    <3> QED BY <1>7, <3>2, <3>3 DEF RepairStrand
  <2>2. TypeOK'
    BY <1>1, <1>7, <2>1 DEF RepairStrand, TypeOK
  <2>3. ReportIsRanked'
    BY <1>4, <1>7 DEF Report, RepairStrand
  <2> QED BY <1>2, <2>1, <2>2, <2>3 DEF IInv
<1>8. CASE RepairExclusions
  <2>1. excluded' \subseteq Evidence
    BY <1>2 DEF Repaired, ExclusionsAreSound
  <2>2. TypeOK' /\ Placed'
    BY <1>1, <1>8, <2>1 DEF RepairExclusions, TypeOK, Placed, Steps
  <2>3. ReportIsRanked'
    BY <1>4, <1>8 DEF Report, RepairExclusions
  <2> QED BY <1>2, <2>2, <2>3 DEF IInv
<1>9. CASE Discard
  <2>1. strands' \subseteq strands
    BY <1>9 DEF Discard
  <2>2. IsFiniteSet(strands')
    BY <1>1, <2>1, FS_Subset DEF Placed
  <2>3. TypeOK' /\ Placed'
    BY <1>1, <1>9, <2>1, <2>2 DEF Discard, TypeOK, Placed, Steps
  <2>4. ReportIsRanked'
    BY <1>4, <1>9 DEF Report, Discard
  <2> QED BY <1>2, <2>3, <2>4 DEF IInv
<1> QED BY <1>3, <1>5, <1>6, <1>7, <1>8, <1>9 DEF Next

\* TypeOK, with what it takes to keep it: the validation rules, the places of
\* the strands, and that the report is the ranking of the strands kept.
THEOREM AnalysisInvariant == Spec => []IInv
<1>1. IInv /\ [Next]_vars => IInv'
  BY IInvStep
<1> QED BY InitIInv, <1>1, PTL DEF Spec

\* For any answer of the classifier, what is kept of it is well-formed.
THEOREM AnalysisTypeOK == Spec => []TypeOK
<1>1. IInv => TypeOK
  BY DEF IInv
<1> QED BY AnalysisInvariant, <1>1, PTL

-----------------------------------------------------------------------------
(* What the report promises.                                               *)

LEMMA ShownAreRecurring ==
    ASSUME IInv, NEW i \in DOMAIN insights
    PROVE  /\ step = "done" /\ insights = Ranked
           /\ insights[i] \in strands /\ Recurs(insights[i])
<1>1. step = "done" /\ insights = Ranked
  BY DEF IInv, ReportIsRanked
<1>2. Ranked \in Seq(Recurring)
  BY RankedIsSorted DEF IInv
<1> QED BY <1>1, <1>2 DEF Recurring

LEMMA EachMistakeIsReported ==
    ASSUME IInv
    PROVE  EveryMistakeOnce
<1> SUFFICES ASSUME step = "done", NEW e \in Evidence
             PROVE  LET showing == {i \in DOMAIN insights : e \in insights[i].ids}
                    IN  IF e \in feedback THEN showing = {} ELSE Cardinality(showing) = 1
  BY DEF EveryMistakeOnce
<1> DEFINE showing == {i \in DOMAIN insights : e \in insights[i].ids}
<1>1. insights = Ranked /\ feedback = Evidence \ Used(insights)
  BY DEF IInv, ReportIsRanked
<1>2. CASE e \in feedback
  BY <1>1, <1>2 DEF Used
<1>3. CASE e \notin feedback
  <2>1. PICK i \in DOMAIN insights : e \in insights[i].ids
    BY <1>1, <1>3 DEF Used
  <2>2. ASSUME NEW j \in DOMAIN insights, e \in insights[j].ids
        PROVE  j = i
    <3>1. insights[i] \in strands /\ insights[j] \in strands
      BY ShownAreRecurring
    <3>2. insights[i] = insights[j]
      BY <2>1, <2>2, <3>1 DEF IInv, Repaired, StrandsAreSound
    <3> QED BY <1>1, <3>2, RankedIsSorted DEF IInv
  <2>3. showing = {i}
    BY <2>1, <2>2
  <2>4. Cardinality(showing) = 1
    BY <2>3, FS_Singleton
  <2> QED BY <1>3, <2>4
<1> QED BY <1>2, <1>3

\* For any evidence and any answer: each mistake is in one insight or in the
\* question-level feedback, and in no two places.
THEOREM EachMistakeOnce == Spec => []EveryMistakeOnce
<1>1. IInv => EveryMistakeOnce
  BY EachMistakeIsReported
<1> QED BY AnalysisInvariant, <1>1, PTL

LEMMA EachInsightIsSupported ==
    ASSUME IInv
    PROVE  InsightsAreSupported
<1> SUFFICES ASSUME NEW i \in DOMAIN insights
             PROVE  LET ids == insights[i].ids
                    IN  /\ \E a, b \in ids : ReportOf[a] # ReportOf[b]
                        /\ \A pair \in pairs : pair \subseteq ids =>
                              decided[pair] = "same_underlying_gap"
                        /\ Joined(ids)
  BY DEF InsightsAreSupported, Joined
<1> DEFINE s == insights[i]
<1>1. step = "done" /\ s \in strands /\ Recurs(s)
  BY ShownAreRecurring
<1> HIDE DEF s
<1>2. s \in Strand
  BY <1>1 DEF IInv, TypeOK
<1>3. Cardinality(Reports(s)) >= 2
  BY <1>1 DEF Recurs
<1>4. \E a, b \in s.ids : ReportOf[a] # ReportOf[b]
  <2> SUFFICES ASSUME \A a, b \in s.ids : ReportOf[a] = ReportOf[b]
               PROVE  FALSE
    OBVIOUS
  <2>1. PICK a \in s.ids : TRUE
    BY <1>2 DEF Strand
  <2>2. Reports(s) = {ReportOf[a]}
    BY <2>1 DEF Reports
  <2>3. Cardinality(Reports(s)) = 1
    BY <2>2, FS_Singleton
  <2> QED BY <1>3, <2>3
<1>5. Supported(s.ids)
  <2>1. ~(Cardinality(s.ids) < 2)
    BY <1>2, <1>3, StrandCounts
  <2>2. IsKept(s)
    BY <1>1 DEF IInv, Repaired, OnlySupported
  <2> QED BY <2>1, <2>2 DEF IsKept
<1>6. DOMAIN decided = pairs
  BY <1>1 DEF IInv, Repaired, AllDecided
<1>7. Joined(s.ids)
  BY <1>5, SupportedIsJoined
<1>8. \A pair \in pairs : pair \subseteq s.ids => decided[pair] = "same_underlying_gap"
  BY <1>5, <1>6 DEF Supported, Consistent
<1> QED BY <1>4, <1>7, <1>8 DEF s

\* For any answer: an insight spans two reports and rests on judgements of the
\* classifier itself, none of which it contradicts.
THEOREM EveryInsightIsSupported == Spec => []InsightsAreSupported
<1>1. IInv => InsightsAreSupported
  BY EachInsightIsSupported
<1> QED BY AnalysisInvariant, <1>1, PTL

\* For any bound on the insights: those shown are the best of the recurring.
THEOREM ShownAreBest == Spec => []ShownOutrankOmitted
<1>1. IInv => ShownOutrankOmitted
  <2> SUFFICES ASSUME IInv, step = "done", NEW s \in strands, Recurs(s),
                      s \notin {insights[i] : i \in DOMAIN insights},
                      NEW i \in DOMAIN insights, Outranks(s, insights[i])
               PROVE  FALSE
    BY DEF ShownOutrankOmitted
  <2>1. insights = Ranked /\ s \in Recurring
    BY ShownAreRecurring DEF Recurring
  <2>2. ShownBefore(insights[i], s)
    BY <2>1, RankedIsSorted DEF IInv
  <2>3. s \in Strand /\ insights[i] \in Strand
    BY ShownAreRecurring DEF IInv, TypeOK
  <2>4. Outranks(insights[i], s)
    BY <2>2 DEF ShownBefore
  <2>5. /\ Cardinality(s.ids) \in Nat /\ Cardinality(Reports(s)) \in Nat
        /\ Cardinality(insights[i].ids) \in Nat /\ Cardinality(Reports(insights[i])) \in Nat
    BY <2>3, StrandCounts
  <2> QED BY <2>4, <2>5 DEF Outranks
<1> QED BY AnalysisInvariant, <1>1, PTL

\* No chapter with repeated mistakes that is left out weighs more than one
\* that is listed (weightage.py:79-95).
ListedOutweighOmitted ==
    \A i \in DOMAIN priorities : \A c \in Chapter :
        \/ Mistakes(c) < 2
        \/ \E j \in DOMAIN priorities : priorities[j] = c
        \/ Weight[c] =< Weight[priorities[i]]

\* For any curriculum and bound: no chapter left out weighs more than one listed.
THEOREM ListedAreHeaviest == Spec => []ListedOutweighOmitted
<1>1. IInv => ListedOutweighOmitted
  <2> SUFFICES ASSUME IInv, NEW i \in DOMAIN priorities, NEW c \in Chapter,
                      ~(Mistakes(c) < 2), ~\E j \in DOMAIN priorities : priorities[j] = c
               PROVE  Weight[c] =< Weight[priorities[i]]
    BY DEF ListedOutweighOmitted
  <2>1. priorities = Priorities
    BY DEF IInv, ReportIsRanked, ListedPriorities
  <2>2. Mistakes(c) \in Nat
    BY AnalysisAssumptions, FS_Subset, FS_CardinalityType DEF Mistakes
  <2>3. c \in Repeated
    BY <2>2 DEF Repeated
  <2>4. Heavier(priorities[i], c)
    BY <2>1, <2>3, PrioritiesAreSorted
  <2>5. priorities[i] \in Chapter
    BY <2>1, PrioritiesAreSorted
  <2>6. Weight[c] \in Nat /\ Weight[priorities[i]] \in Nat
    BY <2>5, AnalysisAssumptions
  <2> QED BY <2>4, <2>6 DEF Heavier
<1> QED BY AnalysisInvariant, <1>1, PTL
=============================================================================
