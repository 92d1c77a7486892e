-------------------------- MODULE MCStrandAnalysis --------------------------
(* A small instance of StrandAnalysis: five items of two families from two  *)
(* reports, answers of at most three strands, one insight and one chapter     *)
(* shown.                                                                   *)
EXTENDS StrandAnalysis

MCEvidence == 1..5
MCInvented == {9}
MCFamily == {"optics", "waves", "heat"}
MCFamilyOf == <<"optics", "optics", "optics", "optics", "waves">>
MCReportOf == <<"r1", "r2", "r1", "r2", "r1">>
MCChapter == 1..3
MCWeight == <<2, 3, 3>>
MCMistakesIn == <<{1, 2, 3}, {4}, {3, 5}>>

\* What answers are made of: ids unknown, repeated by the next strand, of two
\* families in a tie, or of one; declared right, wrong or not at all.
MCIds == {<<1>>, <<9>>, <<2, 1>>, <<3, 4>>, <<5, 1>>, <<1, 5>>, <<4, 9>>,
          <<1, 2, 3>>, <<2, 5, 3>>, <<4, 3, 2, 1>>, <<4, 3, 5>>}
MCSourceStrand ==
    [ids : MCIds, family : MCFamily, confidence : {"high", "medium"}]
    \cup [ids : {<<2, 1>>}, family : {"optics"}, confidence : {"low"}]
=============================================================================
