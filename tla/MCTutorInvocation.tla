------------------------- MODULE MCTutorInvocation -------------------------
(* A small instance of TutorInvocation: two requests of one key with the    *)
(* same payload, and one of the same key with another payload and no        *)
(* recipient.                                                               *)
EXTENDS TutorInvocation, TLC

CONSTANTS r1, r2, r3, k1, same, other

MCRequests == {r1, r2, r3}
MCKeyed == {r1, r2, r3}
MCKeys == {k1}
MCKeyOf == [r \in MCKeyed |-> k1]
MCFingerprintOf == [r \in MCKeyed |-> IF r = r3 THEN other ELSE same]
MCWantsEmail == {r1, r2}

\* r1 and r2 have the same payload and key.
MCSymmetry == Permutations({r1, r2})
=============================================================================
