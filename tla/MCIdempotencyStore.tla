------------------------ MODULE MCIdempotencyStore ------------------------
(* A small instance of IdempotencyStore: three calls of one key, two of     *)
(* which have the same payload, and one call of another key.  A response is *)
(* identified with the call that produced it.                               *)
EXTENDS IdempotencyStore

CONSTANTS r1, r2, r3, r4, k1, k2, same, other

MCRequests == {r1, r2, r3, r4}
MCKeys == {k1, k2}
MCKeyOf == [r \in MCRequests |-> IF r = r4 THEN k2 ELSE k1]
MCFingerprintOf == [r \in MCRequests |-> IF r = r3 THEN other ELSE same]
MCProducerOf == [r \in MCRequests |-> r]
=============================================================================
