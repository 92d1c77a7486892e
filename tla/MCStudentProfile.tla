-------------------------- MODULE MCStudentProfile --------------------------
(* A small instance of StudentProfile: two runs of one key with a           *)
(* recipient, a third of another key that only saves its artifacts under    *)
(* the same prefix, and two profile requests.                               *)
EXTENDS StudentProfile, TLC

CONSTANTS a1, a2, b1, ka, kb, tests, p1, p2, small

MCRun == {a1, a2, b1}
MCKey == {ka, kb}
MCKeyOf == [r \in MCRun |-> IF r = b1 THEN kb ELSE ka]
MCPrefix == {tests}
MCPrefixOf == [k \in MCKey |-> tests]
MCMailed == {ka}
MCSaved == {kb}
MCRequest == {p1, p2}
MCModel == {small}
MCModelOf == [p \in MCRequest |-> small]

MCSymmetry == Permutations({a1, a2}) \cup Permutations({p1, p2})

\* Bounds on what overlaps.  The workers and the requests both read what the
\* runs write and nothing of each other, so no behaviour has steps of both;
\* one request works at a time, the second begins when the cache is filled
\* and no run is under way;
\* two runs are under way at a time, one while a request works; b1
\* begins before the first request and its report is a short one.
MCOverlap ==
    /\ \/ \A r \in Run : tries[r] = 0 /\ attached[r] = {}
       \/ \A p \in Request : phase[p] = "idle"
    /\ Cardinality({p \in Request : phase[p] \notin Ended \cup {"idle"}}) =< 1
    /\ \/ \A p \in Request : phase[p] \in Ended \cup {"idle"}
       \/ Cardinality({r \in Run : pc[r] \notin {"new", "done"}}) =< 1
    /\ (\A p \in Request : phase[p] # "idle")
          => \A r \in Run : pc[r] \in {"new", "done"}
    /\ pc[b1] = "new" => \A p \in Request : phase[p] = "idle"
    /\ DOMAIN cache = {} => Cardinality({p \in Request : phase[p] # "idle"}) =< 1
    /\ Cardinality({r \in Run : pc[r] \notin {"new", "done"}}) =< 2
    /\ questions[b1] =< 1
=============================================================================
