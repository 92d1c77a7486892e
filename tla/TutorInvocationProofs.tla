----------------------- MODULE TutorInvocationProofs -----------------------
(***************************************************************************)
(* Theorems about TutorInvocation, for any requests, keys, payloads and    *)
(* numbers of concurrent requests and failures.  The service uses the      *)
(* idempotency store as IdempotencyStore says a caller does, because where *)
(* a thread stands and what its claim was answered go together, so what is *)
(* proved of the store holds of the service.  And the row of a request     *)
(* that no duplicate has joined is what its thread last wrote.             *)
(***************************************************************************)
EXTENDS TutorInvocation, TLAPS

Labels == {"new"} \cup Answering \cup Working \cup Ended
ClaimStates == {"none", "acquired", "completed", "in_progress", "conflict"}

\* A thread of r may stand at label l, with the answer c to its claim and the
\* response x in hand: the answer to the claim is where the thread went, a run
\* about to end has an answer of its own, a replayed answer was stored.
Fits(r, l, c, x) ==
    /\ l \in Labels
    /\ c \in ClaimStates
    /\ r \notin Keyed => c = "none" /\ l \notin Answering
    /\ l \in {"new", "received"} => c = "none"
    /\ l = "replaying" => c = "completed"
    /\ l = "busy" => c = "in_progress"
    /\ l = "refused" => c = "conflict"
    /\ l \in Working \cup {"abandoned"} /\ r \in Keyed => c = "acquired"
    /\ l \in {"recording", "concluding"} => x \in ResponseOf(r)
    /\ c = "completed" => x \in StoredResponses
    /\ x \in {NoResponse} \cup ResponseOf(r) \cup StoredResponses

ThreadsOK ==
    /\ pc = [r \in Requests |-> pc[r]]
    /\ claim = [r \in Requests |-> claim[r]]
    /\ response = [r \in Requests |-> response[r]]
    /\ \A r \in Requests : Fits(r, pc[r], claim[r], response[r])
    /\ forgotten \subseteq Keyed
    /\ \A r \in forgotten : claim[r] = "acquired" /\ pc[r] \in Ended

StoredOK ==
    /\ entries = [k \in DOMAIN entries |-> entries[k]]
    /\ DOMAIN entries \subseteq Keys
    /\ \A k \in DOMAIN entries : entries[k] \in Store!Entry

ServiceInv == ThreadsOK /\ StoredOK

-----------------------------------------------------------------------------
(* Steps of one thread.                                                    *)

\* The thread of r goes on at l, with the claim c and the response x.
Moves(r, l, c, x) ==
    /\ pc[r] \notin Ended
    /\ pc' = [pc EXCEPT ![r] = l]
    /\ claim' = [claim EXCEPT ![r] = c]
    /\ response' = [response EXCEPT ![r] = x]
    /\ forgotten' = forgotten

LEMMA InitService == Init => ServiceInv
BY InvocationAssumptions
   DEF Init, ServiceInv, ThreadsOK, StoredOK, Fits, Labels, ClaimStates, Answering,
       Working, Ended

LEMMA MovesFit ==
    ASSUME ThreadsOK, NEW r \in Requests, NEW l, NEW c, NEW x,
           Moves(r, l, c, x), Fits(r, l, c, x)
    PROVE  ThreadsOK'
<1>1. /\ pc' = [q \in Requests |-> pc'[q]]
      /\ claim' = [q \in Requests |-> claim'[q]]
      /\ response' = [q \in Requests |-> response'[q]]
  BY DEF ThreadsOK, Moves
<1>2. ASSUME NEW q \in Requests
      PROVE  Fits(q, pc'[q], claim'[q], response'[q])
  <2>1. CASE q = r
    BY <2>1 DEF ThreadsOK, Moves
  <2>2. CASE q # r
    BY <2>2 DEF ThreadsOK, Moves
  <2> QED BY <2>1, <2>2
<1>3. \A q \in Requests : Fits(q, pc[q], claim[q], response[q])'
  BY <1>2 DEF Fits, ResponseOf, StoredResponses
<1>4. ASSUME NEW q \in forgotten'
      PROVE  claim'[q] = "acquired" /\ pc'[q] \in Ended
  BY InvocationAssumptions DEF ThreadsOK, Moves
<1> QED BY <1>1, <1>3, <1>4 DEF ThreadsOK, Moves, Ended

\* A step that leaves claim and response alone moves the thread on with both.
LEMMA SameAnswers ==
    ASSUME ThreadsOK, NEW r \in Requests, NEW l,
           pc[r] \notin Ended, pc' = [pc EXCEPT ![r] = l],
           UNCHANGED <<claim, forgotten>>
    PROVE  /\ UNCHANGED response => Moves(r, l, claim[r], response[r])
           /\ \A x : Reply(r, x) => Moves(r, l, claim[r], x)
BY DEF ThreadsOK, Moves, Reply

LEMMA FailureOf ==
    ASSUME NEW r, NEW outcome \in Outcomes
    PROVE  Failure(r, outcome) \in ResponseOf(r)
BY DEF Failure, ResponseOf, EmailStates

\* The thread of r goes on at l with the response x, and to the store it is the
\* same caller as before, unless its claim leaks.
Quiet(r, l, x) ==
    /\ claim[r] = "acquired" =>
          l \in Working \/ (l = "raised" /\ pc[r] = "admitted")
    /\ claim[r] = "completed" => x = response[r]

InnerMove(r) ==
    \E l, x : Moves(r, l, claim[r], x) /\ Fits(r, l, claim[r], x) /\ Quiet(r, l, x)

\* Every step of a thread but the two that end it on the store, and the claim.
Inner(r) ==
    \/ Receive(r) \/ Replay(r) \/ RefuseBusy(r) \/ RefuseConflict(r) \/ Admit(r)
    \/ ResolveFails(r) \/ InputBlocked(r) \/ StartWorkflow(r) \/ RecordFailure(r)
    \/ WriteArtifacts(r) \/ RequestEmail(r) \/ RecordSuccess(r)

LEMMA InnerMoves ==
    ASSUME ThreadsOK, NEW r \in Requests, Inner(r)
    PROVE  InnerMove(r)
<1> DEFINE To(l) == pc' = [pc EXCEPT ![r] = l]
           Was == Fits(r, pc[r], claim[r], response[r])
<1>0. Was
  BY DEF ThreadsOK
<1>1. ASSUME NEW l \in Labels, To(l), pc[r] \notin Ended,
             UNCHANGED <<claim, response, forgotten>>,
             Fits(r, l, claim[r], response[r]), Quiet(r, l, response[r])
      PROVE  InnerMove(r)
  BY <1>1, SameAnswers DEF InnerMove
<1>2. ASSUME NEW l \in Labels, NEW x, To(l), pc[r] \notin Ended, Reply(r, x),
             UNCHANGED <<claim, forgotten>>,
             Fits(r, l, claim[r], x), Quiet(r, l, x)
      PROVE  InnerMove(r)
  BY <1>2, SameAnswers DEF InnerMove
<1>3. CASE Receive(r)
  <2> DEFINE next == IF r \in Keyed THEN "received" ELSE "admitted"
  <2>1. (To(next) \/ To("raised")) /\ UNCHANGED <<claim, response, forgotten>>
    BY <1>3 DEF Receive, Record, Goto
  <2>2. /\ Fits(r, next, claim[r], response[r])
        /\ Fits(r, "raised", claim[r], response[r])
        /\ Quiet(r, next, response[r])
        /\ Quiet(r, "raised", response[r])
    BY <1>0, <1>3 DEF Receive, Fits, Quiet, Labels, Answering, Working, Ended
  <2> QED BY <1>1, <1>3, <2>1, <2>2
          DEF Receive, Labels, Answering, Working, Ended
<1>4. CASE Replay(r) \/ RefuseBusy(r) \/ RefuseConflict(r)
  <2>1. /\ To("returned") \/ To("raised")
        /\ UNCHANGED <<claim, response, forgotten>>
        /\ pc[r] \in Answering
    BY <1>4
       DEF Replay, RefuseBusy, RefuseConflict, Refuse, Answering, Record, Goto
  <2>2. /\ Fits(r, "returned", claim[r], response[r])
        /\ Fits(r, "raised", claim[r], response[r])
        /\ Quiet(r, "returned", response[r])
        /\ Quiet(r, "raised", response[r])
    BY <1>0, <2>1 DEF Fits, Quiet, Labels, Answering, Working, Ended
  <2> QED BY <1>1, <2>1, <2>2 DEF Labels, Answering, Ended
<1>5. CASE Admit(r)
  <2>1. /\ To("validated") \/ To("raised")
        /\ UNCHANGED <<claim, response, forgotten>>
        /\ pc[r] = "admitted"
    BY <1>5 DEF Admit, Record, Goto
  <2>2. /\ Fits(r, "validated", claim[r], response[r])
        /\ Fits(r, "raised", claim[r], response[r])
        /\ Quiet(r, "validated", response[r])
        /\ Quiet(r, "raised", response[r])
    BY <1>0, <2>1 DEF Fits, Quiet, Labels, Answering, Working, Ended
  <2> QED BY <1>1, <2>1, <2>2 DEF Labels, Working, Ended
<1>6. CASE ResolveFails(r) \/ InputBlocked(r) \/ RecordFailure(r)
  <2>1. PICK outcome \in Outcomes :
           /\ To("concluding") \/ To("abandoning")
           /\ Reply(r, Failure(r, outcome))
           /\ UNCHANGED <<claim, forgotten>>
           /\ pc[r] \in Working
    BY <1>6
       DEF ResolveFails, InputBlocked, RecordFailure, Goto, Outcomes, Working, Record
  <2>2. /\ Fits(r, "concluding", claim[r], Failure(r, outcome))
        /\ Fits(r, "abandoning", claim[r], Failure(r, outcome))
        /\ Quiet(r, "concluding", Failure(r, outcome))
        /\ Quiet(r, "abandoning", Failure(r, outcome))
    <3>1. claim[r] # "completed"
      BY <1>0, <2>1 DEF Fits
    <3> QED BY <1>0, <2>1, <3>1, FailureOf
            DEF Fits, Quiet, Labels, Answering, Working, Ended
  <2> QED BY <1>2, <2>1, <2>2 DEF Labels, Working, Ended
<1>7. CASE StartWorkflow(r)
  <2>1. /\ To("running") \/ To("failing")
        /\ UNCHANGED <<claim, response, forgotten>>
        /\ pc[r] = "validated"
    BY <1>7 DEF StartWorkflow, Record, Goto
  <2>2. /\ Fits(r, "running", claim[r], response[r])
        /\ Fits(r, "failing", claim[r], response[r])
        /\ Quiet(r, "running", response[r])
        /\ Quiet(r, "failing", response[r])
    BY <1>0, <2>1 DEF Fits, Quiet, Labels, Answering, Working, Ended
  <2> QED BY <1>1, <2>1, <2>2 DEF Labels, Working, Ended
<1>8. CASE WriteArtifacts(r)
  <2>1. /\ To("stored") \/ To("unstored")
        /\ UNCHANGED <<claim, response, forgotten>>
        /\ pc[r] = "running"
    BY <1>8 DEF WriteArtifacts, Goto
  <2>2. /\ Fits(r, "stored", claim[r], response[r])
        /\ Fits(r, "unstored", claim[r], response[r])
        /\ Quiet(r, "stored", response[r])
        /\ Quiet(r, "unstored", response[r])
    BY <1>0, <2>1 DEF Fits, Quiet, Labels, Answering, Working, Ended
  <2> QED BY <1>1, <2>1, <2>2 DEF Labels, Working, Ended
<1>9. CASE RequestEmail(r)
  <2>1. PICK status \in EmailStates :
           Reply(r, [by |-> r, outcome |-> "succeeded", email |-> status])
    BY <1>9 DEF RequestEmail
  <2>2. /\ To("recording")
        /\ UNCHANGED <<claim, forgotten>>
        /\ pc[r] \in {"stored", "unstored"}
    BY <1>9 DEF RequestEmail, Goto
  <2>3. [by |-> r, outcome |-> "succeeded", email |-> status] \in ResponseOf(r)
    BY DEF ResponseOf, Outcomes
  <2>4. /\ Fits(r, "recording", claim[r],
                [by |-> r, outcome |-> "succeeded", email |-> status])
        /\ Quiet(r, "recording",
                 [by |-> r, outcome |-> "succeeded", email |-> status])
    <3>1. claim[r] # "completed"
      BY <1>0, <2>2 DEF Fits, Working
    <3> QED BY <1>0, <2>2, <2>3, <3>1 DEF Fits, Quiet, Labels, Answering, Working, Ended
  <2> QED BY <1>2, <2>1, <2>2, <2>4 DEF Labels, Working, Ended
<1>10. CASE RecordSuccess(r)
  <2>1. /\ To("concluding") \/ To("abandoning")
        /\ UNCHANGED <<claim, response, forgotten>>
        /\ pc[r] = "recording"
    BY <1>10 DEF RecordSuccess, Record, Goto
  <2>2. /\ Fits(r, "concluding", claim[r], response[r])
        /\ Fits(r, "abandoning", claim[r], response[r])
        /\ Quiet(r, "concluding", response[r])
        /\ Quiet(r, "abandoning", response[r])
    BY <1>0, <2>1 DEF Fits, Quiet, Labels, Answering, Working, Ended
  <2> QED BY <1>1, <2>1, <2>2 DEF Labels, Working, Ended
<1> QED BY <1>3, <1>4, <1>5, <1>6, <1>7, <1>8, <1>9, <1>10 DEF Inner

-----------------------------------------------------------------------------
(* The claim and the end of a claim.                                       *)

\* The store's dictionary holds what its callers put there.
LEMMA StoreKeeps ==
    ASSUME StoredOK, NEW r \in Keyed, InvocationAssumptions
    PROVE  /\ Store!GrantClaim(r) => StoredOK'
           /\ Store!RefuseClaim(r) => StoredOK'
           /\ Store!StoreAbandon(r) => StoredOK'
           /\ \A x \in StoredResponses : Store!StoreComplete(r, x) => StoredOK'
<1>0. KeyOf[r] \in Keys /\ TTL \in Nat \ {0}
  BY DEF InvocationAssumptions
<1>1. ASSUME Store!GrantClaim(r) PROVE StoredOK'
  <2> DEFINE k == KeyOf[r]
  <2>1. Store!NewEntry(r) \in Store!Entry
    BY <1>0 DEF Store!NewEntry, Store!Entry, Store!Fingerprints
  <2>2. entries' = [j \in Store!Unexpired \cup {k} |->
                      IF j = k THEN Store!NewEntry(r) ELSE entries[j]]
    BY <1>1 DEF Store!GrantClaim
  <2> HIDE DEF k
  <2>3. Store!Unexpired \subseteq DOMAIN entries
    BY DEF Store!Unexpired
  <2>4. k \in Keys
    BY <1>0 DEF k
  <2>5. \A j \in DOMAIN entries' : entries'[j] \in Store!Entry
    BY <2>1, <2>2, <2>3 DEF StoredOK
  <2>6. /\ entries' = [j \in DOMAIN entries' |-> entries'[j]]
        /\ DOMAIN entries' \subseteq Keys
    BY <2>2, <2>3, <2>4 DEF StoredOK
  <2> QED BY <2>5, <2>6 DEF StoredOK, Store!Entry, Store!Fingerprints
<1>2. ASSUME Store!RefuseClaim(r) PROVE StoredOK'
  BY <1>2 DEF Store!RefuseClaim, Store!Kept, Store!Unexpired, StoredOK, Store!Entry,
              Store!Fingerprints
<1>3. ASSUME Store!StoreAbandon(r) PROVE StoredOK'
  BY <1>3 DEF Store!StoreAbandon, StoredOK, Store!Entry, Store!Fingerprints
<1>4. ASSUME NEW x \in StoredResponses, Store!StoreComplete(r, x)
      PROVE  StoredOK'
  <2> DEFINE k == KeyOf[r]
  <2>1. CASE k \in DOMAIN entries
    <3>1. entries' = [entries EXCEPT ![k].response = x]
      BY <1>4, <2>1 DEF Store!StoreComplete
    <3>2. [entries[k] EXCEPT !.response = x] \in Store!Entry
      BY <1>4, <2>1 DEF StoredOK, Store!Entry
    <3> HIDE DEF k
    <3>3. \A j \in DOMAIN entries : entries'[j] \in Store!Entry
      BY <3>1, <3>2 DEF StoredOK
    <3>4. /\ entries' = [j \in DOMAIN entries' |-> entries'[j]]
          /\ DOMAIN entries' = DOMAIN entries
      BY <3>1 DEF StoredOK
    <3> QED BY <3>3, <3>4 DEF StoredOK, Store!Entry, Store!Fingerprints
  <2>2. CASE k \notin DOMAIN entries
    BY <1>4, <2>2 DEF Store!StoreComplete, StoredOK, Store!Entry, Store!Fingerprints
  <2> QED BY <2>1, <2>2
<1> QED BY <1>1, <1>2, <1>3, <1>4

-----------------------------------------------------------------------------
(* What the store sees of a step.                                          *)

Calls == [r \in Keyed |-> CallView(r)]
Answers == [r \in Keyed |-> AnswerView(r)]

\* The caller that a thread at l with the answer c to its claim is.
CallAt(l, c) ==
    CASE c = "none" -> "new"
      [] c = "completed" -> "replayed"
      [] c = "in_progress" -> "busy"
      [] c = "conflict" -> "conflict"
      [] c = "acquired" -> CASE l = "returned" -> "completed"
                             [] l = "abandoned" -> "abandoned"
                             [] l = "raised" -> "leaked"
                             [] OTHER -> "holding"

LEMMA ViewOfThread ==
    ASSUME NEW r \in Requests, r \notin forgotten, claim[r] \in ClaimStates
    PROVE  CallView(r) = CallAt(pc[r], claim[r])
BY DEF CallView, CallAt, ClaimStates

\* A step of one thread changes what the store sees of that thread alone.
LEMMA ViewsMove ==
    ASSUME ThreadsOK, NEW r \in Keyed, InvocationAssumptions, NEW l,
           NEW c \in ClaimStates, NEW x, Moves(r, l, c, x)
    PROVE  /\ r \notin forgotten
           /\ Calls[r] = CallAt(pc[r], claim[r])
           /\ Calls' = [Calls EXCEPT ![r] = CallAt(l, c)]
           /\ Answers' = [Answers EXCEPT ![r] =
                             IF c = "completed" THEN x ELSE NoResponse]
<1>1. r \in Requests /\ Keyed \subseteq Requests
  BY DEF InvocationAssumptions
<1>2. r \notin forgotten
  BY DEF ThreadsOK, Moves
<1>3. CallView(r) = CallAt(pc[r], claim[r])
  BY <1>1, <1>2, ViewOfThread DEF ThreadsOK, Fits
<1>4. CallView(r)' = CallAt(l, c)
  <2>1. pc'[r] = l /\ claim'[r] = c /\ r \notin forgotten'
    BY <1>1, <1>2 DEF Moves, ThreadsOK
  <2> QED BY <2>1 DEF CallView, CallAt, ClaimStates
<1>5. AnswerView(r)' = IF c = "completed" THEN x ELSE NoResponse
  BY <1>1 DEF Moves, ThreadsOK, AnswerView
<1>6. ASSUME NEW q \in Keyed, q # r
      PROVE  CallView(q)' = CallView(q) /\ AnswerView(q)' = AnswerView(q)
  <2>1. /\ pc'[q] = pc[q] /\ claim'[q] = claim[q] /\ response'[q] = response[q]
        /\ forgotten' = forgotten
    BY <1>1, <1>6 DEF Moves, ThreadsOK
  <2> QED BY <2>1 DEF CallView, AnswerView
<1> QED BY <1>2, <1>3, <1>4, <1>5, <1>6 DEF Calls, Answers

LEMMA UnkeyedMove ==
    ASSUME ThreadsOK, NEW r \in Requests \ Keyed, InvocationAssumptions, NEW l,
           NEW c, NEW x, Moves(r, l, c, x)
    PROVE  Calls' = Calls /\ Answers' = Answers
<1>1. ASSUME NEW q \in Keyed
      PROVE  CallView(q)' = CallView(q) /\ AnswerView(q)' = AnswerView(q)
  <2>1. /\ pc'[q] = pc[q] /\ claim'[q] = claim[q] /\ response'[q] = response[q]
        /\ forgotten' = forgotten
    BY DEF Moves, ThreadsOK, InvocationAssumptions
  <2> QED BY <2>1 DEF CallView, AnswerView
<1> QED BY <1>1 DEF Calls, Answers

\* The steps between the claim and its end are none to the store, or a leak.
LEMMA InnerStep ==
    ASSUME ServiceInv, InvocationAssumptions, NEW r \in Requests, Inner(r)
    PROVE  ServiceInv' /\ [Store!Next]_(Store!storeVars)
<1>1. PICK l, x : /\ Moves(r, l, claim[r], x)
                  /\ Fits(r, l, claim[r], x)
                  /\ Quiet(r, l, x)
  BY InnerMoves DEF ServiceInv, InnerMove
<1>2. UNCHANGED idemVars
  BY DEF Inner, Receive, Replay, RefuseBusy, RefuseConflict, Refuse, Admit,
         ResolveFails, InputBlocked, StartWorkflow, RecordFailure, WriteArtifacts,
         RequestEmail, RecordSuccess
<1>3. ServiceInv'
  BY <1>1, <1>2, MovesFit
     DEF ServiceInv, StoredOK, idemVars, Store!Entry, Store!Fingerprints
<1>4. CASE r \notin Keyed
  BY <1>1, <1>2, <1>3, <1>4, UnkeyedMove
     DEF ServiceInv, Calls, Answers, idemVars, Store!storeVars
<1>5. CASE r \in Keyed
  <2>0. Fits(r, pc[r], claim[r], response[r])
    BY DEF ServiceInv, ThreadsOK
  <2>1. /\ r \notin forgotten
        /\ Calls[r] = CallAt(pc[r], claim[r])
        /\ Calls' = [Calls EXCEPT ![r] = CallAt(l, claim[r])]
        /\ Answers' = [Answers EXCEPT ![r] =
                          IF claim[r] = "completed" THEN x ELSE NoResponse]
    BY <1>1, <1>5, <2>0, ViewsMove DEF ServiceInv, Fits
  <2>2. Answers' = Answers
    BY <1>1, <2>1 DEF Answers, AnswerView, Quiet
  <2>3. CASE claim[r] = "acquired" /\ l = "raised"
    <3>1. pc[r] = "admitted"
      BY <1>1, <2>3 DEF Quiet, Working
    <3>2. Calls[r] = "holding" /\ Calls' = [Calls EXCEPT ![r] = "leaked"]
      BY <2>1, <2>3, <3>1 DEF CallAt
    <3>3. Store!Leak(r)
      BY <1>2, <2>2, <3>2 DEF Store!Leak, Store!Become, Calls, Answers, idemVars
    <3> QED BY <1>3, <1>5, <3>3 DEF Store!Next, Store!Step
  <2>4. CASE ~(claim[r] = "acquired" /\ l = "raised")
    <3>1. CallAt(l, claim[r]) = CallAt(pc[r], claim[r])
      BY <1>1, <2>0, <2>4 DEF CallAt, Quiet, Working, Fits, Moves, Ended
    <3>2. Calls' = Calls
      BY <2>1, <3>1 DEF Calls
    <3> QED BY <1>2, <1>3, <2>2, <3>2
            DEF Calls, Answers, idemVars, Store!storeVars
  <2> QED BY <2>3, <2>4
<1> QED BY <1>3, <1>4, <1>5

\* The steps on the store are the store's own.
LEMMA ClaimStep ==
    ASSUME ServiceInv, InvocationAssumptions, NEW r \in Requests, ClaimKey(r)
    PROVE  ServiceInv' /\ [Store!Next]_(Store!storeVars)
<1> DEFINE Goes(l, c, x) == Moves(r, l, c, x) /\ Fits(r, l, c, x)
<1>0. Fits(r, pc[r], claim[r], response[r]) /\ pc[r] = "received"
  BY DEF ServiceInv, ThreadsOK, ClaimKey
<1>1. r \in Keyed /\ claim[r] = "none"
  BY <1>0 DEF Fits, Answering
<1>2. CallAt(pc[r], claim[r]) = "new"
  BY <1>1 DEF CallAt
<1>3. ASSUME NEW l, NEW c \in ClaimStates, NEW x, Goes(l, c, x)
      PROVE  /\ ThreadsOK'
             /\ Calls[r] = "new"
             /\ Calls' = [Calls EXCEPT ![r] = CallAt(l, c)]
             /\ Answers' = [Answers EXCEPT ![r] =
                               IF c = "completed" THEN x ELSE NoResponse]
  BY <1>1, <1>2, <1>3, MovesFit, ViewsMove DEF ServiceInv
<1>4. Answers = [Answers EXCEPT ![r] = NoResponse]
  BY <1>1 DEF Answers, AnswerView
<1>5. CASE /\ Store!GrantClaim(r) /\ Claimed(r, "acquired")
           /\ Goto(r, "admitted") /\ UNCHANGED response
  <2>1. Goes("admitted", "acquired", response[r])
    BY <1>0, <1>1, <1>5
       DEF ServiceInv, ThreadsOK, Moves, Fits, ClaimKey, Goto, Claimed, Labels,
           ClaimStates, Answering, Working, Ended
  <2>2. Store!Acquire(r)
    BY <1>3, <1>4, <1>5, <2>1
       DEF Store!Acquire, Store!Become, Calls, Answers, CallAt, ClaimStates
  <2>3. StoredOK'
    BY <1>1, <1>5, StoreKeeps DEF ServiceInv
  <2> QED BY <1>1, <1>3, <2>1, <2>2, <2>3
          DEF ServiceInv, Store!Next, Store!Step, ClaimStates
<1>6. CASE /\ Store!ClaimCompleted(r) /\ Claimed(r, "completed")
           /\ Goto(r, "replaying") /\ Reply(r, entries[KeyOf[r]].response)
  <2> DEFINE x == entries[KeyOf[r]].response
  <2>0. x \in StoredResponses
    BY <1>6 DEF ServiceInv, StoredOK, Store!ClaimCompleted, Store!RefuseClaim,
                Store!Answered, Store!Unexpired, Store!Entry
  <2>1. Goes("replaying", "completed", x)
    BY <1>0, <1>1, <1>6, <2>0
       DEF Moves, Fits, ClaimKey, Goto, Claimed, Reply, Labels,
           ClaimStates, Answering, Working, Ended
  <2>2. Store!Replay(r)
    BY <1>3, <1>6, <2>1
       DEF Store!Replay, Store!Become, Calls, Answers, CallAt, ClaimStates
  <2>3. StoredOK'
    BY <1>1, <1>6, StoreKeeps DEF ServiceInv, Store!ClaimCompleted
  <2> QED BY <1>1, <1>3, <2>1, <2>2, <2>3
          DEF ServiceInv, Store!Next, Store!Step, ClaimStates
<1>7. CASE /\ Store!ClaimInProgress(r) /\ Claimed(r, "in_progress")
           /\ Goto(r, "busy") /\ Reply(r, Failure(r, "rejected"))
  <2> DEFINE x == Failure(r, "rejected")
  <2>0. x \in ResponseOf(r)
    BY FailureOf DEF Outcomes
  <2>1. Goes("busy", "in_progress", x)
    BY <1>0, <1>1, <1>7, <2>0
       DEF Moves, Fits, ClaimKey, Goto, Claimed, Reply, Labels,
           ClaimStates, Answering, Working, Ended
  <2>2. Store!Busy(r)
    BY <1>3, <1>4, <1>7, <2>1
       DEF Store!Busy, Store!Become, Calls, Answers, CallAt, ClaimStates
  <2>3. StoredOK'
    BY <1>1, <1>7, StoreKeeps DEF ServiceInv, Store!ClaimInProgress
  <2> QED BY <1>1, <1>3, <2>1, <2>2, <2>3
          DEF ServiceInv, Store!Next, Store!Step, ClaimStates
<1>8. CASE /\ Store!ClaimConflicts(r) /\ Claimed(r, "conflict")
           /\ Goto(r, "refused") /\ Reply(r, Failure(r, "rejected"))
  <2> DEFINE x == Failure(r, "rejected")
  <2>0. x \in ResponseOf(r)
    BY FailureOf DEF Outcomes
  <2>1. Goes("refused", "conflict", x)
    BY <1>0, <1>1, <1>8, <2>0
       DEF Moves, Fits, ClaimKey, Goto, Claimed, Reply, Labels,
           ClaimStates, Answering, Working, Ended
  <2>2. Store!Conflict(r)
    BY <1>3, <1>4, <1>8, <2>1
       DEF Store!Conflict, Store!Become, Calls, Answers, CallAt, ClaimStates
  <2>3. StoredOK'
    BY <1>1, <1>8, StoreKeeps DEF ServiceInv, Store!ClaimConflicts
  <2> QED BY <1>1, <1>3, <2>1, <2>2, <2>3
          DEF ServiceInv, Store!Next, Store!Step, ClaimStates
<1> QED BY <1>5, <1>6, <1>7, <1>8 DEF ClaimKey

LEMMA EndStep ==
    ASSUME ServiceInv, InvocationAssumptions, NEW r \in Requests,
           Abandon(r) \/ Conclude(r)
    PROVE  ServiceInv' /\ [Store!Next]_(Store!storeVars)
<1> DEFINE l == IF pc[r] = "abandoning" THEN "abandoned" ELSE "returned"
<1>0. Fits(r, pc[r], claim[r], response[r]) /\ pc[r] \in {"abandoning", "concluding"}
  BY DEF ServiceInv, ThreadsOK, Abandon, Conclude
<1>1. Moves(r, l, claim[r], response[r])
  BY <1>0 DEF ServiceInv, ThreadsOK, Moves, Abandon, Conclude, Goto, Ended
<1>2. Fits(r, l, claim[r], response[r])
  BY <1>0 DEF Fits, Labels, Answering, Working, Ended
<1>3. ThreadsOK'
  BY <1>1, <1>2, MovesFit DEF ServiceInv
<1>4. CASE r \notin Keyed
  <2>1. UNCHANGED idemVars
    BY <1>4 DEF Abandon, Conclude
  <2>2. Calls' = Calls /\ Answers' = Answers
    BY <1>1, <1>4, UnkeyedMove DEF ServiceInv
  <2> QED BY <1>3, <2>1, <2>2
          DEF ServiceInv, StoredOK, Calls, Answers, idemVars, Store!storeVars,
              Store!Entry, Store!Fingerprints
<1>5. CASE r \in Keyed
  <2>1. /\ claim[r] = "acquired"
        /\ pc[r] = "concluding" => response[r] \in ResponseOf(r)
    BY <1>0, <1>5 DEF Fits, Working
  <2>2. /\ Calls[r] = "holding"
        /\ Calls' = [Calls EXCEPT ![r] = CallAt(l, "acquired")]
        /\ Answers' = [Answers EXCEPT ![r] = NoResponse]
    <3> HIDE DEF l
    <3>1. claim[r] \in ClaimStates
      BY <2>1 DEF ClaimStates
    <3>2. /\ Calls[r] = CallAt(pc[r], claim[r])
          /\ Calls' = [Calls EXCEPT ![r] = CallAt(l, claim[r])]
          /\ Answers' = [Answers EXCEPT ![r] =
                            IF claim[r] = "completed" THEN response[r] ELSE NoResponse]
      BY <1>1, <1>5, <3>1, ViewsMove DEF ServiceInv
    <3>3. CallAt(pc[r], "acquired") = "holding"
      BY <1>0 DEF CallAt
    <3> QED BY <2>1, <3>2, <3>3
  <2>3. Answers' = Answers
    BY <2>1, <2>2 DEF Answers, AnswerView
  <2>4. CASE Abandon(r)
    <3>1. Calls' = [Calls EXCEPT ![r] = "abandoned"]
      BY <2>2, <2>4 DEF Abandon, CallAt
    <3>2. Store!StoreAbandon(r)
      BY <1>5, <2>4 DEF Abandon
    <3>3. Store!Abandon(r)
      BY <2>2, <2>3, <3>1, <3>2 DEF Store!Abandon, Store!Become, Calls, Answers
    <3> QED BY <1>3, <1>5, <3>2, <3>3, StoreKeeps DEF ServiceInv, Store!Next, Store!Step
  <2>5. CASE Conclude(r)
    <3>1. Calls' = [Calls EXCEPT ![r] = "completed"]
      BY <2>2, <2>5 DEF Conclude, CallAt
    <3>2. Store!StoreComplete(r, response[r])
      BY <1>5, <2>5 DEF Conclude
    <3>3. response[r] \in StoredResponses /\ ResponseProducer[response[r]] = r
      BY <1>5, <2>1, <2>5 DEF Conclude, ResponseOf, StoredResponses, ResponseProducer
    <3>4. Store!Complete(r)
      BY <2>2, <2>3, <3>1, <3>2, <3>3
         DEF Store!Complete, Store!Become, Calls, Answers
    <3> QED BY <1>3, <1>5, <3>2, <3>3, <3>4, StoreKeeps
            DEF ServiceInv, Store!Next, Store!Step
  <2> QED BY <2>4, <2>5
<1> QED BY <1>4, <1>5

\* The death of the process is the store's restart.
LEMMA CrashStep ==
    ASSUME ServiceInv, InvocationAssumptions, Crash
    PROVE  ServiceInv' /\ [Store!Next]_(Store!storeVars)
<1>1. ASSUME NEW r \in Requests
      PROVE  /\ Fits(r, pc[r], claim[r], response[r])
             /\ pc[r] \in Answering \cup Working => pc'[r] = "died"
             /\ pc[r] \notin Answering \cup Working => pc'[r] = pc[r]
             /\ claim'[r] = claim[r] /\ response'[r] = response[r]
  BY DEF ServiceInv, ThreadsOK, Crash
<1>2. forgotten' = forgotten \cup
         {r \in Keyed : claim[r] = "acquired" /\ pc[r] # "abandoned"}
  BY DEF Crash
<1>3. ThreadsOK'
  <2>1. \A r \in Requests : Fits(r, pc[r], claim[r], response[r])'
    BY <1>1 DEF Fits, Labels, Ended, Working, Answering, ResponseOf, StoredResponses
  <2>2. ASSUME NEW r \in forgotten'
        PROVE  claim'[r] = "acquired" /\ pc'[r] \in Ended
    <3>1. r \in Requests
      BY <1>2 DEF InvocationAssumptions, ServiceInv, ThreadsOK
    <3>2. claim[r] = "acquired"
      BY <1>2 DEF ServiceInv, ThreadsOK
    <3>3. pc[r] \in Labels \ {"new"}
      BY <1>1, <3>1, <3>2 DEF Fits
    <3> QED BY <1>1, <3>1, <3>2, <3>3 DEF Labels, Ended
  <2>3. forgotten' \subseteq Keyed
    BY <1>2 DEF ServiceInv, ThreadsOK
  <2>4. /\ pc' = [r \in Requests |-> pc'[r]]
        /\ claim' = [r \in Requests |-> claim'[r]]
        /\ response' = [r \in Requests |-> response'[r]]
    BY DEF Crash, ServiceInv, ThreadsOK
  <2> QED BY <2>1, <2>2, <2>3, <2>4 DEF ThreadsOK, Ended
<1>4. StoredOK'
  BY DEF Crash, Store!StoreRestart, StoredOK
<1>5. ASSUME NEW r \in Keyed
      PROVE  /\ CallView(r)' = IF CallView(r) \in {"holding", "completed", "leaked"}
                               THEN "lost" ELSE CallView(r)
             /\ AnswerView(r)' = AnswerView(r)
  <2>1. r \in Requests
    BY DEF InvocationAssumptions
  <2>2. AnswerView(r)' = AnswerView(r)
    BY <1>1, <2>1 DEF AnswerView
  <2>3. CASE r \in forgotten
    BY <1>2, <2>2, <2>3 DEF CallView
  <2>4. CASE r \notin forgotten
    <3>1. CallView(r) = CallAt(pc[r], claim[r])
      BY <1>1, <2>1, <2>4, ViewOfThread DEF Fits
    <3>2. CASE claim[r] = "acquired" /\ pc[r] # "abandoned"
      BY <1>2, <2>2, <3>1, <3>2 DEF CallView, CallAt
    <3>3. CASE claim[r] # "acquired" \/ pc[r] = "abandoned"
      <4>1. r \notin forgotten'
        BY <1>2, <2>4, <3>3
      <4>2. CallView(r)' = CallAt(pc'[r], claim'[r])
        BY <1>1, <1>3, <2>1, <4>1 DEF CallView, CallAt, ThreadsOK, Fits, ClaimStates
      <4>3. claim[r] = "acquired" => pc'[r] = "abandoned"
        BY <1>1, <2>1, <3>3 DEF Answering, Working
      <4>4. CallAt(pc'[r], claim'[r]) = CallAt(pc[r], claim[r])
        BY <1>1, <2>1, <3>3, <4>3 DEF CallAt, Fits, ClaimStates
      <4>5. CallAt(pc[r], claim[r]) \notin {"holding", "completed", "leaked"}
        BY <1>1, <2>1, <3>3 DEF CallAt, Fits, ClaimStates
      <4> QED BY <2>2, <3>1, <4>2, <4>4, <4>5
    <3> QED BY <3>2, <3>3
  <2> QED BY <2>3, <2>4
<1>6. Store!Restart
  BY <1>5 DEF Store!Restart, Crash
<1> QED BY <1>3, <1>4, <1>6 DEF ServiceInv, Store!Next

LEMMA TickStep ==
    ASSUME ServiceInv, InvocationAssumptions, Tick
    PROVE  ServiceInv' /\ [Store!Next]_(Store!storeVars)
<1>1. UNCHANGED <<threadVars, forgotten>>
  BY DEF Tick
<1>2. ThreadsOK'
  BY <1>1 DEF ServiceInv, ThreadsOK, threadVars, Fits, ResponseOf, StoredResponses
<1>3. StoredOK'
  <2>1. entries' = [k \in DOMAIN entries |-> [entries[k] EXCEPT !.age = Store!Older(@)]]
    BY DEF Tick, Store!StoreTick
  <2>2. \A a \in 0..TTL : Store!Older(a) \in 0..TTL
    BY DEF Store!Older, InvocationAssumptions
  <2>3. ASSUME NEW k \in DOMAIN entries
        PROVE  [entries[k] EXCEPT !.age = Store!Older(@)] \in Store!Entry
    BY <2>2 DEF ServiceInv, StoredOK, Store!Entry
  <2> QED BY <2>1, <2>3 DEF ServiceInv, StoredOK, Store!Entry, Store!Fingerprints
<1>4. Calls' = Calls /\ Answers' = Answers
  BY <1>1 DEF threadVars, Calls, Answers, CallView, AnswerView
<1>5. AtWork = Store!Holding
  BY DEF AtWork, Store!Holding
<1>6. Store!Tick
  BY <1>4, <1>5 DEF Tick, Store!Tick, Calls, Answers
<1> QED BY <1>2, <1>3, <1>6 DEF ServiceInv, Store!Next

LEMMA ServiceStep ==
    ASSUME ServiceInv, InvocationAssumptions, [Next]_vars
    PROVE  ServiceInv' /\ [Store!Next]_(Store!storeVars)
<1>1. ASSUME NEW r \in Requests, Thread(r)
      PROVE  ServiceInv' /\ [Store!Next]_(Store!storeVars)
  BY <1>1, InnerStep, ClaimStep, EndStep DEF Thread, Inner
<1>2. CASE UNCHANGED vars
  <2>1. ServiceInv'
    <3>1. ThreadsOK'
      BY <1>2 DEF vars, threadVars, ServiceInv, ThreadsOK, Fits, ResponseOf,
                  StoredResponses
    <3>2. StoredOK'
      BY <1>2 DEF vars, idemVars, ServiceInv, StoredOK, Store!Entry,
                  Store!Fingerprints
    <3> QED BY <3>1, <3>2 DEF ServiceInv
  <2>2. Calls' = Calls /\ Answers' = Answers
    BY <1>2 DEF vars, threadVars, Calls, Answers, CallView, AnswerView
  <2> QED BY <1>2, <2>1, <2>2 DEF vars, idemVars, Calls, Answers, Store!storeVars
<1> QED BY <1>1, <1>2, CrashStep, TickStep DEF Next

-----------------------------------------------------------------------------
(* Theorems.                                                               *)

\* The invariant of the service's threads and of the entries they left in the
\* store: where a thread of handle stands, what claim answered it and the
\* response it has in hand fit together.
THEOREM ServiceInvariant == Spec => []ServiceInv
BY InitService, ServiceStep, InvocationAssumptions, PTL DEF Spec

\* handle claims, completes, abandons and leaks its keys as IdempotencyStore
\* says that the callers of the store do.
THEOREM ServiceUsesStore == Spec => StoreSpec
<1>1. Init => Store!Init
  BY InvocationAssumptions DEF Init, Store!Init, CallView, AnswerView
<1> QED BY <1>1, ServiceInvariant, ServiceStep, InvocationAssumptions, PTL
        DEF Spec, StoreSpec, Store!Spec

StoreProofs == INSTANCE IdempotencyStoreProofs WITH
    Requests <- Keyed,
    Responses <- StoredResponses,
    ProducerOf <- ResponseProducer,
    call <- [r \in Keyed |-> CallView(r)],
    answer <- [r \in Keyed |-> AnswerView(r)]

\* The two instances of the store are one.
LEMMA SameStore ==
    /\ Store!Init <=> StoreProofs!Init
    /\ [Store!Next]_(Store!storeVars) <=> [StoreProofs!Next]_(StoreProofs!storeVars)
    /\ Store!OneRunPerWindow <=> StoreProofs!OneRunPerWindow
    /\ Store!ReplayFaithful <=> StoreProofs!ReplayFaithful
    /\ Store!InProgressHasOwner <=> StoreProofs!InProgressHasOwner
BY DEF Store!Init, Store!Next, Store!storeVars, Store!Step, Store!Restart,
       Store!Tick, Store!Acquire, Store!Replay, Store!Busy, Store!Conflict,
       Store!Complete, Store!Abandon, Store!Leak, Store!Become,
       Store!GrantClaim, Store!ClaimCompleted, Store!ClaimInProgress,
       Store!ClaimConflicts, Store!RefuseClaim, Store!SameFingerprint,
       Store!Answered, Store!NewEntry, Store!Kept, Store!Unexpired,
       Store!StoreComplete, Store!StoreAbandon, Store!StoreRestart,
       Store!StoreTick, Store!Holding, Store!Older, StoreProofs!Init,
       StoreProofs!Next, StoreProofs!storeVars, StoreProofs!Step,
       StoreProofs!Restart, StoreProofs!Tick, StoreProofs!Acquire,
       StoreProofs!Replay, StoreProofs!Busy, StoreProofs!Conflict,
       StoreProofs!Complete, StoreProofs!Abandon, StoreProofs!Leak,
       StoreProofs!Become, StoreProofs!GrantClaim, StoreProofs!ClaimCompleted,
       StoreProofs!ClaimInProgress, StoreProofs!ClaimConflicts,
       StoreProofs!RefuseClaim, StoreProofs!SameFingerprint,
       StoreProofs!Answered, StoreProofs!NewEntry, StoreProofs!Kept,
       StoreProofs!Unexpired, StoreProofs!StoreComplete,
       StoreProofs!StoreAbandon, StoreProofs!StoreRestart,
       StoreProofs!StoreTick, StoreProofs!Holding, StoreProofs!Older,
       Store!OneRunPerWindow, Store!ReplayFaithful, Store!InProgressHasOwner,
       Store!Punctual, Store!InWindow, Store!OfKey, StoreProofs!ReplayFaithful,
       StoreProofs!InProgressHasOwner, StoreProofs!OneRunPerWindow,
       StoreProofs!Punctual, StoreProofs!InWindow, StoreProofs!OfKey

\* What the store promises its callers it keeps in the service: in a TTL window
\* one request of a key runs at a time, a replayed answer was made for the same
\* key and payload, and a key is in progress on account of a request at work.
THEOREM ServiceKeepsStorePromises ==
    Spec => [](Store!OneRunPerWindow /\ Store!ReplayFaithful /\ Store!InProgressHasOwner)
<1>1. StoreProofs!StoreAssumptions
  BY InvocationAssumptions
     DEF StoreProofs!StoreAssumptions, StoredResponses, ResponseProducer
<1>2. /\ StoreProofs!Spec => []StoreProofs!OneRunPerWindow
      /\ StoreProofs!Spec => []StoreProofs!ReplayFaithful
      /\ StoreProofs!Spec => []StoreProofs!InProgressHasOwner
  BY <1>1, StoreProofs!SingleRun, StoreProofs!FaithfulReplay, StoreProofs!OwnedProgress
<1> QED BY ServiceUsesStore, SameStore, <1>2, PTL
        DEF StoreSpec, Store!Spec, StoreProofs!Spec

-----------------------------------------------------------------------------
(* The invocation table.                                                   *)

RowsOK ==
    /\ DOMAIN rows \subseteq {IdOf(r) : r \in Requests}
    /\ \A i \in DOMAIN rows : rows[i] \in Row
    /\ enqueued \subseteq Requests
    /\ mishaps \in 0..MaxMishaps

LEMMA RowWritten ==
    ASSUME RowsOK, NEW r \in Requests, NEW row \in Row
    PROVE  /\ DOMAIN WithRow(r, row) = DOMAIN rows \cup {IdOf(r)}
           /\ WithRow(r, row)[IdOf(r)] = row
           /\ \A i \in DOMAIN rows : i # IdOf(r) => WithRow(r, row)[i] = rows[i]
           /\ \A i \in DOMAIN WithRow(r, row) : WithRow(r, row)[i] \in Row
BY DEF RowsOK, WithRow

LEMMA UpsertedIsRow ==
    ASSUME RowsOK, NEW r \in Requests, NEW status \in Statuses,
           NEW images \in BOOLEAN, NEW error \in ErrorTypes,
           NEW completed \in BOOLEAN, NEW email \in EmailStates
    PROVE  /\ Upserted(r, status, images, error, completed, email) \in Row
           /\ Updated(r) \in Row
<1>1. OldRow(r) \in Row
  BY DEF OldRow, Row, Statuses, ErrorTypes, EmailStates, RowsOK
<1> QED BY <1>1 DEF Upserted, Updated, Row, Statuses

\* A record write keeps the table well typed.
LEMMA RecordKeeps ==
    ASSUME RowsOK, NEW r \in Requests, NEW row \in Row, NEW next, NEW onError,
           Record(r, row, next, onError), UNCHANGED enqueued
    PROVE  RowsOK'
<1>1. rows' \in {rows, WithRow(r, row)} /\ mishaps' \in 0..MaxMishaps
  BY InvocationAssumptions DEF Record, RowsOK
<1>2. CASE rows' = rows
  BY <1>1, <1>2 DEF RowsOK
<1>3. CASE rows' = WithRow(r, row)
  <2>1. /\ DOMAIN rows' = DOMAIN rows \cup {IdOf(r)}
        /\ \A i \in DOMAIN rows' : rows'[i] \in Row
    BY <1>3, RowWritten
  <2> QED BY <1>1, <2>1 DEF RowsOK
<1> QED BY <1>1, <1>2, <1>3

LEMMA RowsStep ==
    ASSUME ServiceInv, RowsOK, [Next]_vars
    PROVE  RowsOK'
<1> USE DEF Statuses, ErrorTypes, EmailStates
<1>1. ASSUME NEW r \in Requests, Receive(r) PROVE RowsOK'
  BY <1>1, UpsertedIsRow, RecordKeeps DEF Receive
<1>2. ASSUME NEW r \in Requests, ClaimKey(r) \/ ResolveFails(r) \/ WriteArtifacts(r)
                                  \/ Abandon(r) \/ Conclude(r)
      PROVE  RowsOK'
  BY <1>2 DEF ClaimKey, ResolveFails, WriteArtifacts, Abandon, Conclude, RowsOK, IdOf
<1>3. ASSUME NEW r \in Requests, Replay(r) PROVE RowsOK'
  BY <1>3, UpsertedIsRow, RecordKeeps DEF Replay
<1>4. ASSUME NEW r \in Requests, RefuseBusy(r) PROVE RowsOK'
  BY <1>4, UpsertedIsRow, RecordKeeps DEF RefuseBusy, Refuse
<1>5. ASSUME NEW r \in Requests, RefuseConflict(r) PROVE RowsOK'
  BY <1>5, UpsertedIsRow, RecordKeeps DEF RefuseConflict, Refuse
<1>6. ASSUME NEW r \in Requests, Admit(r) PROVE RowsOK'
  BY <1>6, UpsertedIsRow, RecordKeeps DEF Admit
<1>7. ASSUME NEW r \in Requests, InputBlocked(r) PROVE RowsOK'
  BY <1>7, UpsertedIsRow, RecordKeeps DEF InputBlocked
<1>8. ASSUME NEW r \in Requests, StartWorkflow(r) PROVE RowsOK'
  BY <1>8, UpsertedIsRow, RecordKeeps DEF StartWorkflow
<1>9. ASSUME NEW r \in Requests, RecordFailure(r) PROVE RowsOK'
  BY <1>9, UpsertedIsRow, RecordKeeps DEF RecordFailure
<1>10. ASSUME NEW r \in Requests, RequestEmail(r) PROVE RowsOK'
  <2>1. enqueued' \subseteq Requests
    BY <1>10 DEF RequestEmail, RequestDelivery, RowsOK
  <2> QED BY <1>10, <2>1 DEF RequestEmail, RowsOK
<1>11. ASSUME NEW r \in Requests, RecordSuccess(r) PROVE RowsOK'
  <2>1. response[r].email \in EmailStates
    BY <1>11 DEF RecordSuccess, ServiceInv, ThreadsOK, Fits, ResponseOf
  <2> QED BY <1>11, <2>1, UpsertedIsRow, RecordKeeps DEF RecordSuccess
<1>12. CASE Crash \/ Tick \/ UNCHANGED vars
  BY <1>12, InvocationAssumptions DEF Crash, Tick, vars, RowsOK
<1> QED BY <1>1, <1>2, <1>3, <1>4, <1>5, <1>6, <1>7, <1>8, <1>9, <1>10, <1>11, <1>12
        DEF Next, Thread

\* Every variable of the service has its type: among others, every row of the
\* table is one that upsert_invocation and update_invocation can write.
THEOREM ServiceTypeCorrect == Spec => []TypeOK
<1>1. Init => RowsOK
  BY InvocationAssumptions DEF Init, RowsOK
<1>2. ServiceInv /\ RowsOK => TypeOK
  BY DEF ServiceInv, ThreadsOK, RowsOK, TypeOK, Fits, Labels, ClaimStates
<1> QED BY <1>1, <1>2, RowsStep, ServiceInvariant, PTL DEF Spec

-----------------------------------------------------------------------------
(* The row of a request that comes alone.                                  *)

\* What the response x says, the row says.
Reported(x, row) ==
    CASE x.outcome = "succeeded" ->
            /\ row.status = "SUCCEEDED" /\ row.completed /\ row.images
            /\ row.email = x.email
      [] x.outcome = "blocked" ->
            row.status = "BLOCKED" /\ row.error = "GuardrailBlockedError"
      [] x.outcome = "workflow_failed" ->
            row.status = "FAILED" /\ row.error = "WorkflowError"
      [] OTHER -> row.status = "VALIDATED"

\* The row i of a thread at l with the response x and the claim c, when no
\* other request writes it.
RowFits(i, l, c, x) ==
    /\ c \in {"none", "acquired"}
    /\ l = "new" => i \notin DOMAIN rows
    /\ l \in {"received", "returned"} \cup (Working \ {"abandoning"}) =>
          i \in DOMAIN rows
    /\ l \in {"received", "admitted"} => rows[i].status = "RECEIVED"
    /\ l = "validated" => rows[i].status = "VALIDATED"
    /\ l \in {"running", "stored", "unstored", "recording"} =>
          rows[i].status = "IN_PROGRESS"
    /\ l = "failing" => rows[i].status \in {"VALIDATED", "IN_PROGRESS"}
    /\ l \in {"received", "admitted", "validated", "running", "stored",
              "unstored", "recording"} => rows[i].email = "not_requested"
    /\ l = "recording" => x.outcome = "succeeded"
    /\ l \in {"concluding", "returned"} => Reported(x, rows[i])

LoneRow(r) == RowFits(IdOf(r), pc[r], claim[r], response[r])

\* An entry of the store was made by a claim of its key.
EntriesClaimed ==
    \A k \in DOMAIN entries : \E r \in Keyed :
        KeyOf[r] = k /\ pc[r] \notin {"new", "received"}

LoneInv ==
    /\ ServiceInv /\ RowsOK /\ EntriesClaimed
    /\ \A r \in Requests : Alone(r) => LoneRow(r)

\* A row that its own request writes moves forward.
Forward(i) ==
    i \in DOMAIN rows =>
        rows'[i] = rows[i] \/ Rank(rows[i].status) < Rank(rows'[i].status)

\* What a record write leaves behind: the row, or nothing if it raised.
LEMMA RecordLeaves ==
    ASSUME ThreadsOK, NEW r \in Requests, NEW row, NEW next, NEW onError,
           Record(r, row, next, onError)
    PROVE  LET i == IdOf(r) IN
           \/ pc'[r] = next /\ i \in DOMAIN rows' /\ rows'[i] = row
           \/ pc'[r] = onError /\ i \in DOMAIN rows' /\ rows'[i] = row
           \/ pc'[r] = onError /\ rows' = rows
BY DEF Record, Goto, WithRow, ThreadsOK

\* A step of the one request of an id.
LEMMA OwnStep ==
    ASSUME LoneInv, NEW r \in Requests, Thread(r), Alone(r)
    PROVE  LoneRow(r)' /\ Forward(IdOf(r))
<1> DEFINE i == IdOf(r)
           Claims == claim'[r] = claim[r] /\ claim[r] \in {"none", "acquired"}
           Ok == RowFits(i, pc[r], claim[r], response[r])' /\ Forward(i)
<1> SUFFICES Ok
  BY DEF LoneRow, IdOf
<1>0. /\ RowFits(i, pc[r], claim[r], response[r])
      /\ Fits(r, pc[r], claim[r], response[r])
      /\ ThreadsOK
  BY DEF LoneInv, LoneRow, ServiceInv, ThreadsOK
<1>1. CASE Receive(r)
  <2> DEFINE row == Upserted(r, "RECEIVED", FALSE, "none", FALSE, "not_requested")
  <2>1. Claims /\ pc[r] = "new" /\ i \notin DOMAIN rows
    BY <1>0, <1>1 DEF Receive, RowFits
  <2>2. row.status = "RECEIVED" /\ row.email = "not_requested"
    BY <2>1 DEF Upserted, OldRow
  <2>3. \/ pc'[r] \in {"received", "admitted", "raised"} /\ i \in DOMAIN rows' /\ rows'[i] = row
        \/ pc'[r] = "raised"
    BY <1>0, <1>1, RecordLeaves DEF Receive
  <2> HIDE DEF row
  <2> QED BY <2>1, <2>2, <2>3 DEF RowFits, Forward, Working
<1>2. CASE ClaimKey(r)
  <2>1. pc[r] = "received" /\ r \in Keyed
    BY <1>0, <1>2 DEF ClaimKey, Fits, Answering
  <2>2. KeyOf[r] \notin DOMAIN entries
    BY <2>1, InvocationAssumptions DEF LoneInv, EntriesClaimed, Alone, IdOf
  <2>3. /\ pc'[r] = "admitted" /\ claim'[r] = "acquired" /\ rows' = rows
    BY <1>0, <1>2, <2>2
       DEF ClaimKey, Goto, Claimed, ThreadsOK, Store!ClaimCompleted,
           Store!ClaimInProgress, Store!ClaimConflicts, Store!RefuseClaim,
           Store!Unexpired
  <2> QED BY <1>0, <2>1, <2>3 DEF RowFits, Forward, Working
<1>3. CASE Replay(r) \/ RefuseBusy(r) \/ RefuseConflict(r)
  BY <1>0, <1>3 DEF Replay, RefuseBusy, RefuseConflict, Refuse, Fits, RowFits
<1>4. CASE Admit(r)
  <2> DEFINE row == Upserted(r, "VALIDATED", FALSE, "none", FALSE, "not_requested")
  <2>1. /\ Claims /\ pc[r] = "admitted" /\ i \in DOMAIN rows
        /\ rows[i].status = "RECEIVED" /\ rows[i].email = "not_requested"
    BY <1>0, <1>4 DEF Admit, RowFits, Working
  <2>2. row.status = "VALIDATED" /\ row.email = "not_requested"
    BY <2>1 DEF Upserted, OldRow
  <2>3. \/ pc'[r] \in {"validated", "raised"} /\ i \in DOMAIN rows' /\ rows'[i] = row
        \/ pc'[r] = "raised" /\ rows' = rows
    BY <1>0, <1>4, RecordLeaves DEF Admit
  <2> HIDE DEF row
  <2> QED BY <2>1, <2>2, <2>3 DEF RowFits, Forward, Rank, Working
<1>5. CASE ResolveFails(r)
  <2>1. /\ Claims /\ pc[r] = "validated" /\ i \in DOMAIN rows
        /\ rows[i].status = "VALIDATED"
    BY <1>0, <1>5 DEF ResolveFails, RowFits, Working
  <2>2. /\ pc'[r] = "concluding" /\ response'[r].outcome = "images_failed"
        /\ rows' = rows
    BY <1>0, <1>5 DEF ResolveFails, Goto, Reply, Failure, ThreadsOK
  <2> QED BY <2>1, <2>2 DEF RowFits, Forward, Reported, Working
<1>6. CASE InputBlocked(r)
  <2> DEFINE row == Upserted(r, "BLOCKED", TRUE, "GuardrailBlockedError", FALSE,
                             "not_requested")
  <2>1. /\ Claims /\ pc[r] = "validated" /\ i \in DOMAIN rows
        /\ rows[i].status = "VALIDATED"
    BY <1>0, <1>6 DEF InputBlocked, RowFits, Working
  <2>2. row.status = "BLOCKED" /\ row.error = "GuardrailBlockedError"
    BY <2>1 DEF Upserted, OldRow
  <2>3. \/ /\ pc'[r] \in {"concluding", "abandoning"}
           /\ i \in DOMAIN rows' /\ rows'[i] = row
        \/ pc'[r] = "abandoning" /\ rows' = rows
    BY <1>0, <1>6, RecordLeaves DEF InputBlocked
  <2>4. response'[r].outcome = "blocked"
    BY <1>0, <1>6 DEF InputBlocked, Reply, Failure, ThreadsOK
  <2> HIDE DEF row
  <2> QED BY <2>1, <2>2, <2>3, <2>4 DEF RowFits, Forward, Rank, Reported, Working
<1>7. CASE StartWorkflow(r)
  <2> DEFINE row == Upserted(r, "IN_PROGRESS", TRUE, "none", FALSE, "not_requested")
  <2>1. /\ Claims /\ pc[r] = "validated" /\ i \in DOMAIN rows
        /\ rows[i].status = "VALIDATED" /\ rows[i].email = "not_requested"
    BY <1>0, <1>7 DEF StartWorkflow, RowFits, Working
  <2>2. row.status = "IN_PROGRESS" /\ row.email = "not_requested"
    BY <2>1 DEF Upserted, OldRow
  <2>3. \/ pc'[r] \in {"running", "failing"} /\ i \in DOMAIN rows' /\ rows'[i] = row
        \/ pc'[r] = "failing" /\ rows' = rows
    BY <1>0, <1>7, RecordLeaves DEF StartWorkflow
  <2> HIDE DEF row
  <2> QED BY <2>1, <2>2, <2>3 DEF RowFits, Forward, Rank, Working
<1>8. CASE RecordFailure(r)
  <2> DEFINE row == Upserted(r, "FAILED", TRUE, "WorkflowError", FALSE, "not_requested")
  <2>1. /\ Claims /\ pc[r] \in {"failing", "running"} /\ i \in DOMAIN rows
        /\ rows[i].status \in {"VALIDATED", "IN_PROGRESS"}
    BY <1>0, <1>8 DEF RecordFailure, RowFits, Working
  <2>2. row.status = "FAILED" /\ row.error = "WorkflowError"
    BY <2>1 DEF Upserted, OldRow
  <2>3. \/ /\ pc'[r] \in {"concluding", "abandoning"}
           /\ i \in DOMAIN rows' /\ rows'[i] = row
        \/ pc'[r] = "abandoning" /\ rows' = rows
    BY <1>0, <1>8, RecordLeaves DEF RecordFailure
  <2>4. response'[r].outcome = "workflow_failed"
    BY <1>0, <1>8 DEF RecordFailure, Reply, Failure, ThreadsOK
  <2> HIDE DEF row
  <2> QED BY <2>1, <2>2, <2>3, <2>4 DEF RowFits, Forward, Rank, Reported, Working
<1>9. CASE WriteArtifacts(r)
  <2>1. /\ Claims /\ pc[r] = "running"
        /\ pc'[r] \in {"stored", "unstored"} /\ rows' = rows
    BY <1>0, <1>9 DEF WriteArtifacts, Goto, ThreadsOK, RowFits
  <2> QED BY <1>0, <2>1 DEF RowFits, Forward, Working
<1>10. CASE RequestEmail(r)
  <2>1. /\ Claims /\ pc[r] \in {"stored", "unstored"}
        /\ pc'[r] = "recording" /\ rows' = rows
        /\ response'[r].outcome = "succeeded"
    BY <1>0, <1>10 DEF RequestEmail, Goto, Reply, ThreadsOK, RowFits
  <2> QED BY <1>0, <2>1 DEF RowFits, Forward, Working
<1>11. CASE RecordSuccess(r)
  <2> DEFINE row == Upserted(r, "SUCCEEDED", TRUE, "none", TRUE, response[r].email)
  <2>1. /\ Claims /\ pc[r] = "recording" /\ i \in DOMAIN rows
        /\ rows[i].status = "IN_PROGRESS" /\ rows[i].email = "not_requested"
        /\ response'[r] = response[r] /\ response[r].outcome = "succeeded"
    BY <1>0, <1>11 DEF RecordSuccess, RowFits, Working
  <2>2. /\ row.status = "SUCCEEDED" /\ row.completed /\ row.images
        /\ row.email = response[r].email
    BY <2>1 DEF Upserted, OldRow
  <2>3. \/ /\ pc'[r] \in {"concluding", "abandoning"}
           /\ i \in DOMAIN rows' /\ rows'[i] = row
        \/ pc'[r] = "abandoning" /\ rows' = rows
    BY <1>0, <1>11, RecordLeaves DEF RecordSuccess
  <2> HIDE DEF row
  <2> QED BY <2>1, <2>2, <2>3 DEF RowFits, Forward, Rank, Reported, Working
<1>12. CASE Abandon(r) \/ Conclude(r)
  <2>1. /\ Claims /\ response'[r] = response[r] /\ rows' = rows
        /\ \/ pc[r] = "abandoning" /\ pc'[r] = "abandoned"
           \/ pc[r] = "concluding" /\ pc'[r] = "returned"
    BY <1>0, <1>12 DEF Abandon, Conclude, Goto, ThreadsOK, RowFits
  <2> QED BY <1>0, <2>1 DEF RowFits, Forward, Working
<1> QED BY <1>1, <1>2, <1>3, <1>4, <1>5, <1>6, <1>7, <1>8, <1>9, <1>10, <1>11, <1>12
        DEF Thread

\* What a step of the thread of r may change: its own thread, its own row.
GoesOn(r) ==
    \E l : /\ pc' = [pc EXCEPT ![r] = l] /\ l # "new"
           /\ l = "received" => pc[r] = "new"

Touches(r) ==
    /\ GoesOn(r)
    /\ claim' = claim \/ \E c : Claimed(r, c)
    /\ response' = response \/ \E x : Reply(r, x)
    /\ rows' = rows \/ \E row : rows' = WithRow(r, row)

LEMMA ThreadTouches ==
    ASSUME NEW r \in Requests, Thread(r)
    PROVE  Touches(r)
<1>1. CASE Receive(r)
  <2>1. GoesOn(r)
    BY <1>1 DEF GoesOn, Receive, Record, Goto
  <2> QED BY <1>1, <2>1 DEF Touches, Receive, Record, Goto
<1>2. CASE ClaimKey(r)
  <2>1. GoesOn(r)
    BY <1>2 DEF GoesOn, ClaimKey, Goto, Claimed, Reply
  <2> QED BY <1>2, <2>1 DEF Touches, ClaimKey, Goto, Claimed, Reply
<1>3. CASE Replay(r)
  <2>1. GoesOn(r)
    BY <1>3 DEF GoesOn, Replay, Record, Goto
  <2> QED BY <1>3, <2>1 DEF Touches, Replay, Record, Goto
<1>4. CASE RefuseBusy(r)
  <2>1. GoesOn(r)
    BY <1>4 DEF GoesOn, RefuseBusy, Refuse, Record, Goto
  <2> QED BY <1>4, <2>1 DEF Touches, RefuseBusy, Refuse, Record, Goto
<1>5. CASE RefuseConflict(r)
  <2>1. GoesOn(r)
    BY <1>5 DEF GoesOn, RefuseConflict, Refuse, Record, Goto
  <2> QED BY <1>5, <2>1 DEF Touches, RefuseConflict, Refuse, Record, Goto
<1>6. CASE Admit(r)
  <2>1. GoesOn(r)
    BY <1>6 DEF GoesOn, Admit, Record, Goto
  <2> QED BY <1>6, <2>1 DEF Touches, Admit, Record, Goto
<1>7. CASE ResolveFails(r)
  <2>1. GoesOn(r)
    <3>1. pc' = [pc EXCEPT ![r] = "concluding"]
      BY <1>7 DEF ResolveFails, Goto
    <3>2. "concluding" # "new" /\ "concluding" # "received"
      OBVIOUS
    <3> QED BY <3>1, <3>2, Zenon DEF GoesOn
  <2> QED BY <1>7, <2>1 DEF Touches, ResolveFails, Goto
<1>8. CASE InputBlocked(r)
  <2>1. GoesOn(r)
    BY <1>8 DEF GoesOn, InputBlocked, Record, Goto
  <2> QED BY <1>8, <2>1 DEF Touches, InputBlocked, Record, Goto
<1>9. CASE StartWorkflow(r)
  <2>1. GoesOn(r)
    BY <1>9 DEF GoesOn, StartWorkflow, Record, Goto
  <2> QED BY <1>9, <2>1 DEF Touches, StartWorkflow, Record, Goto
<1>10. CASE RecordFailure(r)
  <2>1. GoesOn(r)
    BY <1>10 DEF GoesOn, RecordFailure, Record, Goto
  <2> QED BY <1>10, <2>1 DEF Touches, RecordFailure, Record, Goto
<1>11. CASE WriteArtifacts(r)
  <2>1. GoesOn(r)
    BY <1>11 DEF GoesOn, WriteArtifacts, Goto
  <2> QED BY <1>11, <2>1 DEF Touches, WriteArtifacts, Goto
<1>12. CASE RequestEmail(r)
  <2>1. GoesOn(r)
    <3>1. pc' = [pc EXCEPT ![r] = "recording"]
      BY <1>12 DEF RequestEmail, Goto
    <3>2. "recording" # "new" /\ "recording" # "received"
      OBVIOUS
    <3> QED BY <3>1, <3>2, Zenon DEF GoesOn
  <2> QED BY <1>12, <2>1 DEF Touches, RequestEmail, Goto
<1>13. CASE RecordSuccess(r)
  <2>1. GoesOn(r)
    BY <1>13 DEF GoesOn, RecordSuccess, Record, Goto
  <2> QED BY <1>13, <2>1 DEF Touches, RecordSuccess, Record, Goto
<1>14. CASE Abandon(r)
  <2>1. GoesOn(r)
    <3>1. pc' = [pc EXCEPT ![r] = "abandoned"]
      BY <1>14 DEF Abandon, Goto
    <3>2. "abandoned" # "new" /\ "abandoned" # "received"
      OBVIOUS
    <3> QED BY <3>1, <3>2, Zenon DEF GoesOn
  <2> QED BY <1>14, <2>1 DEF Touches, Abandon, Goto
<1>15. CASE Conclude(r)
  <2>1. GoesOn(r)
    <3>1. pc' = [pc EXCEPT ![r] = "returned"]
      BY <1>15 DEF Conclude, Goto
    <3>2. "returned" # "new" /\ "returned" # "received"
      OBVIOUS
    <3> QED BY <3>1, <3>2, Zenon DEF GoesOn
  <2> QED BY <1>15, <2>1 DEF Touches, Conclude, Goto
<1> QED BY <1>1, <1>2, <1>3, <1>4, <1>5, <1>6, <1>7, <1>8,
           <1>9, <1>10, <1>11, <1>12, <1>13, <1>14, <1>15 DEF Thread

LEMMA OthersKept ==
    ASSUME ThreadsOK, NEW r \in Requests, Touches(r)
    PROVE  /\ pc'[r] # "new" /\ (pc'[r] = "received" => pc[r] = "new")
           /\ \A q \in Requests \ {r} :
                 pc'[q] = pc[q] /\ claim'[q] = claim[q] /\ response'[q] = response[q]
           /\ \A i : i # IdOf(r) =>
                 /\ i \in DOMAIN rows' <=> i \in DOMAIN rows
                 /\ i \in DOMAIN rows => rows'[i] = rows[i]
<1>1. /\ pc'[r] # "new" /\ (pc'[r] = "received" => pc[r] = "new")
      /\ \A q \in Requests \ {r} :
            pc'[q] = pc[q] /\ claim'[q] = claim[q] /\ response'[q] = response[q]
  <2>1. PICK l : /\ pc' = [pc EXCEPT ![r] = l] /\ l # "new"
                 /\ l = "received" => pc[r] = "new"
    BY DEF Touches, GoesOn
  <2>2. pc'[r] = l /\ \A q \in Requests \ {r} : pc'[q] = pc[q]
    BY <2>1 DEF ThreadsOK
  <2>3. \A q \in Requests \ {r} : claim'[q] = claim[q]
    BY DEF Touches, ThreadsOK, Claimed
  <2>4. \A q \in Requests \ {r} : response'[q] = response[q]
    BY DEF Touches, ThreadsOK, Reply
  <2> QED BY <2>1, <2>2, <2>3, <2>4
<1>2. ASSUME NEW i, i # IdOf(r)
      PROVE  /\ i \in DOMAIN rows' <=> i \in DOMAIN rows
             /\ i \in DOMAIN rows => rows'[i] = rows[i]
  BY <1>2 DEF Touches, WithRow
<1> QED BY <1>1, <1>2

LEMMA EntriesStep ==
    ASSUME LoneInv, [Next]_vars
    PROVE  EntriesClaimed'
<1> DEFINE Claimant(r, k) == KeyOf[r] = k /\ pc[r] \notin {"new", "received"}
<1>1. ASSUME NEW r \in Requests, Thread(r) PROVE EntriesClaimed'
  <2>1. /\ pc'[r] # "new" /\ (pc'[r] = "received" => pc[r] = "new")
        /\ \A q \in Requests \ {r} : pc'[q] = pc[q]
    BY <1>1, ThreadTouches, OthersKept DEF LoneInv, ServiceInv
  <2>2. \A k, q : q \in Keyed /\ Claimant(q, k) => Claimant(q, k)'
    BY <2>1, InvocationAssumptions
  <2>3. DOMAIN entries' \subseteq DOMAIN entries => EntriesClaimed'
    BY <2>2 DEF LoneInv, EntriesClaimed
  <2>4. CASE ClaimKey(r)
    <3>1. r \in Keyed /\ pc'[r] \notin {"new", "received"}
      BY <1>1, <2>1, <2>4 DEF ClaimKey, LoneInv, ServiceInv, ThreadsOK, Fits, Answering
    <3>2. DOMAIN entries' \subseteq DOMAIN entries \cup {KeyOf[r]}
      BY <2>4 DEF ClaimKey, Store!GrantClaim, Store!ClaimCompleted,
                  Store!ClaimInProgress, Store!ClaimConflicts, Store!RefuseClaim,
                  Store!Kept, Store!Unexpired
    <3> QED BY <2>2, <3>1, <3>2 DEF LoneInv, EntriesClaimed
  <2>5. CASE Abandon(r) \/ Conclude(r)
    <3>1. DOMAIN entries' \subseteq DOMAIN entries
      BY <2>5 DEF Abandon, Conclude, idemVars, Store!StoreAbandon, Store!StoreComplete
    <3> QED BY <2>3, <3>1
  <2>6. CASE Inner(r)
    <3>1. entries' = entries
      BY <2>6 DEF Inner, Receive, Replay, RefuseBusy, RefuseConflict, Refuse, Admit,
                  ResolveFails, InputBlocked, StartWorkflow, RecordFailure,
                  WriteArtifacts, RequestEmail, RecordSuccess, idemVars
    <3> QED BY <2>3, <3>1
  <2> QED BY <1>1, <2>4, <2>5, <2>6 DEF Thread, Inner
<1>2. CASE Crash
  BY <1>2 DEF Crash, Store!StoreRestart, EntriesClaimed
<1>3. CASE Tick
  <2>1. DOMAIN entries' = DOMAIN entries /\ pc' = pc
    BY <1>3 DEF Tick, Store!StoreTick, threadVars
  <2> QED BY <2>1 DEF LoneInv, EntriesClaimed
<1>4. CASE UNCHANGED vars
  BY <1>4 DEF vars, threadVars, idemVars, LoneInv, EntriesClaimed
<1> QED BY <1>1, <1>2, <1>3, <1>4 DEF Next

\* Whoever moves, the row of a request that is alone stays what its thread
\* says, and moves forward.
LEMMA LoneStep ==
    ASSUME LoneInv, [Next]_vars, NEW q \in Requests, Alone(q)'
    PROVE  Alone(q) /\ LoneRow(q)' /\ Forward(IdOf(q))
<1>0. ThreadsOK
  BY DEF LoneInv, ServiceInv
<1>1. ASSUME NEW r \in Requests, Thread(r)
      PROVE  Alone(q) /\ LoneRow(q)' /\ Forward(IdOf(q))
  <2>1. /\ pc'[r] # "new"
        /\ \A s \in Requests \ {r} :
              pc'[s] = pc[s] /\ claim'[s] = claim[s] /\ response'[s] = response[s]
        /\ \A i : i # IdOf(r) =>
              /\ i \in DOMAIN rows' <=> i \in DOMAIN rows
              /\ i \in DOMAIN rows => rows'[i] = rows[i]
    BY <1>0, <1>1, ThreadTouches, OthersKept
  <2>2. q = r \/ IdOf(r) # IdOf(q)
    BY <2>1 DEF Alone, IdOf
  <2>3. Alone(q)
    BY <2>1, <2>2 DEF Alone, IdOf
  <2>4. CASE q = r
    BY <1>1, <2>3, <2>4, OwnStep
  <2>5. CASE q # r
    <3>1. LoneRow(q)
      BY <2>3 DEF LoneInv
    <3>2. /\ pc'[q] = pc[q] /\ claim'[q] = claim[q] /\ response'[q] = response[q]
          /\ IdOf(q) \in DOMAIN rows' <=> IdOf(q) \in DOMAIN rows
          /\ IdOf(q) \in DOMAIN rows => rows'[IdOf(q)] = rows[IdOf(q)]
      BY <2>1, <2>2, <2>5
    <3> QED BY <2>3, <3>1, <3>2 DEF LoneRow, RowFits, IdOf, Forward, Working
  <2> QED BY <2>4, <2>5
<1>2. CASE Crash \/ Tick \/ UNCHANGED vars
  <2>1. /\ rows' = rows /\ claim' = claim /\ response' = response
        /\ \A s \in Requests : pc'[s] = pc[s] \/ (pc'[s] = "died" /\ pc[s] # "new")
    BY <1>0, <1>2 DEF Crash, Tick, vars, threadVars, ThreadsOK, Answering, Working
  <2>2. Alone(q)
    BY <2>1 DEF Alone, IdOf
  <2>3. LoneRow(q)
    BY <2>2 DEF LoneInv
  <2> QED BY <2>1, <2>2, <2>3 DEF LoneRow, RowFits, IdOf, Forward, Working
<1> QED BY <1>1, <1>2 DEF Next

LEMMA LoneInvariant == Spec => []LoneInv
<1>1. Init => LoneInv
  <2> SUFFICES ASSUME Init PROVE LoneInv
    OBVIOUS
  <2>1. ServiceInv
    BY InitService
  <2>2. RowsOK /\ EntriesClaimed
    BY InvocationAssumptions DEF Init, RowsOK, EntriesClaimed
  <2>3. \A r \in Requests : LoneRow(r)
    BY DEF Init, LoneRow, RowFits, Working
  <2> QED BY <2>1, <2>2, <2>3 DEF LoneInv
<1>2. LoneInv /\ [Next]_vars => LoneInv'
  <2> SUFFICES ASSUME LoneInv, [Next]_vars PROVE LoneInv'
    OBVIOUS
  <2>1. ServiceInv'
    BY ServiceStep, InvocationAssumptions DEF LoneInv
  <2>2. RowsOK'
    BY RowsStep DEF LoneInv
  <2>3. EntriesClaimed'
    BY EntriesStep
  <2>4. \A r \in Requests : Alone(r)' => LoneRow(r)'
    BY LoneStep
  <2> QED BY <2>1, <2>2, <2>3, <2>4 DEF LoneInv
<1> QED BY <1>1, <1>2, PTL DEF Spec

\* What a run reports after its images were resolved is what its row says:
\* status, cause, completion and email status, unless another request has come
\* with its key.
THEOREM LoneReturn == Spec => []LoneReturnIsRecorded
<1>1. LoneInv => LoneReturnIsRecorded
  BY DEF LoneInv, LoneReturnIsRecorded, LoneRow, RowFits, Reported
<1> QED BY <1>1, LoneInvariant, PTL

\* A row moves forward through received, validated, in progress and a terminal
\* status, unless another request comes with its key.
THEOREM LoneProgress == Spec => LoneRecordMovesForward
<1>1. LoneInv /\ [Next]_vars =>
        [\A r \in Requests : (Alone(r) /\ Alone(r)' /\ IdOf(r) \in DOMAIN rows) =>
          LET old == rows[IdOf(r)]
              new == rows'[IdOf(r)]
          IN  old = new \/ Rank(old.status) < Rank(new.status)]_vars
  BY LoneStep DEF Forward
<1> QED BY <1>1, LoneInvariant, PTL DEF Spec, LoneRecordMovesForward

-----------------------------------------------------------------------------
(* The row of a success that the store replays.                            *)

\* What the row says of a success x, whatever duplicates have written over it.
Shows(row, x) ==
    /\ row.completed
    /\ x.email # "not_requested" => row.email = x.email
    /\ row.status \in {"SUCCEEDED", "RECEIVED", "REPLAYED", "BLOCKED"}

OnRecord(k, x) == k \in DOMAIN rows /\ Shows(rows[k], x)

\* A success is on record when its thread is about to store it.
ConcludedOnRecord ==
    \A r \in Keyed :
        (/\ Store!Punctual(KeyOf[r]) /\ pc[r] = "concluding"
         /\ response[r].outcome = "succeeded") => OnRecord(KeyOf[r], response[r])

\* And it stays on record for as long as the store has it.
CachedOnRecord ==
    \A k \in Store!Unexpired :
        (/\ Store!Punctual(k) /\ entries[k].response # NoResponse
         /\ entries[k].response.outcome = "succeeded") => OnRecord(k, entries[k].response)

RecordInv == ConcludedOnRecord /\ CachedOnRecord

\* A thread that works on a punctual key is alone at it, and its entry has no
\* response.
LEMMA WorkersAreAlone ==
    ASSUME ServiceInv, StoreProofs!ExclusiveWork, NEW r \in Keyed, pc[r] \in Working,
           Store!Punctual(KeyOf[r])
    PROVE  /\ \A q \in Keyed : pc[q] \in Working /\ KeyOf[q] = KeyOf[r] => q = r
           /\ entries[KeyOf[r]].response = NoResponse
<1>1. \A q \in Keyed : pc[q] \in Working => CallView(q) = "holding"
  <2> SUFFICES ASSUME NEW q \in Keyed, pc[q] \in Working
               PROVE  CallView(q) = "holding"
    OBVIOUS
  <2>1. q \in Requests /\ Fits(q, pc[q], claim[q], response[q])
    BY InvocationAssumptions DEF ServiceInv, ThreadsOK
  <2>2. claim[q] = "acquired" /\ q \notin forgotten
    BY <2>1 DEF Fits, ServiceInv, ThreadsOK, Working, Ended
  <2> QED BY <2>2 DEF CallView, Working
<1>2. \A q \in Keyed : pc[q] \in Working => q \in StoreProofs!Holding
  BY <1>1 DEF StoreProofs!Holding
<1>3. StoreProofs!Punctual(KeyOf[r])
  BY DEF Store!Punctual, StoreProofs!Punctual, Store!OfKey, StoreProofs!OfKey
<1>4. StoreProofs!InProgress(KeyOf[r])
  BY <1>2, <1>3 DEF StoreProofs!ExclusiveWork
<1>5. \A q \in Keyed : pc[q] \in Working /\ KeyOf[q] = KeyOf[r] => q = r
  BY <1>2, <1>3 DEF StoreProofs!ExclusiveWork
<1> QED BY <1>4, <1>5 DEF StoreProofs!InProgress

\* What a duplicate writes over a row leaves the success on record.
LEMMA DuplicatesKeep ==
    ASSUME ThreadsOK, NEW q \in Requests, Thread(q), NEW k, NEW x, OnRecord(k, x),
           IdOf(q) = k => q \in Keyed /\ pc[q] \notin Working
    PROVE  OnRecord(k, x)'
<1>1. CASE IdOf(q) # k
  <2>1. k \in DOMAIN rows' /\ rows'[k] = rows[k]
    BY <1>1, ThreadTouches, OthersKept DEF OnRecord
  <2> QED BY <2>1 DEF OnRecord, Shows
<1>2. CASE IdOf(q) = k
  <2>1. /\ q \in Keyed /\ pc[q] \notin Working /\ k \in DOMAIN rows
        /\ OldRow(q) = rows[k]
    BY <1>2 DEF OnRecord, OldRow
  <2>2. ASSUME NEW row, NEW next, NEW onError, Record(q, row, next, onError), Shows(row, x)
        PROVE  OnRecord(k, x)'
    BY <1>2, <2>1, <2>2 DEF Record, WithRow, OnRecord, Shows
  <2>3. CASE Receive(q)
    <3>1. Shows(Upserted(q, "RECEIVED", FALSE, "none", FALSE, "not_requested"), x)
      BY <2>1 DEF Upserted, OnRecord, Shows
    <3> QED BY <2>2, <2>3, <3>1 DEF Receive
  <2>4. CASE Replay(q)
    <3>1. Shows(Updated(q), x)
      <4>1. Updated(q) = [rows[k] EXCEPT !.status = "REPLAYED", !.completed = TRUE]
        BY <2>1 DEF Updated
      <4> QED BY <4>1 DEF OnRecord, Shows
    <3> QED BY <2>2, <2>4, <3>1 DEF Replay
  <2>5. CASE RefuseBusy(q) \/ RefuseConflict(q)
    <3>1. \A error \in ErrorTypes :
             Shows(Upserted(q, "BLOCKED", FALSE, error, TRUE, "not_requested"), x)
      BY <2>1 DEF Upserted, OnRecord, Shows
    <3> QED BY <2>2, <2>5, <3>1 DEF RefuseBusy, RefuseConflict, Refuse, ErrorTypes
  <2>6. CASE ClaimKey(q)
    BY <2>6 DEF ClaimKey, OnRecord, Shows
  <2> QED BY <2>1, <2>3, <2>4, <2>5, <2>6
          DEF Thread, Working, Admit, ResolveFails, InputBlocked, StartWorkflow,
              RecordFailure, WriteArtifacts, RequestEmail, RecordSuccess, Abandon, Conclude
<1> QED BY <1>1, <1>2

\* A thread leaves a response in the store as it was, takes it out, or stores
\* its own.
LEMMA StoreResponses ==
    ASSUME ServiceInv, NEW q \in Requests, Thread(q)
    PROVE  /\ late' = late
           /\ \A k \in Store!Unexpired' :
                 \/ k \in Store!Unexpired /\ entries'[k].response = entries[k].response
                 \/ entries'[k].response = NoResponse
                 \/ /\ Conclude(q) /\ q \in Keyed /\ k = KeyOf[q]
                    /\ entries'[k].response = response[q]
<1>0. \A k \in DOMAIN entries : entries[k] \in Store!Entry
  BY DEF ServiceInv, StoredOK
<1>1. CASE Inner(q)
  <2>1. UNCHANGED idemVars
    BY <1>1 DEF Inner, Receive, Replay, RefuseBusy, RefuseConflict, Refuse, Admit,
       ResolveFails, InputBlocked, StartWorkflow, RecordFailure, WriteArtifacts,
       RequestEmail, RecordSuccess
  <2> QED BY <2>1 DEF idemVars, Store!Unexpired
<1>2. CASE ClaimKey(q)
  <2>1. CASE Store!GrantClaim(q)
    BY <2>1 DEF Store!GrantClaim, Store!NewEntry, Store!Unexpired
  <2>2. CASE Store!RefuseClaim(q)
    BY <2>2 DEF Store!RefuseClaim, Store!Kept, Store!Unexpired
  <2> QED BY <1>2, <2>1, <2>2 DEF ClaimKey, Store!ClaimCompleted,
             Store!ClaimInProgress, Store!ClaimConflicts
<1>3. CASE Abandon(q)
  BY <1>3 DEF Abandon, idemVars, Store!StoreAbandon, Store!Unexpired
<1>4. CASE Conclude(q)
  <2>1. CASE q \in Keyed
    <3>1. Store!StoreComplete(q, response[q])
      BY <1>4, <2>1 DEF Conclude
    <3>2. /\ late' = late /\ DOMAIN entries' = DOMAIN entries
          /\ \A k \in DOMAIN entries :
                /\ entries'[k].age = entries[k].age
                /\ entries'[k].response =
                      IF k = KeyOf[q] THEN response[q] ELSE entries[k].response
      BY <1>0, <3>1 DEF Store!StoreComplete, Store!Entry
    <3> QED BY <1>4, <2>1, <3>2 DEF Store!Unexpired
  <2>2. CASE q \notin Keyed
    BY <1>4, <2>2 DEF Conclude, idemVars, Store!Unexpired
  <2> QED BY <2>1, <2>2
<1> QED BY <1>1, <1>2, <1>3, <1>4 DEF Thread, Inner

\* A thread that is about to store a success has just written its row.
LEMMA ConcludingIsOnRecord ==
    ASSUME ThreadsOK, NEW r \in Keyed, Thread(r), pc'[r] = "concluding",
           response'[r].outcome = "succeeded"
    PROVE  OnRecord(KeyOf[r], response[r])'
<1>0. r \in Requests /\ IdOf(r) = KeyOf[r]
  BY InvocationAssumptions DEF IdOf
<1>1. CASE RecordSuccess(r)
  <2> DEFINE row == Upserted(r, "SUCCEEDED", TRUE, "none", TRUE, response[r].email)
  <2>1. /\ row.status = "SUCCEEDED" /\ row.completed
        /\ response[r].email # "not_requested" => row.email = response[r].email
    BY DEF Upserted
  <2>2. response' = response
    BY <1>1 DEF RecordSuccess
  <2> HIDE DEF row
  <2>3. Record(r, row, "concluding", "abandoning")
    BY <1>1 DEF RecordSuccess, row
  <2>4. pc'[r] = "abandoning" \/ rows' = WithRow(r, row)
    BY <1>0, <2>3 DEF Record, Goto, ThreadsOK
  <2>5. KeyOf[r] \in DOMAIN rows' /\ rows'[KeyOf[r]] = row
    BY <1>0, <2>4 DEF WithRow
  <2>6. Shows(row, response[r])
    BY <2>1 DEF Shows
  <2> QED BY <2>2, <2>5, <2>6 DEF OnRecord, Shows
<1>2. CASE ResolveFails(r) \/ InputBlocked(r) \/ RecordFailure(r)
  <2>1. PICK outcome \in Outcomes \ {"succeeded"} : Reply(r, Failure(r, outcome))
    BY <1>2 DEF ResolveFails, InputBlocked, RecordFailure, Outcomes
  <2>2. response'[r].outcome = outcome
    BY <1>0, <2>1 DEF Reply, Failure, ThreadsOK
  <2> QED BY <2>2
<1>3. CASE Receive(r) \/ ClaimKey(r) \/ Replay(r) \/ RefuseBusy(r) \/ RefuseConflict(r)
           \/ Admit(r) \/ StartWorkflow(r) \/ WriteArtifacts(r) \/ RequestEmail(r)
           \/ Abandon(r) \/ Conclude(r)
  BY <1>0, <1>3 DEF Receive, ClaimKey, Replay, RefuseBusy, RefuseConflict, Refuse, Admit,
     StartWorkflow, WriteArtifacts, RequestEmail, Abandon, Conclude, Record, Goto, ThreadsOK
<1> QED BY <1>1, <1>2, <1>3 DEF Thread

LEMMA RecordInvStep ==
    ASSUME ServiceInv, StoreProofs!ExclusiveWork, RecordInv, [Next]_vars
    PROVE  RecordInv'
<1>0. ThreadsOK /\ Keyed \subseteq Requests
  BY InvocationAssumptions DEF ServiceInv
<1>1. ASSUME NEW q \in Requests, Thread(q)
      PROVE  RecordInv'
  <2>1. \A k : Store!Punctual(k)' => Store!Punctual(k)
    BY <1>1, StoreResponses DEF Store!Punctual, Store!OfKey
  <2>2. \A k \in Keys : IdOf(q) = k => q \in Keyed /\ KeyOf[q] = k
    BY InvocationAssumptions DEF IdOf
  <2>3. ConcludedOnRecord'
    <3> SUFFICES ASSUME NEW r \in Keyed, Store!Punctual(KeyOf[r])',
                        pc'[r] = "concluding", response'[r].outcome = "succeeded"
                 PROVE  OnRecord(KeyOf[r], response[r])'
      BY DEF ConcludedOnRecord
    <3>1. CASE r = q
      BY <1>0, <1>1, <3>1, ConcludingIsOnRecord
    <3>2. CASE r # q
      <4>1. pc[r] = "concluding" /\ response'[r] = response[r]
        BY <1>0, <1>1, <3>2, ThreadTouches, OthersKept
      <4>2. OnRecord(KeyOf[r], response[r])
        BY <2>1, <4>1 DEF RecordInv, ConcludedOnRecord
      <4>3. IdOf(q) = KeyOf[r] => q \in Keyed /\ pc[q] \notin Working
        BY <2>1, <2>2, <3>2, <4>1, WorkersAreAlone, InvocationAssumptions DEF Working
      <4>4. \A x : x = response[r] => OnRecord(KeyOf[r], x)'
        BY <1>0, <1>1, <4>2, <4>3, DuplicatesKeep
      <4> QED BY <4>1, <4>4 DEF OnRecord, Shows
    <3> QED BY <3>1, <3>2
  <2>4. CachedOnRecord'
    <3> SUFFICES ASSUME NEW k \in Store!Unexpired', Store!Punctual(k)',
                        entries'[k].response # NoResponse,
                        entries'[k].response.outcome = "succeeded"
                 PROVE  OnRecord(k, entries[k].response)'
      BY DEF CachedOnRecord
    <3>1. CASE k \in Store!Unexpired /\ entries'[k].response = entries[k].response
      <4>1. k \in Keys
        BY <3>1 DEF ServiceInv, StoredOK, Store!Unexpired
      <4>2. OnRecord(k, entries[k].response)
        BY <2>1, <3>1 DEF RecordInv, CachedOnRecord
      <4>3. IdOf(q) = k => q \in Keyed /\ pc[q] \notin Working
        BY <2>1, <2>2, <3>1, <4>1, WorkersAreAlone
      <4>4. \A x : x = entries[k].response => OnRecord(k, x)'
        BY <1>0, <1>1, <4>2, <4>3, DuplicatesKeep
      <4> QED BY <3>1, <4>4 DEF OnRecord, Shows
    <3>2. CASE Conclude(q) /\ q \in Keyed /\ k = KeyOf[q] /\ entries'[k].response = response[q]
      <4>1. pc[q] = "concluding" /\ rows' = rows
        BY <3>2 DEF Conclude
      <4>2. OnRecord(k, response[q])
        BY <2>1, <3>2, <4>1 DEF RecordInv, ConcludedOnRecord
      <4> QED BY <3>2, <4>1, <4>2 DEF OnRecord, Shows
    <3> QED BY <1>1, <3>1, <3>2, StoreResponses
  <2> QED BY <2>3, <2>4 DEF RecordInv
<1>2. CASE Crash
  <2>1. \A r \in Keyed : pc'[r] # "concluding"
    BY <1>0, <1>2 DEF Crash, Working
  <2>2. Store!Unexpired' = {}
    BY <1>2 DEF Crash, Store!StoreRestart, Store!Unexpired
  <2> QED BY <2>1, <2>2 DEF RecordInv, ConcludedOnRecord, CachedOnRecord
<1>3. CASE Tick
  <2>1. UNCHANGED <<pc, response, rows>> /\ late \subseteq late'
    BY <1>3 DEF Tick, threadVars, Store!StoreTick
  <2>2. \A k : Store!Punctual(k)' => Store!Punctual(k)
    BY <2>1 DEF Store!Punctual, Store!OfKey
  <2>3. \A k \in Store!Unexpired' : k \in Store!Unexpired /\ entries'[k].response = entries[k].response
    <3>1. /\ DOMAIN entries' = DOMAIN entries
          /\ \A k \in DOMAIN entries :
                /\ entries[k].age \in 0..TTL
                /\ entries'[k].age = Store!Older(entries[k].age)
                /\ entries'[k].response = entries[k].response
      BY <1>3 DEF Tick, Store!StoreTick, ServiceInv, StoredOK, Store!Entry
    <3>2. \A a \in 0..TTL : Store!Older(a) < TTL => a < TTL
      BY InvocationAssumptions DEF Store!Older
    <3> QED BY <3>1, <3>2 DEF Store!Unexpired
  <2> QED BY <2>1, <2>2, <2>3 DEF RecordInv, ConcludedOnRecord, CachedOnRecord, OnRecord, Shows
<1>4. CASE UNCHANGED vars
  BY <1>4 DEF vars, threadVars, idemVars, RecordInv, ConcludedOnRecord, CachedOnRecord,
     OnRecord, Shows, Store!Unexpired, Store!Punctual, Store!OfKey
<1> QED BY <1>1, <1>2, <1>3, <1>4 DEF Next

\* For any requests, keys and failures: a success that the store will replay is
\* on record, and no late step of a run and no duplicate takes it off.
THEOREM CachedSuccess == Spec => []CachedSuccessIsRecorded
<1>1. StoreProofs!StoreAssumptions
  BY InvocationAssumptions
     DEF StoreProofs!StoreAssumptions, StoredResponses, ResponseProducer
<1>2. StoreProofs!Spec => []StoreProofs!ExclusiveWork
  BY <1>1, StoreProofs!WorkIsExclusive
<1>3. Spec => []StoreProofs!ExclusiveWork
  BY ServiceUsesStore, SameStore, <1>2, PTL DEF StoreSpec, Store!Spec, StoreProofs!Spec
<1>4. Init => RecordInv
  BY InvocationAssumptions
     DEF Init, RecordInv, ConcludedOnRecord, CachedOnRecord, Store!Unexpired
<1>5. RecordInv => CachedSuccessIsRecorded
  BY DEF RecordInv, CachedOnRecord, OnRecord, Shows, CachedSuccessIsRecorded
<1> QED BY <1>3, <1>4, <1>5, RecordInvStep, ServiceInvariant, PTL DEF Spec
=============================================================================
