------------------------- MODULE IdempotencyStore -------------------------
(***************************************************************************)
(* The process-local idempotency store of the tutor runtime                *)
(* (invocation/idempotency.py) and the way the callers of one process use  *)
(* it: a caller claims its key, works, and then completes or abandons the  *)
(* key.  The store never learns which caller owns an entry: complete and   *)
(* abandon act on whatever entry the key has at that moment.               *)
(*                                                                         *)
(* Time.  An entry keeps created_at and is dropped once now - created_at   *)
(* reaches the TTL.  Only that difference matters, so an entry has an age  *)
(* that grows with Tick and stops at TTL.  Expiry is lazy: only a claim    *)
(* removes expired entries.                                                *)
(***************************************************************************)
EXTENDS Naturals

CONSTANTS
    Requests,       \* the calls that carry an idempotency key, one thread each
    Keys,           \* idempotency keys
    KeyOf,          \* KeyOf[r]: the key of call r
    FingerprintOf,  \* FingerprintOf[r]: hash of r's payload without the key
    Responses,      \* the responses a call can produce
    ProducerOf,     \* ProducerOf[x]: the call that produced response x
    NoResponse,     \* None
    TTL             \* ttl_seconds, in ticks

ASSUME StoreAssumptions ==
    /\ KeyOf \in [Requests -> Keys]
    /\ ProducerOf \in [Responses -> Requests]
    /\ NoResponse \notin Responses
    /\ TTL \in Nat \ {0}

VARIABLES
    entries,    \* _entries: a dict from keys to entries
    call,       \* where each call stands
    answer,     \* the stored response a replayed call was given
    age,        \* time since the call's claim succeeded, at most TTL
    served,     \* calls whose claim the current process granted
    late        \* calls that were still at work when their claim expired

storeVars == <<entries, call, answer, age, served, late>>

Fingerprints == {FingerprintOf[r] : r \in Requests}

Entry == [fingerprint : Fingerprints,
          age         : 0..TTL,
          response    : Responses \cup {NoResponse}]

CallStates == {"new", "holding", "completed", "abandoned", "leaked",
               "replayed", "busy", "conflict", "lost"}

Init ==
    /\ entries = [k \in {} |-> NoResponse]
    /\ call = [r \in Requests |-> "new"]
    /\ answer = [r \in Requests |-> NoResponse]
    /\ age = [r \in Requests |-> 0]
    /\ served = {}
    /\ late = {}

-----------------------------------------------------------------------------
(* The store's operations on its dictionary.                               *)

\* A plausible bug: only entries that have their response are dropped.
UnexpiredOrUnanswered ==
    {k \in DOMAIN entries : entries[k].age < TTL \/ entries[k].response = NoResponse}

\* _remove_expired_entries: the keys that a claim keeps.
Unexpired == {k \in DOMAIN entries : entries[k].age < TTL}

Kept == [k \in Unexpired |-> entries[k]]

NewEntry(r) ==
    [fingerprint |-> FingerprintOf[r], age |-> 0, response |-> NoResponse]

\* claim answers "acquired": a fresh entry without a response.
GrantClaim(r) ==
    LET k == KeyOf[r] IN
    /\ k \notin Unexpired
    /\ entries' = [j \in Unexpired \cup {k} |->
                      IF j = k THEN NewEntry(r) ELSE entries[j]]
    /\ age' = [age EXCEPT ![r] = 0]
    /\ served' = served \cup {r}
    /\ UNCHANGED late

\* claim answers "conflict", "in_progress" or "completed": only expiry
\* changes the dictionary.
RefuseClaim(r) ==
    /\ KeyOf[r] \in Unexpired
    /\ entries' = Kept
    /\ UNCHANGED <<age, served, late>>

SameFingerprint(r) == entries[KeyOf[r]].fingerprint = FingerprintOf[r]

Answered(r) == entries[KeyOf[r]].response # NoResponse

ClaimConflicts(r) == RefuseClaim(r) /\ ~SameFingerprint(r)

ClaimInProgress(r) == RefuseClaim(r) /\ SameFingerprint(r) /\ ~Answered(r)

\* A plausible bug: the stored response is returned before fingerprints are
\* compared.
ClaimCompletedAnyPayload(r) == RefuseClaim(r) /\ Answered(r)

ClaimCompleted(r) == RefuseClaim(r) /\ SameFingerprint(r) /\ Answered(r)

\* A plausible bug: the entry is given up once its response has been returned.
StoreCompletePops(r, x) ==
    /\ entries' = [k \in DOMAIN entries \ {KeyOf[r]} |-> entries[k]]
    /\ UNCHANGED <<age, served, late>>

\* complete: the response goes into whatever entry the key has.
StoreComplete(r, x) ==
    LET k == KeyOf[r] IN
    /\ entries' = IF k \in DOMAIN entries
                  THEN [entries EXCEPT ![k].response = x]
                  ELSE entries
    /\ UNCHANGED <<age, served, late>>

\* A plausible bug: a failed run leaves its entry behind.
AbandonKeepsEntry(r) == UNCHANGED <<entries, age, served, late>>

\* abandon: whatever entry the key has is removed.
StoreAbandon(r) ==
    /\ entries' = [k \in DOMAIN entries \ {KeyOf[r]} |-> entries[k]]
    /\ UNCHANGED <<age, served, late>>

\* The process ends and with it the dictionary.
StoreRestart ==
    /\ entries' = [k \in {} |-> NoResponse]
    /\ served' = {}
    /\ UNCHANGED <<age, late>>

\* A plausible bug: ages are never cut off at the TTL.
OlderUnbounded(a) == a + 1

Older(a) == IF a < TTL THEN a + 1 ELSE TTL

\* Time passes while the calls in atWork are running.
StoreTick(atWork) ==
    /\ entries' = [k \in DOMAIN entries |->
                      [entries[k] EXCEPT !.age = Older(@)]]
    /\ age' = [r \in Requests |->
                  IF r \in served THEN Older(age[r]) ELSE age[r]]
    /\ late' = late \cup {r \in atWork : Older(age[r]) = TTL}
    /\ UNCHANGED served

-----------------------------------------------------------------------------
(* The calls.                                                              *)

Become(r, state) == call' = [call EXCEPT ![r] = state]

Acquire(r) ==
    /\ call[r] = "new"
    /\ GrantClaim(r)
    /\ Become(r, "holding")
    /\ UNCHANGED answer

Replay(r) ==
    /\ call[r] = "new"
    /\ ClaimCompleted(r)
    /\ Become(r, "replayed")
    /\ answer' = [answer EXCEPT ![r] = entries[KeyOf[r]].response]

Busy(r) ==
    /\ call[r] = "new"
    /\ ClaimInProgress(r)
    /\ Become(r, "busy")
    /\ UNCHANGED answer

Conflict(r) ==
    /\ call[r] = "new"
    /\ ClaimConflicts(r)
    /\ Become(r, "conflict")
    /\ UNCHANGED answer

Complete(r) ==
    /\ call[r] = "holding"
    /\ \E x \in Responses : ProducerOf[x] = r /\ StoreComplete(r, x)
    /\ Become(r, "completed")
    /\ UNCHANGED answer

Abandon(r) ==
    /\ call[r] = "holding"
    /\ StoreAbandon(r)
    /\ Become(r, "abandoned")
    /\ UNCHANGED answer

\* The status write between the claim and the guarded part of handle raises:
\* the call ends and nobody completes or abandons its entry.
Leak(r) ==
    /\ call[r] = "holding"
    /\ Become(r, "leaked")
    /\ UNCHANGED <<entries, answer, age, served, late>>

\* Calls whose claim the process remembered are forgotten with it.
Restart ==
    /\ StoreRestart
    /\ call' = [r \in Requests |->
                   IF call[r] \in {"holding", "completed", "leaked"}
                   THEN "lost" ELSE call[r]]
    /\ UNCHANGED answer

Holding == {r \in Requests : call[r] = "holding"}

Tick ==
    /\ StoreTick(Holding)
    /\ UNCHANGED <<call, answer>>

Step(r) ==
    \/ Acquire(r) \/ Replay(r) \/ Busy(r) \/ Conflict(r)
    \/ Complete(r) \/ Abandon(r) \/ Leak(r)

Next == (\E r \in Requests : Step(r)) \/ Restart \/ Tick

Spec == Init /\ [][Next]_storeVars

\* The clock goes on.  Nothing is assumed of the calls.
FairSpec == Spec /\ WF_storeVars(Tick)

-----------------------------------------------------------------------------
(* Properties.                                                             *)

\* Every variable has its type; ages never pass the TTL.
StoreTypeOK ==
    /\ DOMAIN entries \subseteq Keys
    /\ entries = [k \in DOMAIN entries |-> entries[k]]
    /\ \A k \in DOMAIN entries : entries[k] \in Entry
    /\ call \in [Requests -> CallStates]
    /\ answer \in [Requests -> Responses \cup {NoResponse}]
    /\ age \in [Requests -> 0..TTL]
    /\ served \subseteq Requests
    /\ late \subseteq Requests

OfKey(k) == {r \in Requests : KeyOf[r] = k}

\* No call of the key has yet outlived its claim.
Punctual(k) == late \cap OfKey(k) = {}

\* Calls whose claim was granted less than a TTL ago and not given back.
InWindow(k) ==
    {r \in served \cap OfKey(k) : age[r] < TTL /\ call[r] # "abandoned"}

\* claim, complete and abandon together let one call per key work in a TTL
\* window: two granted claims of a key are either a TTL apart or the first was
\* abandoned.  It holds until some call of the key runs past the TTL, because
\* from then on complete and abandon may hit another call's entry.
OneRunPerWindow ==
    \A k \in Keys : Punctual(k) =>
        \A r, s \in InWindow(k) : r = s

\* A replayed response was produced for the same key and the same payload
\* (claim compares fingerprints, complete stores under the key alone), again
\* until a call of that key runs past the TTL; ReplayIsOfSamePayload is the
\* promise without that condition, which the late call breaks.
ReplayFaithful ==
    \A r \in Requests : (answer[r] # NoResponse /\ Punctual(KeyOf[r])) =>
        LET p == ProducerOf[answer[r]] IN
        /\ KeyOf[p] = KeyOf[r]
        /\ FingerprintOf[p] = FingerprintOf[r]

\* A key is reported as in progress only on account of a call that was granted
\* it and is at work, or died before it could give it back (Leak): abandon
\* never leaves such an entry behind.
InProgressHasOwner ==
    \A k \in Unexpired : (Punctual(k) /\ entries[k].response = NoResponse) =>
        \E r \in served \cap OfKey(k) :
            /\ call[r] \in {"holding", "leaked"}
            /\ FingerprintOf[r] = entries[k].fingerprint
            /\ age[r] = entries[k].age

InProgress(k) == k \in Unexpired /\ entries[k].response = NoResponse

\* However the call that claimed a key fares (it answers, raises, leaks its
\* claim, hangs or dies), the key does not stay in progress for ever: the
\* expiry that claim applies gets its callers past "in progress".
InProgressEnds == \A k \in Keys : InProgress(k) ~> ~InProgress(k)

\* What the invocation specification promises of a concurrent duplicate: while
\* a call with the key is still running another one is refused, so two calls of
\* a key never run at once.
NeverTwoRunning ==
    \A r, s \in Holding : KeyOf[r] = KeyOf[s] => r = s

\* What the invocation specification promises of a repeated key: a replay
\* answers a repeat of the same payload, whoever runs past the TTL meanwhile.
\* complete looks the key up anew, and then the entry may be of another payload.
ReplayIsOfSamePayload ==
    \A r \in Requests : answer[r] # NoResponse =>
        FingerprintOf[ProducerOf[answer[r]]] = FingerprintOf[r]
=============================================================================
