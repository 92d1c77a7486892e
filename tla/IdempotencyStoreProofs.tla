---------------------- MODULE IdempotencyStoreProofs ----------------------
(***************************************************************************)
(* Proofs about IdempotencyStore for every set of calls, keys, payloads    *)
(* and responses and every TTL.                                            *)
(*                                                                         *)
(* OneRunPerWindow is not inductive: that no second claim is granted       *)
(* depends on the entry of the first one still being there.  The           *)
(* strengthening WindowOwnsEntry says so: as long as a key is punctual, a  *)
(* call in its window owns the entry of the key, which has the call's own  *)
(* age, fingerprint and, once completed, response.                         *)
(***************************************************************************)
EXTENDS IdempotencyStore, TLAPS

\* A call at work that is not late is in the window of its key.
WorkIsClaimed ==
    \A r \in Requests : call[r] = "holding" /\ r \notin late =>
        r \in served /\ age[r] < TTL

\* A call in the window of a punctual key owns the entry of that key.
WindowOwnsEntry ==
    \A k \in Keys : Punctual(k) =>
        \A r \in InWindow(k) :
            /\ k \in DOMAIN entries
            /\ entries[k].fingerprint = FingerprintOf[r]
            /\ entries[k].age = age[r]

\* A stored response of a punctual key was produced for the entry it is in.
StoredFaithfully ==
    \A k \in DOMAIN entries :
        Punctual(k) /\ entries[k].response # NoResponse =>
            LET p == ProducerOf[entries[k].response] IN
            /\ KeyOf[p] = k
            /\ FingerprintOf[p] = entries[k].fingerprint

IInv ==
    /\ StoreTypeOK
    /\ WorkIsClaimed
    /\ WindowOwnsEntry
    /\ OneRunPerWindow
    /\ StoredFaithfully
    /\ ReplayFaithful
    /\ InProgressHasOwner

-----------------------------------------------------------------------------
(* Type correctness.                                                       *)

\* Ages stay within the TTL when time passes.
LEMMA OlderType == \A a \in 0..TTL : Older(a) \in 0..TTL /\ Older(a) > 0
BY StoreAssumptions DEF Older

\* What a claim writes is an entry, and what it keeps are entries.
LEMMA NewEntryType == \A r \in Requests : NewEntry(r) \in Entry
BY StoreAssumptions DEF NewEntry, Entry, Fingerprints

\* Every step of a call and of the process keeps the types: the store only ever
\* holds entries, and each call is in one of its states.
LEMMA TypeStep == StoreTypeOK /\ [Next]_storeVars => StoreTypeOK'
<1> SUFFICES ASSUME StoreTypeOK, [Next]_storeVars PROVE StoreTypeOK'
  OBVIOUS
<1> USE StoreAssumptions DEF StoreTypeOK, CallStates
<1>1. ASSUME NEW r \in Requests, Acquire(r) PROVE StoreTypeOK'
  BY <1>1, NewEntryType DEF Acquire, GrantClaim, Become, Unexpired
<1>2. ASSUME NEW r \in Requests, Replay(r) PROVE StoreTypeOK'
  <2>1. entries[KeyOf[r]].response \in Responses \cup {NoResponse}
    BY <1>2 DEF Replay, ClaimCompleted, RefuseClaim, Unexpired, Entry
  <2> QED
    BY <1>2, <2>1 DEF Replay, ClaimCompleted, RefuseClaim, Become, Unexpired, Kept
<1>3. ASSUME NEW r \in Requests, Busy(r) \/ Conflict(r) PROVE StoreTypeOK'
  BY <1>3 DEF Busy, Conflict, ClaimInProgress, ClaimConflicts, RefuseClaim,
              Become, Unexpired, Kept
<1>4. ASSUME NEW r \in Requests, Complete(r) PROVE StoreTypeOK'
  <2>1. PICK x \in Responses : StoreComplete(r, x)
    BY <1>4 DEF Complete
  <2>2. \A k \in DOMAIN entries :
            [entries[k] EXCEPT !.response = x] \in Entry
    BY DEF Entry
  <2>3. /\ DOMAIN entries' = DOMAIN entries
        /\ \A k \in DOMAIN entries :
              entries'[k] = IF k = KeyOf[r]
                            THEN [entries[k] EXCEPT !.response = x]
                            ELSE entries[k]
        /\ entries' = [k \in DOMAIN entries' |-> entries'[k]]
    BY <2>1 DEF StoreComplete
  <2>4. UNCHANGED <<age, served, late, answer>> /\ Become(r, "completed")
    BY <1>4 DEF Complete, StoreComplete
  <2> QED
    BY <2>2, <2>3, <2>4 DEF Become
<1>5. ASSUME NEW r \in Requests, Abandon(r) PROVE StoreTypeOK'
  BY <1>5 DEF Abandon, StoreAbandon, Become
<1>6. ASSUME NEW r \in Requests, Leak(r) PROVE StoreTypeOK'
  BY <1>6 DEF Leak, Become
<1>7. CASE Restart
  BY <1>7 DEF Restart, StoreRestart
<1>8. CASE Tick
  <2>1. \A k \in DOMAIN entries :
            [entries[k] EXCEPT !.age = Older(@)] \in Entry
    BY OlderType DEF Entry
  <2>2. age' \in [Requests -> 0..TTL]
    BY <1>8, OlderType DEF Tick, StoreTick
  <2> QED
    BY <1>8, <2>1, <2>2 DEF Tick, StoreTick, Holding
<1>9. CASE UNCHANGED storeVars
  BY <1>9 DEF storeVars
<1> QED
  BY <1>1, <1>2, <1>3, <1>4, <1>5, <1>6, <1>7, <1>8, <1>9 DEF Next, Step

\* The idempotency store and its callers are type correct.
THEOREM TypeCorrect == Spec => []StoreTypeOK
<1>1. Init => StoreTypeOK
  BY StoreAssumptions DEF Init, StoreTypeOK, CallStates
<1> QED
  BY <1>1, TypeStep, PTL DEF Spec

-----------------------------------------------------------------------------
(* The inductive invariant.                                                *)

\* A granted claim finds the window of its key empty: were a call in it, its
\* unexpired entry would still be there.
LEMMA EmptyWindow ==
    ASSUME IInv, NEW r \in Requests, KeyOf[r] \notin Unexpired, Punctual(KeyOf[r])
    PROVE  InWindow(KeyOf[r]) = {}
BY StoreAssumptions DEF IInv, WindowOwnsEntry, InWindow, Unexpired, OfKey

\* A call at work on a punctual key is in the window of its key, alone.
LEMMA HolderAlone ==
    ASSUME IInv, NEW r \in Requests, call[r] = "holding", Punctual(KeyOf[r])
    PROVE  InWindow(KeyOf[r]) = {r}
BY StoreAssumptions DEF IInv, WorkIsClaimed, OneRunPerWindow, InWindow, OfKey, Punctual

\* Granting a claim preserves the invariant.
LEMMA AcquireStep ==
    ASSUME IInv, StoreTypeOK', NEW r \in Requests, Acquire(r)
    PROVE  IInv'
<1> USE StoreAssumptions DEF StoreTypeOK
<1> DEFINE k0 == KeyOf[r]
<1>0. /\ k0 \in Keys /\ k0 \notin Unexpired
      /\ call[r] = "new"
      /\ call' = [call EXCEPT ![r] = "holding"]
      /\ DOMAIN entries' = Unexpired \cup {k0}
      /\ entries'[k0] = NewEntry(r)
      /\ \A k \in Unexpired : entries'[k] = entries[k]
      /\ age' = [age EXCEPT ![r] = 0]
      /\ served' = served \cup {r}
      /\ late' = late /\ answer' = answer
  BY DEF Acquire, GrantClaim, Become, IInv
<1>1. \A k : Punctual(k)' <=> Punctual(k)
  BY <1>0 DEF Punctual, OfKey
<1>2. \A k \in Keys : k # k0 => InWindow(k)' = InWindow(k)
  BY <1>0 DEF InWindow, OfKey, IInv
<1>3. Punctual(k0) => InWindow(k0)' \subseteq {r}
  BY <1>0, EmptyWindow DEF InWindow, OfKey, IInv
<1>4. WorkIsClaimed'
  BY <1>0 DEF WorkIsClaimed, IInv
<1>5. OneRunPerWindow'
  BY <1>1, <1>2, <1>3 DEF OneRunPerWindow, IInv
<1>6. WindowOwnsEntry'
  <2> SUFFICES ASSUME NEW k \in Keys, Punctual(k), NEW s \in InWindow(k)'
               PROVE  /\ k \in DOMAIN entries'
                      /\ entries'[k].fingerprint = FingerprintOf[s]
                      /\ entries'[k].age = age'[s]
    BY <1>1 DEF WindowOwnsEntry
  <2>1. CASE k = k0
    BY <2>1, <1>0, <1>3 DEF NewEntry, IInv
  <2>2. CASE k # k0
    <3>1. s \in InWindow(k) /\ s # r
      BY <2>2, <1>2 DEF InWindow, OfKey
    <3>2. /\ k \in Unexpired
          /\ entries[k].fingerprint = FingerprintOf[s]
          /\ entries[k].age = age[s]
      BY <3>1 DEF IInv, WindowOwnsEntry, InWindow, Unexpired
    <3> QED
      BY <3>1, <3>2, <1>0 DEF IInv, InWindow
  <2> QED
    BY <2>1, <2>2
<1>7. StoredFaithfully'
  BY <1>0, <1>1 DEF StoredFaithfully, IInv, NewEntry, Unexpired
<1>8. ReplayFaithful'
  BY <1>0, <1>1 DEF ReplayFaithful, IInv
<1>9. InProgressHasOwner'
  <2> SUFFICES ASSUME NEW k \in Unexpired', Punctual(k),
                      entries'[k].response = NoResponse
               PROVE  \E s \in served' \cap OfKey(k) :
                          /\ call'[s] \in {"holding", "leaked"}
                          /\ FingerprintOf[s] = entries'[k].fingerprint
                          /\ age'[s] = entries'[k].age
    BY <1>1 DEF InProgressHasOwner, OfKey
  <2>1. CASE k = k0
    <3>1. r \in served' \cap OfKey(k)
      BY <2>1, <1>0 DEF OfKey
    <3> QED
      BY <2>1, <3>1, <1>0 DEF NewEntry, IInv
  <2>2. CASE k # k0
    <3>1. k \in Unexpired /\ entries'[k] = entries[k]
      BY <2>2, <1>0 DEF Unexpired
    <3>2. PICK s \in served \cap OfKey(k) :
              /\ call[s] \in {"holding", "leaked"}
              /\ FingerprintOf[s] = entries[k].fingerprint
              /\ age[s] = entries[k].age
      BY <3>1 DEF IInv, InProgressHasOwner
    <3>3. s # r /\ s \in Requests
      BY <2>2, <3>2 DEF OfKey
    <3> QED
      BY <3>1, <3>2, <3>3, <1>0 DEF IInv
  <2> QED
    BY <2>1, <2>2
<1> QED
  BY <1>4, <1>5, <1>6, <1>7, <1>8, <1>9 DEF IInv

\* A refused claim only drops expired entries, and those belong to no window.
LEMMA RefusedStep ==
    ASSUME IInv, StoreTypeOK', NEW r \in Requests,
           Replay(r) \/ Busy(r) \/ Conflict(r)
    PROVE  IInv'
<1> USE StoreAssumptions DEF StoreTypeOK
<1>0. /\ DOMAIN entries' = Unexpired
      /\ \A k \in Unexpired : entries'[k] = entries[k]
      /\ Unexpired' = Unexpired
      /\ age' = age /\ served' = served /\ late' = late
      /\ call[r] = "new"
      /\ \E state \in {"replayed", "busy", "conflict"} :
            call' = [call EXCEPT ![r] = state]
  BY DEF Replay, Busy, Conflict, ClaimCompleted, ClaimInProgress, ClaimConflicts,
         RefuseClaim, Kept, Become, Unexpired
<1>1. \A k : Punctual(k)' <=> Punctual(k)
  BY <1>0 DEF Punctual, OfKey
<1>2. \A s \in Requests : /\ (call'[s] = "abandoned" <=> call[s] = "abandoned")
                          /\ (call'[s] = "holding" <=> call[s] = "holding")
                          /\ (call'[s] = "leaked" <=> call[s] = "leaked")
  BY <1>0 DEF IInv
<1>3. \A k \in Keys : InWindow(k)' = InWindow(k)
  BY <1>0, <1>2 DEF InWindow, OfKey
<1>4. WorkIsClaimed'
  BY <1>0, <1>2 DEF WorkIsClaimed, IInv
<1>5. OneRunPerWindow'
  BY <1>1, <1>3 DEF OneRunPerWindow, IInv
<1>6. WindowOwnsEntry'
  BY <1>0, <1>1, <1>3 DEF WindowOwnsEntry, IInv, InWindow, Unexpired
<1>7. StoredFaithfully'
  BY <1>0, <1>1 DEF StoredFaithfully, IInv, Unexpired
<1>8. ReplayFaithful'
  <2>1. CASE Replay(r)
    <3> DEFINE k == KeyOf[r]
    <3>1. /\ k \in DOMAIN entries
          /\ entries[k].fingerprint = FingerprintOf[r]
          /\ entries[k].response # NoResponse
          /\ answer' = [answer EXCEPT ![r] = entries[k].response]
      BY <2>1 DEF Replay, ClaimCompleted, RefuseClaim, SameFingerprint,
                  Answered, Unexpired
    <3>2. Punctual(k) => LET p == ProducerOf[entries[k].response] IN
                         /\ KeyOf[p] = k
                         /\ FingerprintOf[p] = FingerprintOf[r]
      BY <3>1 DEF IInv, StoredFaithfully
    <3> QED
      BY <3>1, <3>2, <1>1 DEF IInv, ReplayFaithful
  <2>2. CASE Busy(r) \/ Conflict(r)
    BY <2>2, <1>1 DEF Busy, Conflict, ReplayFaithful, IInv
  <2> QED
    BY <2>1, <2>2
<1>9. InProgressHasOwner'
  BY <1>0, <1>1, <1>2 DEF InProgressHasOwner, IInv, OfKey, Unexpired
<1> QED
  BY <1>4, <1>5, <1>6, <1>7, <1>8, <1>9 DEF IInv

\* Completing a key: a late call makes its key unpunctual, any other call of the
\* key finds its own entry.
LEMMA CompleteStep ==
    ASSUME IInv, StoreTypeOK', NEW r \in Requests, Complete(r)
    PROVE  IInv'
<1> USE StoreAssumptions DEF StoreTypeOK
<1> DEFINE k0 == KeyOf[r]
<1>0. PICK x \in Responses : ProducerOf[x] = r /\ StoreComplete(r, x)
  BY DEF Complete
<1>1. /\ DOMAIN entries' = DOMAIN entries
      /\ \A k \in DOMAIN entries :
            /\ k # k0 => entries'[k] = entries[k]
            /\ entries'[k].fingerprint = entries[k].fingerprint
            /\ entries'[k].age = entries[k].age
      /\ k0 \in DOMAIN entries => entries'[k0].response = x
      /\ Unexpired' = Unexpired
  BY <1>0 DEF StoreComplete, Unexpired, Entry, IInv
<1>2. /\ age' = age /\ served' = served /\ late' = late /\ answer' = answer
      /\ call[r] = "holding"
      /\ call' = [call EXCEPT ![r] = "completed"]
  BY <1>0 DEF Complete, StoreComplete, Become
<1>3. \A k : Punctual(k)' <=> Punctual(k)
  BY <1>2 DEF Punctual, OfKey
<1>4. \A k \in Keys : InWindow(k)' = InWindow(k)
  BY <1>2 DEF InWindow, OfKey, IInv
<1>5. WorkIsClaimed'
  BY <1>2 DEF WorkIsClaimed, IInv
<1>6. OneRunPerWindow'
  BY <1>3, <1>4 DEF OneRunPerWindow, IInv
<1>7. WindowOwnsEntry'
  BY <1>1, <1>2, <1>3, <1>4 DEF WindowOwnsEntry, IInv
<1>8. StoredFaithfully'
  <2>1. ASSUME Punctual(k0), k0 \in DOMAIN entries
        PROVE  FingerprintOf[r] = entries[k0].fingerprint
    BY <2>1, <1>2, HolderAlone DEF IInv, WindowOwnsEntry
  <2> QED
    BY <2>1, <1>0, <1>1, <1>3 DEF StoredFaithfully, IInv
<1>9. ReplayFaithful'
  BY <1>2, <1>3 DEF ReplayFaithful, IInv
<1>10. InProgressHasOwner'
  <2> SUFFICES ASSUME NEW k \in Unexpired, Punctual(k),
                      entries'[k].response = NoResponse
               PROVE  \E s \in served \cap OfKey(k) :
                          /\ call'[s] \in {"holding", "leaked"}
                          /\ FingerprintOf[s] = entries'[k].fingerprint
                          /\ age[s] = entries'[k].age
    BY <1>1, <1>2, <1>3 DEF InProgressHasOwner, OfKey
  <2>1. k \in DOMAIN entries /\ k # k0
    BY <1>1 DEF Unexpired
  <2>2. PICK s \in served \cap OfKey(k) :
            /\ call[s] \in {"holding", "leaked"}
            /\ FingerprintOf[s] = entries[k].fingerprint
            /\ age[s] = entries[k].age
    BY <2>1, <1>1 DEF IInv, InProgressHasOwner
  <2> QED
    BY <2>1, <2>2, <1>1, <1>2 DEF OfKey, IInv
<1> QED
  BY <1>5, <1>6, <1>7, <1>8, <1>9, <1>10 DEF IInv

\* Abandoning a key: the entry that goes is the caller's own, or the key is no
\* longer punctual.
LEMMA AbandonStep ==
    ASSUME IInv, StoreTypeOK', NEW r \in Requests, Abandon(r)
    PROVE  IInv'
<1> USE StoreAssumptions DEF StoreTypeOK
<1> DEFINE k0 == KeyOf[r]
<1>0. /\ DOMAIN entries' = DOMAIN entries \ {k0}
      /\ \A k \in DOMAIN entries \ {k0} : entries'[k] = entries[k]
      /\ Unexpired' = Unexpired \ {k0}
      /\ age' = age /\ served' = served /\ late' = late /\ answer' = answer
      /\ call[r] = "holding"
      /\ call' = [call EXCEPT ![r] = "abandoned"]
  BY DEF Abandon, StoreAbandon, Become, Unexpired
<1>1. \A k : Punctual(k)' <=> Punctual(k)
  BY <1>0 DEF Punctual, OfKey
<1>2. \A k \in Keys : InWindow(k)' = InWindow(k) \ {r}
  BY <1>0 DEF InWindow, OfKey, IInv
<1>3. WorkIsClaimed'
  BY <1>0 DEF WorkIsClaimed, IInv
<1>4. OneRunPerWindow'
  BY <1>1, <1>2 DEF OneRunPerWindow, IInv
<1>5. WindowOwnsEntry'
  <2>1. Punctual(k0) => InWindow(k0)' = {}
    BY <1>0, <1>2, HolderAlone
  <2> QED
    BY <2>1, <1>0, <1>1, <1>2 DEF WindowOwnsEntry, IInv
<1>6. StoredFaithfully'
  BY <1>0, <1>1 DEF StoredFaithfully, IInv
<1>7. ReplayFaithful'
  BY <1>0, <1>1 DEF ReplayFaithful, IInv
<1>8. InProgressHasOwner'
  BY <1>0, <1>1 DEF InProgressHasOwner, IInv, OfKey, Unexpired
<1> QED
  BY <1>3, <1>4, <1>5, <1>6, <1>7, <1>8 DEF IInv

\* A call that dies with its claim changes nothing the other calls rely on.
LEMMA LeakStep ==
    ASSUME IInv, StoreTypeOK', NEW r \in Requests, Leak(r)
    PROVE  IInv'
<1> USE StoreAssumptions DEF StoreTypeOK
<1>0. /\ call[r] = "holding"
      /\ call' = [call EXCEPT ![r] = "leaked"]
      /\ entries' = entries /\ answer' = answer /\ age' = age
      /\ served' = served /\ late' = late /\ Unexpired' = Unexpired
  BY DEF Leak, Become, Unexpired
<1>1. \A k : Punctual(k)' <=> Punctual(k)
  BY <1>0 DEF Punctual, OfKey
<1>2. \A k \in Keys : InWindow(k)' = InWindow(k)
  BY <1>0 DEF InWindow, OfKey, IInv
<1>3. WorkIsClaimed' /\ OneRunPerWindow' /\ WindowOwnsEntry'
  BY <1>0, <1>1, <1>2 DEF WorkIsClaimed, OneRunPerWindow, WindowOwnsEntry, IInv
<1>4. StoredFaithfully' /\ ReplayFaithful'
  BY <1>0, <1>1 DEF StoredFaithfully, ReplayFaithful, IInv
<1>5. InProgressHasOwner'
  BY <1>0, <1>1 DEF InProgressHasOwner, IInv, OfKey
<1> QED
  BY <1>3, <1>4, <1>5 DEF IInv

\* After a restart nothing is remembered and nobody is at work.
LEMMA RestartStep ==
    ASSUME IInv, StoreTypeOK', Restart
    PROVE  IInv'
<1> USE StoreAssumptions DEF StoreTypeOK
<1>0. /\ DOMAIN entries' = {} /\ served' = {} /\ late' = late
      /\ answer' = answer
      /\ \A r \in Requests : call'[r] # "holding"
  BY DEF Restart, StoreRestart
<1>1. \A k : Punctual(k)' <=> Punctual(k)
  BY <1>0 DEF Punctual, OfKey
<1>2. WorkIsClaimed' /\ OneRunPerWindow' /\ WindowOwnsEntry'
  BY <1>0 DEF WorkIsClaimed, OneRunPerWindow, WindowOwnsEntry, InWindow
<1>3. StoredFaithfully' /\ ReplayFaithful'
  BY <1>0, <1>1 DEF StoredFaithfully, ReplayFaithful, IInv
<1>4. InProgressHasOwner'
  BY <1>0 DEF InProgressHasOwner, Unexpired
<1> QED
  BY <1>2, <1>3, <1>4 DEF IInv

\* Time: an entry and the call that owns it grow old together, and a call that
\* is at work when its window closes becomes late.
LEMMA TickStep ==
    ASSUME IInv, StoreTypeOK', Tick
    PROVE  IInv'
<1> USE StoreAssumptions DEF StoreTypeOK
<1>0. /\ DOMAIN entries' = DOMAIN entries
      /\ \A k \in DOMAIN entries :
            /\ entries'[k].age = Older(entries[k].age)
            /\ entries'[k].fingerprint = entries[k].fingerprint
            /\ entries'[k].response = entries[k].response
      /\ \A r \in Requests :
            age'[r] = IF r \in served THEN Older(age[r]) ELSE age[r]
      /\ late' = late \cup {r \in Holding : Older(age[r]) = TTL}
      /\ served' = served /\ call' = call /\ answer' = answer
  BY DEF Tick, StoreTick, Entry, IInv
<1>1. \A k : Punctual(k)' => Punctual(k)
  BY <1>0 DEF Punctual, OfKey
<1>2. \A a \in 0..TTL : Older(a) < TTL => a < TTL
  BY DEF Older
<1>3. \A k \in Keys : InWindow(k)' \subseteq InWindow(k)
  BY <1>0, <1>2 DEF InWindow, OfKey, IInv
<1>4. WorkIsClaimed'
  <2> SUFFICES ASSUME NEW r \in Requests, call[r] = "holding", r \notin late'
               PROVE  r \in served /\ age'[r] < TTL
    BY <1>0 DEF WorkIsClaimed
  <2>1. r \in served /\ age[r] \in 0..TTL
    BY <1>0 DEF IInv, WorkIsClaimed
  <2>2. Older(age[r]) # TTL
    BY <1>0 DEF Holding
  <2>3. Older(age[r]) \in 0..TTL
    BY <2>1, OlderType
  <2> QED
    BY <2>1, <2>2, <2>3, <1>0
<1>5. OneRunPerWindow'
  BY <1>1, <1>3 DEF OneRunPerWindow, IInv
<1>6. WindowOwnsEntry'
  <2> SUFFICES ASSUME NEW k \in Keys, Punctual(k)', NEW r \in InWindow(k)'
               PROVE  /\ k \in DOMAIN entries'
                      /\ entries'[k].fingerprint = FingerprintOf[r]
                      /\ entries'[k].age = age'[r]
    BY DEF WindowOwnsEntry
  <2>1. Punctual(k) /\ r \in InWindow(k)
    BY <1>1, <1>3
  <2>2. /\ k \in DOMAIN entries
        /\ entries[k].fingerprint = FingerprintOf[r]
        /\ entries[k].age = age[r]
        /\ r \in served /\ r \in Requests
    BY <2>1 DEF IInv, WindowOwnsEntry, InWindow
  <2> QED
    BY <2>2, <1>0
<1>7. StoredFaithfully' /\ ReplayFaithful'
  BY <1>0, <1>1 DEF StoredFaithfully, ReplayFaithful, IInv
<1>8. InProgressHasOwner'
  <2> SUFFICES ASSUME NEW k \in Unexpired', Punctual(k)',
                      entries'[k].response = NoResponse
               PROVE  \E r \in served \cap OfKey(k) :
                          /\ call[r] \in {"holding", "leaked"}
                          /\ FingerprintOf[r] = entries'[k].fingerprint
                          /\ age'[r] = entries'[k].age
    BY <1>0 DEF InProgressHasOwner, OfKey
  <2>1. k \in Unexpired /\ entries[k].response = NoResponse
    BY <1>0, <1>2 DEF Unexpired, IInv, Entry
  <2>2. PICK r \in served \cap OfKey(k) :
            /\ call[r] \in {"holding", "leaked"}
            /\ FingerprintOf[r] = entries[k].fingerprint
            /\ age[r] = entries[k].age
    BY <2>1, <1>1 DEF IInv, InProgressHasOwner
  <2> QED
    BY <2>1, <2>2, <1>0 DEF OfKey, Unexpired
<1> QED
  BY <1>4, <1>5, <1>6, <1>7, <1>8 DEF IInv

\* The strengthened invariant is inductive.
LEMMA InvStep == IInv /\ [Next]_storeVars => IInv'
<1> SUFFICES ASSUME IInv, [Next]_storeVars PROVE IInv'
  OBVIOUS
<1>0. StoreTypeOK'
  BY TypeStep DEF IInv
<1>1. ASSUME NEW r \in Requests, Step(r) PROVE IInv'
  BY <1>0, <1>1, AcquireStep, RefusedStep, CompleteStep, AbandonStep, LeakStep
     DEF Step
<1>2. CASE Restart
  BY <1>0, <1>2, RestartStep
<1>3. CASE Tick
  BY <1>0, <1>3, TickStep
<1>4. CASE UNCHANGED storeVars
  BY <1>4 DEF storeVars, IInv, StoreTypeOK, WorkIsClaimed, WindowOwnsEntry,
              OneRunPerWindow, StoredFaithfully, ReplayFaithful,
              InProgressHasOwner, InWindow, OfKey, Punctual, Unexpired
<1> QED
  BY <1>1, <1>2, <1>3, <1>4 DEF Next

\* The inductive invariant holds of every behaviour.
THEOREM InductiveInvariant == Spec => []IInv
<1>1. Init => IInv
  BY StoreAssumptions
     DEF Init, IInv, StoreTypeOK, CallStates, WorkIsClaimed, WindowOwnsEntry,
         OneRunPerWindow, StoredFaithfully, ReplayFaithful, InProgressHasOwner,
         InWindow, OfKey, Punctual, Unexpired
<1> QED
  BY <1>1, InvStep, PTL DEF Spec

\* At most one call per key works in a TTL window (claim, complete, abandon),
\* until a call of the key runs past the TTL.
THEOREM SingleRun == Spec => []OneRunPerWindow
BY InductiveInvariant, PTL DEF IInv

\* A replay hands out a response to the same key and payload, until a call of
\* the key runs past the TTL.
THEOREM FaithfulReplay == Spec => []ReplayFaithful
BY InductiveInvariant, PTL DEF IInv

\* A key is in progress only on account of a call that was granted it.
THEOREM OwnedProgress == Spec => []InProgressHasOwner
BY InductiveInvariant, PTL DEF IInv

\* While no call of a key is late, two of its calls are never at work together:
\* the promise of NeverTwoRunning, with the condition the code needs for it.
THEOREM PunctualExclusion ==
    Spec => [](\A r, s \in Holding :
                  KeyOf[r] = KeyOf[s] /\ Punctual(KeyOf[r]) => r = s)
<1>1. IInv => \A r, s \in Holding :
                 KeyOf[r] = KeyOf[s] /\ Punctual(KeyOf[r]) => r = s
  BY HolderAlone DEF Holding
<1> QED
  BY <1>1, InductiveInvariant, PTL

\* The entry of a call at work on a punctual key has no response: only its own
\* call completes it, or one that is late.
WorkIsUnanswered ==
    \A r \in Holding : Punctual(KeyOf[r]) => entries[KeyOf[r]].response = NoResponse

LEMMA UnansweredStep ==
    ASSUME IInv, WorkIsUnanswered, [Next]_storeVars
    PROVE  WorkIsUnanswered'
<1> USE StoreAssumptions
<1> SUFFICES ASSUME NEW h \in Requests, call'[h] = "holding", Punctual(KeyOf[h])'
             PROVE  entries'[KeyOf[h]].response = NoResponse
  BY DEF WorkIsUnanswered, Holding
<1> DEFINE k == KeyOf[h]
           Before == call[h] = "holding" /\ Punctual(k)
<1>0. StoreTypeOK /\ k \in Keys
  BY DEF IInv
<1>1. Before => /\ InWindow(k) = {h} /\ k \in Unexpired
                /\ entries[k].response = NoResponse
  <2> SUFFICES ASSUME Before
               PROVE  /\ InWindow(k) = {h} /\ k \in Unexpired
                      /\ entries[k].response = NoResponse
    OBVIOUS
  <2>1. InWindow(k) = {h}
    BY HolderAlone
  <2>2. k \in DOMAIN entries /\ entries[k].age = age[h] /\ age[h] < TTL
    BY <1>0, <2>1 DEF IInv, WindowOwnsEntry, InWindow
  <2>3. entries[k].response = NoResponse
    BY DEF WorkIsUnanswered, Holding
  <2> QED BY <2>1, <2>2, <2>3 DEF Unexpired
<1>2. late \subseteq late'
  BY DEF Next, Step, Acquire, Replay, Busy, Conflict, Complete, Abandon, Leak, Restart,
         Tick, GrantClaim, ClaimCompleted, ClaimInProgress, ClaimConflicts, RefuseClaim,
         StoreComplete, StoreAbandon, StoreRestart, StoreTick, storeVars
<1>3. Punctual(k)
  BY <1>2 DEF Punctual, OfKey
<1>4. ASSUME NEW r \in Requests, Acquire(r)
      PROVE  entries'[k].response = NoResponse
  <2>1. /\ KeyOf[r] \notin Unexpired /\ call' = [call EXCEPT ![r] = "holding"]
        /\ entries' = [j \in Unexpired \cup {KeyOf[r]} |->
                          IF j = KeyOf[r] THEN NewEntry(r) ELSE entries[j]]
    BY <1>4 DEF Acquire, GrantClaim, Become
  <2>2. CASE h = r
    BY <2>1, <2>2 DEF NewEntry
  <2>3. CASE h # r
    <3>1. Before
      BY <1>0, <1>3, <2>1, <2>3 DEF StoreTypeOK
    <3> QED BY <1>1, <2>1, <3>1
  <2> QED BY <2>2, <2>3
<1>5. ASSUME NEW r \in Requests, Replay(r) \/ Busy(r) \/ Conflict(r)
      PROVE  entries'[k].response = NoResponse
  <2>1. /\ call' = [call EXCEPT ![r] = call'[r]] /\ call'[r] # "holding"
        /\ entries' = Kept
    BY <1>0, <1>5 DEF Replay, Busy, Conflict, ClaimCompleted, ClaimInProgress,
                      ClaimConflicts, RefuseClaim, Become, StoreTypeOK
  <2>2. Before
    BY <1>0, <1>3, <2>1 DEF StoreTypeOK
  <2> QED BY <1>1, <2>1, <2>2 DEF Kept
<1>6. ASSUME NEW r \in Requests, Complete(r) \/ Abandon(r) \/ Leak(r)
      PROVE  entries'[k].response = NoResponse
  <2>1. /\ call[r] = "holding" /\ call'[r] # "holding"
        /\ \A q \in Requests \ {r} : call'[q] = call[q]
        /\ \A j \in DOMAIN entries : j # KeyOf[r] => entries'[j] = entries[j]
        /\ Leak(r) => entries' = entries
    BY <1>0, <1>6 DEF Complete, Abandon, Leak, StoreComplete, StoreAbandon, Become,
                      StoreTypeOK
  <2>2. Before /\ h # r
    BY <1>3, <2>1
  <2>3. KeyOf[r] # k
    <3> SUFFICES ASSUME KeyOf[r] = k PROVE FALSE
      OBVIOUS
    <3>1. InWindow(k) = {r}
      BY <1>3, <2>1, HolderAlone
    <3> QED BY <1>1, <2>2, <3>1
  <2> QED BY <1>1, <2>1, <2>2, <2>3 DEF Unexpired
<1>7. CASE Restart
  BY <1>0, <1>7 DEF Restart, StoreTypeOK
<1>8. CASE Tick
  <2>1. /\ call' = call
        /\ \A j \in DOMAIN entries : entries'[j].response = entries[j].response
    BY <1>0, <1>8 DEF Tick, StoreTick, StoreTypeOK, Entry
  <2> QED BY <1>1, <1>3, <2>1 DEF Unexpired
<1>9. CASE UNCHANGED storeVars
  BY <1>1, <1>3, <1>9 DEF storeVars
<1> QED BY <1>4, <1>5, <1>6, <1>7, <1>8, <1>9 DEF Next, Step

\* Who works on a punctual key is alone at it, and the key is in progress.
ExclusiveWork ==
    \A r \in Holding : Punctual(KeyOf[r]) =>
        /\ InProgress(KeyOf[r])
        /\ \A s \in Holding : KeyOf[s] = KeyOf[r] => s = r

\* While no call of a key is late, a duplicate of the one at work is told that
\* the key is in progress: it gets neither a claim nor an answer.
THEOREM WorkIsExclusive == Spec => []ExclusiveWork
<1>1. Init => WorkIsUnanswered
  BY DEF Init, WorkIsUnanswered, Holding
<1>2. IInv /\ WorkIsUnanswered => ExclusiveWork
  <2> SUFFICES ASSUME IInv, WorkIsUnanswered, NEW r \in Holding, Punctual(KeyOf[r])
               PROVE  /\ InProgress(KeyOf[r])
                      /\ \A s \in Holding : KeyOf[s] = KeyOf[r] => s = r
    BY DEF ExclusiveWork
  <2>1. InWindow(KeyOf[r]) = {r}
    BY HolderAlone DEF Holding
  <2>2. \A s \in Holding : KeyOf[s] = KeyOf[r] => InWindow(KeyOf[r]) = {s}
    BY HolderAlone DEF Holding
  <2>3. KeyOf[r] \in DOMAIN entries /\ entries[KeyOf[r]].age = age[r] /\ age[r] < TTL
    BY <2>1, StoreAssumptions DEF IInv, WindowOwnsEntry, InWindow, Holding
  <2>4. entries[KeyOf[r]].response = NoResponse
    BY DEF WorkIsUnanswered
  <2> QED BY <2>1, <2>2, <2>3, <2>4 DEF InProgress, Unexpired
<1> QED BY <1>1, <1>2, UnansweredStep, InductiveInvariant, PTL DEF Spec
=============================================================================
