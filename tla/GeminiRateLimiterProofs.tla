---------------------- MODULE GeminiRateLimiterProofs ----------------------
(***************************************************************************)
(* Theorems about GeminiRateLimiter, for any number of callers, interval   *)
(* and backoff.  SlotsApart is inductive together with the types.  The     *)
(* bound on the wait needs more: how the slots ahead follow each other.    *)
(***************************************************************************)
EXTENDS GeminiRateLimiter, FiniteSetTheorems, TLAPS

\* Every step keeps the types.
LEMMA TypeStep ==
    ASSUME TypeOK, [Next]_vars
    PROVE  TypeOK'
<1> USE LimiterAssumptions DEF TypeOK, PcStates
<1>1. ASSUME NEW c \in Callers, Call(c) PROVE TypeOK'
  BY <1>1 DEF Call, Goto
<1>2. ASSUME NEW c \in Callers, Reserve(c) PROVE TypeOK'
  BY <1>2 DEF Reserve, Goto
<1>3. ASSUME NEW c \in Callers, Start(c) \/ Succeed(c) \/ Retry(c) PROVE TypeOK'
  BY <1>3 DEF Start, Succeed, Retry, Goto
<1>4. ASSUME NEW c \in Callers, Fail(c) PROVE TypeOK'
  <2>1. BackoffAfter(attempt[c]) \subseteq Nat
    BY DEF BackoffAfter
  <2> QED BY <1>4, <2>1 DEF Fail, Goto
<1>5. CASE Tick
  BY <1>5 DEF Tick, Less, LesserOf
<1>6. CASE UNCHANGED vars
  BY <1>6 DEF vars
<1> QED BY <1>1, <1>2, <1>3, <1>4, <1>5, <1>6 DEF Next, Thread

\* What a step does to the slots of the other threads: only a reservation adds
\* one, only time takes one away.
LEMMA SlotsStep ==
    ASSUME TypeOK, SlotsApart, [Next]_vars
    PROVE  SlotsApart'
<1> USE LimiterAssumptions DEF TypeOK
<1>1. ASSUME NEW c \in Callers, Reserve(c) PROVE SlotsApart'
  <2>1. CASE lead = 0
    <3>1. Ahead = {}
      BY <2>1 DEF SlotsApart, Ahead
    <3>2. Ahead' = {}
      BY <1>1, <2>1, <3>1 DEF Reserve, Goto, Ahead
    <3> QED BY <1>1, <2>1, <3>2 DEF Reserve, SlotsApart
  <2>2. CASE lead > 0
    <3>1. Ahead' = Ahead \cup {c}
      BY <1>1, <2>2 DEF Reserve, Goto, Ahead
    <3>2. /\ remaining'[c] = lead /\ c \notin Ahead
          /\ \A d \in Callers \ {c} : remaining'[d] = remaining[d]
          /\ lead' = lead + Interval /\ sinceSlot' = sinceSlot
      BY <1>1, <2>2 DEF Reserve, Ahead
    <3>3. Ahead \subseteq Callers
      BY DEF Ahead
    <3> QED BY <3>1, <3>2, <3>3 DEF SlotsApart
  <2> QED BY <2>1, <2>2
<1>2. CASE Tick
  <2>1. Ahead' = {c \in Ahead : remaining[c] > 1}
    BY <1>2 DEF Tick, Less, Ahead
  <2>2. \A c \in Ahead : remaining'[c] = remaining[c] - 1
    BY <1>2 DEF Tick, Less, Ahead
  <2>3. CASE SlotBegins
    <3>1. PICK b \in Ahead : remaining[b] = 1
      BY <2>3 DEF SlotBegins, Ahead
    <3>2. \A c \in Ahead' : remaining[c] >= 1 + Interval
      BY <2>1, <3>1 DEF SlotsApart, Ahead
    <3>3. lead >= 1 + Interval /\ lead' = lead - 1 /\ sinceSlot' = 0
      BY <1>2, <2>3, <3>1 DEF SlotsApart, Tick, Less
    <3> QED BY <2>1, <2>2, <3>2, <3>3 DEF SlotsApart, Ahead
  <2>4. CASE ~SlotBegins
    <3>1. sinceSlot' = LesserOf(sinceSlot + 1, Interval)
      BY <1>2, <2>4 DEF Tick
    <3>2. lead' = Less(lead)
      BY <1>2 DEF Tick
    <3> QED BY <2>1, <2>2, <3>1, <3>2 DEF SlotsApart, Ahead, Less, LesserOf
  <2> QED BY <2>3, <2>4
<1>3. ASSUME NEW c \in Callers,
             Call(c) \/ Start(c) \/ Succeed(c) \/ Fail(c) \/ Retry(c)
      PROVE  SlotsApart'
  <2>1. Ahead' = Ahead
    BY <1>3 DEF Call, Start, Succeed, Fail, Retry, Goto, Ahead, PcStates
  <2>2. \A d \in Ahead : remaining'[d] = remaining[d]
    BY <1>3 DEF Call, Start, Succeed, Fail, Retry, Ahead
  <2>3. lead' = lead /\ sinceSlot' = sinceSlot
    BY <1>3 DEF Call, Start, Succeed, Fail, Retry
  <2> QED BY <2>1, <2>2, <2>3 DEF SlotsApart
<1>4. CASE UNCHANGED vars
  BY <1>4 DEF vars, SlotsApart, Ahead
<1> QED BY <1>1, <1>2, <1>3, <1>4 DEF Next, Thread

LEMMA InitSlots == Init => TypeOK /\ SlotsApart
BY LimiterAssumptions DEF Init, TypeOK, PcStates, SlotsApart, Ahead

\* The variables of the limiter keep their types.
THEOREM TypeCorrect == Spec => []TypeOK
<1>1. Init => TypeOK
  BY InitSlots
<1>2. TypeOK /\ [Next]_vars => TypeOK'
  BY TypeStep
<1> QED BY <1>1, <1>2, PTL DEF Spec

\* For any number of threads, interval, backoff and number of attempts, no two
\* request slots are less than min_interval_seconds apart: _wait_for_slot
\* reserves under the lock and sleeps outside of it.
THEOREM SlotsNeverCollide == Spec => []SlotsApart
<1>1. Init => TypeOK /\ SlotsApart
  BY InitSlots
<1>2. (TypeOK /\ SlotsApart) /\ [Next]_vars => (TypeOK /\ SlotsApart)'
  BY TypeStep, SlotsStep
<1> QED BY <1>1, <1>2, PTL DEF Spec

-----------------------------------------------------------------------------
(* The bound on the wait.                                                  *)

\* Each slot ahead is followed by another one after exactly one interval, the
\* last by the slot that is given away next.
SlotsFollow ==
    \A c \in Ahead : \/ remaining[c] + Interval = lead
                     \/ \E d \in Ahead : remaining[d] = remaining[c] + Interval

\* The first slot ahead is less than an interval away.
FirstSlotIsNear == Ahead # {} => \E c \in Ahead : remaining[c] <= Interval

\* From any slot ahead to the next one that is given away there is at most one
\* interval for each slot ahead.
LeadIsCounted ==
    /\ Ahead = {} => lead <= Interval
    /\ \A c \in Ahead : lead <= remaining[c] + Interval * Cardinality(Ahead)

WaitInv == TypeOK /\ SlotsApart /\ SlotsFollow /\ FirstSlotIsNear /\ LeadIsCounted

\* The slots ahead are finitely many.
LEMMA AheadIsFinite ==
    /\ IsFiniteSet(Ahead) /\ Cardinality(Ahead) \in Nat
    /\ Ahead # {} => Cardinality(Ahead) >= 1
<1>1. IsFiniteSet(Ahead)
  BY FS_Subset, LimiterAssumptions DEF Ahead
<1>2. Cardinality(Ahead) \in Nat
  BY <1>1, FS_CardinalityType
<1>3. Ahead # {} => Cardinality(Ahead) # 0
  BY <1>1, FS_EmptySet
<1> QED BY <1>1, <1>2, <1>3

\* A reservation appends a slot.
LEMMA WaitReserve ==
    ASSUME WaitInv, NEW c \in Callers, Reserve(c)
    PROVE  (SlotsFollow /\ FirstSlotIsNear /\ LeadIsCounted)'
<1> USE LimiterAssumptions DEF WaitInv, TypeOK
<1>1. CASE lead = 0
  <2>1. Ahead = {}
    BY <1>1 DEF SlotsApart, Ahead
  <2>2. Ahead' = {}
    BY <1>1, <2>1 DEF Reserve, Goto, Ahead
  <2>3. lead' = Interval
    BY <1>1 DEF Reserve
  <2> QED BY <2>2, <2>3 DEF SlotsFollow, FirstSlotIsNear, LeadIsCounted
<1>2. CASE lead > 0
  <2> DEFINE n == Cardinality(Ahead)
  <2>1. Ahead' = Ahead \cup {c} /\ c \notin Ahead
    BY <1>2 DEF Reserve, Goto, Ahead
  <2>2. /\ remaining'[c] = lead /\ lead' = lead + Interval
        /\ \A d \in Ahead : remaining'[d] = remaining[d] /\ remaining[d] \in Nat
    BY <1>2 DEF Reserve, Ahead
  <2>3. SlotsFollow'
    BY <2>1, <2>2 DEF SlotsFollow
  <2>4. FirstSlotIsNear'
    <3>1. CASE Ahead = {}
      BY <2>1, <2>2, <3>1 DEF FirstSlotIsNear, LeadIsCounted
    <3>2. CASE Ahead # {}
      BY <2>1, <2>2, <3>2 DEF FirstSlotIsNear
    <3> QED BY <3>1, <3>2
  <2>5. LeadIsCounted'
    <3>1. n \in Nat /\ Cardinality(Ahead') = n + 1
      BY <2>1, AheadIsFinite, FS_AddElement
    <3>2. Interval * (n + 1) = Interval * n + Interval /\ Interval * n \in Nat
      BY <3>1
    <3>3. \A d \in Ahead : lead <= remaining[d] + Interval * n
      BY DEF LeadIsCounted
    <3> HIDE DEF n
    <3> QED BY <2>1, <2>2, <3>1, <3>2, <3>3 DEF LeadIsCounted
  <2> QED BY <2>3, <2>4, <2>5
<1> QED BY <1>1, <1>2

\* Time moves all slots closer; the first one may begin.
LEMMA WaitTick ==
    ASSUME WaitInv, Tick
    PROVE  (SlotsFollow /\ FirstSlotIsNear /\ LeadIsCounted)'
<1> USE LimiterAssumptions DEF WaitInv, TypeOK
<1> DEFINE n == Cardinality(Ahead)
<1>1. Ahead' = {c \in Ahead : remaining[c] > 1}
  BY DEF Tick, Less, Ahead
<1>2. \A c \in Ahead : remaining'[c] = remaining[c] - 1 /\ remaining[c] \in Nat \ {0}
  BY DEF Tick, Less, Ahead
<1>3. lead' = Less(lead)
  BY DEF Tick
<1>4. Ahead # {} => lead > Interval
  BY <1>2 DEF SlotsApart
<1>5. n \in Nat /\ Interval * n \in Nat
  BY AheadIsFinite
<1>6. SlotsFollow'
  BY <1>1, <1>2, <1>3, <1>4 DEF SlotsFollow, Less
<1>7. CASE \A c \in Ahead : remaining[c] > 1
  <2>1. Ahead' = Ahead
    BY <1>1, <1>7
  <2>2. FirstSlotIsNear'
    BY <2>1, <1>2 DEF FirstSlotIsNear
  <2>3. LeadIsCounted'
    <3>1. \A d \in Ahead : lead <= remaining[d] + Interval * n
      BY DEF LeadIsCounted
    <3>2. Cardinality(Ahead') = n
      BY <2>1
    <3>3. Ahead = {} => lead <= Interval
      BY DEF LeadIsCounted
    <3> HIDE DEF n
    <3> QED BY <2>1, <1>2, <1>3, <1>4, <1>5, <3>1, <3>2, <3>3 DEF LeadIsCounted, Less
  <2> QED BY <1>6, <2>2, <2>3
<1>8. ASSUME NEW b \in Ahead, remaining[b] = 1
      PROVE  (FirstSlotIsNear /\ LeadIsCounted)'
  <2>1. Ahead' = Ahead \ {b}
    BY <1>1, <1>2, <1>8 DEF SlotsApart
  <2>2. \A d \in Ahead' : remaining[d] >= 1 + Interval
    BY <1>2, <1>8, <2>1 DEF SlotsApart
  <2>3. lead' = lead - 1 /\ lead > Interval
    BY <1>3, <1>4, <1>8 DEF Less
  <2>4. n >= 1 /\ Cardinality(Ahead') = n - 1
    BY <1>8, <2>1, AheadIsFinite, FS_RemoveElement
  <2>5. lead <= 1 + Interval * n
    BY <1>8 DEF LeadIsCounted
  <2>6. FirstSlotIsNear'
    <3>1. CASE lead = 1 + Interval
      <4>1. Ahead' = {}
        BY <1>2, <2>1, <2>2, <3>1 DEF SlotsApart
      <4> QED BY <4>1 DEF FirstSlotIsNear
    <3>2. CASE \E d \in Ahead : remaining[d] = 1 + Interval
      BY <1>1, <1>2, <3>2 DEF FirstSlotIsNear
    <3> QED BY <1>8, <3>1, <3>2 DEF SlotsFollow
  <2>7. Ahead' = {} => lead' <= Interval
    <3>1. ASSUME NEW d \in Ahead, remaining[d] = 1 + Interval PROVE d \in Ahead'
      BY <1>1, <3>1
    <3> QED BY <1>8, <2>3, <3>1 DEF SlotsFollow
  <2>8. Interval * (n - 1) = Interval * n - Interval
    BY <1>5
  <2>9. ASSUME NEW d \in Ahead'
        PROVE  lead' <= remaining'[d] + Interval * (n - 1)
    <3>1. remaining'[d] >= Interval /\ remaining'[d] \in Nat
      BY <1>2, <2>1, <2>2
    <3> HIDE DEF n
    <3> QED BY <1>5, <2>3, <2>5, <2>8, <3>1
  <2> HIDE DEF n
  <2> QED BY <2>4, <2>6, <2>7, <2>9 DEF LeadIsCounted
<1> QED BY <1>2, <1>6, <1>7, <1>8

LEMMA WaitStep ==
    ASSUME WaitInv, [Next]_vars
    PROVE  WaitInv'
<1>1. (TypeOK /\ SlotsApart)'
  BY TypeStep, SlotsStep DEF WaitInv
<1>2. ASSUME NEW c \in Callers,
             Call(c) \/ Start(c) \/ Succeed(c) \/ Fail(c) \/ Retry(c)
      PROVE  (SlotsFollow /\ FirstSlotIsNear /\ LeadIsCounted)'
  <2>1. Ahead' = Ahead
    BY <1>2 DEF Call, Start, Succeed, Fail, Retry, Goto, Ahead, WaitInv, TypeOK, PcStates
  <2>2. \A d \in Ahead : remaining'[d] = remaining[d]
    BY <1>2 DEF Call, Start, Succeed, Fail, Retry, Ahead, WaitInv, TypeOK
  <2>3. lead' = lead
    BY <1>2 DEF Call, Start, Succeed, Fail, Retry
  <2> QED BY <2>1, <2>2, <2>3 DEF WaitInv, SlotsFollow, FirstSlotIsNear, LeadIsCounted
<1>3. CASE UNCHANGED vars
  <2>1. Ahead' = Ahead /\ lead' = lead /\ remaining' = remaining
    BY <1>3 DEF vars, Ahead
  <2>2. (SlotsFollow /\ FirstSlotIsNear /\ LeadIsCounted)'
    BY <2>1 DEF WaitInv, SlotsFollow, FirstSlotIsNear, LeadIsCounted
  <2> QED BY <2>2, <1>1 DEF WaitInv
<1> QED BY <1>1, <1>2, <1>3, WaitReserve, WaitTick DEF Next, Thread, WaitInv

LEMMA WaitInvariant == Spec => []WaitInv
<1>1. Init => WaitInv
  <2>1. Init => Ahead = {}
    BY DEF Init, Ahead
  <2> QED BY <2>1, InitSlots, LimiterAssumptions
          DEF WaitInv, SlotsFollow, FirstSlotIsNear, LeadIsCounted, Init
<1>2. WaitInv /\ [Next]_vars => WaitInv'
  BY WaitStep
<1> QED BY <1>1, <1>2, PTL DEF Spec

\* The wait a caller meets is at most one interval for each thread ahead of it
\* and its own: the limiter gives no slot away and skips none.
THEOREM WaitBounded == Spec => []WaitIsBounded
<1>1. WaitInv => WaitIsBounded
  <2> SUFFICES ASSUME WaitInv PROVE WaitIsBounded
    OBVIOUS
  <2> DEFINE n == Cardinality(Ahead)
  <2>1. n \in Nat /\ Interval * n \in Nat /\ Interval * (n + 1) = Interval * n + Interval
    BY AheadIsFinite, LimiterAssumptions
  <2>2. Ahead = {} => lead <= Interval
    BY DEF WaitInv, LeadIsCounted
  <2>3. \A c \in Ahead : lead <= remaining[c] + Interval * n /\ remaining[c] \in Nat
    BY DEF WaitInv, LeadIsCounted, TypeOK, Ahead
  <2>4. Ahead # {} => \E c \in Ahead : remaining[c] <= Interval
    BY DEF WaitInv, FirstSlotIsNear
  <2>5. lead <= Interval * n + Interval
    <3> HIDE DEF n
    <3> QED BY <2>1, <2>2, <2>3, <2>4, LimiterAssumptions DEF WaitInv, TypeOK
  <2> QED BY <2>1, <2>5 DEF WaitIsBounded
<1> QED BY WaitInvariant, <1>1, PTL

BackoffIsShort ==
    \A c \in Callers : pc[c] = "backing_off" => remaining[c] <= MaxBackoff

LEMMA BackoffStep ==
    ASSUME TypeOK, BackoffIsShort, [Next]_vars
    PROVE  BackoffIsShort'
<1> USE LimiterAssumptions DEF TypeOK, BackoffIsShort
<1>1. ASSUME NEW c \in Callers, Fail(c) PROVE BackoffIsShort'
  <2>1. \A b \in BackoffAfter(attempt[c]) : b \in 0..MaxBackoff
    BY DEF BackoffAfter
  <2> QED BY <1>1, <2>1 DEF Fail, Goto
<1>2. ASSUME NEW c \in Callers, Call(c) \/ Reserve(c) \/ Start(c) \/ Succeed(c) \/ Retry(c)
      PROVE  BackoffIsShort'
  BY <1>2 DEF Call, Reserve, Start, Succeed, Retry, Goto
<1>3. CASE Tick
  BY <1>3 DEF Tick, Less
<1>4. CASE UNCHANGED vars
  BY <1>4 DEF vars
<1> QED BY <1>1, <1>2, <1>3, <1>4 DEF Next, Thread

\* What one attempt can sleep: an interval for each thread of the process until
\* its slot, and the longest backoff after it (rate_limit.py:63-92).
SleepsAreBounded ==
    \A c \in Callers :
        /\ pc[c] = "sleeping" => remaining[c] <= Interval * Cardinality(Callers)
        /\ pc[c] = "backing_off" => remaining[c] <= MaxBackoff

\* With at most max_attempts attempts a call sleeps for a bounded time, however
\* often others retry in between: nobody is starved of a slot.
THEOREM EverySleepEnds == Spec => []SleepsAreBounded
<1>1. WaitInv => \A c \in Callers :
         pc[c] = "sleeping" => remaining[c] <= Interval * Cardinality(Callers)
  <2> SUFFICES ASSUME WaitInv, NEW c \in Callers, pc[c] = "sleeping"
               PROVE  remaining[c] <= Interval * Cardinality(Callers)
    OBVIOUS
  <2> DEFINE n == Cardinality(Ahead)
             all == Cardinality(Callers)
  <2>1. n \in Nat /\ all \in Nat /\ n <= all
    BY FS_Subset, FS_CardinalityType, LimiterAssumptions DEF Ahead
  <2>2. Interval * n <= Interval * all /\ Interval * n \in Nat /\ Interval * all \in Nat
    <3> HIDE DEF n, all
    <3> QED BY <2>1, LimiterAssumptions, SMTT(30)
  <2>3. remaining[c] \in Nat
    BY DEF WaitInv, TypeOK
  <2>4. CASE c \in Ahead
    <3>1. PICK d \in Ahead : remaining[d] <= Interval
      BY <2>4 DEF WaitInv, FirstSlotIsNear
    <3>2. lead <= remaining[d] + Interval * n /\ remaining[d] \in Nat
      BY <3>1 DEF WaitInv, LeadIsCounted, TypeOK, Ahead
    <3>3. remaining[c] + Interval <= lead /\ lead \in Nat
      BY <2>4 DEF WaitInv, SlotsApart, TypeOK
    <3>4. \A x, y \in Nat : remaining[d] <= Interval /\ lead <= remaining[d] + x
                              /\ x <= y => remaining[c] <= y
      BY <2>3, <3>2, <3>3, LimiterAssumptions
    <3> QED BY <2>2, <3>1, <3>2, <3>4
  <2>5. CASE c \notin Ahead
    BY <2>2, <2>3, <2>5 DEF Ahead
  <2> QED BY <2>4, <2>5
<1>2. Init => BackoffIsShort
  BY DEF Init, BackoffIsShort
<1>3. TypeOK /\ BackoffIsShort /\ [Next]_vars => BackoffIsShort'
  BY BackoffStep
<1>4. WaitInv /\ BackoffIsShort => SleepsAreBounded
  BY <1>1 DEF BackoffIsShort, SleepsAreBounded
<1> QED BY <1>2, <1>3, <1>4, WaitInvariant, TypeCorrect, PTL DEF Spec
=============================================================================
