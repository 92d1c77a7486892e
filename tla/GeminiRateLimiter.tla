------------------------- MODULE GeminiRateLimiter -------------------------
(***************************************************************************)
(* The process-wide limiter of Gemini requests (agent/rate_limit.py): each *)
(* attempt reserves a time slot under the lock, sleeps until it outside of *)
(* the lock, and a retryable failure is repeated after a backoff.          *)
(*                                                                         *)
(* Time is counted in ticks, and only differences to now are kept: lead is *)
(* how far _next_allowed_at lies ahead of now (0 if it is past), remaining *)
(* is how long a thread still has to sleep.  A thread whose sleep is over  *)
(* may be scheduled later.                                                 *)
(***************************************************************************)
EXTENDS Naturals, FiniteSets

CONSTANTS
    Callers,        \* threads that call the limiter, one call each
    Interval,       \* min_interval_seconds
    MaxAttempts,    \* max_attempts
    InitialBackoff, MaxBackoff,
    MaxJitter       \* jitter() in ticks

ASSUME LimiterAssumptions ==
    /\ IsFiniteSet(Callers)
    /\ Interval \in Nat \ {0}
    /\ MaxAttempts \in Nat \ {0}
    /\ InitialBackoff \in Nat /\ MaxBackoff \in Nat /\ MaxJitter \in Nat

VARIABLES
    lead,           \* max(0, _next_allowed_at - now)
    pc, attempt,
    remaining,      \* what is left of a thread's sleep
    sinceSlot       \* time since the last slot that has begun, at most Interval

vars == <<lead, pc, attempt, remaining, sinceSlot>>

PcStates == {"new", "reserving", "sleeping", "calling", "backing_off",
             "returned", "raised"}

Init ==
    /\ lead = 0
    /\ pc = [c \in Callers |-> "new"]
    /\ attempt = [c \in Callers |-> 0]
    /\ remaining = [c \in Callers |-> 0]
    /\ sinceSlot = Interval

Goto(c, label) == pc' = [pc EXCEPT ![c] = label]

\* call_attempts: the loop's first attempt.
Call(c) ==
    /\ pc[c] = "new"
    /\ Goto(c, "reserving")
    /\ attempt' = [attempt EXCEPT ![c] = 1]
    /\ UNCHANGED <<lead, remaining, sinceSlot>>

\* A plausible bug: the next slot is counted from now, not from the last one.
ReserveFromNow(c) ==
    /\ pc[c] = "reserving"
    /\ remaining' = [remaining EXCEPT ![c] = lead]
    /\ lead' = Interval
    /\ sinceSlot' = IF lead = 0 THEN 0 ELSE sinceSlot
    /\ Goto(c, "sleeping")
    /\ UNCHANGED attempt

\* A plausible bug: a slot that had to be waited for is followed by a gap.
ReserveWithGap(c) ==
    /\ pc[c] = "reserving"
    /\ remaining' = [remaining EXCEPT ![c] = lead]
    /\ lead' = lead + (IF lead = 0 THEN Interval ELSE 2 * Interval)
    /\ sinceSlot' = IF lead = 0 THEN 0 ELSE sinceSlot
    /\ Goto(c, "sleeping")
    /\ UNCHANGED attempt

\* _wait_for_slot, its part under the lock.
Reserve(c) ==
    /\ pc[c] = "reserving"
    /\ remaining' = [remaining EXCEPT ![c] = lead]
    /\ lead' = lead + Interval
    /\ sinceSlot' = IF lead = 0 THEN 0 ELSE sinceSlot
    /\ Goto(c, "sleeping")
    /\ UNCHANGED attempt

\* The sleep until the slot is over.
Start(c) ==
    /\ pc[c] = "sleeping"
    /\ remaining[c] = 0
    /\ Goto(c, "calling")
    /\ UNCHANGED <<lead, attempt, remaining, sinceSlot>>

Succeed(c) ==
    /\ pc[c] = "calling"
    /\ Goto(c, "returned")
    /\ UNCHANGED <<lead, attempt, remaining, sinceSlot>>

LesserOf(a, b) == IF a < b THEN a ELSE b

\* _backoff_seconds
BackoffAfter(n) ==
    {b \in 0..MaxBackoff : \E jitter \in 0..MaxJitter :
        b = LesserOf(MaxBackoff, InitialBackoff * 2^(n - 1) + jitter)}

\* A plausible bug: the last attempt is followed by another backoff.
FailUnbounded(c) ==
    /\ pc[c] = "calling"
    /\ \/ /\ Goto(c, "raised")
          /\ UNCHANGED <<attempt, remaining>>
       \/ /\ \E b \in BackoffAfter(attempt[c]) :
                remaining' = [remaining EXCEPT ![c] = b]
          /\ attempt' = [attempt EXCEPT ![c] = @ + 1]
          /\ Goto(c, "backing_off")
    /\ UNCHANGED <<lead, sinceSlot>>

\* The request raised: the error is not retryable or the attempts are used up,
\* or the thread sleeps for the backoff.
Fail(c) ==
    /\ pc[c] = "calling"
    /\ \/ /\ Goto(c, "raised")
          /\ UNCHANGED <<attempt, remaining>>
       \/ /\ attempt[c] < MaxAttempts
          /\ \E b \in BackoffAfter(attempt[c]) :
                remaining' = [remaining EXCEPT ![c] = b]
          /\ attempt' = [attempt EXCEPT ![c] = @ + 1]
          /\ Goto(c, "backing_off")
    /\ UNCHANGED <<lead, sinceSlot>>

\* A plausible bug: a retry starts the count of attempts again.
RetryUncounted(c) ==
    /\ pc[c] = "backing_off"
    /\ remaining[c] = 0
    /\ Goto(c, "reserving")
    /\ attempt' = [attempt EXCEPT ![c] = 1]
    /\ UNCHANGED <<lead, remaining, sinceSlot>>

\* The next round of the loop.
Retry(c) ==
    /\ pc[c] = "backing_off"
    /\ remaining[c] = 0
    /\ Goto(c, "reserving")
    /\ UNCHANGED <<lead, attempt, remaining, sinceSlot>>

Less(n) == IF n = 0 THEN 0 ELSE n - 1

\* A slot begins when the sleep that leads to it ends.
SlotBegins == \E c \in Callers : pc[c] = "sleeping" /\ remaining[c] = 1

Tick ==
    /\ lead' = Less(lead)
    /\ remaining' = [c \in Callers |-> Less(remaining[c])]
    /\ sinceSlot' = IF SlotBegins THEN 0 ELSE LesserOf(sinceSlot + 1, Interval)
    /\ UNCHANGED <<pc, attempt>>

Thread(c) ==
    \/ Call(c) \/ Reserve(c) \/ Start(c) \/ Succeed(c) \/ Fail(c) \/ Retry(c)

Next == (\E c \in Callers : Thread(c)) \/ Tick

Spec == Init /\ [][Next]_vars

\* Threads are scheduled, a request ends by its timeout, time passes.
FairSpec ==
    /\ Spec
    /\ \A c \in Callers : WF_vars(Thread(c))
    /\ WF_vars(Tick)

-----------------------------------------------------------------------------
(* Properties.                                                             *)

TypeOK ==
    /\ lead \in Nat
    /\ pc \in [Callers -> PcStates]
    /\ attempt \in [Callers -> 0..MaxAttempts]
    /\ remaining \in [Callers -> Nat]
    /\ sinceSlot \in 0..Interval

\* Threads that have reserved a slot which is still to come.
Ahead == {c \in Callers : pc[c] = "sleeping" /\ remaining[c] > 0}

\* Slots are at least one interval apart, whichever threads reserve them and
\* however their retries interleave: the reserved ones from each other, from
\* the last one that began, and from the one _next_allowed_at will give away.
SlotsApart ==
    /\ \A c, d \in Ahead : c # d =>
          remaining[c] + Interval <= remaining[d] \/ remaining[d] + Interval <= remaining[c]
    /\ \A c \in Ahead : /\ remaining[c] + Interval <= lead
                        /\ remaining[c] + sinceSlot >= Interval
    /\ lead + sinceSlot >= Interval

\* No time is given away: a thread sleeps for its slot at most one interval for
\* each thread that is ahead, itself included.
WaitIsBounded == lead <= Interval * (Cardinality(Ahead) + 1)

\* Every call returns or raises, although each failure that can be retried is
\* retried behind whoever else is waiting.
CallsEnd == \A c \in Callers : <>(pc[c] \in {"returned", "raised"})
=============================================================================
