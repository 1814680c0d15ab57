--------------------------- MODULE RetryDecorator ---------------------------
(***************************************************************************)
(* The retry decorator (common/retry_decorator.py): one call of a          *)
(* decorated function. Time is counted in whole seconds, as time_waited is.*)
(***************************************************************************)
EXTENDS Integers, Sequences

CONSTANTS
    Delays,      \* the list backoff, backoff_with_jitter or constant_delay made
    MaxDelay     \* max_delay

\* iter_islast needs a first delay
ASSUME RetryAssumption ==
    /\ Delays \in Seq(Nat)
    /\ Delays # <<>>
    /\ MaxDelay \in Nat

VARIABLES
    now,         \* the clock
    rpc,         \* what f_retry is doing
    attempt,     \* i + 1: the attempt it is at
    started,     \* time_started
    since        \* when the present call or sleep began

retryVars == <<rpc, attempt, started, since>>

RetryLabels == {"idle", "calling", "sleeping", "returned", "raised"}

RetryTypeOK ==
    /\ now \in Nat
    /\ rpc \in RetryLabels
    /\ attempt \in 1..Len(Delays)
    /\ started \in Nat
    /\ since \in Nat

RetryInit ==
    /\ rpc = "idle"
    /\ attempt = 1
    /\ started = 0
    /\ since = 0

\* delays of backoff: doubled from one attempt to the next
backoff(delay, attempts) == [i \in 1..attempts |-> delay * 2^(i - 1)]

\* delays of backoff_with_jitter: each is drawn below min(cap, delay * 2^i)
IsBackoffWithJitter(ds, delay, attempts, cap) ==
    /\ Len(ds) = attempts
    /\ \A i \in 1..attempts :
          LET limit == IF cap <= delay * 2^(i - 1) THEN cap ELSE delay * 2^(i - 1)
          IN  ds[i] \in 0..(limit - 1)

EnterRetry ==
    /\ rpc' = "calling"
    /\ attempt' = 1
    /\ started' = now
    /\ since' = now

TimeWaited == now - started
IsLast == attempt = Len(Delays)

\* The function returns
Returns ==
    /\ rpc = "calling"
    /\ rpc' = "returned"
    /\ UNCHANGED <<attempt, started, since>>

\* mutant of FailsListed: the time waited is not looked at
FailsListedUntimed ==
    /\ rpc = "calling"
    /\ IF IsLast
       THEN rpc' = "raised" /\ UNCHANGED <<attempt, started, since>>
       ELSE rpc' = "sleeping" /\ since' = now /\ UNCHANGED <<attempt, started>>

\* mutant of FailsListed: the last attempt is not told apart
FailsListedNoLast ==
    /\ rpc = "calling"
    /\ IF TimeWaited > MaxDelay
       THEN rpc' = "raised" /\ UNCHANGED <<attempt, started, since>>
       ELSE rpc' = "sleeping" /\ since' = now /\ UNCHANGED <<attempt, started>>

\* It raises one of exceptions_to_check: give up when that took more than
\* max_delay or it was the last attempt, sleep otherwise
FailsListed ==
    /\ rpc = "calling"
    /\ IF TimeWaited > MaxDelay \/ IsLast
       THEN rpc' = "raised" /\ UNCHANGED <<attempt, started, since>>
       ELSE rpc' = "sleeping" /\ since' = now /\ UNCHANGED <<attempt, started>>

\* Any other exception ends the loop at once
FailsOther ==
    /\ rpc = "calling"
    /\ rpc' = "raised"
    /\ UNCHANGED <<attempt, started, since>>

\* mutant of Wakes: the sleep is cut short by one second
WakesEarly ==
    /\ rpc = "sleeping"
    /\ now >= since + Delays[attempt] - 1
    /\ rpc' = "calling"
    /\ attempt' = attempt + 1
    /\ since' = now
    /\ UNCHANGED started

\* time.sleep(delay) is over
Wakes ==
    /\ rpc = "sleeping"
    /\ now = since + Delays[attempt]
    /\ rpc' = "calling"
    /\ attempt' = attempt + 1
    /\ since' = now
    /\ UNCHANGED started
=============================================================================
