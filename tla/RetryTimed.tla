----------------------------- MODULE RetryTimed -----------------------------
(***************************************************************************)
(* One decorated call on its own, with a function that may take up to      *)
(* CallLimit seconds: how long a caller may be kept waiting.               *)
(***************************************************************************)
EXTENDS RetryDecorator

LOCAL INSTANCE Functions

CONSTANT CallLimit   \* the function's own timeout

ASSUME CallAssumption == CallLimit \in Nat

vars == <<now, retryVars>>

Init == now = 0 /\ RetryInit

Enter == rpc = "idle" /\ EnterRetry /\ UNCHANGED now

\* Seconds pass while the function runs, not beyond its timeout, and while
\* the loop sleeps
Tick ==
    /\ \/ rpc = "calling" /\ now < since + CallLimit
       \/ rpc = "sleeping" /\ now < since + Delays[attempt]
    /\ now' = now + 1
    /\ UNCHANGED retryVars

Finish == (Returns \/ FailsListed \/ FailsOther) /\ UNCHANGED now
Wake == Wakes /\ UNCHANGED now

Over == rpc \in {"returned", "raised"} /\ UNCHANGED vars

Next == Enter \/ Tick \/ Finish \/ Wake \/ Over

Spec == Init /\ [][Next]_vars

(***************************************************************************)
(* Properties                                                              *)
(***************************************************************************)
TypeOK == RetryTypeOK

\* An attempt begins at most max_delay seconds plus the delay before it after
\* the call was made: the check of time_waited precedes the sleep, not the
\* attempt (retry_decorator.py:88-105).
StartsInTime ==
    rpc = "calling" /\ attempt > 1 => since - started <= MaxDelay + Delays[attempt - 1]

\* So the caller is never kept longer than max_delay, one delay and one call.
EndsInTime ==
    \/ TimeWaited <= CallLimit
    \/ \E i \in 1..Len(Delays) : TimeWaited <= MaxDelay + Delays[i] + CallLimit

\* When the call is over it has slept every delay between two attempts and none
\* besides: iter_islast looks one element ahead so that nobody waits for an
\* attempt that is not made.
SleepsAsListed ==
    LET slept == SumFunctionOnSet(Delays, 1..(attempt - 1))
    IN  rpc \in {"returned", "raised"} =>
            slept <= TimeWaited /\ TimeWaited <= slept + attempt * CallLimit
=============================================================================
