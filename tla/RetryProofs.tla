----------------------------- MODULE RetryProofs -----------------------------
(***************************************************************************)
(* How long a retried call keeps its caller, for every list of delays,     *)
(* every max_delay and every timeout of the function.                      *)
(***************************************************************************)
EXTENDS RetryTimed, TLAPS

USE RetryAssumption, CallAssumption

\* The inductive invariant: where in its loop the call is bounds how much time
\* has passed since it was made.
TimeInv ==
    /\ TypeOK
    /\ started <= since /\ since <= now
    /\ rpc = "idle" => now = started
    /\ rpc = "calling" => /\ now <= since + CallLimit
                          /\ attempt = 1 => since = started
    /\ rpc = "sleeping" => /\ attempt < Len(Delays)
                           /\ since - started <= MaxDelay
                           /\ now <= since + Delays[attempt]
    /\ StartsInTime
    /\ EndsInTime

\* A delay of the list is a natural number.
LEMMA DelayType == \A i \in 1..Len(Delays) : Delays[i] \in Nat
OBVIOUS

\* The list is not empty.
LEMMA SomeDelay == Len(Delays) \in Nat /\ Len(Delays) >= 1
OBVIOUS

\* The initial state satisfies the invariant.
LEMMA TimeInit == Init => TimeInv
BY SomeDelay DEF Init, RetryInit, TimeInv, TypeOK, RetryTypeOK, RetryLabels, StartsInTime,
   EndsInTime, TimeWaited

\* Every step preserves it.
LEMMA TimeStep == TimeInv /\ [Next]_vars => TimeInv'
<1> SUFFICES ASSUME TimeInv, [Next]_vars PROVE TimeInv'
  OBVIOUS
<1> USE DelayType, SomeDelay DEF TypeOK, RetryTypeOK, RetryLabels
<1>1. CASE Enter
  BY <1>1 DEF Enter, EnterRetry, TimeInv, StartsInTime, EndsInTime, TimeWaited
<1>2. CASE Tick
  <2>1. CASE rpc = "calling" /\ now < since + CallLimit
    <3>1. EndsInTime'
      <4>1. CASE attempt = 1
        BY <1>2, <2>1, <4>1 DEF Tick, retryVars, TimeInv, EndsInTime, TimeWaited
      <4>2. CASE attempt > 1
        <5>1. attempt - 1 \in 1..Len(Delays)
          BY <4>2 DEF TimeInv
        <5>2. now' - started <= MaxDelay + Delays[attempt - 1] + CallLimit
          BY <1>2, <2>1, <4>2, <5>1 DEF Tick, retryVars, TimeInv, StartsInTime
        <5> QED BY <1>2, <5>1, <5>2 DEF Tick, retryVars, EndsInTime, TimeWaited
      <4> QED BY <4>1, <4>2 DEF TimeInv
    <3> QED BY <1>2, <2>1, <3>1 DEF Tick, retryVars, TimeInv, StartsInTime
  <2>2. CASE rpc = "sleeping" /\ now < since + Delays[attempt]
    <3>1. now' - started <= MaxDelay + Delays[attempt] + CallLimit
      BY <1>2, <2>2 DEF Tick, retryVars, TimeInv
    <3>2. EndsInTime'
      BY <1>2, <2>2, <3>1 DEF Tick, retryVars, TimeInv, EndsInTime, TimeWaited
    <3> QED BY <1>2, <2>2, <3>2 DEF Tick, retryVars, TimeInv, StartsInTime
  <2> QED BY <1>2, <2>1, <2>2 DEF Tick
<1>3. CASE Returns /\ UNCHANGED now
  BY <1>3 DEF Returns, TimeInv, StartsInTime, EndsInTime, TimeWaited
<1>4. CASE FailsOther /\ UNCHANGED now
  BY <1>4 DEF FailsOther, TimeInv, StartsInTime, EndsInTime, TimeWaited
<1>5. CASE FailsListed /\ UNCHANGED now
  <2>1. CASE TimeWaited > MaxDelay \/ IsLast
    BY <1>5, <2>1 DEF FailsListed, TimeInv, StartsInTime, EndsInTime, TimeWaited
  <2>2. CASE ~(TimeWaited > MaxDelay \/ IsLast)
    <3>1. EndsInTime'
      BY <1>5, <2>2 DEF FailsListed, TimeInv, EndsInTime, TimeWaited
    <3> QED BY <1>5, <2>2, <3>1 DEF FailsListed, TimeInv, StartsInTime, TimeWaited, IsLast
  <2> QED BY <2>1, <2>2
<1>6. CASE Wake
  <2>1. EndsInTime'
    BY <1>6 DEF Wake, Wakes, TimeInv, EndsInTime, TimeWaited
  <2>2. /\ attempt \in 1..Len(Delays) /\ attempt' \in 1..Len(Delays) /\ attempt' - 1 = attempt
        /\ since' - started' <= MaxDelay + Delays[attempt]
    BY <1>6 DEF Wake, Wakes, TimeInv
  <2>3. StartsInTime'
    BY <2>2 DEF StartsInTime
  <2>4. TypeOK'
    BY <1>6, <2>2 DEF Wake, Wakes, TimeInv
  <2>5. rpc' = "calling" /\ since' = now' /\ started' = started /\ now' = now
    BY <1>6 DEF Wake, Wakes
  <2>6. attempt' # 1
    <3>1. attempt \in Nat /\ attempt >= 1 /\ attempt' = attempt + 1
      BY <1>6 DEF Wake, Wakes, TimeInv
    <3> QED BY <3>1
  <2>7. started' <= since' /\ since' <= now' /\ now' <= since' + CallLimit
    BY <2>5 DEF TimeInv
  <2> QED BY <2>1, <2>3, <2>4, <2>5, <2>6, <2>7 DEF TimeInv
<1>7. CASE UNCHANGED vars
  BY <1>7 DEF vars, retryVars, TimeInv, StartsInTime, EndsInTime, TimeWaited
<1> QED BY <1>1, <1>2, <1>3, <1>4, <1>5, <1>6, <1>7 DEF Next, Finish, Over

\* A retried call gives its caller an answer within max_delay, the longest
\* delay and the time of one call.
THEOREM RetryEndsInTime == Spec => []EndsInTime
<1>1. TimeInv => EndsInTime
  BY DEF TimeInv
<1> QED BY <1>1, TimeInit, TimeStep, PTL DEF Spec

\* No attempt begins later than max_delay and the delay before it.
THEOREM RetryStartsInTime == Spec => []StartsInTime
<1>1. TimeInv => StartsInTime
  BY DEF TimeInv
<1> QED BY <1>1, TimeInit, TimeStep, PTL DEF Spec

\* Where the loop is and what it counts stay within the list of delays: the
\* next attempt after a sleep has a delay of its own.
THEOREM RetryTyped == Spec => []TypeOK
<1>1. TimeInv => TypeOK
  BY DEF TimeInv
<1> QED BY <1>1, TimeInit, TimeStep, PTL DEF Spec

\* With the delays of backoff_with_jitter no delay reaches the cap, so the
\* bound above is max_delay + cap and one call, whatever was drawn.
THEOREM JitterBelowCap ==
    ASSUME NEW delay \in Nat, NEW attempts \in Nat, NEW cap \in Nat,
           IsBackoffWithJitter(Delays, delay, attempts, cap)
    PROVE  \A i \in 1..Len(Delays) : Delays[i] < cap
<1> SUFFICES ASSUME NEW i \in 1..Len(Delays) PROVE Delays[i] < cap
  OBVIOUS
<1>1. CASE cap <= delay * 2^(i - 1)
  BY <1>1 DEF IsBackoffWithJitter
<1>2. CASE ~(cap <= delay * 2^(i - 1))
  <2> DEFINE w == delay * 2^(i - 1)
  <2>1. w \in Int
    BY <1>2 DEF IsBackoffWithJitter
  <2>2. ~(cap <= w) /\ Delays[i] \in 0..(w - 1)
    BY <1>2 DEF IsBackoffWithJitter
  <2> HIDE DEF w
  <2> QED BY <2>1, <2>2
<1> QED BY <1>1, <1>2
=============================================================================
