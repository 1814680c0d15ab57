---------------------------- MODULE RemoteProofs ----------------------------
(***************************************************************************)
(* The two retry loops of a remote command, one around the other, for      *)
(* every list of delays, every limit and every timeout: whose outcome the  *)
(* caller gets, how often the command runs and how long the caller waits.  *)
(***************************************************************************)
EXTENDS RemoteExecution, TLAPS

(***************************************************************************)
(* The inductive invariant                                                 *)
(***************************************************************************)
Ended == {"returned", "raised"}

\* Which loops are entered: both by run, only the inner one by _unsafe_run;
\* and a connection is open exactly while SshClient.run is in an attempt.
LoopsNested ==
    /\ api = "none" => opc = "idle" /\ oattempt = 1 /\ ipc = "idle" /\ runs = 0
    /\ api = "_unsafe_run" => opc = "idle" /\ oattempt = 1
    /\ api = "run" => opc # "idle"
    /\ api # "none" => ipc # "idle"
    /\ conn = "none" <=> ipc # "calling"
    /\ opc \in {"sleeping", "returned", "raised"} => ipc \in Ended

\* A returned inner loop has the outcome of the last copy that was sent.
Outcome ==
    /\ ipc = "returned" /\ ~ignore_errors => last = "ok"
    /\ opc = "returned" => ipc = "returned"

\* The copies sent so far: those of the outer attempts before, and of the inner
\* attempts of this one; all but one of each outer attempt were lost.
OuterAttempt == IF api = "run" THEN oattempt ELSE 1
Sent == IF conn = "executing" \/ ipc \in Ended THEN 1 ELSE 0
Copies ==
    /\ runs <= lost + (OuterAttempt - 1) + Sent
    /\ conn = "connecting" => runs <= (oattempt - 1) * Len(SshDelays) + (iattempt - 1)
    /\ runs <= (oattempt - 1) * Len(SshDelays) + iattempt
    /\ conn = "executing" => procs >= 1 /\ lost + 1 <= runs

\* How far the inner loop can have come since it was entered
InnerTime ==
    /\ istarted <= isince /\ isince <= now
    /\ ipc = "calling" /\ iattempt = 1 => isince = istarted
    /\ ipc = "calling" /\ iattempt > 1 => isince - istarted <= SshMaxDelay + SshDelays[iattempt - 1]
    /\ conn = "connecting" => now <= isince + ConnectTimeout
    /\ conn = "executing" => opened <= isince + ConnectTimeout /\ now <= opened + Timeout
    /\ ipc = "sleeping" => /\ iattempt < Len(SshDelays)
                           /\ isince - istarted <= SshMaxDelay
                           /\ now <= isince + SshDelays[iattempt]

\* SshClient.run alone gives its caller an answer in time.
InnerEndsInTime ==
    api = "_unsafe_run" \/ opc = "calling" =>
        \E i \in 1..Len(SshDelays) : now - istarted <= InnerLimit(i)

\* How far the outer loop can have come
OuterTime ==
    /\ ostarted <= osince /\ osince <= now
    /\ opc = "calling" => osince = istarted
    /\ opc = "calling" /\ oattempt = 1 => osince = ostarted
    /\ opc = "calling" /\ oattempt > 1 => osince - ostarted <= NodeMaxDelay + NodeDelays[oattempt - 1]
    /\ opc = "sleeping" => /\ oattempt < Len(NodeDelays)
                           /\ osince - ostarted <= NodeMaxDelay
                           /\ now <= osince + NodeDelays[oattempt]

RemoteInv ==
    /\ TypeOK
    /\ LoopsNested
    /\ Outcome
    /\ Copies
    /\ InnerTime
    /\ InnerEndsInTime
    /\ OuterTime
    /\ NodeRunEndsInTime

(***************************************************************************)
(* Facts about the constants                                               *)
(***************************************************************************)
\* Every delay of either list is a natural number, and there is a first one.
LEMMA DelayTypes ==
    /\ Len(NodeDelays) \in Nat /\ Len(NodeDelays) >= 1
    /\ Len(SshDelays) \in Nat /\ Len(SshDelays) >= 1
    /\ \A o \in 1..Len(NodeDelays) : NodeDelays[o] \in Nat
    /\ \A i \in 1..Len(SshDelays) : SshDelays[i] \in Nat
    /\ NodeMaxDelay \in Nat /\ SshMaxDelay \in Nat
    /\ ConnectTimeout \in Nat /\ Timeout \in Nat
BY RemoteAssumption

\* The outer attempts done and the inner ones of the next fit in the product.
LEMMA AttemptsFit ==
    ASSUME NEW L \in Nat, NEW N \in Nat, NEW o \in 1..N
    PROVE  /\ (o - 1) * L \in Nat
           /\ (o - 1) * L + L = o * L
           /\ o * L <= N * L
<1>1. o \in Nat /\ 1 <= o /\ o <= N
  OBVIOUS
<1>2. PICK r \in Nat : N = o + r
  <2>1. N - o \in Nat /\ N = o + (N - o)
    BY <1>1
  <2> QED BY <2>1
<1>3. N * L = o * L + r * L /\ r * L \in Nat /\ o * L \in Nat
  BY <1>1, <1>2
<1>4. PICK q \in Nat : o = q + 1
  <2>1. o - 1 \in Nat /\ o = (o - 1) + 1
    BY <1>1
  <2> QED BY <2>1
<1>5. (o - 1) * L = q * L /\ q * L \in Nat /\ o * L = q * L + L
  BY <1>4
<1> QED BY <1>3, <1>5

(***************************************************************************)
(* The initial state and the steps                                         *)
(***************************************************************************)
\* Nothing has been called: the invariant holds in the initial state.
LEMMA RemoteInit == Init => RemoteInv
<1> SUFFICES ASSUME Init PROVE RemoteInv
  OBVIOUS
<1> USE DelayTypes DEF Init, Outer!RetryInit, Inner!RetryInit
<1>1. 0 \in 0..(Len(NodeDelays) * Len(SshDelays)) /\ 0 \in 0..0
  OBVIOUS
<1>2. Outer!RetryTypeOK /\ Inner!RetryTypeOK
  BY DEF Outer!RetryTypeOK, Inner!RetryTypeOK, Outer!RetryLabels, Inner!RetryLabels
<1>3. ignore_errors \in BOOLEAN
  BY Zenon
<1>4. TypeOK
  BY <1>1, <1>2, <1>3 DEF TypeOK, Ends
<1>5. LoopsNested /\ Outcome
  BY DEF LoopsNested, Outcome, Ended
<1>6. Copies
  BY DEF Copies, OuterAttempt, Sent, Ended
<1>7. InnerTime /\ OuterTime
  BY DEF InnerTime, OuterTime
<1>8. InnerEndsInTime /\ NodeRunEndsInTime
  BY DEF InnerEndsInTime, NodeRunEndsInTime
<1> QED BY <1>4, <1>5, <1>6, <1>7, <1>8 DEF RemoteInv

\* What the type invariant says of each variable, the product left out
Typed ==
    /\ now \in Nat /\ opened \in Nat
    /\ opc \in {"idle", "calling", "sleeping", "returned", "raised"}
    /\ ipc \in {"idle", "calling", "sleeping", "returned", "raised"}
    /\ oattempt \in 1..Len(NodeDelays) /\ ostarted \in Nat /\ osince \in Nat
    /\ iattempt \in 1..Len(SshDelays) /\ istarted \in Nat /\ isince \in Nat
    /\ api \in {"none", "run", "_unsafe_run"}
    /\ conn \in {"none", "connecting", "executing"}
    /\ runs \in Nat /\ procs \in 0..runs /\ lost \in 0..runs

\* The invariant implies it.
LEMMA TypeFacts == RemoteInv => Typed
BY RemoteAssumption DEF Typed, RemoteInv, TypeOK, Outer!RetryTypeOK, Inner!RetryTypeOK, Outer!RetryLabels,
   Inner!RetryLabels

\* The loops stay one inside the other.
LEMMA LoopsStep == RemoteInv /\ [Next]_vars => LoopsNested'
<1> SUFFICES ASSUME RemoteInv, [Next]_vars PROVE LoopsNested'
  OBVIOUS
<1> Typed /\ LoopsNested
  BY TypeFacts DEF RemoteInv
<1> USE DelayTypes DEF Typed, LoopsNested, Ended, outerVars, innerVars, callVars, nodeVars
<1>1. ASSUME NEW m \in Apis, NEW ignore \in BOOLEAN, Call(m, ignore) PROVE LoopsNested'
  <2>1. m \in {"run", "_unsafe_run"}
    BY RemoteAssumption
  <2>2. /\ api = "none" /\ api' = m /\ ipc' = "calling" /\ conn' = "connecting"
        /\ IF m = "run" THEN opc' = "calling" ELSE opc' = opc /\ oattempt' = oattempt
    BY <1>1 DEF Call, Outer!EnterRetry, Inner!EnterRetry
  <2>3. opc = "idle" /\ oattempt = 1
    BY <2>2
  <2>4. api' # "none" /\ api' = m
    BY <2>1, <2>2
  <2>5. CASE m = "run"
    BY <2>2, <2>4, <2>5
  <2>6. CASE m = "_unsafe_run"
    BY <2>2, <2>3, <2>4, <2>6
  <2> QED BY <2>1, <2>5, <2>6
<1>2. CASE Connected
  BY <1>2 DEF Connected
<1>3. CASE ConnectFails
  BY <1>3 DEF ConnectFails, Inner!FailsListed, Inner!TimeWaited, Inner!IsLast
<1>4. CASE HostUnreachable
  BY <1>4 DEF HostUnreachable, Inner!Returns, Inner!FailsOther
<1>5. CASE CommandSucceeds
  BY <1>5 DEF CommandSucceeds, Inner!Returns
<1>6. CASE CommandFails
  BY <1>6 DEF CommandFails, Inner!Returns, Inner!FailsOther
<1>7. CASE CommandTimesOut
  BY <1>7 DEF CommandTimesOut, Inner!FailsOther
<1>8. CASE ConnectionLost
  BY <1>8 DEF ConnectionLost, Inner!FailsListed, Inner!TimeWaited, Inner!IsLast
<1>9. CASE Reconnect
  BY <1>9 DEF Reconnect, Inner!Wakes
<1>10. CASE NodeRunReturns
  BY <1>10 DEF NodeRunReturns, Outer!Returns
<1>11. CASE NodeRunFails
  BY <1>11 DEF NodeRunFails, Outer!FailsListed, Outer!TimeWaited, Outer!IsLast
<1>12. CASE NodeRunAgain
  BY <1>12 DEF NodeRunAgain, Outer!Wakes, Inner!EnterRetry
<1>13. CASE Tick
  BY <1>13 DEF Tick
<1>14. CASE OrphanEnds
  BY <1>14 DEF OrphanEnds
<1>15. CASE UNCHANGED vars
  BY <1>15 DEF vars
<1> QED
  BY <1>1, <1>2, <1>3, <1>4, <1>5, <1>6, <1>7, <1>8, <1>9, <1>10, <1>11, <1>12, <1>13, <1>14,
   <1>15 DEF Next

\* No step gives a returned loop another outcome than that of the last copy.
LEMMA OutcomeStep == RemoteInv /\ [Next]_vars => Outcome'
<1> SUFFICES ASSUME RemoteInv, [Next]_vars PROVE Outcome'
  OBVIOUS
<1> Typed /\ LoopsNested /\ Outcome
  BY TypeFacts DEF RemoteInv
<1> USE DelayTypes DEF Typed, LoopsNested, Outcome, Ended, outerVars, innerVars, callVars, nodeVars
<1>1. ASSUME NEW m \in Apis, NEW ignore \in BOOLEAN, Call(m, ignore) PROVE Outcome'
  BY <1>1 DEF Call, Outer!EnterRetry, Inner!EnterRetry
<1>2. CASE Connected
  BY <1>2 DEF Connected
<1>3. CASE ConnectFails
  BY <1>3 DEF ConnectFails, Inner!FailsListed, Inner!TimeWaited, Inner!IsLast
<1>4. CASE HostUnreachable
  BY <1>4 DEF HostUnreachable, Inner!Returns, Inner!FailsOther
<1>5. CASE CommandSucceeds
  BY <1>5 DEF CommandSucceeds, Inner!Returns
<1>6. CASE CommandFails
  BY <1>6 DEF CommandFails, Inner!Returns, Inner!FailsOther
<1>7. CASE CommandTimesOut
  BY <1>7 DEF CommandTimesOut, Inner!FailsOther
<1>8. CASE ConnectionLost
  BY <1>8 DEF ConnectionLost, Inner!FailsListed, Inner!TimeWaited, Inner!IsLast
<1>9. CASE Reconnect
  BY <1>9 DEF Reconnect, Inner!Wakes
<1>10. CASE NodeRunReturns
  BY <1>10 DEF NodeRunReturns, Outer!Returns
<1>11. CASE NodeRunFails
  BY <1>11 DEF NodeRunFails, Outer!FailsListed, Outer!TimeWaited, Outer!IsLast
<1>12. CASE NodeRunAgain
  BY <1>12 DEF NodeRunAgain, Outer!Wakes, Inner!EnterRetry
<1>13. CASE Tick
  BY <1>13 DEF Tick
<1>14. CASE OrphanEnds
  BY <1>14 DEF OrphanEnds
<1>15. CASE UNCHANGED vars
  BY <1>15 DEF vars
<1> QED
  BY <1>1, <1>2, <1>3, <1>4, <1>5, <1>6, <1>7, <1>8, <1>9, <1>10, <1>11, <1>12, <1>13, <1>14,
   <1>15 DEF Next

\* Every step keeps the inner loop within its limits.
LEMMA InnerTimeStep == RemoteInv /\ [Next]_vars => InnerTime'
<1> SUFFICES ASSUME RemoteInv, [Next]_vars PROVE InnerTime'
  OBVIOUS
<1> Typed /\ LoopsNested /\ InnerTime
  BY TypeFacts DEF RemoteInv
<1> USE DelayTypes DEF Typed, LoopsNested, InnerTime, outerVars, innerVars, callVars, nodeVars
<1>1. ASSUME NEW m \in Apis, NEW ignore \in BOOLEAN, Call(m, ignore) PROVE InnerTime'
  BY <1>1 DEF Call, Outer!EnterRetry, Inner!EnterRetry
<1>2. CASE Connected
  BY <1>2 DEF Connected
<1>3. CASE ConnectFails
  BY <1>3 DEF ConnectFails, Inner!FailsListed, Inner!TimeWaited, Inner!IsLast
<1>4. CASE HostUnreachable
  BY <1>4 DEF HostUnreachable, Inner!Returns, Inner!FailsOther
<1>5. CASE CommandSucceeds
  BY <1>5 DEF CommandSucceeds, Inner!Returns
<1>6. CASE CommandFails
  BY <1>6 DEF CommandFails, Inner!Returns, Inner!FailsOther
<1>7. CASE CommandTimesOut
  BY <1>7 DEF CommandTimesOut, Inner!FailsOther
<1>8. CASE ConnectionLost
  <2>1. conn = "executing" /\ conn' = "none" /\ now' = now /\ Inner!FailsListed
    BY <1>8 DEF ConnectionLost
  <2>2. CASE Inner!TimeWaited > SshMaxDelay \/ Inner!IsLast
    BY <2>1, <2>2 DEF Inner!FailsListed
  <2>3. CASE ~(Inner!TimeWaited > SshMaxDelay \/ Inner!IsLast)
    BY <2>1, <2>3 DEF Inner!FailsListed, Inner!TimeWaited, Inner!IsLast
  <2> QED BY <2>2, <2>3
<1>9. CASE Reconnect
  <2>1. /\ ipc = "sleeping" /\ ipc' = "calling" /\ conn' = "connecting"
        /\ iattempt' = iattempt + 1 /\ isince' = now /\ istarted' = istarted /\ now' = now
        /\ now = isince + SshDelays[iattempt]
    BY <1>9 DEF Reconnect, Inner!Wakes
  <2>2. iattempt' > 1 /\ iattempt' # 1 /\ iattempt' - 1 = iattempt /\ SshDelays[iattempt] \in Nat
    BY <2>1
  <2>3. isince' - istarted' <= SshMaxDelay + SshDelays[iattempt' - 1]
    BY <2>1, <2>2, SMTT(30)
  <2> QED BY <2>1, <2>2, <2>3, SMTT(30)
<1>10. CASE NodeRunReturns
  BY <1>10 DEF NodeRunReturns, Outer!Returns
<1>11. CASE NodeRunFails
  BY <1>11 DEF NodeRunFails, Outer!FailsListed, Outer!TimeWaited, Outer!IsLast
<1>12. CASE NodeRunAgain
  <2>1. /\ ipc' = "calling" /\ conn' = "connecting" /\ iattempt' = 1
        /\ isince' = now /\ istarted' = now /\ now' = now
    BY <1>12 DEF NodeRunAgain, Inner!EnterRetry
  <2> QED BY <2>1
<1>13. CASE Tick
  <2>1. /\ now' = now + 1 /\ ipc' = ipc /\ conn' = conn /\ opened' = opened
        /\ iattempt' = iattempt /\ istarted' = istarted /\ isince' = isince
    BY <1>13 DEF Tick
  <2>2. CASE conn = "connecting" /\ now < isince + ConnectTimeout
    BY <2>1, <2>2
  <2>3. CASE conn = "executing" /\ now < opened + Timeout
    BY <2>1, <2>3
  <2>4. CASE ipc = "sleeping" /\ now < isince + SshDelays[iattempt]
    <3>1. SshDelays[iattempt] \in Nat
      OBVIOUS
    <3> QED BY <2>1, <2>4, <3>1
  <2>5. CASE opc = "sleeping" /\ now < osince + NodeDelays[oattempt]
    <3>1. ipc # "calling" /\ ipc # "sleeping" /\ conn = "none"
      BY <2>5 DEF Ended
    <3> QED BY <2>1, <3>1
  <2> QED BY <1>13, <2>2, <2>3, <2>4, <2>5 DEF Tick
<1>14. CASE OrphanEnds
  BY <1>14 DEF OrphanEnds
<1>15. CASE UNCHANGED vars
  BY <1>15 DEF vars
<1> QED
  BY <1>1, <1>2, <1>3, <1>4, <1>5, <1>6, <1>7, <1>8, <1>9, <1>10, <1>11, <1>12, <1>13, <1>14,
   <1>15 DEF Next

\* Every step keeps the outer loop within its limits.
LEMMA OuterTimeStep == RemoteInv /\ [Next]_vars => OuterTime'
<1> SUFFICES ASSUME RemoteInv, [Next]_vars PROVE OuterTime'
  OBVIOUS
<1> Typed /\ LoopsNested /\ OuterTime
  BY TypeFacts DEF RemoteInv
<1> USE DelayTypes DEF Typed, LoopsNested, OuterTime, outerVars, innerVars, callVars, nodeVars
<1>1. ASSUME NEW m \in Apis, NEW ignore \in BOOLEAN, Call(m, ignore) PROVE OuterTime'
  BY <1>1 DEF Call, Outer!EnterRetry, Inner!EnterRetry
<1>2. CASE Connected
  BY <1>2 DEF Connected
<1>3. CASE ConnectFails
  BY <1>3 DEF ConnectFails, Inner!FailsListed, Inner!TimeWaited, Inner!IsLast
<1>4. CASE HostUnreachable
  BY <1>4 DEF HostUnreachable, Inner!Returns, Inner!FailsOther
<1>5. CASE CommandSucceeds
  BY <1>5 DEF CommandSucceeds, Inner!Returns
<1>6. CASE CommandFails
  BY <1>6 DEF CommandFails, Inner!Returns, Inner!FailsOther
<1>7. CASE CommandTimesOut
  BY <1>7 DEF CommandTimesOut, Inner!FailsOther
<1>8. CASE ConnectionLost
  BY <1>8 DEF ConnectionLost, Inner!FailsListed, Inner!TimeWaited, Inner!IsLast
<1>9. CASE Reconnect
  BY <1>9 DEF Reconnect, Inner!Wakes
<1>10. CASE NodeRunReturns
  BY <1>10 DEF NodeRunReturns, Outer!Returns
<1>11. CASE NodeRunFails
  BY <1>11 DEF NodeRunFails, Outer!FailsListed, Outer!TimeWaited, Outer!IsLast
<1>12. CASE NodeRunAgain
  <2>1. /\ opc = "sleeping" /\ opc' = "calling" /\ oattempt' = oattempt + 1
        /\ osince' = now /\ istarted' = now /\ ostarted' = ostarted /\ now' = now
        /\ now = osince + NodeDelays[oattempt]
    BY <1>12 DEF NodeRunAgain, Outer!Wakes, Inner!EnterRetry
  <2>2. oattempt' > 1 /\ oattempt' # 1 /\ oattempt' - 1 = oattempt /\ NodeDelays[oattempt] \in Nat
    BY <2>1
  <2>3. osince' - ostarted' <= NodeMaxDelay + NodeDelays[oattempt' - 1]
    BY <2>1, <2>2, SMTT(30)
  <2> QED BY <2>1, <2>2, <2>3
<1>13. CASE Tick
  <2>1. /\ now' = now + 1 /\ opc' = opc /\ oattempt' = oattempt
        /\ ostarted' = ostarted /\ osince' = osince /\ istarted' = istarted
    BY <1>13 DEF Tick
  <2>2. opc = "sleeping" => now < osince + NodeDelays[oattempt]
    BY <1>13 DEF Tick, Ended
  <2>3. NodeDelays[oattempt] \in Nat
    OBVIOUS
  <2> QED BY <2>1, <2>2, <2>3
<1>14. CASE OrphanEnds
  BY <1>14 DEF OrphanEnds
<1>15. CASE UNCHANGED vars
  BY <1>15 DEF vars
<1> QED
  BY <1>1, <1>2, <1>3, <1>4, <1>5, <1>6, <1>7, <1>8, <1>9, <1>10, <1>11, <1>12, <1>13, <1>14,
   <1>15 DEF Next

\* So it keeps the time the inner loop takes within its bound.
LEMMA InnerEndsStep == RemoteInv /\ [Next]_vars => InnerEndsInTime'
<1> SUFFICES ASSUME RemoteInv, [Next]_vars PROVE InnerEndsInTime'
  OBVIOUS
<1> Typed /\ InnerEndsInTime /\ LoopsNested /\ InnerTime
  BY TypeFacts DEF RemoteInv
<1> USE DelayTypes DEF Typed, InnerEndsInTime, outerVars, innerVars, callVars, nodeVars
<1>1. ASSUME NEW m \in Apis, NEW ignore \in BOOLEAN, Call(m, ignore) PROVE InnerEndsInTime'
  <2>1. now' = now /\ istarted' = now
    BY <1>1 DEF Call, Inner!EnterRetry
  <2>2. 1 \in 1..Len(SshDelays) /\ SshDelays[1] \in Nat
    OBVIOUS
  <2>3. now' - istarted' <= InnerLimit(1)
    BY <2>1, <2>2 DEF InnerLimit
  <2> QED BY <2>2, <2>3
<1>2. CASE Connected
  BY <1>2 DEF Connected
<1>3. CASE ConnectFails
  BY <1>3 DEF ConnectFails, Inner!FailsListed, Inner!TimeWaited, Inner!IsLast
<1>4. CASE HostUnreachable
  BY <1>4 DEF HostUnreachable, Inner!Returns, Inner!FailsOther
<1>5. CASE CommandSucceeds
  BY <1>5 DEF CommandSucceeds, Inner!Returns
<1>6. CASE CommandFails
  BY <1>6 DEF CommandFails, Inner!Returns, Inner!FailsOther
<1>7. CASE CommandTimesOut
  BY <1>7 DEF CommandTimesOut, Inner!FailsOther
<1>8. CASE ConnectionLost
  BY <1>8 DEF ConnectionLost, Inner!FailsListed, Inner!TimeWaited, Inner!IsLast
<1>9. CASE Reconnect
  BY <1>9 DEF Reconnect, Inner!Wakes
<1>10. CASE NodeRunReturns
  BY <1>10 DEF NodeRunReturns, Outer!Returns
<1>11. CASE NodeRunFails
  BY <1>11 DEF NodeRunFails, Outer!FailsListed, Outer!TimeWaited, Outer!IsLast
<1>12. CASE NodeRunAgain
  <2>1. now' = now /\ istarted' = now
    BY <1>12 DEF NodeRunAgain, Inner!EnterRetry
  <2>2. 1 \in 1..Len(SshDelays) /\ SshDelays[1] \in Nat
    OBVIOUS
  <2>3. now' - istarted' <= InnerLimit(1)
    BY <2>1, <2>2 DEF InnerLimit
  <2> QED BY <2>2, <2>3
<1>13. CASE Tick
  <2>1. /\ now' = now + 1 /\ api' = api /\ opc' = opc /\ istarted' = istarted
    BY <1>13 DEF Tick
  <2> SUFFICES ASSUME api = "_unsafe_run" \/ opc = "calling"
               PROVE  \E i \in 1..Len(SshDelays) : now + 1 - istarted <= InnerLimit(i)
    BY <2>1
  <2>2. opc # "sleeping"
    BY DEF LoopsNested
  <2>3. CASE ipc = "calling" /\ iattempt = 1
    <3>1. now + 1 - istarted <= ConnectTimeout + Timeout
      BY <1>13, <2>2, <2>3 DEF Tick, LoopsNested, InnerTime
    <3>2. 1 \in 1..Len(SshDelays) /\ SshDelays[1] \in Nat
      OBVIOUS
    <3>3. now + 1 - istarted <= InnerLimit(1)
      BY <3>1, <3>2 DEF InnerLimit
    <3> QED BY <3>2, <3>3
  <2>4. CASE ipc = "calling" /\ iattempt > 1
    <3>1. iattempt - 1 \in 1..Len(SshDelays) /\ SshDelays[iattempt - 1] \in Nat
      BY <2>4
    <3>2. now + 1 - isince <= ConnectTimeout + Timeout
      BY <1>13, <2>2, <2>4 DEF Tick, LoopsNested, InnerTime
    <3>3. isince - istarted <= SshMaxDelay + SshDelays[iattempt - 1]
      BY <2>4 DEF InnerTime
    <3>4. now + 1 - istarted <= InnerLimit(iattempt - 1)
      BY <3>1, <3>2, <3>3, SMTT(30) DEF InnerLimit
    <3> QED BY <3>1, <3>4
  <2>5. CASE ipc = "sleeping"
    <3>1. SshDelays[iattempt] \in Nat
      OBVIOUS
    <3>2. now + 1 - istarted <= SshMaxDelay + SshDelays[iattempt]
      BY <1>13, <2>2, <2>5, <3>1 DEF Tick, LoopsNested, InnerTime
    <3>3. now + 1 - istarted <= InnerLimit(iattempt)
      BY <3>1, <3>2 DEF InnerLimit
    <3> QED BY <3>3
  <2>6. ipc = "calling" \/ ipc = "sleeping"
    BY <1>13, <2>2 DEF Tick, LoopsNested
  <2> QED BY <2>3, <2>4, <2>5, <2>6
<1>14. CASE OrphanEnds
  BY <1>14 DEF OrphanEnds
<1>15. CASE UNCHANGED vars
  BY <1>15 DEF vars
<1> QED
  BY <1>1, <1>2, <1>3, <1>4, <1>5, <1>6, <1>7, <1>8, <1>9, <1>10, <1>11, <1>12, <1>13, <1>14,
   <1>15 DEF Next

\* Every copy of the command is accounted for: a step sends at most one.
LEMMA CopiesStep == RemoteInv /\ [Next]_vars => Copies'
<1> SUFFICES ASSUME RemoteInv, [Next]_vars PROVE Copies'
  OBVIOUS
<1> Typed /\ LoopsNested /\ Copies
  BY TypeFacts DEF RemoteInv
<1>p. /\ (oattempt - 1) * Len(SshDelays) \in Nat
      /\ (oattempt - 1) * Len(SshDelays) + Len(SshDelays) = oattempt * Len(SshDelays)
  BY DelayTypes, AttemptsFit DEF Typed
<1> USE DelayTypes, <1>p DEF Typed, LoopsNested, Copies, OuterAttempt, Sent, Ended, outerVars, innerVars,
   callVars, nodeVars
<1>1. ASSUME NEW m \in Apis, NEW ignore \in BOOLEAN, Call(m, ignore) PROVE Copies'
  <2>1. /\ runs = 0 /\ runs' = runs /\ lost' = lost /\ conn' = "connecting" /\ iattempt' = 1
        /\ oattempt' = 1 /\ ipc' = "calling"
    BY <1>1 DEF Call, LoopsNested, Outer!EnterRetry, Inner!EnterRetry
  <2>2. (oattempt' - 1) * Len(SshDelays) = 0
    BY <2>1
  <2> QED BY <2>1, <2>2
<1>2. CASE Connected
  BY <1>2 DEF Connected
<1>3. CASE ConnectFails
  BY <1>3 DEF ConnectFails, Inner!FailsListed, Inner!TimeWaited, Inner!IsLast
<1>4. CASE HostUnreachable
  BY <1>4 DEF HostUnreachable, Inner!Returns, Inner!FailsOther
<1>5. CASE CommandSucceeds
  BY <1>5 DEF CommandSucceeds, Inner!Returns
<1>6. CASE CommandFails
  BY <1>6 DEF CommandFails, Inner!Returns, Inner!FailsOther
<1>7. CASE CommandTimesOut
  BY <1>7 DEF CommandTimesOut, Inner!FailsOther
<1>8. CASE ConnectionLost
  BY <1>8 DEF ConnectionLost, Inner!FailsListed, Inner!TimeWaited, Inner!IsLast
<1>9. CASE Reconnect
  BY <1>9 DEF Reconnect, Inner!Wakes
<1>10. CASE NodeRunReturns
  BY <1>10 DEF NodeRunReturns, Outer!Returns
<1>11. CASE NodeRunFails
  BY <1>11 DEF NodeRunFails, Outer!FailsListed, Outer!TimeWaited, Outer!IsLast
<1>12. CASE NodeRunAgain
  <2>1. /\ runs' = runs /\ lost' = lost /\ conn' = "connecting" /\ iattempt' = 1
        /\ oattempt' = oattempt + 1 /\ ipc' = "calling" /\ opc = "sleeping" /\ api' = api
    BY <1>12 DEF NodeRunAgain, LoopsNested, Outer!Wakes, Inner!EnterRetry
  <2>2. api = "run"
    BY <2>1 DEF LoopsNested
  <2>3. (oattempt' - 1) * Len(SshDelays) = (oattempt - 1) * Len(SshDelays) + Len(SshDelays)
    <3>1. oattempt' - 1 = oattempt
      BY <2>1
    <3> QED BY <3>1, <1>p
  <2>4. /\ runs' <= (oattempt' - 1) * Len(SshDelays) + (iattempt' - 1)
        /\ runs' <= (oattempt' - 1) * Len(SshDelays) + iattempt'
    BY <2>1, <2>3, <1>p
  <2>5. runs' <= lost' + (OuterAttempt' - 1) + Sent'
    BY <2>1, <2>2
  <2> QED BY <2>1, <2>4, <2>5
<1>13. CASE Tick
  BY <1>13 DEF Tick
<1>14. CASE OrphanEnds
  BY <1>14 DEF OrphanEnds
<1>15. CASE UNCHANGED vars
  BY <1>15 DEF vars
<1> QED
  BY <1>1, <1>2, <1>3, <1>4, <1>5, <1>6, <1>7, <1>8, <1>9, <1>10, <1>11, <1>12, <1>13, <1>14,
   <1>15 DEF Next

\* The counters stay in range: each attempt of each loop sends one copy at most.
LEMMA CountersStep ==
    ASSUME RemoteInv, [Next]_vars
    PROVE  /\ procs' \in 0..runs' /\ lost' \in 0..runs'
           /\ runs' \in 0..(Len(NodeDelays) * Len(SshDelays))
<1> Typed /\ LoopsNested /\ Copies
  BY TypeFacts DEF RemoteInv
<1>1. /\ (oattempt - 1) * Len(SshDelays) \in Nat
      /\ (oattempt - 1) * Len(SshDelays) + Len(SshDelays) <= Len(NodeDelays) * Len(SshDelays)
  <2>1. oattempt \in 1..Len(NodeDelays) /\ Len(NodeDelays) \in Nat /\ Len(SshDelays) \in Nat
    BY DelayTypes DEF Typed
  <2>2. /\ (oattempt - 1) * Len(SshDelays) \in Nat
        /\ (oattempt - 1) * Len(SshDelays) + Len(SshDelays) = oattempt * Len(SshDelays)
        /\ oattempt * Len(SshDelays) <= Len(NodeDelays) * Len(SshDelays)
    BY <2>1, AttemptsFit
  <2> QED BY <2>2
<1>2. CASE Connected
  <2>1. runs' = runs + 1 /\ procs' = procs + 1 /\ lost' = lost
    BY <1>2 DEF Connected
  <2>2. runs + 1 <= Len(NodeDelays) * Len(SshDelays)
    <3>1. runs <= (oattempt - 1) * Len(SshDelays) + (iattempt - 1)
      BY <1>2 DEF Connected, Copies
    <3>2. iattempt \in Nat /\ iattempt <= Len(SshDelays) /\ runs \in Nat
      BY DelayTypes DEF Typed
    <3> QED BY <1>1, <3>1, <3>2, DelayTypes
  <2> QED BY <2>1, <2>2, DelayTypes DEF Typed
<1>3. CASE ~Connected
  <2>1. runs' = runs
    BY <1>3 DEF Next, Call, ConnectFails, HostUnreachable, CommandSucceeds, CommandFails,
       CommandTimesOut, ConnectionLost, Reconnect, NodeRunReturns, NodeRunFails, NodeRunAgain, Tick,
       OrphanEnds, vars, nodeVars
  <2>2. procs' \in {procs, procs - 1} /\ (procs' # procs => procs >= 1)
    BY <1>3 DEF Next, Call, ConnectFails, HostUnreachable, CommandSucceeds, CommandFails,
       CommandTimesOut, ConnectionLost, Reconnect, NodeRunReturns, NodeRunFails, NodeRunAgain, Tick,
       OrphanEnds, vars, nodeVars, Copies, Typed
  <2>3. lost' = lost \/ (lost' = lost + 1 /\ lost + 1 <= runs)
    BY <1>3 DEF Next, Call, ConnectFails, HostUnreachable, CommandSucceeds, CommandFails,
       CommandTimesOut, ConnectionLost, Reconnect, NodeRunReturns, NodeRunFails, NodeRunAgain, Tick,
       OrphanEnds, vars, nodeVars, Copies
  <2>4. runs \in 0..(Len(NodeDelays) * Len(SshDelays))
    BY DEF RemoteInv, TypeOK
  <2> QED BY <2>1, <2>2, <2>3, <2>4 DEF Typed
<1> QED BY <1>2, <1>3

\* Both loops stay at an attempt that has a delay.
LEMMA LoopTypesStep ==
    ASSUME RemoteInv, [Next]_vars
    PROVE  Outer!RetryTypeOK' /\ Inner!RetryTypeOK'
<1> Typed /\ LoopsNested /\ InnerTime /\ OuterTime
  BY TypeFacts DEF RemoteInv
<1> USE DelayTypes DEF Typed, Outer!RetryTypeOK, Inner!RetryTypeOK, Outer!RetryLabels, Inner!RetryLabels
<1>1. Outer!RetryTypeOK'
  <2>1. CASE UNCHANGED outerVars
    <3>1. now' \in Nat
      BY DEF Next, Call, Connected, ConnectFails, HostUnreachable, CommandSucceeds, CommandFails,
         CommandTimesOut, ConnectionLost, Reconnect, NodeRunReturns, NodeRunFails, NodeRunAgain,
         Tick, OrphanEnds, vars
    <3> QED BY <2>1, <3>1 DEF outerVars
  <2>2. ASSUME NEW m \in Apis, NEW ignore \in BOOLEAN, Call(m, ignore) PROVE Outer!RetryTypeOK'
    BY <2>2 DEF Call, Outer!EnterRetry, outerVars
  <2>3. CASE NodeRunReturns
    BY <2>3 DEF NodeRunReturns, Outer!Returns
  <2>4. CASE NodeRunFails
    BY <2>4 DEF NodeRunFails, Outer!FailsListed
  <2>5. CASE NodeRunAgain
    BY <2>5 DEF NodeRunAgain, Outer!Wakes, OuterTime
  <2> QED BY <2>1, <2>2, <2>3, <2>4, <2>5 DEF Next, Connected, ConnectFails, HostUnreachable,
         CommandSucceeds, CommandFails, CommandTimesOut, ConnectionLost, Reconnect, Tick, OrphanEnds, vars
<1>2. Inner!RetryTypeOK'
  <2>1. now' \in Nat
    BY <1>1
  <2>2. CASE UNCHANGED innerVars
    BY <2>1, <2>2 DEF innerVars
  <2>3. ASSUME NEW m \in Apis, NEW ignore \in BOOLEAN, Call(m, ignore) PROVE Inner!RetryTypeOK'
    BY <2>1, <2>3 DEF Call, Inner!EnterRetry
  <2>4. CASE ConnectFails \/ ConnectionLost
    BY <2>1, <2>4 DEF ConnectFails, ConnectionLost, Inner!FailsListed
  <2>5. CASE HostUnreachable \/ CommandSucceeds \/ CommandFails \/ CommandTimesOut
    BY <2>1, <2>5 DEF HostUnreachable, CommandSucceeds, CommandFails, CommandTimesOut, Inner!Returns,
       Inner!FailsOther
  <2>6. CASE Reconnect
    BY <2>1, <2>6 DEF Reconnect, Inner!Wakes, InnerTime
  <2>7. CASE NodeRunAgain
    BY <2>1, <2>7 DEF NodeRunAgain, Inner!EnterRetry
  <2> QED BY <2>2, <2>3, <2>4, <2>5, <2>6, <2>7 DEF Next, Connected, NodeRunReturns, NodeRunFails,
         Tick, OrphanEnds, vars
<1> QED BY <1>1, <1>2

\* The type invariant is preserved.
LEMMA TypeStep == RemoteInv /\ [Next]_vars => TypeOK'
<1> SUFFICES ASSUME RemoteInv, [Next]_vars PROVE TypeOK'
  OBVIOUS
<1> TypeOK
  BY DEF RemoteInv
<1>1. ignore_errors' \in BOOLEAN
  <2>1. ASSUME NEW m \in Apis, NEW ignore \in BOOLEAN, Call(m, ignore) PROVE ignore_errors' \in BOOLEAN
    BY <2>1, Zenon DEF Call
  <2>2. CASE UNCHANGED ignore_errors
    BY <2>2, Zenon DEF TypeOK
  <2> QED BY <2>1, <2>2 DEF Next, Connected, ConnectFails, HostUnreachable, CommandSucceeds,
         CommandFails, CommandTimesOut, ConnectionLost, Reconnect, NodeRunReturns, NodeRunFails,
         NodeRunAgain, Tick, OrphanEnds, vars, callVars
<1>2. api' \in {"none"} \cup Apis
  BY DEF TypeOK, Next, Call, Connected, ConnectFails, HostUnreachable, CommandSucceeds, CommandFails,
     CommandTimesOut, ConnectionLost, Reconnect, NodeRunReturns, NodeRunFails, NodeRunAgain, Tick,
     OrphanEnds, vars, callVars
<1>3. conn' \in {"none", "connecting", "executing"} /\ last' \in Ends /\ opened' \in Nat
  <2>1. now \in Nat
    BY DEF TypeOK, Outer!RetryTypeOK
  <2> QED BY <2>1 DEF TypeOK, Next, Call, Connected, ConnectFails, HostUnreachable, CommandSucceeds,
     CommandFails, CommandTimesOut, ConnectionLost, Reconnect, NodeRunReturns, NodeRunFails,
     NodeRunAgain, Tick, OrphanEnds, vars, nodeVars, Ends
<1> QED BY <1>1, <1>2, <1>3, CountersStep, LoopTypesStep DEF TypeOK

\* While Node.run is in an attempt or sleeps, what the two loops may have taken
\* adds up to the bound.
LEMMA BoundsAddUp ==
    /\ Typed /\ LoopsNested /\ InnerEndsInTime /\ OuterTime
    /\ opc \in {"calling", "sleeping"}
    => NodeRunEndsInTime
<1> SUFFICES ASSUME Typed, LoopsNested, InnerEndsInTime, OuterTime, opc \in {"calling", "sleeping"}
             PROVE  \E i \in 1..Len(SshDelays), o \in 1..Len(NodeDelays) :
                        now - ostarted <= NodeMaxDelay + NodeDelays[o] + InnerLimit(i)
  BY DEF NodeRunEndsInTime
<1> USE DelayTypes DEF Typed
<1>1. \A i \in 1..Len(SshDelays) : InnerLimit(i) \in Nat
  BY DEF InnerLimit
<1>2. 1 \in 1..Len(SshDelays) /\ 1 \in 1..Len(NodeDelays) /\ NodeDelays[1] \in Nat
  OBVIOUS
<1>3. CASE opc = "sleeping"
  <2>1. now - ostarted <= NodeMaxDelay + NodeDelays[oattempt] /\ NodeDelays[oattempt] \in Nat
    BY <1>3 DEF OuterTime
  <2>2. now - ostarted <= NodeMaxDelay + NodeDelays[oattempt] + InnerLimit(1)
    BY <1>1, <1>2, <2>1
  <2> QED BY <1>2, <2>2
<1>4. CASE opc = "calling"
  <2>1. PICK i \in 1..Len(SshDelays) : now - istarted <= InnerLimit(i)
    BY <1>4 DEF InnerEndsInTime
  <2>2. InnerLimit(i) \in Nat
    BY <1>1
  <2>3. CASE oattempt = 1
    <3>1. now - ostarted <= NodeMaxDelay + NodeDelays[1] + InnerLimit(i)
      BY <1>2, <1>4, <2>1, <2>2, <2>3 DEF OuterTime
    <3> QED BY <1>2, <3>1
  <2>4. CASE oattempt > 1
    <3>1. oattempt - 1 \in 1..Len(NodeDelays) /\ NodeDelays[oattempt - 1] \in Nat
      BY <2>4
    <3>2. now - ostarted <= NodeMaxDelay + NodeDelays[oattempt - 1] + InnerLimit(i)
      BY <1>4, <2>1, <2>2, <2>4, <3>1 DEF OuterTime
    <3> QED BY <3>1, <3>2
  <2> QED BY <2>3, <2>4
<1> QED BY <1>3, <1>4

\* When it is over no time passes any more.
LEMMA OverStays ==
    ASSUME RemoteInv, [Next]_vars, opc' \notin {"calling", "sleeping"}
    PROVE  NodeRunEndsInTime'
<1> Typed /\ LoopsNested /\ NodeRunEndsInTime
  BY TypeFacts DEF RemoteInv
<1>1. CASE api' = "run"
  <2>1. api = "run"
    BY <1>1 DEF Next, Call, Outer!EnterRetry, Connected, ConnectFails, HostUnreachable,
       CommandSucceeds, CommandFails, CommandTimesOut, ConnectionLost, Reconnect, NodeRunReturns,
       NodeRunFails, NodeRunAgain, Tick, OrphanEnds, vars, callVars
  <2>2. now' = now /\ ostarted' = ostarted
    BY <1>1, <2>1 DEF Typed, LoopsNested, Ended, Next, Call, Connected, ConnectFails,
       HostUnreachable, CommandSucceeds, CommandFails, CommandTimesOut, ConnectionLost, Reconnect,
       NodeRunReturns, NodeRunFails, NodeRunAgain, Outer!Returns, Outer!FailsListed, Outer!Wakes,
       Tick, OrphanEnds, vars, callVars, outerVars
  <2> QED BY <2>1, <2>2 DEF NodeRunEndsInTime, InnerLimit
<1> QED BY <1>1 DEF NodeRunEndsInTime

\* Every step preserves the invariant.
LEMMA RemoteStep == RemoteInv /\ [Next]_vars => RemoteInv'
<1> SUFFICES ASSUME RemoteInv, [Next]_vars PROVE RemoteInv'
  OBVIOUS
<1>1. /\ TypeOK' /\ LoopsNested' /\ Outcome' /\ Copies'
      /\ InnerTime' /\ InnerEndsInTime' /\ OuterTime'
  BY TypeStep, LoopsStep, OutcomeStep, CopiesStep, InnerTimeStep, InnerEndsStep, OuterTimeStep
<1>2. Typed'
  BY <1>1, RemoteAssumption DEF TypeOK, Typed, Outer!RetryTypeOK, Inner!RetryTypeOK,
     Outer!RetryLabels, Inner!RetryLabels
<1>3. NodeRunEndsInTime'
  <2>1. CASE opc' \in {"calling", "sleeping"}
    <3>1. (/\ Typed /\ LoopsNested /\ InnerEndsInTime /\ OuterTime
           /\ opc \in {"calling", "sleeping"}
           => NodeRunEndsInTime)'
      BY BoundsAddUp, PTL
    <3> QED BY <1>1, <1>2, <2>1, <3>1
  <2>2. CASE opc' \notin {"calling", "sleeping"}
    BY <2>2, OverStays
  <2> QED BY <2>1, <2>2
<1> QED BY <1>1, <1>3 DEF RemoteInv

(***************************************************************************)
(* The theorems                                                            *)
(***************************************************************************)
\* Both loops stay within their lists of delays, and the command is sent to the
\* node at most once in each attempt of the one loop inside each of the other.
THEOREM RemoteTyped == Spec => []TypeOK
<1>1. RemoteInv => TypeOK
  BY DEF RemoteInv
<1> QED BY <1>1, RemoteInit, RemoteStep, PTL DEF Spec

\* What a call returns is the outcome of the last copy of the command it sent,
\* and that copy succeeded, unless errors are ignored.
THEOREM RemoteReturnsLastRun == Spec => []ReturnsLastRun
<1>1. RemoteInv => ReturnsLastRun
  BY DEF RemoteInv, Outcome, ReturnsLastRun, Result
<1> QED BY <1>1, RemoteInit, RemoteStep, PTL DEF Spec

\* SshClient.run repeats a command only when the connection was lost under it.
THEOREM RemoteRepeatsOnlyLost == Spec => []RepeatsOnlyLost
<1>1. RemoteInv => RepeatsOnlyLost
  <2> SUFFICES ASSUME RemoteInv PROVE RepeatsOnlyLost
    OBVIOUS
  <2>1. runs \in Nat /\ lost \in Nat /\ oattempt \in Nat
    BY TypeFacts, DelayTypes DEF Typed
  <2>2. OuterAttempt \in Nat /\ Sent \in {0, 1}
    BY <2>1 DEF OuterAttempt, Sent
  <2>3. runs <= lost + (OuterAttempt - 1) + Sent
    BY DEF RemoteInv, Copies
  <2>4. runs <= lost + OuterAttempt
    BY <2>1, <2>2, <2>3
  <2> QED BY <2>4 DEF RepeatsOnlyLost, OuterAttempt
<1> QED BY <1>1, RemoteInit, RemoteStep, PTL DEF Spec

\* The two loops together keep the caller of Node.run for a bounded time.
THEOREM RemoteEndsInTime == Spec => []NodeRunEndsInTime
<1>1. RemoteInv => NodeRunEndsInTime
  BY DEF RemoteInv
<1> QED BY <1>1, RemoteInit, RemoteStep, PTL DEF Spec
=============================================================================
