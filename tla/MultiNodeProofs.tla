--------------------------- MODULE MultiNodeProofs ---------------------------
(***************************************************************************)
(* run_on_all_nodes for every set of hosts and every list of delays: when  *)
(* it returns, the command has ended everywhere in one attempt, and without*)
(* an error unless errors are ignored.                                     *)
(***************************************************************************)
EXTENDS MultiNode, TLAPS

(***************************************************************************)
(* The inductive invariant                                                 *)
(***************************************************************************)
\* A process is at work where a task executes.
ExecutingHasCopy == \A h \in Hosts : task[h] = "executing" => copies[h] >= 1

\* One call at a time: a copy of files never runs under the decorator's loop,
\* which has a delay for the next attempt while it sleeps.
OneCall ==
    /\ scp # "none" => rpc = "idle"
    /\ rpc = "sleeping" => attempt < Len(Delays)

\* The command has ended on a host in the present attempt, and without an error
\* as long as errors count.
EndedWell(h) == ran[h] = attempt /\ (~ignore_errors => h \notin failed)

\* Every result of the present attempt is a result of this attempt.
ResultsAreOfAttempt ==
    /\ rpc = "calling" => \A h \in Hosts : task[h] # "none" /\ (task[h] = "ok" => EndedWell(h))
    /\ rpc = "returned" => \A h \in Hosts : task[h] = "ok" /\ EndedWell(h)

MultiNodeInv ==
    /\ TypeOK
    /\ ExecutingHasCopy
    /\ OneCall
    /\ ResultsAreOfAttempt

\* The list of delays has a first one.
LEMMA SomeDelay == Len(Delays) \in Nat /\ Len(Delays) >= 1
BY MultiNodeAssumption

(***************************************************************************)
(* The steps                                                               *)
(***************************************************************************)
\* What a host may do with its task, whichever way it goes on: no other host is
\* touched.
LEMMA HostStepEffect ==
    ASSUME PsshTypeOK, ExecutingHasCopy, NEW h \in Hosts, HostStep(h) \/ HostEndsWarned(h)
    PROVE  /\ PsshTypeOK' /\ ExecutingHasCopy'
           /\ task[h] \in {"connecting", "executing"}
           /\ task'[h] # "none"
           /\ \A g \in Hosts \ {h} : task'[g] = task[g]
<1> USE DEF PsshTypeOK, ExecutingHasCopy, TaskStates
<1>1. CASE HostConnected(h)
  BY <1>1 DEF HostConnected
<1>2. CASE HostUnreachable(h)
  BY <1>2 DEF HostUnreachable
<1>3. CASE HostEnds(h) \/ HostEndsWarned(h)
  <2>1. copies[h] - 1 \in Nat
    BY <1>3 DEF HostEnds, HostEndsWarned
  <2> QED BY <1>3, <2>1 DEF HostEnds, HostEndsWarned
<1>4. CASE HostAbandoned(h)
  BY <1>4 DEF HostAbandoned
<1> QED BY <1>1, <1>2, <1>3, <1>4 DEF HostStep

\* While a host is at its task the call is not over.
LEMMA NotOver ==
    ASSUME ResultsAreOfAttempt, NEW h \in Hosts, task[h] \in {"connecting", "executing"}
    PROVE  rpc # "returned"
BY DEF ResultsAreOfAttempt

\* The initial state satisfies the invariant.
LEMMA MultiNodeInit == Init => MultiNodeInv
<1> SUFFICES ASSUME Init PROVE MultiNodeInv
  OBVIOUS
<1> USE SomeDelay DEF Init, PsshInit, Retry!RetryInit
<1>1. TypeOK
  <2>1. PsshTypeOK /\ Retry!RetryTypeOK
    BY DEF PsshTypeOK, TaskStates, Retry!RetryTypeOK, Retry!RetryLabels
  <2>2. copied \in [Hosts -> BOOLEAN] /\ ignore_errors \in BOOLEAN
    BY Zenon
  <2>3. ran \in [Hosts -> 0..Len(Delays)]
    OBVIOUS
  <2> QED BY <2>1, <2>2, <2>3 DEF TypeOK
<1>2. ExecutingHasCopy /\ OneCall /\ ResultsAreOfAttempt
  BY DEF ExecutingHasCopy, OneCall, ResultsAreOfAttempt
<1> QED BY <1>1, <1>2 DEF MultiNodeInv

\* Every step preserves it.
LEMMA MultiNodeStep == MultiNodeInv /\ [Next]_vars => MultiNodeInv'
<1> SUFFICES ASSUME MultiNodeInv, [Next]_vars PROVE MultiNodeInv'
  OBVIOUS
<1> TypeOK /\ PsshTypeOK /\ Retry!RetryTypeOK /\ ExecutingHasCopy /\ OneCall /\ ResultsAreOfAttempt
  BY DEF MultiNodeInv, TypeOK
<1> USE SomeDelay DEF retryVars, psshVars, Retry!RetryTypeOK, Retry!RetryLabels
<1>1. CASE RunOnAllNodes \/ RunAgain
  <2>1. /\ task' = [h \in Hosts |-> "connecting"] /\ copies' = copies /\ now' = now
        /\ scp' = scp /\ ran' = ran /\ failed' = failed /\ copied' = copied
        /\ ignore_errors' \in {TRUE, FALSE, ignore_errors}
        /\ rpc' = "calling" /\ rpc \in {"idle", "sleeping"}
        /\ since' = now /\ started' \in {now, started} /\ scp = "none"
    BY <1>1 DEF RunOnAllNodes, RunAgain, Ready, Gather, GatherOn, hostVars, Retry!EnterRetry, Retry!Wakes, OneCall
  <2>2. attempt' \in 1..Len(Delays)
    BY <1>1 DEF RunOnAllNodes, RunAgain, Retry!EnterRetry, Retry!Wakes, OneCall
  <2>3. TypeOK'
    BY <2>1, <2>2 DEF TypeOK, PsshTypeOK, TaskStates
  <2>4. ExecutingHasCopy' /\ OneCall' /\ ResultsAreOfAttempt'
    BY <2>1 DEF ExecutingHasCopy, OneCall, ResultsAreOfAttempt
  <2> QED BY <2>3, <2>4 DEF MultiNodeInv
<1>2. CASE ScpToAllNodes
  <2>1. /\ task' = [h \in Hosts |-> "connecting"] /\ scp' = "calling" /\ rpc = "idle"
        /\ UNCHANGED <<now, rpc, attempt, started, since, copies, ignore_errors, ran, failed, copied>>
    BY <1>2 DEF ScpToAllNodes, Ready, Gather, GatherOn, hostVars
  <2> QED BY <2>1 DEF MultiNodeInv, TypeOK, PsshTypeOK, TaskStates, ExecutingHasCopy, OneCall,
         ResultsAreOfAttempt
<1>3. ASSUME NEW h \in Hosts, OnHost(h) PROVE MultiNodeInv'
  <2>1. /\ PsshTypeOK' /\ ExecutingHasCopy'
        /\ task[h] \in {"connecting", "executing"}
        /\ task'[h] # "none"
        /\ \A g \in Hosts \ {h} : task'[g] = task[g]
    BY <1>3, HostStepEffect DEF OnHost, HostStep
  <2>2. UNCHANGED <<now, rpc, attempt, started, since, scp, ignore_errors, ran, failed, copied>>
    BY <1>3 DEF OnHost, hostVars
  <2>3. task'[h] # "ok"
    BY <1>3 DEF OnHost, HostConnected, HostUnreachable, HostAbandoned, PsshTypeOK
  <2>4. rpc # "returned"
    BY <2>1, NotOver
  <2>5. ResultsAreOfAttempt' /\ OneCall'
    BY <2>1, <2>2, <2>3, <2>4 DEF ResultsAreOfAttempt, EndedWell, OneCall
  <2> QED BY <2>1, <2>2, <2>5 DEF MultiNodeInv, TypeOK
<1>4. ASSUME NEW h \in Hosts, EndsOnHost(h) PROVE MultiNodeInv'
  <2>1. /\ PsshTypeOK' /\ ExecutingHasCopy'
        /\ task[h] \in {"connecting", "executing"}
        /\ task'[h] # "none"
        /\ \A g \in Hosts \ {h} : task'[g] = task[g]
    BY <1>4, HostStepEffect DEF EndsOnHost, HostStep
  <2>2. /\ UNCHANGED <<now, rpc, attempt, started, since, scp, ignore_errors, copied>>
        /\ rpc = "calling"
    BY <1>4 DEF EndsOnHost
  <2>3. ran' = [ran EXCEPT ![h] = attempt] /\ attempt \in 0..Len(Delays)
    BY <1>4 DEF EndsOnHost
  <2>4. failed' \in {failed \ {h}, failed \cup {h}}
    BY <1>4 DEF EndsOnHost
  <2>5. ~ignore_errors /\ task'[h] = "ok" => h \notin failed'
    BY <1>4 DEF EndsOnHost
  <2>6. ran' \in [Hosts -> 0..Len(Delays)] /\ failed' \subseteq Hosts
    BY <2>3, <2>4 DEF TypeOK
  <2>7. ran'[h] = attempt /\ \A g \in Hosts \ {h} : ran'[g] = ran[g]
    BY <2>3 DEF TypeOK
  <2>8. \A g \in Hosts \ {h} : g \in failed' <=> g \in failed
    BY <2>4
  <2>9. \A g \in Hosts : task'[g] # "none" /\ (task'[g] = "ok" => EndedWell(g)')
    <3> SUFFICES ASSUME NEW g \in Hosts
                 PROVE  task'[g] # "none" /\ (task'[g] = "ok" => EndedWell(g)')
      OBVIOUS
    <3>1. CASE g = h
      BY <3>1, <2>1, <2>2, <2>5, <2>7 DEF EndedWell
    <3>2. CASE g # h
      BY <3>2, <2>1, <2>2, <2>7, <2>8 DEF EndedWell, ResultsAreOfAttempt
    <3> QED BY <3>1, <3>2
  <2>10. ResultsAreOfAttempt' /\ OneCall'
    BY <2>2, <2>9 DEF ResultsAreOfAttempt, OneCall
  <2> QED BY <2>1, <2>2, <2>6, <2>10 DEF MultiNodeInv, TypeOK
<1>5. ASSUME NEW h \in Hosts, CopiedToHost(h) PROVE MultiNodeInv'
  <2>1. /\ PsshTypeOK' /\ ExecutingHasCopy'
    BY <1>5, HostStepEffect DEF CopiedToHost, HostStep
  <2>2. /\ UNCHANGED <<now, rpc, attempt, started, since, scp, ignore_errors, ran, failed>>
        /\ scp = "calling"
    BY <1>5 DEF CopiedToHost
  <2>3. copied' \in [Hosts -> BOOLEAN]
    BY <1>5 DEF CopiedToHost, TypeOK
  <2>4. rpc = "idle"
    BY <2>2 DEF OneCall
  <2>5. ResultsAreOfAttempt' /\ OneCall'
    BY <2>2, <2>4 DEF ResultsAreOfAttempt, OneCall
  <2> QED BY <2>1, <2>2, <2>3, <2>5 DEF MultiNodeInv, TypeOK
<1>6. ASSUME NEW h \in Hosts, Orphan(h) PROVE MultiNodeInv'
  <2>1. /\ copies[h] >= 1 /\ (task[h] = "executing" => copies[h] >= 2)
        /\ copies' = [copies EXCEPT ![h] = @ - 1]
        /\ UNCHANGED <<now, rpc, attempt, started, since, scp, ignore_errors, task, ran, failed, copied>>
    BY <1>6 DEF Orphan, OrphanEnds, hostVars, PsshTypeOK
  <2>2. copies' \in [Hosts -> Nat] /\ ExecutingHasCopy'
    BY <2>1 DEF PsshTypeOK, ExecutingHasCopy
  <2> QED BY <2>1, <2>2 DEF MultiNodeInv, TypeOK, PsshTypeOK, OneCall, ResultsAreOfAttempt, EndedWell
<1>7. CASE RunDone
  <2>1. /\ rpc = "calling" /\ UNCHANGED <<now, attempt, started, scp, ignore_errors, task, copies, ran, failed, copied>>
        /\ since' \in {since, now} /\ rpc' \in {"returned", "raised", "sleeping"}
    BY <1>7 DEF RunDone, hostVars, Retry!FailsListed, Retry!Returns
  <2>2. rpc' = "sleeping" => attempt < Len(Delays)
    BY <1>7 DEF RunDone, Retry!FailsListed, Retry!Returns, Retry!IsLast
  <2>3. rpc' = "returned" => Gathered /\ ~AnyException
    BY <1>7 DEF RunDone, Retry!FailsListed
  <2>4. rpc' = "returned" => \A h \in Hosts : task[h] = "ok"
    BY <2>1, <2>3 DEF Gathered, AnyException, PsshTypeOK, TaskStates, ResultsAreOfAttempt
  <2>5. ResultsAreOfAttempt' /\ OneCall' /\ ExecutingHasCopy'
    BY <2>1, <2>2, <2>4 DEF ResultsAreOfAttempt, EndedWell, OneCall, ExecutingHasCopy
  <2>6. TypeOK'
    BY <2>1 DEF TypeOK, PsshTypeOK
  <2> QED BY <2>5, <2>6 DEF MultiNodeInv
<1>8. CASE ScpDone
  BY <1>8 DEF ScpDone, MultiNodeInv, TypeOK, PsshTypeOK, ExecutingHasCopy, OneCall, ResultsAreOfAttempt, EndedWell, hostVars
<1>9. CASE Tick
  BY <1>9 DEF Tick, MultiNodeInv, TypeOK, PsshTypeOK, ExecutingHasCopy, OneCall, ResultsAreOfAttempt, EndedWell, hostVars
<1>10. CASE UNCHANGED vars
  BY <1>10 DEF vars, MultiNodeInv, TypeOK, PsshTypeOK, ExecutingHasCopy, OneCall, ResultsAreOfAttempt, EndedWell, hostVars
<1> QED BY <1>1, <1>2, <1>3, <1>4, <1>5, <1>6, <1>7, <1>8, <1>9, <1>10 DEF Next, Over

(***************************************************************************)
(* The theorems                                                            *)
(***************************************************************************)
\* The loop stays within its delays, and no host is left with a negative number
\* of processes.
THEOREM MultiNodeTyped == Spec => []TypeOK
<1>1. MultiNodeInv => TypeOK
  BY DEF MultiNodeInv
<1> QED BY <1>1, MultiNodeInit, MultiNodeStep, PTL DEF Spec

\* run_on_all_nodes returns only when the command has come to its end on every
\* node in the last attempt, whatever earlier attempts did, and ended without an
\* error on each of them unless the caller has errors ignored.
THEOREM MultiNodeRanEverywhere == Spec => []RanEverywhere
<1>1. MultiNodeInv => RanEverywhere
  BY DEF MultiNodeInv, TypeOK, ResultsAreOfAttempt, EndedWell, RanEverywhere
<1> QED BY <1>1, MultiNodeInit, MultiNodeStep, PTL DEF Spec
=============================================================================
