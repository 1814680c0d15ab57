--------------------------- MODULE RemoteExecution ---------------------------
(***************************************************************************)
(* One command on one node: Node.run and Node._unsafe_run (compute/node.py)*)
(* over SshClient.run (compute/ssh_client.py). Both run methods carry the  *)
(* retry decorator, one around the other: SshClient.run repeats what is    *)
(* wrong with the connection, Node.run what is wrong with the command.     *)
(* Node._unsafe_run has only the inner one.                                *)
(***************************************************************************)
EXTENDS Integers, Sequences

CONSTANTS
    NodeDelays, NodeMaxDelay,   \* of the decorator of Node.run
    SshDelays, SshMaxDelay,     \* of the decorator of SshClient.run
    ConnectTimeout,             \* CONNECT_TIMEOUT
    Timeout,                    \* timeout of the command
    Apis                        \* methods called: {"run", "_unsafe_run"}

\* Both lists of delays have a first one, as iter_islast needs it
ASSUME RemoteAssumption ==
    /\ NodeDelays \in Seq(Nat) /\ NodeDelays # <<>> /\ NodeMaxDelay \in Nat
    /\ SshDelays \in Seq(Nat) /\ SshDelays # <<>> /\ SshMaxDelay \in Nat
    /\ ConnectTimeout \in Nat
    /\ Timeout \in Nat
    /\ Apis \subseteq {"run", "_unsafe_run"}

VARIABLES
    now,
    opc, oattempt, ostarted, osince,   \* the loop of Node.run
    ipc, iattempt, istarted, isince,   \* the loop of SshClient.run
    api, ignore_errors,                \* the call
    conn,      \* "none", "connecting" or "executing"
    opened,    \* when the command was sent
    procs,     \* copies of the command at work on the node
    runs,      \* how often it was sent to the node
    lost,      \* how often the connection was lost under it
    last       \* how the last one ended

outerVars == <<opc, oattempt, ostarted, osince>>
innerVars == <<ipc, iattempt, istarted, isince>>
callVars == <<api, ignore_errors>>
nodeVars == <<procs, runs, lost, last>>
vars == <<now, outerVars, innerVars, callVars, conn, opened, nodeVars>>

Outer == INSTANCE RetryDecorator
         WITH Delays <- NodeDelays, MaxDelay <- NodeMaxDelay,
              rpc <- opc, attempt <- oattempt, started <- ostarted, since <- osince

Inner == INSTANCE RetryDecorator
         WITH Delays <- SshDelays, MaxDelay <- SshMaxDelay,
              rpc <- ipc, attempt <- iattempt, started <- istarted, since <- isince

Ends == {"none", "running", "ok", "failed", "timed_out", "lost"}

TypeOK ==
    /\ Outer!RetryTypeOK
    /\ Inner!RetryTypeOK
    /\ api \in {"none"} \cup Apis
    /\ ignore_errors \in BOOLEAN
    /\ conn \in {"none", "connecting", "executing"}
    /\ opened \in Nat
    /\ procs \in 0..runs
    /\ lost \in 0..runs
    /\ runs \in 0..(Len(NodeDelays) * Len(SshDelays))
    /\ last \in Ends

Init ==
    /\ now = 0
    /\ Outer!RetryInit
    /\ Inner!RetryInit
    /\ api = "none"
    /\ ignore_errors = FALSE
    /\ conn = "none"
    /\ opened = 0
    /\ procs = 0 /\ runs = 0 /\ lost = 0
    /\ last = "none"

(***************************************************************************)
(* The calls                                                               *)
(***************************************************************************)
Call(m, ignore) ==
    /\ api = "none"
    /\ api' = m
    /\ ignore_errors' = ignore
    /\ IF m = "run" THEN Outer!EnterRetry ELSE UNCHANGED outerVars
    /\ Inner!EnterRetry
    /\ conn' = "connecting"
    /\ UNCHANGED <<now, opened, nodeVars>>

(***************************************************************************)
(* SshClient._run_client and _unsafe_run, and what the decorator of        *)
(* SshClient.run makes of their exceptions                                 *)
(***************************************************************************)
Connected ==
    /\ conn = "connecting"
    /\ conn' = "executing"
    /\ opened' = now
    /\ procs' = procs + 1
    /\ runs' = runs + 1
    /\ last' = "running"
    /\ UNCHANGED <<now, outerVars, innerVars, callVars, lost>>

\* ConnectionError, asyncssh.Error, or a timeout turned into ConnectionError
ConnectFails ==
    /\ conn = "connecting"
    /\ conn' = "none"
    /\ Inner!FailsListed
    /\ UNCHANGED <<now, outerVars, callVars, opened, nodeVars>>

\* Another OSError, such as no route to the host
HostUnreachable ==
    /\ conn = "connecting"
    /\ conn' = "none"
    /\ IF ignore_errors THEN Inner!Returns ELSE Inner!FailsOther
    /\ UNCHANGED <<now, outerVars, callVars, opened, nodeVars>>

CommandSucceeds ==
    /\ conn = "executing"
    /\ conn' = "none"
    /\ procs' = procs - 1
    /\ last' = "ok"
    /\ Inner!Returns
    /\ UNCHANGED <<now, outerVars, callVars, opened, runs, lost>>

\* mutant of CommandFails: the exit status is not looked at
CommandFailsUnseen ==
    /\ conn = "executing"
    /\ conn' = "none"
    /\ procs' = procs - 1
    /\ last' = "failed"
    /\ Inner!Returns
    /\ UNCHANGED <<now, outerVars, callVars, opened, runs, lost>>

\* mutant of CommandFails: repeated as if the connection were at fault
CommandFailsRepeated ==
    /\ conn = "executing"
    /\ conn' = "none"
    /\ procs' = procs - 1
    /\ last' = "failed"
    /\ IF ignore_errors THEN Inner!Returns ELSE Inner!FailsListed
    /\ UNCHANGED <<now, outerVars, callVars, opened, runs, lost>>

\* exit status > 0: SshClientException, which the inner loop does not repeat
CommandFails ==
    /\ conn = "executing"
    /\ conn' = "none"
    /\ procs' = procs - 1
    /\ last' = "failed"
    /\ IF ignore_errors THEN Inner!Returns ELSE Inner!FailsOther
    /\ UNCHANGED <<now, outerVars, callVars, opened, runs, lost>>

\* SshClientTimeoutException; without a PTY the process is left running
CommandTimesOut ==
    /\ conn = "executing"
    /\ now = opened + Timeout
    /\ conn' = "none"
    /\ last' = "timed_out"
    /\ Inner!FailsOther
    /\ UNCHANGED <<now, outerVars, callVars, opened, procs, runs, lost>>

\* asyncssh.Error while the command runs; on the node it may go on
ConnectionLost ==
    /\ conn = "executing"
    /\ conn' = "none"
    /\ procs' \in {procs - 1, procs}
    /\ lost' = lost + 1
    /\ last' = "lost"
    /\ Inner!FailsListed
    /\ UNCHANGED <<now, outerVars, callVars, opened, runs>>

Reconnect ==
    /\ Inner!Wakes
    /\ conn' = "connecting"
    /\ UNCHANGED <<now, outerVars, callVars, opened, nodeVars>>

(***************************************************************************)
(* Node.run, when SshClient.run is over                                    *)
(***************************************************************************)
NodeRunReturns ==
    /\ api = "run"
    /\ ipc = "returned"
    /\ Outer!Returns
    /\ UNCHANGED <<now, innerVars, callVars, conn, opened, nodeVars>>

NodeRunFails ==
    /\ api = "run"
    /\ ipc = "raised"
    /\ Outer!FailsListed
    /\ UNCHANGED <<now, innerVars, callVars, conn, opened, nodeVars>>

NodeRunAgain ==
    /\ Outer!Wakes
    /\ Inner!EnterRetry
    /\ conn' = "connecting"
    /\ UNCHANGED <<now, callVars, opened, nodeVars>>

(***************************************************************************)
(* Time passes within a timeout or a sleep; a process nobody waits for ends*)
(***************************************************************************)
Tick ==
    /\ \/ conn = "connecting" /\ now < isince + ConnectTimeout
       \/ conn = "executing" /\ now < opened + Timeout
       \/ ipc = "sleeping" /\ now < isince + SshDelays[iattempt]
       \/ opc = "sleeping" /\ now < osince + NodeDelays[oattempt]
    /\ now' = now + 1
    /\ UNCHANGED <<outerVars, innerVars, callVars, conn, opened, nodeVars>>

OrphanEnds ==
    /\ procs > (IF conn = "executing" THEN 1 ELSE 0)
    /\ procs' = procs - 1
    /\ UNCHANGED <<now, outerVars, innerVars, callVars, conn, opened, runs, lost, last>>

Result == IF api = "run" THEN opc ELSE ipc
Over == Result \in {"returned", "raised"}

Next ==
    \/ \E m \in Apis, ignore \in BOOLEAN : Call(m, ignore)
    \/ Connected \/ ConnectFails \/ HostUnreachable
    \/ CommandSucceeds \/ CommandFails \/ CommandTimesOut \/ ConnectionLost
    \/ Reconnect \/ NodeRunReturns \/ NodeRunFails \/ NodeRunAgain
    \/ Tick \/ OrphanEnds
    \/ Over /\ UNCHANGED vars

Spec == Init /\ [][Next]_vars

(***************************************************************************)
(* Properties                                                              *)
(***************************************************************************)
\* A call that returns returns the outcome of the last copy of the command it
\* sent, and that one succeeded, unless errors are ignored: output of an
\* earlier, failed or timed out copy is never taken for it.
ReturnsLastRun == Result = "returned" /\ ~ignore_errors => last = "ok"

\* "exit code > 0; We don't want to retry in this module" (ssh_client.py:178):
\* SshClient.run repeats a command only when the connection was lost under it,
\* so each attempt of Node.run adds at most one copy to those lost.
RepeatsOnlyLost == runs <= lost + (IF api = "run" THEN oattempt ELSE 1)

\* The two loops together keep the caller of Node.run for a bounded time: the
\* outer limit and delay, and one whole inner loop.
InnerLimit(i) == SshMaxDelay + SshDelays[i] + ConnectTimeout + Timeout
NodeRunEndsInTime ==
    api = "run" =>
        \E i \in 1..Len(SshDelays), o \in 1..Len(NodeDelays) :
            now - ostarted <= NodeMaxDelay + NodeDelays[o] + InnerLimit(i)
=============================================================================
