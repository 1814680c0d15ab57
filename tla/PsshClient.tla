------------------------------ MODULE PsshClient ------------------------------
(***************************************************************************)
(* The parallel ssh client (compute/pssh_client.py): one task for each     *)
(* host, gathered with return_exceptions, so that every task ends before   *)
(* the results are looked at.                                              *)
(***************************************************************************)
EXTENDS Integers, FiniteSets

CONSTANTS Hosts       \* hostnames

VARIABLES
    task,      \* [Hosts -> TaskStates]: the gathered tasks
    copies     \* [Hosts -> Nat]: copies of the command at work on a host

psshVars == <<task, copies>>

TaskStates == {"none", "connecting", "executing", "ok", "failed", "timed_out"}

PsshTypeOK ==
    /\ task \in [Hosts -> TaskStates]
    /\ copies \in [Hosts -> Nat]

PsshInit ==
    /\ task = [h \in Hosts |-> "none"]
    /\ copies = [h \in Hosts |-> 0]

\* _run_clients, _send_file_scp: a task for every host of the client
GatherOn(hosts) ==
    task' = [h \in Hosts |-> IF h \in hosts THEN "connecting" ELSE "none"]
Gather == GatherOn(Hosts)

Gathered == \A h \in Hosts : task[h] \notin {"connecting", "executing"}

HostConnected(h) ==
    /\ task[h] = "connecting"
    /\ task' = [task EXCEPT ![h] = "executing"]
    /\ copies' = [copies EXCEPT ![h] = @ + 1]

\* No connection, or the connection timed out
HostUnreachable(h) ==
    /\ task[h] = "connecting"
    /\ \E result \in {"failed", "timed_out"} : task' = [task EXCEPT ![h] = result]
    /\ UNCHANGED copies

\* The command ends: exit status 0, or > 0 and an SshClientException, as long as
\* errors are not ignored
HostEnds(h) ==
    /\ task[h] = "executing"
    /\ \E result \in {"ok", "failed"} : task' = [task EXCEPT ![h] = result]
    /\ copies' = [copies EXCEPT ![h] = @ - 1]

\* With ignore_errors an exit status > 0 is only warned about
HostEndsWarned(h) ==
    /\ task[h] = "executing"
    /\ task' = [task EXCEPT ![h] = "ok"]
    /\ copies' = [copies EXCEPT ![h] = @ - 1]

\* It times out, or the connection is lost: the process is left running
HostAbandoned(h) ==
    /\ task[h] = "executing"
    /\ \E result \in {"failed", "timed_out"} : task' = [task EXCEPT ![h] = result]
    /\ UNCHANGED copies

HostStep(h) ==
    HostConnected(h) \/ HostUnreachable(h) \/ HostEnds(h) \/ HostAbandoned(h)

\* run raises PsshClientException when one of the results is an exception
AnyException == \E h \in Hosts : task[h] \in {"failed", "timed_out"}

\* A process that nobody waits for ends
OrphanEnds(h) ==
    /\ copies[h] > (IF task[h] = "executing" THEN 1 ELSE 0)
    /\ copies' = [copies EXCEPT ![h] = @ - 1]
    /\ UNCHANGED task
=============================================================================
