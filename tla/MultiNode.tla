------------------------------ MODULE MultiNode ------------------------------
(***************************************************************************)
(* A command or a file for all nodes of a component (compute/multi_node.py)*)
(* run_on_all_nodes is retried as a whole; scp_to_all_nodes is not retried.*)
(***************************************************************************)
EXTENDS PsshClient, Sequences

CONSTANTS
    Delays, MaxDelay,   \* of the decorator of run_on_all_nodes
    Timeout,            \* timeout of the command
    Methods             \* what is called

\* iter_islast needs a first delay
ASSUME MultiNodeAssumption ==
    /\ Delays \in Seq(Nat) /\ Delays # <<>> /\ MaxDelay \in Nat
    /\ Timeout \in Nat
    /\ Methods \subseteq {"run_on_all_nodes", "scp_to_all_nodes"}

VARIABLES
    now, rpc, attempt, started, since,   \* the decorator's loop
    scp,       \* scp_to_all_nodes: "none", "calling" or "returned"
    ignore_errors,   \* of the call of run_on_all_nodes
    ran,       \* [Hosts -> Nat]: the attempt in which the command last ended there
    failed,    \* the hosts where it ended with an exit status > 0
    copied     \* [Hosts -> BOOLEAN]: the file has arrived

Retry == INSTANCE RetryDecorator
retryVars == <<rpc, attempt, started, since>>
hostVars == <<ran, failed, copied>>
vars == <<now, retryVars, scp, ignore_errors, psshVars, hostVars>>

TypeOK ==
    /\ PsshTypeOK
    /\ Retry!RetryTypeOK
    /\ scp \in {"none", "calling", "returned"}
    /\ ignore_errors \in BOOLEAN
    /\ ran \in [Hosts -> 0..Len(Delays)]
    /\ failed \subseteq Hosts
    /\ copied \in [Hosts -> BOOLEAN]

Init ==
    /\ PsshInit
    /\ now = 0
    /\ Retry!RetryInit
    /\ scp = "none"
    /\ ignore_errors = FALSE
    /\ ran = [h \in Hosts |-> 0]
    /\ failed = {}
    /\ copied = [h \in Hosts |-> FALSE]

Ready == rpc = "idle" /\ scp = "none"

RunOnAllNodes ==
    /\ Ready
    /\ "run_on_all_nodes" \in Methods
    /\ Retry!EnterRetry
    /\ ignore_errors' \in BOOLEAN
    /\ Gather
    /\ UNCHANGED <<now, scp, copies, hostVars>>

ScpToAllNodes ==
    /\ Ready
    /\ "scp_to_all_nodes" \in Methods
    /\ scp' = "calling"
    /\ Gather
    /\ UNCHANGED <<now, retryVars, ignore_errors, copies, hostVars>>

\* A host gets on with its task, or gives it up
OnHost(h) ==
    /\ HostConnected(h) \/ HostUnreachable(h) \/ HostAbandoned(h)
    /\ UNCHANGED <<now, retryVars, scp, ignore_errors, hostVars>>

\* The command ends on a host
EndsOnHost(h) ==
    /\ rpc = "calling"
    /\ \/ /\ ~ignore_errors
          /\ HostEnds(h)
          /\ failed' = IF task'[h] = "ok" THEN failed \ {h} ELSE failed \cup {h}
       \/ /\ ignore_errors
          /\ HostEndsWarned(h)
          /\ failed' \in {failed \ {h}, failed \cup {h}}
    /\ ran' = [ran EXCEPT ![h] = attempt]
    /\ UNCHANGED <<now, retryVars, scp, ignore_errors, copied>>

\* scp ends on a host: the file is there unless it failed
CopiedToHost(h) ==
    /\ scp = "calling"
    /\ HostEnds(h)
    /\ copied' = [copied EXCEPT ![h] = @ \/ task'[h] = "ok"]
    /\ UNCHANGED <<now, retryVars, scp, ignore_errors, ran, failed>>

\* pssh.run has all its results
RunDone ==
    /\ rpc = "calling"
    /\ Gathered
    /\ IF AnyException THEN Retry!FailsListed ELSE Retry!Returns
    /\ UNCHANGED <<now, scp, ignore_errors, psshVars, hostVars>>

\* mutant of RunAgain: only hosts that failed get another task
RunAgainFailed ==
    /\ Retry!Wakes
    /\ task' = [h \in Hosts |-> IF task[h] = "ok" THEN "ok" ELSE "connecting"]
    /\ UNCHANGED <<now, scp, ignore_errors, copies, hostVars>>

\* All hosts once more, those where the command succeeded included
RunAgain ==
    /\ Retry!Wakes
    /\ Gather
    /\ UNCHANGED <<now, scp, ignore_errors, copies, hostVars>>

\* pssh.send_files does not look at the results of the tasks
ScpDone ==
    /\ scp = "calling"
    /\ Gathered
    /\ scp' = "returned"
    /\ UNCHANGED <<now, retryVars, ignore_errors, psshVars, hostVars>>

Tick ==
    /\ \/ rpc = "calling" /\ ~Gathered /\ now < since + Timeout
       \/ rpc = "sleeping" /\ now < since + Delays[attempt]
    /\ now' = now + 1
    /\ UNCHANGED <<retryVars, scp, ignore_errors, psshVars, hostVars>>

Orphan(h) == OrphanEnds(h) /\ UNCHANGED <<now, retryVars, scp, ignore_errors, hostVars>>

Over == (rpc \in {"returned", "raised"} \/ scp = "returned") /\ UNCHANGED vars

Next ==
    \/ RunOnAllNodes \/ ScpToAllNodes
    \/ \E h \in Hosts : OnHost(h) \/ EndsOnHost(h) \/ CopiedToHost(h) \/ Orphan(h)
    \/ RunDone \/ RunAgain \/ ScpDone \/ Tick
    \/ Over

Spec == Init /\ [][Next]_vars

(***************************************************************************)
(* Properties                                                              *)
(***************************************************************************)
\* run_on_all_nodes returns only when the command came to its end on every node
\* in one and the same attempt, and succeeded on each of them unless errors are
\* ignored: one node that fails, cannot be reached or takes too long makes all of
\* them run again, and no result of an earlier attempt is taken for one of the
\* last. With ignore_errors (xpand.py:270) a node where the command failed
\* counts as one where it succeeded; lost connections are repeated all the same.
RanEverywhere ==
    rpc = "returned" =>
        /\ \A h \in Hosts : ran[h] = attempt
        /\ ~ignore_errors => failed = {}
=============================================================================
