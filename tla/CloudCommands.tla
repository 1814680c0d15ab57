---------------------------- MODULE CloudCommands ----------------------------
(***************************************************************************)
(* xb.py start and xb.py stop (xbench/cloud_commands.py): one loop over    *)
(* the environments of the cluster file, each of which checks the state of *)
(* the whole cluster, switches its own instances and sets that state.      *)
(***************************************************************************)
EXTENDS ClusterFile

StartStopEnv(s) == mem[s].envs[ix[s]]

\* mutant of InstancesOf: a member without storage is skipped
InstancesOfStoredOnly(s) ==
    {m \in MembersOf(mem[s], StartStopEnv(s)) :
        Storage[m] # "ephemeral" /\ mem[s].members[m].vol}

\* Instances with ephemeral storage are left running; a member whose storage
\* is None is not one of them.
InstancesOf(s) ==
    {m \in MembersOf(mem[s], StartStopEnv(s)) :
        ~(Storage[m] = "ephemeral" /\ mem[s].members[m].vol)}

\* Bound on the model: no start is begun beyond MaxBoots restarts.
BootsLeft(s) ==
    \A m \in Members : IsEc2(file[ClusterOf[s]], m) =>
        boots[<<ClusterOf[s], m, file[ClusterOf[s]].members[m].id>>] < MaxBoots

StartStopDone(s) ==
    /\ pc[s] \in {"start_env", "stop_env"}
    /\ ix[s] > Len(mem[s].envs)
    /\ Exit(s)
    /\ UNCHANGED <<cloudVars, fileVars>>

(***************************************************************************)
(* start                                                                   *)
(***************************************************************************)
Start(s) ==
    /\ pc[s] = "idle"
    /\ CanLoad(s)
    /\ BootsLeft(s)
    /\ mem' = [mem EXCEPT ![s] = file[ClusterOf[s]]]
    /\ Goto(s, "start_env")
    /\ UNCHANGED <<cloudVars, fileVars, loopVars>>

StartEnv(s) ==
    /\ pc[s] = "start_env"
    /\ ix[s] \in 1..Len(mem[s].envs)
    /\ IF mem[s].state = "down"
       THEN /\ StartCalls(s, InstancesOf(s))
            /\ Goto(s, "start")
            /\ UNCHANGED <<cloudVars, fileVars, all, ix, nukeVars, mem>>
       ELSE Raise(s)

\* mutant of StartNode: the node is not described again
StartNodeKeepsIp(s, m) ==
    /\ pc[s] = "start"
    /\ m \in todo[s]
    /\ IsEc2(mem[s], m)
    /\ CanStart(Id(s, m))
    /\ StartInstance(Id(s, m))
    /\ CallDone(s, m, "ok")
    /\ UNCHANGED <<disk, shared, fileVars, pc, all, ix, nukeVars, mem>>

\* start_instance, one thread: the node is described again once it runs
StartNode(s, m) ==
    /\ pc[s] = "start"
    /\ m \in todo[s]
    /\ IsEc2(mem[s], m)
    /\ CanStart(Id(s, m))
    /\ StartInstance(Id(s, m))
    /\ mem' = [mem EXCEPT ![s].members[m].ip = boots'[Id(s, m)]]
    /\ CallDone(s, m, "ok")
    /\ UNCHANGED <<disk, shared, fileVars, pc, all, ix, nukeVars>>

\* The wait for a started instance fails, which wait_for_instance swallows: it
\* is still pending when it is described, and null is recorded as its address.
\* It comes up later, or falls back to stopped.
StartNodePending(s, m) ==
    /\ pc[s] = "start"
    /\ m \in todo[s]
    /\ MayFail
    /\ IsEc2(mem[s], m)
    /\ inst[Id(s, m)] = "stopped"
    /\ StartInstance(Id(s, m)) \/ UNCHANGED <<inst, boots>>
    /\ mem' = [mem EXCEPT ![s].members[m].ip = NoIp]
    /\ CallDone(s, m, "ok")
    /\ UNCHANGED <<disk, shared, fileVars, pc, all, ix, nukeVars>>

\* The call fails: the instance is gone, or the request is refused, or the
\* instance started and could not be described. For a self managed member
\* AwsEc2.start returns None, and Node(None) raises.
StartRaises(s, m) ==
    /\ pc[s] = "start"
    /\ m \in todo[s]
    /\ \/ /\ MayFail \/ ~(IsEc2(mem[s], m) /\ CanStart(Id(s, m)))
          /\ UNCHANGED <<inst, boots>>
       \/ /\ MayFail
          /\ IsEc2(mem[s], m)
          /\ CanStart(Id(s, m))
          /\ StartInstance(Id(s, m))
    /\ CallDone(s, m, "raise")
    /\ UNCHANGED <<disk, shared, fileVars, pc, all, ix, nukeVars, mem>>

\* mutant of StartSave: the file keeps saying down
StartSaveStillDown(s) ==
    /\ pc[s] = "start"
    /\ todo[s] = {}
    /\ IF bad[s] = "raise"
       THEN Raise(s)
       ELSE /\ SaveCluster(s, mem[s])
            /\ Goto(s, "start_backends")
            /\ UNCHANGED <<cloudVars, loopVars, mem>>

StartSave(s) ==
    LET obj == [mem[s] EXCEPT !.state = "ready"]
    IN  /\ pc[s] = "start"
        /\ todo[s] = {}
        /\ IF bad[s] = "raise"
           THEN Raise(s)
           ELSE /\ SaveCluster(s, obj)
                /\ mem' = [mem EXCEPT ![s] = obj]
                /\ Goto(s, "start_backends")
                /\ UNCHANGED <<cloudVars, loopVars>>

\* The backends of the whole cluster are started, whatever their environment
StartBackends(s) ==
    /\ pc[s] = "start_backends"
    /\ IF BackendsAnswer(ClusterOf[s], mem[s])
       THEN /\ NextEnv(s)
            /\ Goto(s, "start_env")
            /\ UNCHANGED <<cloudVars, fileVars, all, todo, bad, nukeVars, mem>>
       ELSE Raise(s)

(***************************************************************************)
(* stop                                                                    *)
(***************************************************************************)
Stop(s) ==
    /\ pc[s] = "idle"
    /\ CanLoad(s)
    /\ mem' = [mem EXCEPT ![s] = file[ClusterOf[s]]]
    /\ Goto(s, "stop_env")
    /\ UNCHANGED <<cloudVars, fileVars, loopVars>>

\* mutant of StopEnv: the state of the cluster is not checked
StopEnvUnchecked(s) ==
    /\ pc[s] = "stop_env"
    /\ ix[s] \in 1..Len(mem[s].envs)
    /\ Goto(s, "stop_save")
    /\ UNCHANGED <<cloudVars, fileVars, loopVars, mem>>

\* The backends of the whole cluster are stopped first
StopEnv(s) ==
    /\ pc[s] = "stop_env"
    /\ ix[s] \in 1..Len(mem[s].envs)
    /\ CASE mem[s].state # "ready" -> Raise(s)
         [] mem[s].state = "ready" /\ InstancesOf(s) = {} ->
              /\ NextEnv(s)
              /\ UNCHANGED <<cloudVars, fileVars, pc, all, todo, bad, nukeVars, mem>>
         [] mem[s].state = "ready" /\ InstancesOf(s) # {} ->
              IF BackendsAnswer(ClusterOf[s], mem[s])
              THEN /\ Goto(s, "stop_save")
                   /\ UNCHANGED <<cloudVars, fileVars, loopVars, mem>>
              ELSE Raise(s)

\* The file says down before the first instance is stopped
StopSave(s) ==
    LET obj == [mem[s] EXCEPT !.state = "down"]
    IN  /\ pc[s] = "stop_save"
        /\ SaveCluster(s, obj)
        /\ mem' = [mem EXCEPT ![s] = obj]
        /\ StartCalls(s, InstancesOf(s))
        /\ Goto(s, "stop")
        /\ UNCHANGED <<cloudVars, all, ix, nukeVars>>

\* stop_instance, one thread; a self managed member is only warned about
StopNode(s, m) ==
    /\ pc[s] = "stop"
    /\ m \in todo[s]
    /\ IF IsEc2(mem[s], m)
       THEN CanStop(Id(s, m)) /\ StopInstance(Id(s, m))
       ELSE UNCHANGED inst
    /\ CallDone(s, m, "ok")
    /\ UNCHANGED <<boots, disk, shared, fileVars, pc, all, ix, nukeVars, mem>>

StopRaises(s, m) ==
    /\ pc[s] = "stop"
    /\ m \in todo[s]
    /\ IsEc2(mem[s], m)
    /\ MayFail \/ ~CanStop(Id(s, m))
    /\ CallDone(s, m, "raise")
    /\ UNCHANGED <<cloudVars, fileVars, pc, all, ix, nukeVars, mem>>

StopCollect(s) ==
    /\ pc[s] = "stop"
    /\ todo[s] = {}
    /\ IF bad[s] = "raise"
       THEN Raise(s)
       ELSE /\ NextEnv(s)
            /\ Goto(s, "stop_env")
            /\ UNCHANGED <<cloudVars, fileVars, all, todo, bad, nukeVars, mem>>

\* A cli that cannot be created or a backend that does not start or stop
CloudCommandsRaises(s) ==
    /\ MayFail
    /\ pc[s] \in {"start_env", "start_backends", "stop_env"}
    /\ Raise(s)

CloudCommandsStep(s) ==
    \/ StartStopDone(s)
    \/ StartEnv(s) \/ StartSave(s) \/ StartBackends(s)
    \/ \E m \in Members : StartNode(s, m) \/ StartNodePending(s, m) \/ StartRaises(s, m)
    \/ StopEnv(s) \/ StopSave(s) \/ StopCollect(s)
    \/ \E m \in Members : StopNode(s, m) \/ StopRaises(s, m)
    \/ CloudCommandsRaises(s)
=============================================================================
