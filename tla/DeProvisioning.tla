--------------------------- MODULE DeProvisioning ---------------------------
(***************************************************************************)
(* xb.py deprovision (bin/xb.py, xbench/deprovisioning.py): clean tears    *)
(* down what the cluster file lists; with --force, --cloud and --region    *)
(* nuke tears down what carries the cluster's tag in that region, without  *)
(* reading the file.                                                       *)
(***************************************************************************)
EXTENDS ClusterFile

(***************************************************************************)
(* clean                                                                   *)
(***************************************************************************)
\* The constructor loads the file
Deprovision(s) ==
    /\ pc[s] = "idle"
    /\ CanLoad(s)
    /\ mem' = [mem EXCEPT ![s] = file[ClusterOf[s]]]
    /\ Goto(s, "clean")
    /\ UNCHANGED <<cloudVars, fileVars, loopVars>>

\* save_cluster, with a copy for the archive
CleanSave(s) ==
    /\ pc[s] = "clean"
    /\ SaveCluster(s, mem[s])
    /\ Goto(s, "clean_env")
    /\ UNCHANGED <<cloudVars, loopVars, mem>>

ThisEnv(s) == mem[s].envs[ix[s]]

\* Nodes of this environment that were provisioned
NodesToTerminate(s) == MembersOf(mem[s], ThisEnv(s)) \ SelfManaged

CleanEnv(s) ==
    /\ pc[s] = "clean_env"
    /\ ix[s] \in 1..Len(mem[s].envs)
    /\ StartCalls(s, NodesToTerminate(s))
    /\ Goto(s, "terminate")
    /\ UNCHANGED <<cloudVars, fileVars, all, ix, nukeVars, mem>>

\* terminate_instance, one thread. run_parallel calls it with the node alone,
\* so terminate_storage is False and the volume is not destroyed.
TerminateNode(s, m) ==
    /\ pc[s] = "terminate"
    /\ m \in todo[s]
    /\ TerminateInstance(Id(s, m))
    /\ CallDone(s, m, "ok")
    /\ UNCHANGED <<boots, shared, fileVars, pc, all, ix, nukeVars, mem>>

\* The call fails before the instance is terminated or, when its storage is
\* looked up, after.
TerminateRaises(s, m) ==
    /\ pc[s] = "terminate"
    /\ m \in todo[s]
    /\ MayFail
    /\ \/ UNCHANGED <<inst, disk>>
       \/ Storage[m] = "ephemeral" /\ TerminateInstance(Id(s, m))
    /\ CallDone(s, m, "raise")
    /\ UNCHANGED <<boots, shared, fileVars, pc, all, ix, nukeVars, mem>>

\* mutant of CleanStorage: the exception of a thread is not raised again
CleanStorageSwallows(s) ==
    /\ pc[s] = "terminate"
    /\ todo[s] = {}
    /\ shared' = [shared EXCEPT ![ClusterOf[s]] = @ \ mem[s].shared]
    /\ NextEnv(s)
    /\ Goto(s, "clean_env")
    /\ UNCHANGED <<inst, boots, disk, fileVars, all, todo, bad, nukeVars, mem>>

\* terminate_storage_instances hands every shared store of the file to the
\* cloud of this environment: StorageFactory raises for one of another cloud,
\* and a store that cannot be destroyed ends the command too.
CleanStorage(s) ==
    /\ pc[s] = "terminate"
    /\ todo[s] = {}
    /\ IF bad[s] = "raise" \/ \E e \in mem[s].shared : CloudOf[e] # CloudOf[ThisEnv(s)]
       THEN Raise(s)
       ELSE /\ shared' = [shared EXCEPT ![ClusterOf[s]] = @ \ mem[s].shared]
            /\ NextEnv(s)
            /\ Goto(s, "clean_env")
            /\ UNCHANGED <<inst, boots, disk, fileVars, all, todo, bad, nukeVars, mem>>

CleanStorageRaises(s) ==
    /\ pc[s] = "terminate"
    /\ todo[s] = {}
    /\ MayFail
    /\ \E gone \in SUBSET mem[s].shared :
          shared' = [shared EXCEPT ![ClusterOf[s]] = @ \ gone]
    /\ Exit(s)
    /\ UNCHANGED <<inst, boots, disk, fileVars>>

CleanRemove(s) ==
    /\ pc[s] = "clean_env"
    /\ ix[s] > Len(mem[s].envs)
    /\ RemoveClusterYaml(s)
    /\ Exit(s)
    /\ UNCHANGED cloudVars

(***************************************************************************)
(* nuke                                                                    *)
(***************************************************************************)
\* e stands for the cloud and the region given on the command line
Nuke(s, e) ==
    /\ pc[s] = "idle"
    /\ ix' = [ix EXCEPT ![s] = e]
    /\ Goto(s, "nuke")
    /\ UNCHANGED <<cloudVars, fileVars, all, todo, bad, nukeVars, mem>>

NukeDescribe(s) ==
    /\ pc[s] = "nuke"
    /\ ids' = [ids EXCEPT ![s] = DescribeInstancesByTag(ClusterOf[s], ix[s])]
    /\ vols' = [vols EXCEPT ![s] = DescribeVolumesByTag(ClusterOf[s], ix[s])]
    /\ Goto(s, "nuke_instances")
    /\ UNCHANGED <<cloudVars, fileVars, all, ix, todo, bad, mem>>

NukeInstance(s, i) ==
    /\ pc[s] = "nuke_instances"
    /\ i \in ids[s]
    /\ TerminateInstance(i)
    /\ ids' = [ids EXCEPT ![s] = @ \ {i}]
    /\ UNCHANGED <<boots, shared, fileVars, pc, all, ix, todo, bad, vols, mem>>

NukeWait(s) ==
    /\ pc[s] = "nuke_instances"
    /\ ids[s] = {}
    /\ Goto(s, "nuke_volumes")
    /\ UNCHANGED <<cloudVars, fileVars, loopVars, mem>>

NukeVolume(s, i) ==
    /\ pc[s] = "nuke_volumes"
    /\ i \in vols[s]
    /\ IF CanDeleteVolume(i)
       THEN /\ DeleteVolume(i)
            /\ vols' = [vols EXCEPT ![s] = @ \ {i}]
            /\ UNCHANGED <<inst, boots, shared, fileVars, pc, all, ix, todo, bad, ids, mem>>
       ELSE Raise(s)

NukeRemove(s) ==
    /\ pc[s] = "nuke_volumes"
    /\ vols[s] = {}
    /\ RemoveClusterYaml(s)
    /\ Exit(s)
    /\ UNCHANGED cloudVars

\* Deregistration from the metrics server or a call to the cloud fails. Each
\* command line call is made once, one after the other: the first that fails
\* ends the command.
DeProvisioningRaises(s) ==
    /\ MayFail
    /\ pc[s] \in {"clean_env", "nuke", "nuke_instances", "nuke_volumes"}
    /\ Raise(s)

DeProvisioningStep(s) ==
    \/ CleanSave(s) \/ CleanEnv(s)
    \/ CleanStorage(s) \/ CleanStorageRaises(s) \/ CleanRemove(s)
    \/ \E m \in Members : TerminateNode(s, m) \/ TerminateRaises(s, m)
    \/ NukeDescribe(s) \/ NukeWait(s) \/ NukeRemove(s)
    \/ \E i \in Ids : NukeInstance(s, i) \/ NukeVolume(s, i)
    \/ DeProvisioningRaises(s)
=============================================================================
