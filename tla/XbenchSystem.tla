---------------------------- MODULE XbenchSystem ----------------------------
(***************************************************************************)
(* The commands of xb.py that own cloud resources, composed: any number of *)
(* sessions provision, deprovision, start and stop clusters over one cloud *)
(* account and one directory of cluster files. This is the file's promise: *)
(* what runs in the cloud and costs money can be found from it again.      *)
(***************************************************************************)
EXTENDS Provisioning, DeProvisioning, CloudCommands

CONSTANT Commands   \* the commands users issue

ASSUME CommandsAssumption ==
    Commands \subseteq Steps \cup {"force", "deprovision", "nuke", "start", "stop"}

vars == <<cloudVars, fileVars, loopVars, pc, mem>>

TypeOK == CloudTypeOK /\ FileTypeOK

Init == CloudInit /\ FileInit

\* A user enters a command
Begin(s) ==
    \/ \E step \in Steps \cap Commands, force \in {FALSE} \cup {"force" \in Commands} :
          Provision(s, step, force)
    \/ "deprovision" \in Commands /\ Deprovision(s)
    \/ "nuke" \in Commands /\ \E e \in Envs : Nuke(s, e)
    \/ "start" \in Commands /\ Start(s)
    \/ "stop" \in Commands /\ Stop(s)

Step(s) == ProvisioningStep(s) \/ DeProvisioningStep(s) \/ CloudCommandsStep(s)

Next == \E s \in Sessions : Begin(s) \/ Step(s) \/ Crash(s)

\* A command that was entered runs: each call modelled here has a timeout (the
\* request for a build of Xpand, xpand.py:517, has none, and is not modelled).
\* Users need not enter commands, and nothing makes them crash one.
Fairness == \A s \in Sessions : WF_vars(Step(s))

Spec == Init /\ [][Next]_vars /\ Fairness

(***************************************************************************)
(* Properties                                                              *)
(***************************************************************************)
\* The instance a cluster file records for member m
FileId(c, m) == <<c, m, file[c].members[m].id>>
InFile(c, m) == fileExists[c] /\ IsEc2(file[c], m)

\* No command drops an instance from the cluster file, by removing the file, by
\* a forced configure or by recording another id, while that instance runs:
\* remove_cluster_yaml comes after every termination, configure and allocate
\* after is_running.
ForgetsNoRunning ==
    \A c \in Clusters, m \in Members :
        InFile(c, m) /\ ~(InFile(c, m)' /\ FileId(c, m)' = FileId(c, m))
            => inst'[FileId(c, m)] # "running"

NeverForgetRunning == [][ForgetsNoRunning]_vars

\* A cluster that is ready or down has a node for every member of its tree,
\* whatever failed on the way: install, start and stop work on all of them.
ReadyIsComplete ==
    \A c \in Clusters : file[c].state \in {"ready", "down"} =>
        \A m \in Members : file[c].members[m].id # 0

\* The file of a ready cluster never has an address of before the last start:
\* of the instances recorded with an address none is stopped, and each one that
\* runs answers at that address. stop writes "down" before it stops the first
\* instance, start writes "ready" after the last one was described again.
\* Failures and interruptions do not break this. A wait that failed is passed
\* over (aws_ec2.py:181), and leaves a ready cluster with a null for an address
\* where the code says it has one (:148), but not with an old address.
HasAddress(c, m) == InFile(c, m) /\ file[c].members[m].ip # NoIp

ReadyIsReachable ==
    \A c \in Clusters, m \in Members :
        HasAddress(c, m) /\ file[c].state = "ready" =>
            /\ inst[FileId(c, m)] # "stopped"
            /\ inst[FileId(c, m)] = "running" =>
                   boots[FileId(c, m)] = file[c].members[m].ip

\* xb.py:667 "shutdown all members of a cluster": when no command is at work on
\* a cluster whose file says down, none of its members runs but those with
\* ephemeral storage.
Idle(c) == \A s \in Sessions : ClusterOf[s] = c => pc[s] = "idle"

DownIsStopped ==
    \A c \in Clusters, m \in Members :
        InFile(c, m) /\ file[c].state = "down" /\ Idle(c) /\ Storage[m] # "ephemeral"
            => inst[FileId(c, m)] # "running"

\* At most one instance of a member runs: is_running is asked before allocate
\* launches, and only one session works on a cluster.
OneInstancePerMember ==
    \A i, j \in Ids :
        i[1] = j[1] /\ i[2] = j[2] /\ inst[i] = "running" /\ inst[j] = "running"
            => i = j

\* The cluster file follows the life cycle of ClusterLifecycle: each command
\* writes what it read with its own change, so "down" comes from "ready" only,
\* "ready" from "down" or with every node present, and no node is dropped by
\* allocate.
FileStatus == [c \in Clusters |-> IF fileExists[c] THEN file[c].state ELSE "absent"]
FileNodes == [c \in Clusters |-> {m \in Members : file[c].members[m].id # 0}]

Lifecycle == INSTANCE ClusterLifecycle WITH status <- FileStatus, nodes <- FileNodes

FollowsLifecycle == Lifecycle!Spec

\* A command ends: each of its loops advances, over members, environments,
\* instances and volumes. This is about the loops: a call that fails only ends
\* the command earlier.
CommandEnds == \A s \in Sessions : pc[s] # "idle" ~> pc[s] = "idle"

\* "shutdown all members" / "start all members of a shutdown cluster"
\* (xb.py:667, 678): without failures, start brings a stopped cluster back.
StartRestores ==
    \A s \in Sessions : pc[s] = "start" ~> file[ClusterOf[s]].state = "ready"

\* "Instance and its storage has been terminated" (abstract_cloud.py:93): when
\* clean removes the file, no volume it recorded is left.
CleanedVolumes ==
    \A s \in Sessions, m \in Members :
        LET c == ClusterOf[s]
        IN  (pc[s] = "clean_env" /\ ~fileExists'[c] /\ InFile(c, m) /\ file[c].members[m].vol)
                => disk[FileId(c, m)] \in {"none", "deleted"}

CleanDeletesVolumes == [][CleanedVolumes]_vars
=============================================================================
