---------------------------- MODULE Provisioning ----------------------------
(***************************************************************************)
(* xb.py provision (bin/xb.py, xbench/provisioning.py): configure writes a *)
(* new cluster file, allocate launches the instances environment by        *)
(* environment, self_test and make work on the nodes, install makes the    *)
(* cluster ready, clean uninstalls the software again.                     *)
(***************************************************************************)
EXTENDS ClusterFile

Steps == {"all", "configure", "allocate", "test", "make", "install", "clean"}

FirstLabel(step) == CASE step = "all" -> "configure"
                      [] step = "clean" -> "uninstall"
                      [] OTHER -> step

\* A step ends: the next of "all", or the command is over
StepDone(s, next) ==
    IF all[s]
    THEN /\ Goto(s, next)
         /\ ix' = [ix EXCEPT ![s] = 1]
         /\ UNCHANGED <<all, todo, bad, nukeVars, mem>>
    ELSE Exit(s)

\* Bound on the model: no provisioning is begun that would need an id beyond
\* MaxLaunch or more than MaxEnvs entries of cluster.envs.
LaunchesLeft(s) ==
    /\ \A m \in Members : inst[<<ClusterOf[s], m, MaxLaunch>>] = "none"
    /\ Len(file[ClusterOf[s]].envs) + NumEnvs <= MaxEnvs

(***************************************************************************)
(* provision: an existing file stops configure unless --force is given.    *)
(***************************************************************************)
Provision(s, step, force) ==
    /\ pc[s] = "idle"
    /\ ~(fileExists[ClusterOf[s]] /\ step \in {"all", "configure"} /\ ~force)
    /\ step \in {"all", "allocate"} => LaunchesLeft(s)
    /\ Goto(s, FirstLabel(step))
    /\ all' = [all EXCEPT ![s] = (step = "all")]
    /\ UNCHANGED <<cloudVars, fileVars, ix, todo, bad, nukeVars, mem>>

(***************************************************************************)
(* configure: nothing of the cluster may be running in any environment;    *)
(* the new file has neither environments nor members.                      *)
(***************************************************************************)
ConfigureCheck(s) ==
    /\ pc[s] = "configure"
    /\ ix[s] \in Envs
    /\ ~IsRunning(ClusterOf[s], ix[s])
    /\ NextEnv(s)
    /\ UNCHANGED <<cloudVars, fileVars, pc, all, todo, bad, nukeVars, mem>>

ConfigureRefused(s) ==
    /\ pc[s] = "configure"
    /\ ix[s] \in Envs
    /\ IsRunning(ClusterOf[s], ix[s])
    /\ Raise(s)

ConfigureSave(s) ==
    /\ pc[s] = "configure"
    /\ ix[s] > NumEnvs
    /\ SaveCluster(s, NewCluster)
    /\ StepDone(s, "allocate")
    /\ UNCHANGED cloudVars

(***************************************************************************)
(* allocate                                                                *)
(***************************************************************************)
AllocateLoad(s) ==
    /\ pc[s] = "allocate"
    /\ IF CanLoad(s)
       THEN /\ mem' = [mem EXCEPT ![s] = file[ClusterOf[s]]]
            /\ Goto(s, "alloc_env")
            /\ UNCHANGED <<cloudVars, fileVars, loopVars>>
       ELSE Raise(s)

\* The clouds of the environments before this one: is_running is asked once
\* for each cloud.
ProvisionedClouds(s) == {CloudOf[e] : e \in 1..(ix[s] - 1)}

\* mutant of AlreadyProvisioned: allocate does not ask is_running
AlreadyProvisionedUnchecked(s) == FALSE

AlreadyProvisioned(s) ==
    /\ CloudOf[ix[s]] \notin ProvisionedClouds(s)
    /\ IsRunning(ClusterOf[s], ix[s])

\* mutant of AllocateEnv: the environment after this one is recorded
AllocateEnvOffByOne(s) ==
    /\ pc[s] = "alloc_env"
    /\ ix[s] \in Envs
    /\ Len(mem[s].envs) < MaxEnvs
    /\ ~AlreadyProvisioned(s)
    /\ mem' = [mem EXCEPT ![s].envs = Append(@, ix[s] + 1)]
    /\ Goto(s, "alloc_storage")
    /\ UNCHANGED <<cloudVars, fileVars, loopVars>>

AllocateEnv(s) ==
    /\ pc[s] = "alloc_env"
    /\ ix[s] \in Envs
    /\ Len(mem[s].envs) < MaxEnvs
    /\ ~AlreadyProvisioned(s)
    /\ mem' = [mem EXCEPT ![s].envs = Append(@, ix[s])]
    /\ Goto(s, "alloc_storage")
    /\ UNCHANGED <<cloudVars, fileVars, loopVars>>

AllocateRefused(s) ==
    /\ pc[s] = "alloc_env"
    /\ ix[s] \in Envs
    /\ AlreadyProvisioned(s)
    /\ Raise(s)

\* launch_storage_instances: shared_storage of the object is replaced by what
\* this environment asks for. launch_storage turns a CloudException into
\* None, and the requested storage is then recorded all the same.
AllocateStorage(s) ==
    LET asked == SharedEnvs \cap {ix[s]}
    IN  /\ pc[s] = "alloc_storage"
        /\ \E created \in {asked} \cup (IF MayFail THEN {{}} ELSE {}) :
              shared' = [shared EXCEPT ![ClusterOf[s]] = @ \cup created]
        /\ mem' = [mem EXCEPT ![s].shared = asked]
        /\ Goto(s, "launch")
        /\ StartCalls(s, {m \in Members \ SelfManaged : MemberEnv[m] = ix[s]})
        /\ UNCHANGED <<inst, boots, disk, fileVars, all, ix, nukeVars>>

\* What launch_storage may leave for a member: the volume and whether the node
\* keeps its storage. A CloudException makes it None: create failed, or the
\* volume was created and then not attached.
StorageResults(m) ==
    {r \in [disk : DiskStates, vol : BOOLEAN] :
        \/ Storage[m] = "ebs" /\ r.disk = "attached" /\ r.vol
        \/ Storage[m] = "ephemeral" /\ r.disk = "none" /\ r.vol
        \/ Storage[m] = "none" /\ r.disk = "none" /\ ~r.vol
        \/ MayFail /\ r.disk = "none" /\ ~r.vol
        \/ MayFail /\ Storage[m] = "ebs" /\ r.disk = "available" /\ ~r.vol}

\* The address an instance is described with once it was launched. A wait for
\* it that fails is swallowed, and then it has none yet.
LaunchIps == {0} \cup (IF MayFail THEN {NoIp} ELSE {})

\* launch_instance, one thread: the instance runs and a Node is returned
LaunchInstance(s, m) ==
    /\ pc[s] = "launch"
    /\ m \in todo[s]
    /\ \E n \in 1..MaxLaunch, r \in StorageResults(m), ip \in LaunchIps :
          LET i == <<ClusterOf[s], m, n>>
          IN  /\ IsNextId(i)
              /\ RunInstance(i)
              /\ disk' = [disk EXCEPT ![i] = r.disk]
              /\ mem' = [mem EXCEPT ![s].members[m] =
                            [id |-> n, ip |-> ip, vol |-> r.vol]]
    /\ CallDone(s, m, "ok")
    /\ UNCHANGED <<boots, shared, fileVars, pc, all, ix, nukeVars>>

\* A CloudException inside launch_instance gives None: before run-instances,
\* or after it, when the id of a running instance is lost with it.
LaunchReturnsNone(s, m) ==
    /\ pc[s] = "launch"
    /\ m \in todo[s]
    /\ MayFail
    /\ \/ UNCHANGED inst
       \/ \E n \in 1..MaxLaunch : LET i == <<ClusterOf[s], m, n>>
                                  IN  IsNextId(i) /\ RunInstance(i)
    /\ CallDone(s, m, "none")
    /\ UNCHANGED <<boots, disk, shared, fileVars, pc, all, ix, nukeVars, mem>>

\* describe_instance_type fails before anything is launched: AwsCloud catches
\* AwsCloudException only, so the thread's exception is raised again once the
\* pool is done.
LaunchRaises(s, m) ==
    /\ pc[s] = "launch"
    /\ m \in todo[s]
    /\ MayFail
    /\ CallDone(s, m, "raise")
    /\ UNCHANGED <<cloudVars, fileVars, pc, all, ix, nukeVars, mem>>

\* The object once the calls of environment ix are done: its faked members
\* are added, and the state tells whether a node is missing.
AfterLaunch(s) ==
    LET faked == {m \in SelfManaged : MemberEnv[m] = ix[s]}
        added == \E m \in Members : MemberEnv[m] = ix[s]
    IN  [mem[s] EXCEPT
           !.members = [m \in Members |-> IF m \in faked
                                          THEN [id |-> SelfId, ip |-> 0, vol |-> FALSE]
                                          ELSE @[m]],
           !.state = IF bad[s] = "none" THEN "failed"
                     ELSE IF added THEN "allocated" ELSE @]

AllocateCollect(s) ==
    /\ pc[s] = "launch"
    /\ todo[s] = {}
    /\ UNCHANGED cloudVars
    /\ CASE bad[s] = "raise" -> Exit(s) /\ UNCHANGED fileVars
         [] bad[s] = "none" -> SaveCluster(s, AfterLaunch(s)) /\ Exit(s)
         [] bad[s] = "ok" ->
              /\ SaveCluster(s, AfterLaunch(s))
              /\ mem' = [mem EXCEPT ![s] = AfterLaunch(s)]
              /\ NextEnv(s)
              /\ Goto(s, "alloc_env")
              /\ UNCHANGED <<all, todo, bad, nukeVars>>

AllocateDone(s) ==
    /\ pc[s] = "alloc_env"
    /\ ix[s] > NumEnvs
    /\ StepDone(s, "test")
    /\ UNCHANGED <<cloudVars, fileVars>>

(***************************************************************************)
(* self_test and make load the file and run commands on every node.        *)
(***************************************************************************)
OnAllNodes(s, label, next) ==
    /\ pc[s] = label
    /\ IF CanLoad(s) /\ AllReachable(ClusterOf[s], file[ClusterOf[s]])
       THEN StepDone(s, next) /\ UNCHANGED <<cloudVars, fileVars>>
       ELSE Raise(s)

SelfTest(s) == OnAllNodes(s, "test", "make")
Make(s) == OnAllNodes(s, "make", "install")

(***************************************************************************)
(* install: group_nodes_by_name fails when a member of the tree has no     *)
(* node; the file is written once all the software is installed.           *)
(***************************************************************************)
\* mutant of InstallLoad: group_nodes_by_name is not called
InstallLoadUnchecked(s) ==
    /\ pc[s] = "install"
    /\ IF CanLoad(s)
       THEN /\ mem' = [mem EXCEPT ![s] = file[ClusterOf[s]]]
            /\ Goto(s, "installing")
            /\ UNCHANGED <<cloudVars, fileVars, loopVars>>
       ELSE Raise(s)

InstallLoad(s) ==
    /\ pc[s] = "install"
    /\ IF CanLoad(s) /\ Complete(file[ClusterOf[s]])
       THEN /\ mem' = [mem EXCEPT ![s] = file[ClusterOf[s]]]
            /\ Goto(s, "installing")
            /\ UNCHANGED <<cloudVars, fileVars, loopVars>>
       ELSE Raise(s)

InstallSave(s) ==
    /\ pc[s] = "installing"
    /\ IF AllReachable(ClusterOf[s], mem[s])
       THEN /\ SaveCluster(s, [mem[s] EXCEPT !.target = TRUE, !.state = "ready"])
            /\ Exit(s)
            /\ UNCHANGED cloudVars
       ELSE Raise(s)

(***************************************************************************)
(* clean, environment by environment; the state is left as it was.         *)
(***************************************************************************)
UninstallLoad(s) ==
    /\ pc[s] = "uninstall"
    /\ IF CanLoad(s) /\ Complete(file[ClusterOf[s]])
       THEN /\ mem' = [mem EXCEPT ![s] = file[ClusterOf[s]]]
            /\ Goto(s, "uninstalling")
            /\ UNCHANGED <<cloudVars, fileVars, loopVars>>
       ELSE Raise(s)

UninstallEnv(s) ==
    LET obj == [mem[s] EXCEPT !.target = FALSE]
    IN  /\ pc[s] = "uninstalling"
        /\ ix[s] \in Envs
        /\ IF \A m \in MembersOf(mem[s], ix[s]) : Reachable(ClusterOf[s], mem[s], m)
           THEN /\ SaveCluster(s, obj)
                /\ mem' = [mem EXCEPT ![s] = obj]
                /\ NextEnv(s)
                /\ UNCHANGED <<cloudVars, pc, all, todo, bad, nukeVars>>
           ELSE Raise(s)

UninstallDone(s) ==
    /\ pc[s] = "uninstalling"
    /\ ix[s] > NumEnvs
    /\ Exit(s)
    /\ UNCHANGED <<cloudVars, fileVars>>

\* A command line call or a remote command fails: the exception ends the
\* command (allocate, make, install, ... turn it into XbenchException).
ProvisioningRaises(s) ==
    /\ MayFail
    /\ pc[s] \in {"configure", "alloc_env", "test", "make", "installing", "uninstalling"}
    /\ Raise(s)

ProvisioningStep(s) ==
    \/ ConfigureCheck(s) \/ ConfigureRefused(s) \/ ConfigureSave(s)
    \/ AllocateLoad(s) \/ AllocateEnv(s) \/ AllocateRefused(s) \/ AllocateStorage(s)
    \/ \E m \in Members : \/ LaunchInstance(s, m)
                          \/ LaunchReturnsNone(s, m)
                          \/ LaunchRaises(s, m)
    \/ AllocateCollect(s) \/ AllocateDone(s)
    \/ SelfTest(s) \/ Make(s) \/ InstallLoad(s) \/ InstallSave(s)
    \/ UninstallLoad(s) \/ UninstallEnv(s) \/ UninstallDone(s)
    \/ ProvisioningRaises(s)
=============================================================================
