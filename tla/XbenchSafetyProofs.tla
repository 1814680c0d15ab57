------------------------- MODULE XbenchSafetyProofs -------------------------
(***************************************************************************)
(* Proofs about XbenchSystem: the instances in the cloud, and what the     *)
(* cluster files say of them.                                              *)
(***************************************************************************)
EXTENDS XbenchProofs

USE CloudAssumption, SessionAssumption, CommandsAssumption

(***************************************************************************)
(* What a step does to instances, to the object in memory and to the file  *)
(***************************************************************************)
\* start_instance returns a node: described once it ran, or while pending
Starts(s, m) == StartNode(s, m) \/ StartNodePending(s, m)

\* An instance stays as it is, or it is terminated by clean or nuke, launched,
\* started or stopped by a thread that was given its member.
InstStep(s, i) ==
    \/ inst'[i] = inst[i] /\ boots'[i] = boots[i]
    \/ /\ inst'[i] = "terminated" /\ boots'[i] = boots[i]
       /\ \/ pc[s] = "terminate" /\ i[2] \in todo[s] /\ i = Id(s, i[2])
          \/ pc[s] = "nuke_instances" /\ i \in ids[s]
    \/ /\ pc[s] = "launch" /\ i[1] = ClusterOf[s] /\ i[2] \in todo[s]
       /\ inst[i] = "none" /\ inst'[i] = "running" /\ boots'[i] = boots[i]
    \/ /\ pc[s] = "start" /\ i[2] \in todo[s] /\ i = Id(s, i[2])
       /\ inst[i] \in {"running", "stopped"} /\ inst'[i] = "running"
    \/ /\ pc[s] = "stop" /\ i[2] \in todo[s] /\ i = Id(s, i[2])
       /\ inst[i] \in {"running", "stopped"} /\ inst'[i] = "stopped" /\ boots'[i] = boots[i]

\* provision launches instances for the members that launch was given.
LEMMA ProvisioningInst ==
    ASSUME Typed, NEW s \in Sessions, ProvisioningStep(s), NEW i \in Ids
    PROVE  InstStep(s, i)
<1> USE DEF cloudVars, fileVars, loopVars, nukeVars
<1>t. inst \in [Ids -> InstanceStates]
  BY DEF Typed, CloudTypeOK
<1>1. ASSUME NEW m \in Members, LaunchInstance(s, m) \/ LaunchReturnsNone(s, m)
      PROVE  InstStep(s, i)
  <2>1. /\ pc[s] = "launch" /\ m \in todo[s] /\ boots' = boots
        /\ \/ inst' = inst
           \/ \E n \in 1..MaxLaunch : /\ inst[<<ClusterOf[s], m, n>>] = "none"
                                      /\ inst' = [inst EXCEPT ![<<ClusterOf[s], m, n>>] = "running"]
    BY <1>1 DEF LaunchInstance, LaunchReturnsNone, IsNextId, RunInstance
  <2>2. ASSUME NEW n \in 1..MaxLaunch, inst[<<ClusterOf[s], m, n>>] = "none",
               inst' = [inst EXCEPT ![<<ClusterOf[s], m, n>>] = "running"]
        PROVE  InstStep(s, i)
    <3>1. CASE i = <<ClusterOf[s], m, n>>
      <4>1. i[1] = ClusterOf[s] /\ i[2] = m
        BY <3>1
      <4>2. inst[i] = "none" /\ inst'[i] = "running"
        BY <1>t, <2>2, <3>1
      <4> QED BY <2>1, <4>1, <4>2 DEF InstStep
    <3>2. CASE i # <<ClusterOf[s], m, n>>
      BY <1>t, <2>1, <2>2, <3>2 DEF InstStep
    <3> QED BY <3>1, <3>2
  <2> QED BY <2>1, <2>2 DEF InstStep
<1>2. ASSUME ~\E m \in Members : LaunchInstance(s, m) \/ LaunchReturnsNone(s, m)
      PROVE  UNCHANGED <<inst, boots>>
  <2>1. ASSUME NEW m \in Members, LaunchRaises(s, m) PROVE UNCHANGED <<inst, boots>>
    BY <2>1 DEF LaunchRaises
  <2>2. CASE AllocateCollect(s)
    BY <2>2 DEF AllocateCollect
  <2> QED BY <1>2, <2>1, <2>2 DEF ProvisioningStep, ConfigureCheck, ConfigureRefused, ConfigureSave,
          AllocateLoad, AllocateEnv, AllocateRefused, AllocateStorage, AllocateDone, SelfTest, Make,
          OnAllNodes, InstallLoad, InstallSave, UninstallLoad, UninstallEnv, UninstallDone,
          ProvisioningRaises, Raise
<1> QED BY <1>1, <1>2 DEF InstStep

\* deprovision terminates instances and does nothing else to them.
LEMMA DeProvisioningInst ==
    ASSUME Typed, NEW s \in Sessions, DeProvisioningStep(s), NEW i \in Ids
    PROVE  InstStep(s, i)
<1> USE DEF cloudVars, fileVars, loopVars, nukeVars
<1>t. inst \in [Ids -> InstanceStates]
  BY DEF Typed, CloudTypeOK
<1>1. ASSUME NEW m \in Members, TerminateNode(s, m) \/ TerminateRaises(s, m)
      PROVE  InstStep(s, i)
  <2>1. /\ pc[s] = "terminate" /\ m \in todo[s] /\ boots' = boots
        /\ inst' = inst \/ inst' = [inst EXCEPT ![Id(s, m)] = "terminated"]
    BY <1>1 DEF TerminateNode, TerminateRaises, TerminateInstance
  <2>2. i = Id(s, m) => i[2] = m
    BY DEF Id
  <2> QED BY <1>t, <2>1, <2>2 DEF InstStep
<1>2. ASSUME NEW j \in Ids, NukeInstance(s, j) PROVE InstStep(s, i)
  <2>1. /\ pc[s] = "nuke_instances" /\ j \in ids[s] /\ boots' = boots
        /\ inst' = [inst EXCEPT ![j] = "terminated"]
    BY <1>2 DEF NukeInstance, TerminateInstance
  <2> QED BY <1>t, <2>1 DEF InstStep
<1>3. ASSUME ~\E m \in Members : TerminateNode(s, m) \/ TerminateRaises(s, m),
             ~\E j \in Ids : NukeInstance(s, j)
      PROVE  UNCHANGED <<inst, boots>>
  <2>1. ASSUME NEW j \in Ids, NukeVolume(s, j) PROVE UNCHANGED <<inst, boots>>
    BY <2>1 DEF NukeVolume, Raise
  <2> QED BY <1>3, <2>1 DEF DeProvisioningStep, CleanSave, CleanEnv, CleanStorage,
     CleanStorageRaises, CleanRemove,
          NukeDescribe, NukeWait, NukeRemove, DeProvisioningRaises, Raise
<1> QED BY <1>1, <1>2, <1>3 DEF InstStep

\* start and stop switch the instances on record that they were given.
LEMMA CloudCommandsInst ==
    ASSUME Typed, NEW s \in Sessions, CloudCommandsStep(s), NEW i \in Ids
    PROVE  InstStep(s, i)
<1> USE DEF cloudVars, fileVars, loopVars, nukeVars
<1>t. inst \in [Ids -> InstanceStates] /\ boots \in [Ids -> 0..MaxBoots]
  BY DEF Typed, CloudTypeOK
<1>1. ASSUME NEW m \in Members, Starts(s, m) \/ StartRaises(s, m)
      PROVE  InstStep(s, i)
  <2>1. /\ pc[s] = "start" /\ m \in todo[s]
        /\ \/ inst' = inst /\ boots' = boots
           \/ /\ inst[Id(s, m)] \in {"running", "stopped"}
              /\ inst' = [inst EXCEPT ![Id(s, m)] = "running"]
              /\ \A j \in Ids \ {Id(s, m)} : boots'[j] = boots[j]
    BY <1>1, <1>t DEF Starts, StartNode, StartNodePending, StartRaises, CanStart, StartInstance
  <2>2. i = Id(s, m) => i[2] = m
    BY DEF Id
  <2> QED BY <1>t, <2>1, <2>2 DEF InstStep
<1>2. ASSUME NEW m \in Members, StopNode(s, m) PROVE InstStep(s, i)
  <2>1. /\ pc[s] = "stop" /\ m \in todo[s] /\ boots' = boots
        /\ \/ inst' = inst
           \/ /\ inst[Id(s, m)] \in {"running", "stopped"}
              /\ inst' = [inst EXCEPT ![Id(s, m)] = "stopped"]
    BY <1>2 DEF StopNode, CanStop, StopInstance
  <2>2. i = Id(s, m) => i[2] = m
    BY DEF Id
  <2> QED BY <1>t, <2>1, <2>2 DEF InstStep
<1>3. ASSUME ~\E m \in Members : Starts(s, m) \/ StartRaises(s, m) \/ StopNode(s, m)
      PROVE  UNCHANGED <<inst, boots>>
  <2>1. ASSUME NEW m \in Members, StopRaises(s, m) PROVE UNCHANGED <<inst, boots>>
    BY <2>1 DEF StopRaises
  <2> QED BY <1>3, <2>1 DEF CloudCommandsStep, Starts, StartStopDone, StartEnv, StartSave,
          StartBackends, StopEnv, StopSave, StopCollect, CloudCommandsRaises, Raise
<1> QED BY <1>1, <1>2, <1>3 DEF InstStep

\* That is all that any step does to instances.
LEMMA ActInst ==
    ASSUME Typed, NEW s \in Sessions, Act(s), NEW i \in Ids
    PROVE  InstStep(s, i)
<1>1. CASE Begin(s) \/ Crash(s)
  BY <1>1 DEF Begin, Provision, Deprovision, Nuke, Start, Stop, Crash, Raise, cloudVars, InstStep
<1> QED BY <1>1, ProvisioningInst, DeProvisioningInst, CloudCommandsInst DEF Act, Step

\* The members and the environments that an object records
SameMembers(o, p) == o.members = p.members /\ o.envs = p.envs

\* What happens to the object in memory and to the file, but for allocate and
\* the addresses of instances that start: a file is loaded, or written as it was,
\* or made anew.
MemStep(s) ==
    \/ pc'[s] \notin Holding
    \/ /\ pc[s] \in Holding \ {"launch"} /\ pc'[s] # "alloc_env"
       /\ SameMembers(mem'[s], mem[s])
    \/ /\ pc[s] = "launch" /\ pc'[s] = "launch" /\ mem'[s] = mem[s] /\ file' = file
    \/ /\ pc'[s] \notin {"alloc_storage", "launch", "terminate", "start", "stop_save", "stop"}
       /\ ix'[s] = 1 /\ mem'[s] = file[ClusterOf[s]] /\ file' = file /\ inst' = inst
    \/ AllocateEnv(s)
    \/ AllocateCollect(s)
    \/ \E m \in Members : LaunchInstance(s, m) \/ Starts(s, m)

FileStep(s) ==
    LET c == ClusterOf[s]
    IN  \/ file' = file /\ fileExists' = fileExists
        \/ file'[c] = NewCluster /\ (ConfigureSave(s) \/ CleanRemove(s) \/ NukeRemove(s))
        \/ /\ pc[s] \in Holding \ {"launch"} /\ fileExists'[c] /\ inst' = inst /\ boots' = boots
           /\ SameMembers(file'[c], mem[s])
        \/ AllocateCollect(s)

\* start works on one member and records nothing but the address of its node.
LEMMA StartsMembers ==
    ASSUME Typed, NEW s \in Sessions, NEW k \in Members, Starts(s, k)
    PROVE  /\ pc[s] = "start" /\ pc' = pc /\ k \in todo[s]
           /\ todo'[s] = todo[s] \ {k} /\ bad'[s] = bad[s]
           /\ inst' = inst \/ inst' = [inst EXCEPT ![Id(s, k)] = "running"]
           /\ mem'[s].envs = mem[s].envs
           /\ \A m \in Members : /\ mem'[s].members[m].id = mem[s].members[m].id
                                 /\ mem'[s].members[m].vol = mem[s].members[m].vol
                                 /\ m # k => mem'[s].members[m] = mem[s].members[m]
<1>t. /\ mem \in [Sessions -> ClusterObjs] /\ mem[s].members \in [Members -> MemberRecs]
      /\ todo \in [Sessions -> SUBSET Members] /\ bad \in [Sessions -> Outcomes]
  BY DEF Typed, SessionTypeOK, ClusterObjs
<1>1. PICK ip : mem' = [mem EXCEPT ![s].members[k].ip = ip]
  BY DEF Starts, StartNode, StartNodePending
<1>2. /\ mem'[s].envs = mem[s].envs
      /\ mem'[s].members = [mem[s].members EXCEPT ![k] = [mem[s].members[k] EXCEPT !.ip = ip]]
  BY <1>1, <1>t DEF ClusterObjs
<1>3. ASSUME NEW m \in Members
      PROVE  /\ mem'[s].members[m].id = mem[s].members[m].id
             /\ mem'[s].members[m].vol = mem[s].members[m].vol
             /\ m # k => mem'[s].members[m] = mem[s].members[m]
  BY <1>2, <1>t DEF MemberRecs
<1>4. /\ pc[s] = "start" /\ pc' = pc /\ k \in todo[s]
      /\ todo'[s] = todo[s] \ {k} /\ bad'[s] = bad[s]
      /\ inst' = inst \/ inst' = [inst EXCEPT ![Id(s, k)] = "running"]
  BY <1>t DEF Starts, StartNode, StartNodePending, CallDone, StartInstance
<1> QED BY <1>2, <1>3, <1>4

\* Between two provisioning steps no object is held.
LEMMA StepDoneMem ==
    ASSUME Typed, NEW s \in Sessions, NEW l \in {"allocate", "test", "make", "install"}, StepDone(s, l)
    PROVE  pc'[s] \notin Holding
BY DEF Typed, SessionTypeOK, StepDone, Exit, Goto, Holding

\* After a command no object is held.
LEMMA ExitMem ==
    ASSUME Typed, NEW s \in Sessions, Exit(s)
    PROVE  pc'[s] \notin Holding
BY DEF Typed, SessionTypeOK, Exit, Holding

\* What save_cluster writes is in the file.
LEMMA SaveFile ==
    ASSUME Typed, NEW s \in Sessions, NEW o, SaveCluster(s, o)
    PROVE  file'[ClusterOf[s]] = o /\ fileExists'[ClusterOf[s]]
BY DEF Typed, DiskFileTypeOK, SaveCluster

\* The object and the file through the steps of provision
LEMMA ProvisioningMem ==
    ASSUME Typed, NEW s \in Sessions, SessionInv(s), ProvisioningStep(s)
    PROVE  MemStep(s) /\ FileStep(s)
<1> USE DEF cloudVars, fileVars, loopVars, nukeVars
<1>t. /\ pc \in [Sessions -> Labels] /\ mem \in [Sessions -> ClusterObjs] /\ ix \in [Sessions -> Nat]
      /\ mem[s] \in ClusterObjs
  BY DEF Typed, SessionTypeOK
<1>r. ASSUME Raise(s) PROVE MemStep(s) /\ FileStep(s)
  BY <1>r, ExitMem DEF Raise, MemStep, FileStep
<1>i. pc[s] \in {"allocate", "install", "uninstall"} => ix[s] = 1
  BY DEF SessionInv, FromFirst
<1>1. CASE ConfigureCheck(s)
  BY <1>1, <1>t DEF ConfigureCheck, MemStep, FileStep, Holding
<1>2. CASE ConfigureRefused(s) \/ AllocateRefused(s) \/ ProvisioningRaises(s)
  BY <1>2, <1>r DEF ConfigureRefused, AllocateRefused, ProvisioningRaises
<1>3. CASE ConfigureSave(s)
  <2>1. MemStep(s)
    BY <1>3, StepDoneMem DEF ConfigureSave, MemStep
  <2>2. file'[ClusterOf[s]] = NewCluster
    BY <1>3, SaveFile DEF ConfigureSave
  <2> QED BY <1>3, <2>1, <2>2 DEF FileStep
<1>4. CASE AllocateLoad(s)
  BY <1>4, <1>t, <1>i, <1>r DEF AllocateLoad, Goto, MemStep, FileStep
<1>5. CASE AllocateEnv(s)
  BY <1>5 DEF AllocateEnv, MemStep, FileStep
<1>6. CASE AllocateStorage(s)
  <2>1. SameMembers(mem'[s], mem[s]) /\ pc'[s] = "launch" /\ pc[s] = "alloc_storage"
    BY <1>6, <1>t DEF AllocateStorage, Goto, SameMembers, ClusterObjs
  <2> QED BY <1>6, <2>1 DEF AllocateStorage, MemStep, FileStep, Holding
<1>7. ASSUME NEW m \in Members,
             LaunchInstance(s, m) \/ LaunchReturnsNone(s, m) \/ LaunchRaises(s, m)
      PROVE  MemStep(s) /\ FileStep(s)
  BY <1>7 DEF LaunchInstance, LaunchReturnsNone, LaunchRaises, MemStep, FileStep
<1>8. CASE AllocateCollect(s)
  BY <1>8 DEF MemStep, FileStep
<1>9. CASE AllocateDone(s)
  BY <1>9, StepDoneMem DEF AllocateDone, MemStep, FileStep
<1>10. CASE SelfTest(s) \/ Make(s)
  BY <1>10, <1>r, StepDoneMem DEF SelfTest, Make, OnAllNodes, MemStep, FileStep
<1>11. CASE InstallLoad(s) \/ UninstallLoad(s)
  BY <1>11, <1>t, <1>i, <1>r DEF InstallLoad, UninstallLoad, Goto, MemStep, FileStep
<1>12. CASE InstallSave(s)
  <2> DEFINE o == [mem[s] EXCEPT !.target = TRUE, !.state = "ready"]
  <2>1. Raise(s) \/ (SaveCluster(s, o) /\ Exit(s) /\ UNCHANGED cloudVars)
    BY <1>12 DEF InstallSave
  <2>2. SameMembers(o, mem[s])
    BY <1>t DEF ClusterObjs, SameMembers
  <2> HIDE DEF o
  <2>3. CASE SaveCluster(s, o) /\ Exit(s) /\ UNCHANGED cloudVars
    <3>1. pc[s] \in Holding \ {"launch"}
      BY <1>12 DEF InstallSave, Holding
    <3> QED BY <2>2, <2>3, <3>1, ExitMem, SaveFile DEF MemStep, FileStep
  <2> QED BY <2>1, <2>3, <1>r
<1>13. CASE UninstallEnv(s)
  <2> DEFINE o == [mem[s] EXCEPT !.target = FALSE]
  <2>1. Raise(s) \/ (SaveCluster(s, o) /\ mem'[s] = o /\ UNCHANGED <<cloudVars, pc>>)
    BY <1>13, <1>t DEF UninstallEnv
  <2>2. SameMembers(o, mem[s])
    BY <1>t DEF ClusterObjs, SameMembers
  <2> HIDE DEF o
  <2>3. CASE SaveCluster(s, o) /\ mem'[s] = o /\ UNCHANGED <<cloudVars, pc>>
    <3>1. pc[s] = "uninstalling" /\ pc[s] \in Holding
      BY <1>13 DEF UninstallEnv, Holding
    <3> QED BY <2>2, <2>3, <3>1, SaveFile DEF MemStep, FileStep
  <2> QED BY <2>1, <2>3, <1>r
<1>14. CASE UninstallDone(s)
  BY <1>14, ExitMem DEF UninstallDone, MemStep, FileStep
<1> QED BY <1>1, <1>2, <1>3, <1>4, <1>5, <1>6, <1>7, <1>8, <1>9, <1>10, <1>11, <1>12, <1>13,
        <1>14 DEF ProvisioningStep

\* The object and the file through the steps of deprovision
LEMMA DeProvisioningMem ==
    ASSUME Typed, NEW s \in Sessions, DeProvisioningStep(s)
    PROVE  MemStep(s) /\ FileStep(s)
<1> USE DEF cloudVars, fileVars, loopVars, nukeVars
<1>t. /\ pc \in [Sessions -> Labels] /\ mem \in [Sessions -> ClusterObjs] /\ ix \in [Sessions -> Nat]
  BY DEF Typed, SessionTypeOK
<1>r. ASSUME Raise(s) PROVE MemStep(s) /\ FileStep(s)
  BY <1>r, ExitMem DEF Raise, MemStep, FileStep
<1>1. CASE CleanSave(s)
  BY <1>1, <1>t, SaveFile DEF CleanSave, Goto, MemStep, FileStep, SameMembers, Holding
<1>2. CASE CleanEnv(s)
  BY <1>2, <1>t DEF CleanEnv, Goto, MemStep, FileStep, SameMembers, Holding
<1>3. CASE CleanStorage(s)
  BY <1>3, <1>t, <1>r DEF CleanStorage, Goto, MemStep, FileStep, SameMembers, Holding
<1>4. CASE CleanRemove(s) \/ NukeRemove(s)
  <2>1. pc'[s] \notin Holding
    BY <1>4, ExitMem DEF CleanRemove, NukeRemove
  <2>2. file'[ClusterOf[s]] = NewCluster
    BY <1>4 DEF CleanRemove, NukeRemove, RemoveClusterYaml, Typed, DiskFileTypeOK
  <2> QED BY <1>4, <2>1, <2>2 DEF MemStep, FileStep
<1>5. ASSUME NEW m \in Members, TerminateNode(s, m) \/ TerminateRaises(s, m)
      PROVE MemStep(s) /\ FileStep(s)
  BY <1>5, <1>t DEF TerminateNode, TerminateRaises, MemStep, FileStep, SameMembers, Holding
<1>6. CASE NukeDescribe(s) \/ NukeWait(s)
  BY <1>6, <1>t DEF NukeDescribe, NukeWait, Goto, MemStep, FileStep, Holding
<1>7. ASSUME NEW i \in Ids, NukeInstance(s, i) PROVE MemStep(s) /\ FileStep(s)
  BY <1>7, <1>t DEF NukeInstance, MemStep, FileStep, Holding
<1>8. ASSUME NEW i \in Ids, NukeVolume(s, i) PROVE MemStep(s) /\ FileStep(s)
  BY <1>8, <1>t, <1>r DEF NukeVolume, MemStep, FileStep, Holding
<1>9. CASE DeProvisioningRaises(s)
  BY <1>9, <1>r DEF DeProvisioningRaises
<1>10. CASE CleanStorageRaises(s)
  BY <1>10, ExitMem DEF CleanStorageRaises, MemStep, FileStep
<1> QED BY <1>1, <1>2, <1>3, <1>4, <1>5, <1>6, <1>7, <1>8, <1>9, <1>10 DEF DeProvisioningStep

\* The object and the file through the steps of start and stop
LEMMA CloudCommandsMem ==
    ASSUME Typed, NEW s \in Sessions, CloudCommandsStep(s)
    PROVE  MemStep(s) /\ FileStep(s)
<1> USE DEF cloudVars, fileVars, loopVars, nukeVars
<1>t. /\ pc \in [Sessions -> Labels] /\ mem \in [Sessions -> ClusterObjs] /\ ix \in [Sessions -> Nat]
      /\ mem[s] \in ClusterObjs
  BY DEF Typed, SessionTypeOK
<1>r. ASSUME Raise(s) PROVE MemStep(s) /\ FileStep(s)
  BY <1>r, ExitMem DEF Raise, MemStep, FileStep
<1>1. CASE StartStopDone(s)
  BY <1>1, ExitMem DEF StartStopDone, MemStep, FileStep
<1>2. CASE StartEnv(s)
  BY <1>2, <1>t, <1>r DEF StartEnv, Goto, MemStep, FileStep, SameMembers, Holding
<1>3. CASE StartBackends(s)
  BY <1>3, <1>t, <1>r DEF StartBackends, Goto, MemStep, FileStep, SameMembers, Holding
<1>4. CASE StopEnv(s)
  BY <1>4, <1>t, <1>r DEF StopEnv, Goto, MemStep, FileStep, SameMembers, Holding
<1>5. CASE StopCollect(s)
  BY <1>5, <1>t, <1>r DEF StopCollect, Goto, MemStep, FileStep, SameMembers, Holding
<1>6. CASE StartSave(s)
  <2> DEFINE o == [mem[s] EXCEPT !.state = "ready"]
  <2>1. \/ Raise(s)
        \/ SaveCluster(s, o) /\ mem'[s] = o /\ pc'[s] = "start_backends" /\ UNCHANGED cloudVars
    BY <1>6, <1>t DEF StartSave, Goto
  <2>2. SameMembers(o, mem[s])
    BY <1>t DEF ClusterObjs, SameMembers
  <2> HIDE DEF o
  <2>3. CASE SaveCluster(s, o) /\ mem'[s] = o /\ pc'[s] = "start_backends" /\ UNCHANGED cloudVars
    <3>1. pc[s] = "start" /\ pc[s] \in Holding
      BY <1>6 DEF StartSave, Holding
    <3> QED BY <2>2, <2>3, <3>1, SaveFile DEF MemStep, FileStep
  <2> QED BY <2>1, <2>3, <1>r
<1>7. CASE StopSave(s)
  <2> DEFINE o == [mem[s] EXCEPT !.state = "down"]
  <2>1. SaveCluster(s, o) /\ mem'[s] = o /\ pc'[s] = "stop" /\ UNCHANGED cloudVars
    BY <1>7, <1>t DEF StopSave, Goto
  <2>2. SameMembers(o, mem[s])
    BY <1>t DEF ClusterObjs, SameMembers
  <2> HIDE DEF o
  <2>3. pc[s] = "stop_save" /\ pc[s] \in Holding
    BY <1>7 DEF StopSave, Holding
  <2> QED BY <2>1, <2>2, <2>3, SaveFile DEF MemStep, FileStep
<1>8. ASSUME NEW m \in Members, Starts(s, m) PROVE MemStep(s) /\ FileStep(s)
  BY <1>8 DEF Starts, StartNode, StartNodePending, MemStep, FileStep
<1>9. ASSUME NEW m \in Members, StartRaises(s, m) \/ StopNode(s, m) \/ StopRaises(s, m)
      PROVE MemStep(s) /\ FileStep(s)
  BY <1>9, <1>t DEF StartRaises, StopNode, StopRaises, MemStep, FileStep, SameMembers, Holding
<1>10. CASE CloudCommandsRaises(s)
  BY <1>10, <1>r DEF CloudCommandsRaises
<1> QED BY <1>1, <1>2, <1>3, <1>4, <1>5, <1>6, <1>7, <1>8, <1>9, <1>10 DEF CloudCommandsStep, Starts

\* MemStep and FileStep are all that any step does to the two.
LEMMA ActMem ==
    ASSUME Typed, NEW s \in Sessions, SessionInv(s), Act(s)
    PROVE  MemStep(s) /\ FileStep(s)
<1> USE DEF cloudVars, fileVars, loopVars, nukeVars
<1>t. /\ pc \in [Sessions -> Labels] /\ mem \in [Sessions -> ClusterObjs] /\ ix \in [Sessions -> Nat]
  BY DEF Typed, SessionTypeOK
<1>i. pc[s] = "idle" => ix[s] = 1
  BY DEF SessionInv, FromFirst
<1>1. CASE Crash(s)
  BY <1>1, ExitMem DEF Crash, Raise, MemStep, FileStep
<1>2. ASSUME NEW step \in Steps, NEW force, Provision(s, step, force) PROVE MemStep(s) /\ FileStep(s)
  <2>1. pc'[s] = FirstLabel(step)
    BY <1>2, <1>t DEF Provision, Goto
  <2>2. FirstLabel(step) \notin Holding
    BY DEF FirstLabel, Steps, Holding
  <2> QED BY <1>2, <2>1, <2>2 DEF Provision, MemStep, FileStep
<1>3. CASE Deprovision(s) \/ Start(s) \/ Stop(s)
  BY <1>3, <1>t, <1>i DEF Deprovision, Start, Stop, Goto, MemStep, FileStep
<1>4. ASSUME NEW e \in Envs, Nuke(s, e) PROVE MemStep(s) /\ FileStep(s)
  BY <1>4, <1>t DEF Nuke, Goto, MemStep, FileStep, Holding
<1> QED BY <1>1, <1>2, <1>3, <1>4, ProvisioningMem, DeProvisioningMem, CloudCommandsMem
        DEF Act, Begin, Step

\* The steps after which a command is at a label
Enters(s) ==
    /\ pc'[s] = "configure" =>
          ConfigureCheck(s) \/ (pc[s] = "idle" /\ ix'[s] = ix[s] /\ UNCHANGED cloudVars)
    /\ pc'[s] = "alloc_env" => AllocateLoad(s) \/ AllocateCollect(s)
    /\ pc'[s] = "alloc_storage" => AllocateEnv(s)
    /\ pc'[s] = "launch" =>
          \/ AllocateStorage(s)
          \/ \E m \in Members : LaunchInstance(s, m) \/ LaunchReturnsNone(s, m) \/ LaunchRaises(s, m)
    /\ pc'[s] = "clean_env" => CleanSave(s) \/ CleanStorage(s)
    /\ pc'[s] = "terminate" =>
          CleanEnv(s) \/ \E m \in Members : TerminateNode(s, m) \/ TerminateRaises(s, m)
    /\ pc'[s] = "nuke" => "nuke" \in Commands /\ \E e \in Envs : Nuke(s, e)
    /\ pc'[s] = "nuke_instances" => NukeDescribe(s) \/ \E i \in Ids : NukeInstance(s, i)
    /\ pc'[s] = "nuke_volumes" => NukeWait(s) \/ \E i \in Ids : NukeVolume(s, i)
    /\ pc'[s] = "start" =>
          StartEnv(s) \/ \E m \in Members : Starts(s, m) \/ StartRaises(s, m)
    /\ pc'[s] = "stop_save" => StopEnv(s)
    /\ pc'[s] = "stop" => StopSave(s) \/ \E m \in Members : StopNode(s, m) \/ StopRaises(s, m)

\* A command that ended is idle.
LEMMA ExitPc ==
    ASSUME Typed, NEW s \in Sessions, Exit(s)
    PROVE  pc'[s] = "idle"
BY DEF Typed, SessionTypeOK, Exit

\* A provisioning step is followed by the next one, or by none.
LEMMA StepDonePc ==
    ASSUME Typed, NEW s \in Sessions, NEW l \in {"allocate", "test", "make", "install"}, StepDone(s, l)
    PROVE  pc'[s] \in {"idle", "allocate", "test", "make", "install"}
BY DEF Typed, SessionTypeOK, StepDone, Exit, Goto

\* The labels that the steps of provision lead to
LEMMA ProvisioningEnters ==
    ASSUME Typed, NEW s \in Sessions, ProvisioningStep(s)
    PROVE  Enters(s)
<1> USE DEF cloudVars, fileVars, loopVars, nukeVars
<1>t. pc \in [Sessions -> Labels]
  BY DEF Typed, SessionTypeOK
<1>r. ASSUME Exit(s) PROVE Enters(s)
  BY <1>r, ExitPc DEF Enters
<1>d. ASSUME NEW l \in {"allocate", "test", "make", "install"}, StepDone(s, l) PROVE Enters(s)
  BY <1>d, StepDonePc DEF Enters
<1>1. CASE ConfigureCheck(s)
  <2>1. pc'[s] = "configure"
    BY <1>1 DEF ConfigureCheck
  <2> QED BY <1>1, <2>1 DEF Enters
<1>2. CASE ConfigureRefused(s) \/ AllocateRefused(s) \/ ProvisioningRaises(s)
  BY <1>2, <1>r DEF ConfigureRefused, AllocateRefused, ProvisioningRaises, Raise
<1>3. CASE ConfigureSave(s)
  BY <1>3, <1>d DEF ConfigureSave
<1>4. CASE AllocateLoad(s)
  <2>1. Exit(s) \/ pc'[s] = "alloc_env"
    BY <1>4, <1>t DEF AllocateLoad, Raise, Goto
  <2> QED BY <1>4, <1>r, <2>1 DEF Enters
<1>5. CASE AllocateEnv(s)
  <2>1. pc'[s] = "alloc_storage"
    BY <1>5, <1>t DEF AllocateEnv, Goto
  <2> QED BY <1>5, <2>1 DEF Enters
<1>6. CASE AllocateStorage(s)
  <2>1. pc'[s] = "launch"
    BY <1>6, <1>t DEF AllocateStorage, Goto
  <2> QED BY <1>6, <2>1 DEF Enters
<1>7. ASSUME NEW m \in Members,
             LaunchInstance(s, m) \/ LaunchReturnsNone(s, m) \/ LaunchRaises(s, m)
      PROVE  Enters(s)
  <2>1. pc'[s] = "launch"
    BY <1>7 DEF LaunchInstance, LaunchReturnsNone, LaunchRaises
  <2> QED BY <1>7, <2>1 DEF Enters
<1>8. CASE AllocateCollect(s)
  <2>1. Exit(s) \/ pc'[s] = "alloc_env"
    BY <1>8, <1>t DEF AllocateCollect, Goto, Typed, SessionTypeOK, Outcomes
  <2> QED BY <1>8, <1>r, <2>1 DEF Enters
<1>9. CASE AllocateDone(s)
  BY <1>9, <1>d DEF AllocateDone
<1>10. CASE SelfTest(s) \/ Make(s)
  BY <1>10, <1>r, <1>d DEF SelfTest, Make, OnAllNodes, Raise
<1>11. CASE InstallLoad(s) \/ UninstallLoad(s)
  <2>1. Exit(s) \/ pc'[s] \in {"installing", "uninstalling"}
    BY <1>11, <1>t DEF InstallLoad, UninstallLoad, Raise, Goto
  <2> QED BY <1>r, <2>1 DEF Enters
<1>12. CASE InstallSave(s)
  BY <1>12, <1>r DEF InstallSave, Raise
<1>13. CASE UninstallEnv(s)
  <2>1. Exit(s) \/ pc'[s] = "uninstalling"
    BY <1>13, <1>t DEF UninstallEnv, Raise
  <2> QED BY <1>r, <2>1 DEF Enters
<1>14. CASE UninstallDone(s)
  BY <1>14, <1>r DEF UninstallDone
<1> QED BY <1>1, <1>2, <1>3, <1>4, <1>5, <1>6, <1>7, <1>8, <1>9, <1>10, <1>11, <1>12, <1>13,
        <1>14 DEF ProvisioningStep

\* The labels that the steps of deprovision lead to
LEMMA DeProvisioningEnters ==
    ASSUME Typed, NEW s \in Sessions, DeProvisioningStep(s)
    PROVE  Enters(s)
<1> USE DEF cloudVars, fileVars, loopVars, nukeVars
<1>t. pc \in [Sessions -> Labels]
  BY DEF Typed, SessionTypeOK
<1>r. ASSUME Exit(s) PROVE Enters(s)
  BY <1>r, ExitPc DEF Enters
<1>1. CASE CleanSave(s)
  <2>1. pc'[s] = "clean_env"
    BY <1>1, <1>t DEF CleanSave, Goto
  <2> QED BY <1>1, <2>1 DEF Enters
<1>2. CASE CleanEnv(s)
  <2>1. pc'[s] = "terminate"
    BY <1>2, <1>t DEF CleanEnv, Goto
  <2> QED BY <1>2, <2>1 DEF Enters
<1>3. CASE CleanStorage(s)
  <2>1. Exit(s) \/ pc'[s] = "clean_env"
    BY <1>3, <1>t DEF CleanStorage, Goto, Raise
  <2> QED BY <1>3, <1>r, <2>1 DEF Enters
<1>4. CASE CleanRemove(s) \/ NukeRemove(s)
  BY <1>4, <1>r DEF CleanRemove, NukeRemove
<1>5. ASSUME NEW m \in Members, TerminateNode(s, m) \/ TerminateRaises(s, m) PROVE Enters(s)
  <2>1. pc'[s] = "terminate"
    BY <1>5 DEF TerminateNode, TerminateRaises
  <2> QED BY <1>5, <2>1 DEF Enters
<1>6. CASE NukeDescribe(s)
  <2>1. pc'[s] = "nuke_instances"
    BY <1>6, <1>t DEF NukeDescribe, Goto
  <2> QED BY <1>6, <2>1 DEF Enters
<1>7. CASE NukeWait(s)
  <2>1. pc'[s] = "nuke_volumes"
    BY <1>7, <1>t DEF NukeWait, Goto
  <2> QED BY <1>7, <2>1 DEF Enters
<1>8. ASSUME NEW i \in Ids, NukeInstance(s, i) PROVE Enters(s)
  <2>1. pc'[s] = "nuke_instances"
    BY <1>8 DEF NukeInstance
  <2> QED BY <1>8, <2>1 DEF Enters
<1>9. ASSUME NEW i \in Ids, NukeVolume(s, i) PROVE Enters(s)
  <2>1. Exit(s) \/ pc'[s] = "nuke_volumes"
    BY <1>9 DEF NukeVolume, Raise
  <2> QED BY <1>9, <1>r, <2>1 DEF Enters
<1>10. CASE DeProvisioningRaises(s)
  BY <1>10, <1>r DEF DeProvisioningRaises, Raise
<1>11. CASE CleanStorageRaises(s)
  BY <1>11, <1>r DEF CleanStorageRaises
<1> QED BY <1>1, <1>2, <1>3, <1>4, <1>5, <1>6, <1>7, <1>8, <1>9, <1>10, <1>11 DEF DeProvisioningStep

\* The labels that the steps of start and stop lead to
LEMMA CloudCommandsEnter ==
    ASSUME Typed, NEW s \in Sessions, CloudCommandsStep(s)
    PROVE  Enters(s)
<1> USE DEF cloudVars, fileVars, loopVars, nukeVars
<1>t. pc \in [Sessions -> Labels]
  BY DEF Typed, SessionTypeOK
<1>r. ASSUME Exit(s) PROVE Enters(s)
  BY <1>r, ExitPc DEF Enters
<1>1. CASE StartStopDone(s)
  BY <1>1, <1>r DEF StartStopDone
<1>2. CASE StartEnv(s)
  <2>1. Exit(s) \/ pc'[s] = "start"
    BY <1>2, <1>t DEF StartEnv, Goto, Raise
  <2> QED BY <1>2, <1>r, <2>1 DEF Enters
<1>3. CASE StartBackends(s) \/ StopCollect(s) \/ StartSave(s)
  <2>1. Exit(s) \/ pc'[s] \in {"start_env", "stop_env", "start_backends"}
    BY <1>3, <1>t DEF StartBackends, StopCollect, StartSave, Goto, Raise
  <2> QED BY <1>r, <2>1 DEF Enters
<1>4. CASE StopEnv(s)
  <2>1. Exit(s) \/ pc'[s] \in {"stop_env", "stop_save"}
    BY <1>4, <1>t DEF StopEnv, Goto, Raise
  <2> QED BY <1>4, <1>r, <2>1 DEF Enters
<1>5. CASE StopSave(s)
  <2>1. pc'[s] = "stop"
    BY <1>5, <1>t DEF StopSave, Goto
  <2> QED BY <1>5, <2>1 DEF Enters
<1>6. ASSUME NEW m \in Members, Starts(s, m) \/ StartRaises(s, m) PROVE Enters(s)
  <2>1. pc'[s] = "start"
    BY <1>6 DEF Starts, StartNode, StartNodePending, StartRaises
  <2> QED BY <1>6, <2>1 DEF Enters
<1>7. ASSUME NEW m \in Members, StopNode(s, m) \/ StopRaises(s, m) PROVE Enters(s)
  <2>1. pc'[s] = "stop"
    BY <1>7 DEF StopNode, StopRaises
  <2> QED BY <1>7, <2>1 DEF Enters
<1>8. CASE CloudCommandsRaises(s)
  BY <1>8, <1>r DEF CloudCommandsRaises, Raise
<1> QED BY <1>1, <1>2, <1>3, <1>4, <1>5, <1>6, <1>7, <1>8 DEF CloudCommandsStep, Starts

\* Enters lists all the ways to the labels that loop over instances.
LEMMA ActEnters ==
    ASSUME Typed, NEW s \in Sessions, Act(s)
    PROVE  Enters(s)
<1> USE DEF fileVars, loopVars, nukeVars
<1>t. pc \in [Sessions -> Labels]
  BY DEF Typed, SessionTypeOK
<1>1. CASE Crash(s)
  BY <1>1, ExitPc DEF Crash, Raise, Enters
<1>2. ASSUME NEW step \in Steps, NEW force, Provision(s, step, force) PROVE Enters(s)
  <2>1. pc'[s] = FirstLabel(step) /\ pc[s] = "idle" /\ ix'[s] = ix[s] /\ UNCHANGED cloudVars
    BY <1>2, <1>t DEF Provision, Goto
  <2>2. FirstLabel(step) \in {"configure", "uninstall", "allocate", "test", "make", "install"}
    BY DEF FirstLabel, Steps
  <2> QED BY <2>1, <2>2 DEF Enters
<1>3. CASE Deprovision(s) \/ Start(s) \/ Stop(s)
  <2>1. pc'[s] \in {"clean", "start_env", "stop_env"}
    BY <1>3, <1>t DEF Deprovision, Start, Stop, Goto
  <2> QED BY <2>1 DEF Enters
<1>4. ASSUME NEW e \in Envs, Nuke(s, e), "nuke" \in Commands PROVE Enters(s)
  <2>1. pc'[s] = "nuke"
    BY <1>4, <1>t DEF Nuke, Goto
  <2> QED BY <1>4, <2>1 DEF Enters
<1> QED BY <1>1, <1>2, <1>3, <1>4, ProvisioningEnters, DeProvisioningEnters, CloudCommandsEnter
        DEF Act, Begin, Step

(***************************************************************************)
(* Instances on record                                                     *)
(***************************************************************************)
HasEnv(o, e) == \E k \in 1..Len(o.envs) : o.envs[k] = e

\* An instance that an object records was launched, is not faked, and belongs
\* to one of the environments of the object.
KnownIn(states, c, o) ==
    \A m \in Members : o.members[m].id \in 1..MaxLaunch =>
        /\ states[<<c, m, o.members[m].id>>] # "none"
        /\ m \notin SelfManaged
        /\ HasEnv(o, MemberEnv[m])

KnownHeld(s) ==
    /\ pc[s] \in Holding => KnownIn(inst, ClusterOf[s], mem[s])
    /\ pc[s] \in {"alloc_storage", "launch"} => HasEnv(mem[s], ix[s])

KnownInv ==
    /\ \A c \in Clusters : KnownIn(inst, c, file[c])
    /\ \A s \in Sessions : KnownHeld(s)

\* An instance that was launched is never unknown to the cloud again.
LEMMA NoneStays ==
    ASSUME Typed, NEW s \in Sessions, Act(s)
    PROVE  \A i \in Ids : inst[i] # "none" => inst'[i] # "none"
BY ActInst DEF InstStep

\* KnownIn holds of an object that records no other instance and has all the
\* environments of one of which it holds.
LEMMA KnownKeeps ==
    ASSUME NEW I, NEW J, NEW c \in Clusters, NEW o, NEW p, KnownIn(I, c, o),
           \A i \in Ids : I[i] # "none" => J[i] # "none",
           \A m \in Members : p.members[m].id \in 1..MaxLaunch => p.members[m].id = o.members[m].id,
           \A e : HasEnv(o, e) => HasEnv(p, e)
    PROVE  KnownIn(J, c, p)
<1> SUFFICES ASSUME NEW m \in Members, p.members[m].id \in 1..MaxLaunch
             PROVE  /\ J[<<c, m, p.members[m].id>>] # "none"
                    /\ m \notin SelfManaged
                    /\ HasEnv(p, MemberEnv[m])
  BY DEF KnownIn
<1>1. o.members[m].id \in 1..MaxLaunch /\ p.members[m].id = o.members[m].id
  OBVIOUS
<1>2. <<c, m, p.members[m].id>> \in Ids
  BY DEF Ids
<1> QED BY <1>1, <1>2 DEF KnownIn

\* KnownIn depends on the members and the environments of an object.
LEMMA SameKnown ==
    ASSUME NEW I, NEW J, NEW c \in Clusters, NEW o, NEW p, KnownIn(I, c, o),
           \A i \in Ids : I[i] # "none" => J[i] # "none", SameMembers(p, o)
    PROVE  KnownIn(J, c, p)
<1>1. p.members = o.members /\ p.envs = o.envs
  BY DEF SameMembers
<1>2. \A m \in Members : p.members[m].id \in 1..MaxLaunch => p.members[m].id = o.members[m].id
  BY <1>1
<1>3. \A e : HasEnv(o, e) => HasEnv(p, e)
  BY <1>1 DEF HasEnv
<1> QED BY <1>2, <1>3, KnownKeeps

\* A step keeps what the file and the object of its session record known:
\* launch records what it launched, in the environment it appended.
LEMMA KnownAct ==
    ASSUME Typed, NEW s \in Sessions, SessionInv(s), KnownInv, Act(s)
    PROVE  KnownIn(inst', ClusterOf[s], file'[ClusterOf[s]]) /\ KnownHeld(s)'
<1> DEFINE c == ClusterOf[s]
<1>t. /\ pc \in [Sessions -> Labels] /\ mem \in [Sessions -> ClusterObjs] /\ ix \in [Sessions -> Nat]
      /\ mem[s] \in ClusterObjs /\ c \in Clusters /\ file[c] \in ClusterObjs
      /\ inst \in [Ids -> InstanceStates]
  BY DEF Typed, SessionTypeOK, DiskFileTypeOK, CloudTypeOK
<1>k. /\ KnownIn(inst, c, file[c])
      /\ pc[s] \in Holding => KnownIn(inst, c, mem[s])
      /\ pc[s] \in {"alloc_storage", "launch"} => HasEnv(mem[s], ix[s])
  BY <1>t DEF KnownInv, KnownHeld
<1>n. \A i \in Ids : inst[i] # "none" => inst'[i] # "none"
  BY NoneStays
<1>e. Enters(s) /\ MemStep(s) /\ FileStep(s)
  BY ActEnters, ActMem
<1>l. pc[s] \in Holding /\ pc'[s] = "launch" /\ AllocateStorage(s) => pc[s] = "alloc_storage" /\ ix' = ix
  BY DEF AllocateStorage
<1> HIDE DEF c
<1>c. ASSUME AllocateCollect(s) PROVE KnownIn(inst', c, AfterLaunch(s)) /\ pc[s] = "launch"
  <2>1. pc[s] = "launch" /\ pc[s] \in Holding
    BY <1>c DEF AllocateCollect, Holding
  <2>2. /\ \A m \in Members : AfterLaunch(s).members[m].id \in 1..MaxLaunch
                 => AfterLaunch(s).members[m].id = mem[s].members[m].id
        /\ AfterLaunch(s).envs = mem[s].envs
    BY <1>t DEF AfterLaunch, ClusterObjs, SelfId
  <2>3. \A e : HasEnv(mem[s], e) => HasEnv(AfterLaunch(s), e)
    BY <2>2 DEF HasEnv
  <2>4. KnownIn(inst, c, mem[s])
    BY <1>k, <2>1
  <2>5. KnownIn(inst', c, AfterLaunch(s))
    BY <1>t, <1>n, <2>2, <2>3, <2>4, KnownKeeps, ZenonT(60)
  <2> QED BY <2>1, <2>5
<1>1. KnownIn(inst', c, file'[c])
  <2>1. CASE file' = file
    BY <2>1, <1>t, <1>k, <1>n, SameKnown DEF SameMembers
  <2>2. CASE file'[c] = NewCluster
    BY <2>2 DEF KnownIn, NewCluster, NoMember
  <2>3. CASE pc[s] \in Holding /\ SameMembers(file'[c], mem[s])
    BY <2>3, <1>t, <1>k, <1>n, SameKnown
  <2>4. CASE AllocateCollect(s)
    <3>1. file' = file \/ SaveCluster(s, AfterLaunch(s))
      BY <2>4 DEF AllocateCollect, fileVars, Typed, SessionTypeOK, Outcomes
    <3> QED BY <2>1, <2>4, <3>1, <1>c, SaveFile DEF c
  <2> QED BY <1>e, <2>1, <2>2, <2>3, <2>4 DEF FileStep, c
<1>2. ASSUME pc'[s] \in Holding PROVE KnownIn(inst', c, mem'[s])
  <2>1. CASE pc[s] \in Holding /\ SameMembers(mem'[s], mem[s])
    BY <2>1, <1>t, <1>k, <1>n, SameKnown
  <2>2. CASE mem'[s] = file[c]
    BY <2>2, <1>t, <1>k, <1>n, SameKnown DEF SameMembers
  <2>3. CASE AllocateEnv(s)
    <3>1. /\ mem'[s].members = mem[s].members /\ mem'[s].envs = Append(mem[s].envs, ix[s])
          /\ pc[s] \in Holding /\ mem[s].envs \in Seq(Envs)
      BY <2>3, <1>t DEF AllocateEnv, ClusterObjs, Holding
    <3>2. \A e : HasEnv(mem[s], e) => HasEnv(mem'[s], e)
      BY <3>1 DEF HasEnv
    <3> QED BY <3>1, <3>2, <1>t, <1>k, <1>n, KnownKeeps
  <2>4. CASE AllocateCollect(s)
    <3>1. mem'[s] = AfterLaunch(s)
      <4>1. bad[s] = "ok"
        BY <2>4, <1>2, ExitMem DEF AllocateCollect, Typed, SessionTypeOK, Outcomes
      <4> QED BY <2>4, <4>1, <1>t DEF AllocateCollect
    <3> QED BY <2>4, <3>1, <1>c
  <2>5. ASSUME NEW m \in Members, LaunchInstance(s, m) PROVE KnownIn(inst', c, mem'[s])
    <3>1. PICK n \in 1..MaxLaunch, r \in StorageResults(m), ip \in LaunchIps :
             /\ inst' = [inst EXCEPT ![<<c, m, n>>] = "running"]
             /\ mem' = [mem EXCEPT ![s].members[m] = [id |-> n, ip |-> ip, vol |-> r.vol]]
      BY <2>5 DEF LaunchInstance, RunInstance, c
    <3>2. /\ mem'[s].envs = mem[s].envs
          /\ mem'[s].members[m].id = n
          /\ \A k \in Members \ {m} : mem'[s].members[k] = mem[s].members[k]
      BY <3>1, <1>t DEF ClusterObjs
    <3>3. pc[s] = "launch" /\ pc[s] \in Holding /\ m \in todo[s]
      BY <2>5 DEF LaunchInstance, Holding
    <3>4. MemberEnv[m] = ix[s] /\ m \notin SelfManaged
      BY <3>3 DEF SessionInv, Launching
    <3>5. <<c, m, n>> \in Ids /\ inst'[<<c, m, n>>] = "running"
      BY <3>1, <1>t DEF Ids
    <3>6. \A e : HasEnv(mem'[s], e) <=> HasEnv(mem[s], e)
      BY <3>2 DEF HasEnv
    <3> SUFFICES ASSUME NEW k \in Members, mem'[s].members[k].id \in 1..MaxLaunch
                 PROVE  /\ inst'[<<c, k, mem'[s].members[k].id>>] # "none"
                        /\ k \notin SelfManaged
                        /\ HasEnv(mem'[s], MemberEnv[k])
      BY DEF KnownIn
    <3>7. CASE k = m
      BY <1>k, <3>2, <3>3, <3>4, <3>5, <3>6, <3>7
    <3>8. CASE k # m
      <4>1. <<c, k, mem[s].members[k].id>> \in Ids /\ mem'[s].members[k] = mem[s].members[k]
        BY <3>2, <3>8, <1>t DEF Ids
      <4>2. KnownIn(inst, c, mem[s])
        BY <1>k, <3>3
      <4> QED BY <4>1, <4>2, <3>6, <1>n DEF KnownIn
    <3> QED BY <3>7, <3>8
  <2>6. ASSUME NEW m \in Members, Starts(s, m) PROVE KnownIn(inst', c, mem'[s])
    <3>2. /\ mem'[s].envs = mem[s].envs /\ pc[s] \in Holding
          /\ \A k \in Members : mem'[s].members[k].id = mem[s].members[k].id
      BY <2>6, StartsMembers DEF Holding
    <3>3. \A e : HasEnv(mem[s], e) => HasEnv(mem'[s], e)
      BY <3>2 DEF HasEnv
    <3>4. KnownIn(inst, c, mem[s]) /\ c \in Clusters
      BY <3>2, <1>k, <1>t
    <3>5. \A k \in Members : mem'[s].members[k].id \in 1..MaxLaunch
              => mem'[s].members[k].id = mem[s].members[k].id
      BY <3>2
    <3> QED BY ONLY <3>3, <3>4, <3>5, <1>n, KnownKeeps
  <2>7. CASE pc[s] = "launch" /\ mem'[s] = mem[s]
    BY <2>7, <2>1 DEF SameMembers, Holding
  <2> QED BY <1>e, <1>2, <2>1, <2>2, <2>3, <2>4, <2>5, <2>6, <2>7 DEF MemStep, c
<1>3. ASSUME pc'[s] = "alloc_storage" PROVE HasEnv(mem'[s], ix'[s])
  <2>1. AllocateEnv(s)
    BY <1>e, <1>3 DEF Enters
  <2>2. mem'[s].envs = Append(mem[s].envs, ix[s]) /\ ix' = ix /\ mem[s].envs \in Seq(Envs) /\ ix[s] \in Envs
    BY <2>1, <1>t DEF AllocateEnv, ClusterObjs, loopVars
  <2>3. mem'[s].envs[Len(mem[s].envs) + 1] = ix[s] /\ Len(mem'[s].envs) = Len(mem[s].envs) + 1
        /\ Len(mem[s].envs) \in Nat
    BY <2>2
  <2>4. ix'[s] = ix[s]
    BY <2>2
  <2> QED BY <2>3, <2>4 DEF HasEnv
<1>4. ASSUME pc'[s] = "launch" PROVE HasEnv(mem'[s], ix'[s])
  <2>1. CASE AllocateStorage(s)
    <3>1. pc[s] = "alloc_storage" /\ ix' = ix /\ mem'[s].envs = mem[s].envs
      BY <2>1, <1>t DEF AllocateStorage, ClusterObjs
    <3> QED BY <3>1, <1>k DEF HasEnv
  <2>2. ASSUME NEW m \in Members,
               LaunchInstance(s, m) \/ LaunchReturnsNone(s, m) \/ LaunchRaises(s, m)
        PROVE  HasEnv(mem'[s], ix'[s])
    <3>1. pc[s] = "launch" /\ ix' = ix
      BY <2>2 DEF LaunchInstance, LaunchReturnsNone, LaunchRaises
    <3>2. mem'[s].envs = mem[s].envs
      <4>1. CASE LaunchInstance(s, m)
        <5>1. PICK n \in 1..MaxLaunch, r \in StorageResults(m), ip \in LaunchIps :
                 mem' = [mem EXCEPT ![s].members[m] = [id |-> n, ip |-> ip, vol |-> r.vol]]
          BY <4>1 DEF LaunchInstance
        <5> QED BY <5>1, <1>t DEF ClusterObjs
      <4> QED BY <2>2, <4>1 DEF LaunchReturnsNone, LaunchRaises
    <3> QED BY <3>1, <3>2, <1>k DEF HasEnv
  <2> QED BY <1>e, <1>4, <2>1, <2>2 DEF Enters
<1> QED BY <1>1, <1>2, <1>3, <1>4 DEF KnownHeld, c

\* KnownInv is inductive, given MirrorInv.
LEMMA KnownStep == Typed /\ MirrorInv /\ KnownInv /\ [Next]_vars => KnownInv'
<1> SUFFICES ASSUME Typed, MirrorInv, KnownInv, [Next]_vars PROVE KnownInv'
  OBVIOUS
<1>1. ASSUME NEW s \in Sessions, Act(s) PROVE KnownInv'
  <2>1. OthersKeep(s) /\ SessionInv(s)
    BY <1>1, ActKeeps DEF MirrorInv
  <2>2. KnownIn(inst', ClusterOf[s], file'[ClusterOf[s]]) /\ KnownHeld(s)'
    BY <1>1, <2>1, KnownAct
  <2>3. \A i \in Ids : inst[i] # "none" => inst'[i] # "none"
    BY <1>1, NoneStays
  <2>4. ASSUME NEW c \in Clusters PROVE KnownIn(inst', c, file'[c])
    <3>1. CASE c # ClusterOf[s]
      <4>1. file'[c] = file[c] /\ KnownIn(inst, c, file[c])
        BY <3>1, <2>1 DEF OthersKeep, KnownInv
      <4>2. SameMembers(file'[c], file[c])
        BY <4>1 DEF SameMembers
      <4> QED BY <4>1, <4>2, <2>3, SameKnown
    <3> QED BY <3>1, <2>2
  <2>5. ASSUME NEW t \in Sessions PROVE KnownHeld(t)'
    <3>1. CASE t # s
      <4>1. /\ pc'[t] = pc[t] /\ mem'[t] = mem[t] /\ ix'[t] = ix[t] /\ ClusterOf[t] \in Clusters
            /\ KnownHeld(t)
        BY <3>1, <2>1 DEF OthersKeep, KnownInv
      <4>2. pc[t] \in Holding => KnownIn(inst', ClusterOf[t], mem'[t])
        BY <4>1, <2>3, SameKnown DEF KnownHeld, SameMembers
      <4> QED BY <4>1, <4>2 DEF KnownHeld
    <3> QED BY <3>1, <2>2
  <2> QED BY <2>4, <2>5 DEF KnownInv
<1>2. CASE UNCHANGED vars
  BY <1>2 DEF vars, cloudVars, fileVars, loopVars, KnownInv, KnownHeld, KnownIn, HasEnv
<1> QED BY <1>1, <1>2 DEF Next, Act

\* KnownInv holds throughout when each cluster has one user.
LEMMA KnownAlways == OneUser /\ Spec => []KnownInv
<1>1. Init => KnownInv
  BY DEF Init, FileInit, KnownInv, KnownHeld, KnownIn, NewCluster, NoMember, Holding
<1> QED BY <1>1, KnownStep, MirrorAlways, TypedInvariant, PTL DEF Spec

(***************************************************************************)
(* NeverForgetRunning                                                      *)
(*                                                                         *)
(* allocate asks is_running once for each cloud, and nuke removes the file *)
(* when it is done with one region: with several regions in a cloud, or    *)
(* nuke and several regions at all, running instances are forgotten.       *)
(***************************************************************************)
OneRegionPerCloud == \A e, f \in Envs : CloudOf[e] = CloudOf[f] => RegionOf[e] = RegionOf[f]
NukesAll == "nuke" \in Commands => \A e, f \in Envs : RegionOf[e] = RegionOf[f]

\* No instance of a member runs.
Quiet(c, m) == \A n \in 1..MaxLaunch : inst[<<c, m, n>>] # "running"

\* configure has asked for the environments before that of the loop.
Configured(s) ==
    pc[s] = "configure" =>
        \A m \in Members : MemberEnv[m] < ix[s] => Quiet(ClusterOf[s], m)

\* allocate has asked for the clouds so far: what it is going to launch there
\* does not run, nor does what it replaces.
Asked(s) == ProvisionedClouds(s) \cup (IF pc[s] = "alloc_env" THEN {} ELSE {CloudOf[ix[s]]})

Ahead(s, m) ==
    \/ MemberEnv[m] > ix[s]
    \/ MemberEnv[m] = ix[s] /\ (pc[s] = "launch" => m \in todo[s])

Allocating(s) ==
    pc[s] \in {"alloc_env", "alloc_storage", "launch"} =>
        \A m \in Members : CloudOf[MemberEnv[m]] \in Asked(s) =>
            /\ Ahead(s, m) => Quiet(ClusterOf[s], m)
            /\ pc[s] = "launch" /\ MemberEnv[m] = ix[s] /\ InFile(ClusterOf[s], m)
                  => inst[FileId(ClusterOf[s], m)] # "running"

\* clean has terminated the instances of the environments before that of the
\* loop, and of this one those that have been called for, unless it raises.
Cleaned(s) ==
    /\ pc[s] \in {"clean_env", "terminate"} =>
         \A k \in 1..Len(mem[s].envs), m \in Members :
            k < ix[s] /\ MemberEnv[m] = mem[s].envs[k] /\ IsEc2(mem[s], m)
               => inst[Id(s, m)] # "running"
    /\ pc[s] = "terminate" =>
         /\ ix[s] \in 1..Len(mem[s].envs)
         /\ bad[s] # "raise" => \A m \in Members :
               MemberEnv[m] = mem[s].envs[ix[s]] /\ IsEc2(mem[s], m) /\ m \notin todo[s]
                  => inst[Id(s, m)] # "running"

\* nuke has found every instance that runs.
Nuked(s) ==
    /\ pc[s] \in {"nuke", "nuke_instances", "nuke_volumes"} => "nuke" \in Commands
    /\ pc[s] = "nuke" => ix[s] \in Envs
    /\ pc[s] = "nuke_instances" => \A m \in Members, n \in 1..MaxLaunch :
          inst[<<ClusterOf[s], m, n>>] = "running" => <<ClusterOf[s], m, n>> \in ids[s]
    /\ pc[s] = "nuke_volumes" => \A m \in Members : Quiet(ClusterOf[s], m)

Checked(s) == Configured(s) /\ Allocating(s) /\ Cleaned(s)

ForgetInv == OneRegionPerCloud /\ \A s \in Sessions : Checked(s)

NukeInv == NukesAll /\ \A s \in Sessions : Nuked(s)

\* Only a launch and a start make an instance run.
LEMMA RunningFrom ==
    ASSUME Typed, NEW s \in Sessions, Act(s), NEW i \in Ids, inst'[i] = "running",
           inst[i] # "running"
    PROVE  i[1] = ClusterOf[s] /\ i[2] \in todo[s] /\ pc[s] \in {"launch", "start"}
<1>1. InstStep(s, i)
  BY ActInst
<1>2. \A m : Id(s, m)[1] = ClusterOf[s]
  BY DEF Id
<1> QED BY <1>1, <1>2 DEF InstStep

\* What is_running found not to run
LEMMA NotRunning ==
    ASSUME NEW c \in Clusters, NEW e \in Envs, ~IsRunning(c, e), NEW m \in Members,
           RegionOf[MemberEnv[m]] = RegionOf[e]
    PROVE  Quiet(c, m)
<1> SUFFICES ASSUME NEW n \in 1..MaxLaunch PROVE inst[<<c, m, n>>] # "running"
  BY DEF Quiet
<1>1. <<c, m, n>> \in Ids /\ <<c, m, n>>[1] = c /\ <<c, m, n>>[2] = m
  BY DEF Ids
<1>2. <<c, c>> \in NamePrefix
  OBVIOUS
<1>3. <<c, m, n>> \in TaggedIn(c, e)
  BY <1>1, <1>2 DEF TaggedIn
<1> QED BY <1>3 DEF IsRunning, DescribeInstancesByTag

\* A step of another session does not disturb what a session has checked.
LEMMA OthersChecked ==
    ASSUME Typed, NEW s \in Sessions, Act(s), NEW t \in Sessions, ClusterOf[t] # ClusterOf[s],
           Checked(t)
    PROVE  Checked(t)'
<1> DEFINE c == ClusterOf[t]
<1>0. c \in Clusters /\ t # s
  OBVIOUS
<1>1. /\ pc'[t] = pc[t] /\ mem'[t] = mem[t] /\ ix'[t] = ix[t] /\ todo'[t] = todo[t]
      /\ bad'[t] = bad[t] /\ ids'[t] = ids[t] /\ file'[c] = file[c] /\ fileExists'[c] = fileExists[c]
  BY <1>0, ActKeeps DEF OthersKeep
<1>2. \A m \in Members, n \in 1..MaxLaunch :
         inst[<<c, m, n>>] # "running" => inst'[<<c, m, n>>] # "running"
  <2> SUFFICES ASSUME NEW m \in Members, NEW n \in 1..MaxLaunch, inst[<<c, m, n>>] # "running",
                      inst'[<<c, m, n>>] = "running"
               PROVE  FALSE
    OBVIOUS
  <2>1. <<c, m, n>> \in Ids /\ <<c, m, n>>[1] = c
    BY <1>0 DEF Ids
  <2> QED BY <2>1, RunningFrom
<1>3. \A m \in Members : Quiet(c, m) => Quiet(c, m)'
  BY <1>2 DEF Quiet
<1> HIDE DEF c
<1>4. Configured(t)'
  BY <1>1, <1>3 DEF Checked, Configured, c
<1>5. Allocating(t)'
  <2>1. Asked(t)' = Asked(t)
    BY <1>1 DEF Asked, ProvisionedClouds
  <2>2. \A m \in Members : Ahead(t, m)' = Ahead(t, m)
    BY <1>1 DEF Ahead
  <2>3. \A m \in Members : /\ InFile(c, m)' = InFile(c, m)
                           /\ FileId(c, m)' = FileId(c, m)
                           /\ InFile(c, m) => FileId(c, m) = <<c, m, file[c].members[m].id>>
                                              /\ file[c].members[m].id \in 1..MaxLaunch
    BY <1>1 DEF InFile, FileId, IsEc2
  <2>4. \A m \in Members : InFile(c, m) /\ inst[FileId(c, m)] # "running"
                             => inst'[FileId(c, m)'] # "running"
    BY <2>3, <1>2
  <2>5. Allocating(t)
    BY DEF Checked
  <2> SUFFICES ASSUME pc'[t] \in {"alloc_env", "alloc_storage", "launch"}, NEW m \in Members,
                      CloudOf[MemberEnv[m]] \in Asked(t)'
               PROVE  /\ Ahead(t, m)' => Quiet(ClusterOf[t], m)'
                      /\ pc'[t] = "launch" /\ MemberEnv[m] = ix'[t] /\ InFile(ClusterOf[t], m)'
                            => inst'[FileId(ClusterOf[t], m)'] # "running"
    BY DEF Allocating
  <2>6. /\ Ahead(t, m) => Quiet(c, m)
        /\ pc[t] = "launch" /\ MemberEnv[m] = ix[t] /\ InFile(c, m) => inst[FileId(c, m)] # "running"
    BY <2>1, <2>5, <1>1 DEF Allocating, c
  <2> QED BY <2>2, <2>3, <2>4, <2>6, <1>1, <1>3 DEF c
<1>6. Cleaned(t)'
  <2>1. \A m \in Members : IsEc2(mem[t], m) /\ inst[Id(t, m)] # "running" => inst'[Id(t, m)] # "running"
    BY <1>2 DEF IsEc2, Id, c
  <2>2. \A m \in Members : Id(t, m)' = Id(t, m) /\ IsEc2(mem[t], m)' = IsEc2(mem[t], m)
    BY <1>1 DEF IsEc2, Id
  <2>3. Cleaned(t)
    BY DEF Checked
  <2> QED BY <2>1, <2>2, <2>3, <1>1 DEF Cleaned
<1> QED BY <1>4, <1>5, <1>6 DEF Checked

\* configure goes on to the next environment when nothing runs in this one.
LEMMA ConfiguredAct ==
    ASSUME Typed, NEW s \in Sessions, SessionInv(s), Checked(s), Act(s)
    PROVE  Configured(s)'
<1> SUFFICES ASSUME pc'[s] = "configure", NEW m \in Members, MemberEnv[m] < ix'[s]
             PROVE  Quiet(ClusterOf[s], m)'
  BY DEF Configured
<1>t. ix \in [Sessions -> Nat] /\ ClusterOf[s] \in Clusters /\ MemberEnv[m] \in Envs
  BY DEF Typed, SessionTypeOK
<1>1. CASE ConfigureCheck(s)
  <2>1. pc[s] = "configure" /\ ix'[s] = ix[s] + 1 /\ inst' = inst /\ ix[s] \in Envs
        /\ ~IsRunning(ClusterOf[s], ix[s])
    BY <1>1, <1>t DEF ConfigureCheck, NextEnv, cloudVars
  <2>2. CASE MemberEnv[m] < ix[s]
    BY <2>1, <2>2 DEF Checked, Configured, Quiet
  <2>3. CASE ~(MemberEnv[m] < ix[s])
    <3>1. MemberEnv[m] = ix[s]
      BY <2>1, <2>3, <1>t DEF Envs
    <3> QED BY <2>1, <3>1, <1>t, NotRunning DEF Quiet
  <2> QED BY <2>2, <2>3
<1>2. CASE pc[s] = "idle" /\ ix'[s] = ix[s]
  <2>1. ix[s] = 1
    BY <1>2 DEF SessionInv, FromFirst
  <2> QED BY <1>2, <2>1, <1>t DEF Envs
<1> QED BY <1>1, <1>2, ActEnters DEF Enters

\* nuke removes from its list what it terminated, and waits for the end of it.
LEMMA NukedAct ==
    ASSUME Typed, NukesAll, NEW s \in Sessions, Nuked(s), Act(s)
    PROVE  Nuked(s)'
<1> DEFINE c == ClusterOf[s]
<1>t. /\ ix \in [Sessions -> Nat] /\ c \in Clusters /\ ids \in [Sessions -> SUBSET Ids]
      /\ inst \in [Ids -> InstanceStates]
  BY DEF Typed, SessionTypeOK, CloudTypeOK
<1>n. Nuked(s)
  OBVIOUS
<1>e. Enters(s)
  BY ActEnters
<1>1. ASSUME pc'[s] = "nuke" PROVE ix'[s] \in Envs /\ "nuke" \in Commands
  BY <1>1, <1>e, <1>t DEF Enters, Nuke
<1>2. ASSUME pc'[s] = "nuke_instances"
      PROVE  /\ "nuke" \in Commands
             /\ \A m \in Members, n \in 1..MaxLaunch :
                   inst'[<<c, m, n>>] = "running" => <<c, m, n>> \in ids'[s]
  <2>1. CASE NukeDescribe(s)
    <3>1. /\ pc[s] = "nuke" /\ inst' = inst /\ ids'[s] = DescribeInstancesByTag(c, ix[s])
      BY <2>1, <1>t DEF NukeDescribe, cloudVars
    <3>2. "nuke" \in Commands /\ ix[s] \in Envs
      BY <3>1, <1>n DEF Nuked
    <3>3. ASSUME NEW m \in Members, NEW n \in 1..MaxLaunch, inst'[<<c, m, n>>] = "running"
          PROVE  <<c, m, n>> \in ids'[s]
      <4>1. <<c, m, n>> \in Ids /\ <<c, m, n>>[1] = c /\ <<c, m, n>>[2] = m /\ MemberEnv[m] \in Envs
        BY <1>t DEF Ids
      <4>2. RegionOf[MemberEnv[m]] = RegionOf[ix[s]]
        BY <3>2, <4>1 DEF NukesAll
      <4>3. <<c, m, n>> \in TaggedIn(c, ix[s])
        BY <4>1, <4>2, <1>t DEF TaggedIn
      <4> QED BY <3>1, <3>3, <4>3 DEF DescribeInstancesByTag
    <3> QED BY <3>2, <3>3
  <2>2. ASSUME NEW i \in Ids, NukeInstance(s, i)
        PROVE  /\ "nuke" \in Commands
               /\ \A m \in Members, n \in 1..MaxLaunch :
                   inst'[<<c, m, n>>] = "running" => <<c, m, n>> \in ids'[s]
    <3>1. /\ pc[s] = "nuke_instances" /\ inst' = [inst EXCEPT ![i] = "terminated"]
          /\ ids'[s] = ids[s] \ {i}
      BY <2>2, <1>t DEF NukeInstance, TerminateInstance
    <3>2. \A m \in Members, n \in 1..MaxLaunch : <<c, m, n>> \in Ids
      BY <1>t DEF Ids
    <3> QED BY <3>1, <3>2, <1>n, <1>t DEF Nuked
  <2> QED BY <1>e, <1>2, <2>1, <2>2 DEF Enters
<1>3. ASSUME pc'[s] = "nuke_volumes"
      PROVE  "nuke" \in Commands /\ \A m \in Members : Quiet(c, m)'
  <2>1. CASE NukeWait(s)
    <3>1. pc[s] = "nuke_instances" /\ inst' = inst /\ ids[s] = {}
      BY <2>1 DEF NukeWait, cloudVars
    <3> QED BY <3>1, <1>n DEF Nuked, Quiet
  <2>2. ASSUME NEW i \in Ids, NukeVolume(s, i)
        PROVE  "nuke" \in Commands /\ \A m \in Members : Quiet(c, m)'
    <3>1. pc[s] = "nuke_volumes" /\ inst' = inst
      BY <2>2 DEF NukeVolume, Raise, cloudVars
    <3> QED BY <3>1, <1>n DEF Nuked, Quiet
  <2> QED BY <1>e, <1>3, <2>1, <2>2 DEF Enters
<1> QED BY <1>1, <1>2, <1>3 DEF Nuked

\* clean terminates every instance on record of an environment before it goes
\* on to the next, or it raises.
LEMMA CleanedAct ==
    ASSUME Typed, KnownInv, NEW s \in Sessions, SessionInv(s), Checked(s), Act(s)
    PROVE  Cleaned(s)'
<1>t. /\ ix \in [Sessions -> Nat] /\ ClusterOf[s] \in Clusters /\ mem[s] \in ClusterObjs
      /\ inst \in [Ids -> InstanceStates] /\ bad \in [Sessions -> Outcomes]
      /\ todo \in [Sessions -> SUBSET Members] /\ pc \in [Sessions -> Labels]
  BY DEF Typed, SessionTypeOK, CloudTypeOK
<1>c. Cleaned(s)
  BY DEF Checked
<1>e. Enters(s)
  BY ActEnters
<1>d. \A m \in Members : IsEc2(mem[s], m) => Id(s, m) \in Ids
  BY <1>t DEF IsEc2, Id, Ids
<1>l. Len(mem[s].envs) \in Nat
  BY <1>t DEF ClusterObjs
<1>1. CASE CleanSave(s)
  <2>1. pc[s] = "clean" /\ pc'[s] = "clean_env" /\ ix' = ix
    BY <1>1, <1>t DEF CleanSave, Goto, loopVars
  <2>2. ix'[s] = 1
    BY <2>1 DEF SessionInv, FromFirst
  <2> QED BY <2>1, <2>2 DEF Cleaned
<1>2. CASE CleanStorage(s) /\ pc'[s] = "clean_env"
  <2>1. /\ pc[s] = "terminate" /\ todo[s] = {} /\ bad[s] # "raise" /\ ix'[s] = ix[s] + 1
        /\ UNCHANGED <<inst, mem>>
    <3>1. ~Raise(s)
      BY <1>2, ExitPc DEF Raise
    <3> QED BY <1>2, <1>t, <3>1 DEF CleanStorage, NextEnv
  <2>2. \A m \in Members : Id(s, m)' = Id(s, m) /\ IsEc2(mem[s], m)' = IsEc2(mem[s], m)
    BY <2>1 DEF IsEc2, Id
  <2>3. ASSUME NEW k \in 1..Len(mem[s].envs), NEW m \in Members, k < ix[s] + 1,
               MemberEnv[m] = mem[s].envs[k], IsEc2(mem[s], m)
        PROVE  inst[Id(s, m)] # "running"
    <3>1. CASE k < ix[s]
      BY <2>1, <2>3, <3>1, <1>c DEF Cleaned
    <3>2. CASE k = ix[s]
      BY <2>1, <2>3, <3>2, <1>c DEF Cleaned
    <3> QED BY <3>1, <3>2, <2>3, <1>t, <1>l
  <2> QED BY <1>2, <2>1, <2>2, <2>3 DEF Cleaned
<1>3. CASE CleanEnv(s)
  <2>1. /\ pc[s] = "clean_env" /\ pc'[s] = "terminate" /\ ix' = ix /\ inst' = inst /\ mem' = mem
        /\ todo'[s] = NodesToTerminate(s) /\ ix[s] \in 1..Len(mem[s].envs)
    BY <1>3, <1>t DEF CleanEnv, Goto, StartCalls, cloudVars
  <2>2. \A m \in Members : Id(s, m)' = Id(s, m) /\ IsEc2(mem[s], m)' = IsEc2(mem[s], m)
    BY <2>1 DEF IsEc2, Id
  <2>3. KnownIn(inst, ClusterOf[s], mem[s])
    BY <2>1 DEF KnownInv, KnownHeld, Holding
  <2>4. ASSUME NEW m \in Members, MemberEnv[m] = mem[s].envs[ix[s]], IsEc2(mem[s], m)
        PROVE  m \in todo'[s]
    <3>0. mem[s].members[m].id \in 1..MaxLaunch
      BY <2>4 DEF IsEc2
    <3>2. mem[s].members[m].id # 0
      BY <3>0
    <3>1. m \notin SelfManaged
      BY <2>3, <3>0 DEF KnownIn
    <3> QED BY <2>1, <2>4, <3>1, <3>2 DEF NodesToTerminate, MembersOf, ThisEnv, Recorded
  <2> QED BY <2>1, <2>2, <2>4, <1>c DEF Cleaned
<1>4. ASSUME NEW m \in Members, TerminateNode(s, m) PROVE Cleaned(s)'
  <2>1. /\ pc[s] = "terminate" /\ pc' = pc /\ ix' = ix /\ mem' = mem
        /\ todo'[s] = todo[s] \ {m} /\ bad'[s] = bad[s] /\ m \in todo[s]
        /\ inst' = [inst EXCEPT ![Id(s, m)] = "terminated"]
    BY <1>4, <1>t DEF TerminateNode, TerminateInstance, CallDone
  <2>2. \A k \in Members : Id(s, k)' = Id(s, k) /\ IsEc2(mem[s], k)' = IsEc2(mem[s], k)
    BY <2>1 DEF IsEc2, Id
  <2>3. \A k \in Members : IsEc2(mem[s], k) /\ (inst[Id(s, k)] # "running" \/ k = m)
                              => inst'[Id(s, k)] # "running"
    BY <2>1, <1>d, <1>t
  <2> QED BY <2>1, <2>2, <2>3, <1>c DEF Cleaned
<1>5. ASSUME NEW m \in Members, TerminateRaises(s, m) PROVE Cleaned(s)'
  <2>1. /\ pc[s] = "terminate" /\ pc' = pc /\ ix' = ix /\ mem' = mem /\ bad'[s] = "raise"
        /\ inst' = inst \/ inst' = [inst EXCEPT ![Id(s, m)] = "terminated"]
    BY <1>5, <1>t DEF TerminateRaises, TerminateInstance, CallDone
  <2>2. \A k \in Members : Id(s, k)' = Id(s, k) /\ IsEc2(mem[s], k)' = IsEc2(mem[s], k)
    BY <2>1 DEF IsEc2, Id
  <2>3. \A k \in Members : IsEc2(mem[s], k) /\ inst[Id(s, k)] # "running"
                              => inst'[Id(s, k)] # "running"
    BY <2>1, <1>d, <1>t
  <2> QED BY <2>1, <2>2, <2>3, <1>c DEF Cleaned
<1>6. CASE pc'[s] \notin {"clean_env", "terminate"}
  BY <1>6 DEF Cleaned
<1> QED BY <1>e, <1>1, <1>2, <1>3, <1>4, <1>5, <1>6 DEF Enters

\* allocate launches in a cloud only after is_running was false there, and a
\* member at a time.
LEMMA AllocatingAct ==
    ASSUME Typed, KnownInv, OneRegionPerCloud, NEW s \in Sessions, SessionInv(s), Checked(s), Act(s)
    PROVE  Allocating(s)'
<1> DEFINE c == ClusterOf[s]
<1>t. /\ ix \in [Sessions -> Nat] /\ c \in Clusters /\ mem[s] \in ClusterObjs
      /\ inst \in [Ids -> InstanceStates] /\ pc \in [Sessions -> Labels]
      /\ todo \in [Sessions -> SUBSET Members]
  BY DEF Typed, SessionTypeOK, CloudTypeOK
<1>a. Allocating(s)
  BY DEF Checked
<1>e. Enters(s)
  BY ActEnters
<1> HIDE DEF c
<1>1. CASE AllocateLoad(s)
  <2>1. (pc[s] = "allocate" /\ ix' = ix) \/ pc'[s] = "idle"
    BY <1>1, ExitPc DEF AllocateLoad, Raise, loopVars
  <2>2. pc'[s] = "alloc_env" => ix'[s] = 1
    BY <2>1, <1>1 DEF SessionInv, FromFirst, AllocateLoad
  <2>3. pc'[s] \in {"alloc_env", "idle"}
    BY <1>1, <1>t, ExitPc DEF AllocateLoad, Goto, Raise
  <2>4. pc'[s] = "alloc_env" => Asked(s)' = {}
    BY <2>2 DEF Asked, ProvisionedClouds
  <2> QED BY <2>3, <2>4 DEF Allocating
<1>2. CASE AllocateCollect(s) /\ pc'[s] = "alloc_env"
  <2>1. pc[s] = "launch" /\ ix'[s] = ix[s] + 1 /\ inst' = inst
    <3>1. bad[s] = "ok"
      BY <1>2, ExitPc DEF AllocateCollect, Typed, SessionTypeOK, Outcomes
    <3> QED BY <1>2, <3>1, <1>t DEF AllocateCollect, NextEnv, cloudVars
  <2>2. ix[s] \in Envs
    BY <2>1 DEF SessionInv, Launching
  <2>3. Asked(s)' = Asked(s)
    <3>1. Asked(s)' = {CloudOf[e] : e \in 1..ix[s]}
      BY <1>2, <2>1, <1>t DEF Asked, ProvisionedClouds
    <3>2. Asked(s) = {CloudOf[e] : e \in 1..(ix[s] - 1)} \cup {CloudOf[ix[s]]}
      BY <2>1 DEF Asked, ProvisionedClouds
    <3>3. 1..ix[s] = 1..(ix[s] - 1) \cup {ix[s]}
      BY <2>2 DEF Envs
    <3> QED BY <3>1, <3>2, <3>3
  <2>4. \A m \in Members : Ahead(s, m)' => MemberEnv[m] > ix[s]
    BY <2>1, <2>2, <1>2 DEF Ahead, Envs
  <2>5. \A m \in Members : CloudOf[MemberEnv[m]] \in Asked(s) /\ MemberEnv[m] > ix[s] => Quiet(c, m)
    BY <2>1, <1>a DEF Allocating, Ahead, c
  <2>6. \A m \in Members : Quiet(c, m) => Quiet(c, m)'
    BY <2>1 DEF Quiet
  <2> QED BY <1>2, <2>3, <2>4, <2>5, <2>6 DEF Allocating, c
<1>3. CASE AllocateEnv(s)
  <2>1. /\ pc[s] = "alloc_env" /\ pc'[s] = "alloc_storage" /\ ix' = ix /\ inst' = inst
        /\ ix[s] \in Envs /\ ~AlreadyProvisioned(s)
    BY <1>3, <1>t DEF AllocateEnv, Goto, loopVars, cloudVars
  <2>2. Asked(s) = ProvisionedClouds(s) /\ Asked(s)' = ProvisionedClouds(s) \cup {CloudOf[ix[s]]}
    BY <2>1 DEF Asked, ProvisionedClouds
  <2>3. ASSUME NEW m \in Members, CloudOf[MemberEnv[m]] \in Asked(s)', Ahead(s, m)'
        PROVE  Quiet(c, m)
    <3>1. Ahead(s, m)
      BY <2>1, <2>3 DEF Ahead
    <3>2. CASE CloudOf[MemberEnv[m]] \in ProvisionedClouds(s)
      BY <2>1, <2>2, <3>1, <3>2, <1>a DEF Allocating, c
    <3>3. CASE CloudOf[MemberEnv[m]] \notin ProvisionedClouds(s)
      <4>1. CloudOf[MemberEnv[m]] = CloudOf[ix[s]] /\ MemberEnv[m] \in Envs
        BY <2>2, <2>3, <3>3
      <4>2. ~IsRunning(c, ix[s])
        BY <2>1, <3>3, <4>1 DEF AlreadyProvisioned, c
      <4>3. RegionOf[MemberEnv[m]] = RegionOf[ix[s]]
        BY <2>1, <4>1 DEF OneRegionPerCloud
      <4> QED BY <2>1, <4>2, <4>3, <1>t, NotRunning
    <3> QED BY <3>2, <3>3
  <2>4. \A m \in Members : Quiet(c, m) => Quiet(c, m)'
    BY <2>1 DEF Quiet
  <2> QED BY <2>1, <2>3, <2>4 DEF Allocating, c
<1>4. CASE AllocateStorage(s)
  <2>1. /\ pc[s] = "alloc_storage" /\ pc'[s] = "launch" /\ ix' = ix /\ inst' = inst
        /\ file' = file /\ fileExists' = fileExists
    BY <1>4, <1>t DEF AllocateStorage, Goto, fileVars
  <2>2. Asked(s)' = Asked(s)
    BY <2>1 DEF Asked, ProvisionedClouds
  <2>3. \A m \in Members : CloudOf[MemberEnv[m]] \in Asked(s) /\ MemberEnv[m] >= ix[s] => Quiet(c, m)
    BY <2>1, <1>a, <1>t DEF Allocating, Ahead, c, Envs
  <2>4. \A m \in Members : Quiet(c, m) => Quiet(c, m)'
    BY <2>1 DEF Quiet
  <2>5. \A m \in Members : Ahead(s, m)' => MemberEnv[m] >= ix[s]
    BY <2>1, <1>t DEF Ahead, Envs
  <2>6. \A m \in Members : InFile(c, m)' /\ Quiet(c, m) => inst'[FileId(c, m)'] # "running"
    BY <2>1 DEF InFile, IsEc2, FileId, Quiet
  <2>7. \A m \in Members : MemberEnv[m] = ix[s] => MemberEnv[m] >= ix[s]
    BY <1>t DEF Envs
  <2> SUFFICES ASSUME NEW m \in Members, CloudOf[MemberEnv[m]] \in Asked(s)'
               PROVE  /\ Ahead(s, m)' => Quiet(c, m)'
                      /\ MemberEnv[m] = ix'[s] /\ InFile(c, m)' => inst'[FileId(c, m)'] # "running"
    BY DEF Allocating, c
  <2> QED BY <2>1, <2>2, <2>3, <2>4, <2>5, <2>6, <2>7
<1>5. ASSUME NEW m \in Members,
             LaunchInstance(s, m) \/ LaunchReturnsNone(s, m) \/ LaunchRaises(s, m)
      PROVE  Allocating(s)'
  <2>1. /\ pc[s] = "launch" /\ pc' = pc /\ ix' = ix /\ file' = file /\ fileExists' = fileExists
        /\ todo'[s] = todo[s] \ {m} /\ m \in todo[s]
    BY <1>5, <1>t DEF LaunchInstance, LaunchReturnsNone, LaunchRaises, CallDone, fileVars
  <2>2. \/ inst' = inst
        \/ \E n \in 1..MaxLaunch : /\ inst[<<c, m, n>>] = "none"
                                   /\ inst' = [inst EXCEPT ![<<c, m, n>>] = "running"]
    BY <1>5 DEF LaunchInstance, LaunchReturnsNone, LaunchRaises, RunInstance, IsNextId, cloudVars, c
  <2>3. Asked(s)' = Asked(s)
    BY <2>1 DEF Asked, ProvisionedClouds
  <2>4. MemberEnv[m] = ix[s]
    BY <2>1 DEF SessionInv, Launching
  <2>5. \A k \in Members : Ahead(s, k)' => Ahead(s, k) /\ k # m
    BY <2>1, <2>4, <1>t DEF Ahead, Envs
  <2>6. \A k \in Members : k # m /\ Quiet(c, k) => Quiet(c, k)'
    BY <2>2, <1>t DEF Quiet, Ids
  <2>7. \A k \in Members : InFile(c, k) => /\ FileId(c, k) \in Ids
                                           /\ inst[FileId(c, k)] # "none"
    BY <1>t DEF InFile, IsEc2, FileId, KnownInv, KnownIn, Ids
  <2>8. \A k \in Members : InFile(c, k)' = InFile(c, k) /\ FileId(c, k)' = FileId(c, k)
    BY <2>1 DEF InFile, IsEc2, FileId
  <2>9. \A i \in Ids : inst[i] # "none" => inst'[i] = inst[i]
    BY <2>2, <1>t
  <2> SUFFICES ASSUME NEW k \in Members, CloudOf[MemberEnv[k]] \in Asked(s)'
               PROVE  /\ Ahead(s, k)' => Quiet(c, k)'
                      /\ MemberEnv[k] = ix'[s] /\ InFile(c, k)' => inst'[FileId(c, k)'] # "running"
    BY DEF Allocating, c
  <2>10. /\ Ahead(s, k) => Quiet(c, k)
         /\ MemberEnv[k] = ix[s] /\ InFile(c, k) => inst[FileId(c, k)] # "running"
    BY <2>1, <2>3, <1>a DEF Allocating, c
  <2> QED BY <2>1, <2>5, <2>6, <2>7, <2>8, <2>9, <2>10
<1>6. CASE pc'[s] \notin {"alloc_env", "alloc_storage", "launch"}
  BY <1>6 DEF Allocating
<1> QED BY <1>e, <1>1, <1>2, <1>3, <1>4, <1>5, <1>6 DEF Enters

\* ForgetInv is inductive, given MirrorInv and KnownInv.
LEMMA ForgetStep == Typed /\ MirrorInv /\ KnownInv /\ ForgetInv /\ [Next]_vars => ForgetInv'
<1> SUFFICES ASSUME Typed, MirrorInv, KnownInv, ForgetInv, [Next]_vars PROVE ForgetInv'
  OBVIOUS
<1>0. OneRegionPerCloud'
  BY DEF ForgetInv, OneRegionPerCloud
<1>1. ASSUME NEW s \in Sessions, Act(s), NEW t \in Sessions PROVE Checked(t)'
  <2>1. CASE t = s
    <3>1. OneRegionPerCloud /\ Checked(s) /\ SessionInv(s)
      BY DEF ForgetInv, MirrorInv
    <3>2. Checked(s)'
      BY <1>1, <3>1, ConfiguredAct, AllocatingAct, CleanedAct DEF Checked
    <3> QED BY <2>1, <3>2
  <2>2. CASE t # s
    <3>1. ClusterOf[t] # ClusterOf[s] /\ Checked(t)
      BY <2>2 DEF MirrorInv, OneUser, ForgetInv
    <3> QED BY <1>1, <3>1, OthersChecked
  <2> QED BY <2>1, <2>2
<1>2. ASSUME UNCHANGED vars, NEW s \in Sessions PROVE Checked(s)'
  <2> USE <1>2 DEF vars, cloudVars, fileVars, loopVars
  <2>1. Checked(s)
    BY DEF ForgetInv
  <2>2. Configured(s)'
    BY <2>1 DEF Checked, Configured, Quiet
  <2>3. Allocating(s)'
    BY <2>1 DEF Checked, Allocating, Asked, ProvisionedClouds, Ahead, Quiet, InFile, IsEc2, FileId
  <2>4. Cleaned(s)'
    BY <2>1 DEF Checked, Cleaned, IsEc2, Id
  <2> QED BY <2>2, <2>3, <2>4 DEF Checked
<1> QED BY <1>0, <1>1, <1>2 DEF Next, Act, ForgetInv

\* ForgetInv holds throughout, with one user for each cluster and one region in
\* each cloud.
LEMMA ForgetAlways == OneUser /\ OneRegionPerCloud /\ Spec => []ForgetInv
<1>1. OneRegionPerCloud /\ Init => ForgetInv
  BY DEF Init, FileInit, ForgetInv, Checked, Configured, Allocating, Cleaned
<1> QED BY <1>1, ForgetStep, KnownAlways, MirrorAlways, TypedInvariant, PTL DEF Spec

\* NukeInv holds throughout, if nuke is not used or all is in one region.
LEMMA NukeAlways == OneUser /\ NukesAll /\ Spec => []NukeInv
<1>1. NukesAll /\ Init => NukeInv
  BY DEF Init, FileInit, NukeInv, Nuked
<1>2. Typed /\ MirrorInv /\ NukeInv /\ [Next]_vars => NukeInv'
  <2> SUFFICES ASSUME Typed, MirrorInv, NukeInv, [Next]_vars PROVE NukeInv'
    OBVIOUS
  <2>0. NukesAll /\ NukesAll'
    BY DEF NukeInv, NukesAll
  <2>1. ASSUME NEW s \in Sessions, Act(s), NEW t \in Sessions PROVE Nuked(t)'
    <3>1. CASE t = s
      BY <2>0, <2>1, <3>1, NukedAct DEF NukeInv
    <3>2. CASE t # s
      <4>1. /\ pc'[t] = pc[t] /\ ix'[t] = ix[t] /\ ids'[t] = ids[t]
            /\ ClusterOf[t] # ClusterOf[s] /\ ClusterOf[t] \in Clusters
        BY <2>1, <3>2, ActKeeps DEF OthersKeep, MirrorInv, OneUser
      <4>2. \A m \in Members, n \in 1..MaxLaunch :
               <<ClusterOf[t], m, n>> \in Ids /\ <<ClusterOf[t], m, n>>[1] = ClusterOf[t]
        BY <4>1 DEF Ids
      <4>3. \A m \in Members, n \in 1..MaxLaunch :
               inst'[<<ClusterOf[t], m, n>>] = "running" => inst[<<ClusterOf[t], m, n>>] = "running"
        BY <2>1, <4>1, <4>2, RunningFrom
      <4> QED BY <4>1, <4>3 DEF NukeInv, Nuked, Quiet
    <3> QED BY <3>1, <3>2
  <2>2. ASSUME UNCHANGED vars, NEW s \in Sessions PROVE Nuked(s)'
    BY <2>2 DEF vars, cloudVars, loopVars, NukeInv, Nuked, Quiet
  <2> QED BY <2>0, <2>1, <2>2 DEF Next, Act, NukeInv
<1> QED BY <1>1, <1>2, MirrorAlways, TypedInvariant, PTL DEF Spec

\* A step that drops an instance from the file finds it not running: the file is
\* written anew, removed or written with another id only after the checks.
LEMMA ForgetsNone ==
    ASSUME Typed, MirrorInv, KnownInv, ForgetInv, NukeInv, NEW s \in Sessions, Act(s)
    PROVE  ForgetsNoRunning
<1> SUFFICES ASSUME NEW c \in Clusters, NEW m \in Members, InFile(c, m),
                    ~(InFile(c, m)' /\ FileId(c, m)' = FileId(c, m))
             PROVE  inst'[FileId(c, m)] # "running"
  BY DEF ForgetsNoRunning
<1>s. SessionInv(s) /\ Checked(s) /\ OthersKeep(s)
  BY ActKeeps DEF MirrorInv, ForgetInv
<1>e. FileStep(s)
  BY <1>s, ActMem
<1>f. file[c].members[m].id \in 1..MaxLaunch /\ fileExists[c]
      /\ FileId(c, m) = <<c, m, file[c].members[m].id>>
  BY DEF InFile, IsEc2, FileId
<1>n. ~(fileExists'[c] /\ file'[c].members[m].id = file[c].members[m].id)
  BY <1>f DEF InFile, IsEc2, FileId
<1>c. c = ClusterOf[s]
  BY <1>s, <1>n, <1>f DEF OthersKeep
<1>q. Quiet(c, m) => inst[FileId(c, m)] # "running"
  BY <1>f DEF Quiet
<1>t. /\ mem[s] \in ClusterObjs /\ ix[s] \in Nat /\ MemberEnv[m] \in Envs /\ bad[s] \in Outcomes
  BY DEF Typed, SessionTypeOK
<1>1. CASE ConfigureSave(s)
  <2>1. pc[s] = "configure" /\ MemberEnv[m] < ix[s] /\ inst' = inst
    BY <1>1, <1>t DEF ConfigureSave, cloudVars, Envs
  <2> QED BY <2>1, <1>c, <1>s, <1>q DEF Checked, Configured
<1>2. CASE CleanRemove(s)
  <2>1. pc[s] = "clean_env" /\ ix[s] > Len(mem[s].envs) /\ inst' = inst /\ Len(mem[s].envs) \in Nat
    BY <1>2, <1>t DEF CleanRemove, cloudVars, ClusterObjs
  <2>2. mem[s].members[m] = file[c].members[m]
    BY <2>1, <1>s, <1>c DEF SessionInv, Mirrors, Holding
  <2>3. IsEc2(mem[s], m) /\ Id(s, m) = FileId(c, m)
    BY <2>2, <1>f, <1>c DEF IsEc2, Id
  <2>4. KnownIn(inst, c, file[c]) /\ KnownIn(inst, c, mem[s])
    BY <2>1, <1>c DEF KnownInv, KnownHeld, Holding
  <2>5. PICK k \in 1..Len(mem[s].envs) : mem[s].envs[k] = MemberEnv[m]
    BY <2>3, <2>4 DEF KnownIn, HasEnv, IsEc2
  <2>6. k < ix[s]
    BY <2>1, <2>5, <1>t
  <2> QED BY <2>1, <2>3, <2>5, <2>6, <1>s DEF Checked, Cleaned
<1>3. CASE NukeRemove(s)
  <2>1. pc[s] = "nuke_volumes" /\ inst' = inst
    BY <1>3 DEF NukeRemove, cloudVars
  <2> QED BY <2>1, <1>c, <1>q DEF NukeInv, Nuked
<1>4. CASE AllocateCollect(s)
  <2>1. pc[s] = "launch" /\ inst' = inst
    BY <1>4 DEF AllocateCollect, cloudVars
  <2>2. (file' = file /\ fileExists' = fileExists) \/ SaveCluster(s, AfterLaunch(s))
    BY <1>4, <1>t DEF AllocateCollect, fileVars, Outcomes
  <2>3. SaveCluster(s, AfterLaunch(s))
    BY <2>2, <1>n, <1>f
  <2>4. file'[c] = AfterLaunch(s) /\ fileExists'[c]
    BY <2>3, <1>c, SaveFile
  <2>5. m \notin SelfManaged
    BY <1>f DEF KnownInv, KnownIn
  <2>6. AfterLaunch(s).members[m] = mem[s].members[m]
    BY <2>5, <1>t DEF AfterLaunch, ClusterObjs
  <2>7. MemberEnv[m] = ix[s]
    BY <2>1, <2>4, <2>6, <1>s, <1>c, <1>n DEF SessionInv, Mirrors, Holding
  <2>8. CloudOf[MemberEnv[m]] \in Asked(s)
    BY <2>1, <2>7 DEF Asked
  <2> QED BY <2>1, <2>7, <2>8, <1>c, <1>s DEF Checked, Allocating
<1>5. ASSUME pc[s] \in Holding \ {"launch"}, fileExists'[c], SameMembers(file'[c], mem[s])
      PROVE  FALSE
  <2>1. mem[s].members[m].id = file[c].members[m].id
    BY <1>5, <1>s, <1>c DEF SessionInv, Mirrors
  <2> QED BY <1>5, <2>1, <1>n DEF SameMembers
<1> QED BY <1>1, <1>2, <1>3, <1>4, <1>5, <1>e, <1>n, <1>f, <1>c DEF FileStep

\* With one user for each cluster and one region in each cloud, nothing that runs is
\* dropped from a cluster file, by whatever sequence of commands, failures and
\* interruptions, for any number of clusters, members and launches. nuke must
\* not be used on clusters in several regions.
THEOREM KeepsRunning ==
    OneUser /\ OneRegionPerCloud /\ NukesAll /\ Spec => NeverForgetRunning
<1>1. Typed /\ MirrorInv /\ KnownInv /\ ForgetInv /\ NukeInv /\ [Next]_vars => [ForgetsNoRunning]_vars
  BY ForgetsNone DEF Next, Act
<1> QED BY <1>1, ForgetAlways, NukeAlways, KnownAlways, MirrorAlways, TypedInvariant, PTL
        DEF Spec, NeverForgetRunning

(***************************************************************************)
(* ReadyIsReachable                                                        *)
(*                                                                         *)
(* start and stop write the state of the whole cluster after their work on *)
(* one environment, so what the file says is true of clusters in one.      *)
(***************************************************************************)
SingleEnv == NumEnvs = 1

\* The instance that an object records for a member is not stopped, and if it
\* runs it has the address on record.
Answers(states, starts, c, o, m) ==
    LET i == <<c, m, o.members[m].id>>
    IN  o.members[m].ip # NoIp =>
            states[i] # "stopped" /\ (states[i] = "running" => starts[i] = o.members[m].ip)

\* A member with ephemeral storage, which start and stop leave alone
Local(o, m) ==
    o.members[m].id \in 1..MaxLaunch /\ Storage[m] = "ephemeral" /\ o.members[m].vol

ReachFile(c) ==
    \A m \in Members :
        Local(file[c], m) \/ (IsEc2(file[c], m) /\ file[c].state = "ready")
            => Answers(inst, boots, c, file[c], m)

\* start and stop are given no local instance, and the instances that start
\* has called for answer at the address that it has described.
ReachHeld(s) ==
    /\ pc[s] \in Holding =>
          \A m \in Members : Local(mem[s], m) => Answers(inst, boots, ClusterOf[s], mem[s], m)
    /\ pc[s] \in {"start", "stop"} => \A m \in todo[s] : ~Local(mem[s], m)
    /\ pc[s] = "start" /\ bad[s] # "raise" =>
          \A m \in Members \ todo[s] :
              IsEc2(mem[s], m) => Answers(inst, boots, ClusterOf[s], mem[s], m)

ReachInv ==
    /\ SingleEnv
    /\ \A i \in Ids : inst[i] = "none" => boots[i] = 0
    /\ \A c \in Clusters : ReachFile(c)
    /\ \A s \in Sessions : ReachHeld(s)

\* The steps that write the file
Writes(s) ==
    \/ ConfigureSave(s) \/ AllocateCollect(s) \/ InstallSave(s) \/ UninstallEnv(s)
    \/ CleanSave(s) \/ CleanRemove(s) \/ NukeRemove(s) \/ StartSave(s) \/ StopSave(s)

\* Every other step leaves the files alone.
LEMMA ActWrites ==
    ASSUME Typed, NEW s \in Sessions, Act(s)
    PROVE  UNCHANGED fileVars \/ Writes(s)
<1> USE DEF Writes
<1>1. CASE Begin(s) \/ Crash(s)
  BY <1>1 DEF Begin, Provision, Deprovision, Nuke, Start, Stop, Crash, Raise
<1>2. CASE ProvisioningStep(s)
  BY <1>2 DEF ProvisioningStep, ConfigureCheck, ConfigureRefused, AllocateLoad, AllocateEnv,
     AllocateRefused, AllocateStorage, LaunchInstance, LaunchReturnsNone, LaunchRaises,
     AllocateDone,
     SelfTest, Make, OnAllNodes, InstallLoad, UninstallLoad, UninstallDone, ProvisioningRaises,
     Raise
<1>3. CASE DeProvisioningStep(s)
  BY <1>3 DEF DeProvisioningStep, CleanEnv, CleanStorage, CleanStorageRaises, TerminateNode,
     TerminateRaises, NukeDescribe, NukeWait, NukeInstance, NukeVolume, DeProvisioningRaises, Raise
<1>4. CASE CloudCommandsStep(s)
  BY <1>4 DEF CloudCommandsStep, StartStopDone, StartEnv, StartBackends, Starts, StartNode,
     StartNodePending, StartRaises,
     StopEnv, StopCollect, StopNode, StopRaises, CloudCommandsRaises, Raise
<1> QED BY <1>1, <1>2, <1>3, <1>4 DEF Act, Step

\* An instance goes on answering but when start or stop is called for it.
LEMMA AnswersKeep ==
    ASSUME Typed, NEW s \in Sessions, Act(s), NEW c \in Clusters, NEW o, NEW m \in Members,
           o.members[m].id \in 1..MaxLaunch, inst[<<c, m, o.members[m].id>>] # "none",
           Answers(inst, boots, c, o, m),
           c = ClusterOf[s] /\ pc[s] \in {"start", "stop"} /\ m \in todo[s]
              => mem[s].members[m].id # o.members[m].id
    PROVE  Answers(inst', boots', c, o, m)
<1> DEFINE i == <<c, m, o.members[m].id>>
<1>1. i \in Ids /\ i[1] = c /\ i[2] = m /\ i[3] = o.members[m].id
  BY DEF Ids
<1>2. InstStep(s, i)
  BY <1>1, ActInst
<1>3. i = Id(s, i[2]) => c = ClusterOf[s] /\ mem[s].members[m].id = o.members[m].id
  BY <1>1 DEF Id
<1> SUFFICES ASSUME o.members[m].ip # NoIp
             PROVE  inst'[i] # "stopped" /\ (inst'[i] = "running" => boots'[i] = o.members[m].ip)
  BY DEF Answers
<1>4. inst[i] # "stopped" /\ (inst[i] = "running" => boots[i] = o.members[m].ip) /\ inst[i] # "none"
  BY DEF Answers
<1> HIDE DEF i
<1> QED BY <1>1, <1>2, <1>3, <1>4 DEF InstStep

\* Answers depends on the record of the member only.
LEMMA AnswersSame ==
    ASSUME NEW I, NEW B, NEW c, NEW o, NEW p, NEW m, Answers(I, B, c, o, m),
           p.members[m] = o.members[m]
    PROVE  Answers(I, B, c, p, m)
BY DEF Answers

\* Local depends on the record of the member only.
LEMMA LocalSame ==
    ASSUME NEW o, NEW p, NEW m, Local(p, m), p.members[m] = o.members[m]
    PROVE  Local(o, m)
BY DEF Local

\* A step keeps what the file and the object of its session promise, as long as
\* they are as they were.
LEMMA FileAnswers ==
    ASSUME Typed, CompleteInv, KnownInv, ReachInv, NEW s \in Sessions, SessionInv(s), Act(s),
           NEW m \in Members,
           LET f == file[ClusterOf[s]]
           IN  Local(f, m) \/ (IsEc2(f, m) /\ f.state = "ready")
    PROVE  Answers(inst', boots', ClusterOf[s], file[ClusterOf[s]], m)
<1> DEFINE c == ClusterOf[s]
<1>1. c \in Clusters /\ Answers(inst, boots, c, file[c], m) /\ file[c].members[m].id \in 1..MaxLaunch
  BY DEF ReachInv, ReachFile, Local, IsEc2
<1>2. inst[<<c, m, file[c].members[m].id>>] # "none"
  BY <1>1 DEF KnownInv, KnownIn
<1>3. ASSUME pc[s] \in {"start", "stop"}, m \in todo[s] PROVE FALSE
  <2>1. ~Local(mem[s], m) /\ mem[s].state = "down"
    BY <1>3 DEF ReachInv, ReachHeld, CompleteInv, SessionInv, SaysDown
  <2>2. file[c].state = "down" /\ mem[s].members[m].id = file[c].members[m].id
        /\ mem[s].members[m].vol = file[c].members[m].vol
    <3>1. pc[s] \in Holding /\ pc[s] # "launch"
      BY <1>3 DEF Holding
    <3>2. mem[s].state = file[c].state
      BY <3>1 DEF SessionInv, Mirrors
    <3>3. \/ mem[s].members[m] = file[c].members[m]
          \/ /\ mem[s].members[m].id = file[c].members[m].id
             /\ mem[s].members[m].vol = file[c].members[m].vol
      BY <3>1 DEF SessionInv, Mirrors
    <3> QED BY <2>1, <3>2, <3>3
  <2> QED BY <2>1, <2>2, <1>1 DEF Local
<1> QED BY <1>1, <1>2, <1>3, AnswersKeep

\* The local instances of the object go on answering.
LEMMA HeldAnswers ==
    ASSUME Typed, KnownInv, ReachInv, NEW s \in Sessions, Act(s),
           NEW m \in Members, pc[s] \in Holding, Local(mem[s], m)
    PROVE  Answers(inst', boots', ClusterOf[s], mem[s], m)
<1> DEFINE c == ClusterOf[s]
<1>1. c \in Clusters /\ Answers(inst, boots, c, mem[s], m) /\ mem[s].members[m].id \in 1..MaxLaunch
  BY DEF ReachInv, ReachHeld, Local
<1>2. inst[<<c, m, mem[s].members[m].id>>] # "none"
  BY <1>1 DEF KnownInv, KnownHeld, KnownIn
<1>3. ASSUME pc[s] \in {"start", "stop"}, m \in todo[s] PROVE FALSE
  BY <1>3 DEF ReachInv, ReachHeld
<1> QED BY <1>1, <1>2, <1>3, AnswersKeep

\* What allocate saves: no new local instance, and a state that is not ready
LEMMA LaunchedMembers ==
    ASSUME Typed, NEW s \in Sessions, SessionInv(s), pc[s] = "launch", SingleEnv, NEW m \in Members
    PROVE  /\ AfterLaunch(s).state # "ready"
           /\ AfterLaunch(s).members[m].id \in 1..MaxLaunch
                 => AfterLaunch(s).members[m] = mem[s].members[m]
<1>1. mem[s] \in ClusterObjs
  BY DEF Typed, SessionTypeOK
<1>2. MemberEnv[m] = ix[s]
  BY DEF SessionInv, Launching, SingleEnv, Envs
<1> QED BY <1>1, <1>2 DEF AfterLaunch, ClusterObjs, SelfId

\* What a step writes to the file is true: ready only after AllReachable or
\* after every instance was started and described.
LEMMA ReachFileAct ==
    ASSUME Typed, CompleteInv, KnownInv, ReachInv, NEW s \in Sessions, SessionInv(s), Act(s)
    PROVE  ReachFile(ClusterOf[s])'
<1> DEFINE c == ClusterOf[s]
<1>t. /\ mem[s] \in ClusterObjs /\ c \in Clusters /\ file[c] \in ClusterObjs /\ bad[s] \in Outcomes
  BY DEF Typed, SessionTypeOK, DiskFileTypeOK
<1>o. SingleEnv
  BY DEF ReachInv
<1> SUFFICES ASSUME NEW m \in Members,
                    Local(file'[c], m) \/ (IsEc2(file'[c], m) /\ file'[c].state = "ready")
             PROVE  Answers(inst', boots', c, file'[c], m)
  BY DEF ReachFile, Local, IsEc2
<1>i. file'[c].members[m].id \in 1..MaxLaunch
  BY DEF Local, IsEc2
<1>1. CASE UNCHANGED fileVars
  <2>1. file' = file
    BY <1>1 DEF fileVars
  <2> QED BY <2>1, FileAnswers
<1>2. CASE ConfigureSave(s) \/ CleanRemove(s) \/ NukeRemove(s)
  <2>1. file'[c] = NewCluster
    BY <1>2, SaveFile DEF ConfigureSave, CleanRemove, NukeRemove, RemoveClusterYaml, Typed,
       DiskFileTypeOK
  <2> QED BY <2>1, <1>i DEF NewCluster, NoMember
\* the object is saved, the members as they are in memory
<1>3. ASSUME pc[s] \in Holding, Local(file'[c], m), file'[c].members[m] = mem[s].members[m]
      PROVE  Answers(inst', boots', c, file'[c], m)
  <2>1. Local(mem[s], m)
    BY <1>3, LocalSame
  <2> QED BY <1>3, <2>1, HeldAnswers, AnswersSame
<1>4. CASE AllocateCollect(s) /\ ~UNCHANGED fileVars
  <2>1. pc[s] = "launch" /\ SaveCluster(s, AfterLaunch(s))
    BY <1>4, <1>t DEF AllocateCollect, Outcomes
  <2>2. file'[c] = AfterLaunch(s)
    BY <2>1, SaveFile
  <2>3. AfterLaunch(s).state # "ready" /\ file'[c].members[m] = mem[s].members[m]
    BY <2>1, <2>2, <1>i, <1>o, LaunchedMembers
  <2> QED BY <2>1, <2>2, <2>3, <1>3 DEF Holding
<1>5. CASE InstallSave(s) /\ ~UNCHANGED fileVars
  <2> DEFINE o == [mem[s] EXCEPT !.target = TRUE, !.state = "ready"]
  <2>1. /\ AllReachable(c, mem[s]) /\ inst' = inst /\ boots' = boots /\ SaveCluster(s, o)
    BY <1>5 DEF InstallSave, Raise, cloudVars
  <2>o. o.members = mem[s].members
    BY <1>t DEF ClusterObjs
  <2> HIDE DEF o
  <2>2. file'[c].members = mem[s].members
    BY <2>1, <2>o, SaveFile
  <2>3. Answers(inst, boots, c, mem[s], m)
    BY <2>1, <2>2, <1>i DEF AllReachable, Reachable, Recorded, IsEc2, Answers
  <2> QED BY <2>1, <2>2, <2>3, AnswersSame
<1>6. CASE (UninstallEnv(s) \/ CleanSave(s)) /\ ~UNCHANGED fileVars
  <2>1. /\ pc[s] \in {"uninstalling", "clean"}
        /\ SaveCluster(s, [mem[s] EXCEPT !.target = FALSE]) \/ SaveCluster(s, mem[s])
    BY <1>6 DEF UninstallEnv, CleanSave, Raise
  <2>2. file'[c].members = mem[s].members /\ file'[c].state = mem[s].state
    BY <2>1, <1>t, SaveFile, SMTT(30) DEF ClusterObjs
  <2>3. mem[s].state = file[c].state /\ mem[s].members[m] = file[c].members[m]
    BY <2>1 DEF SessionInv, Mirrors, Holding
  <2>4. Local(file[c], m) \/ (IsEc2(file[c], m) /\ file[c].state = "ready")
    BY <2>2, <2>3 DEF Local, IsEc2
  <2> QED BY <2>2, <2>3, <2>4, FileAnswers, AnswersSame
<1>7. CASE StartSave(s) /\ ~UNCHANGED fileVars
  <2>1. /\ pc[s] = "start" /\ todo[s] = {} /\ bad[s] # "raise" /\ inst' = inst /\ boots' = boots
        /\ SaveCluster(s, [mem[s] EXCEPT !.state = "ready"])
    BY <1>7 DEF StartSave, Raise, cloudVars
  <2>2. file'[c].members = mem[s].members
    BY <2>1, <1>t, SaveFile DEF ClusterObjs
  <2>3. Answers(inst, boots, c, mem[s], m)
    BY <2>1, <2>2, <1>i DEF ReachInv, ReachHeld, IsEc2
  <2> QED BY <2>1, <2>2, <2>3, AnswersSame
<1>8. CASE StopSave(s)
  <2>1. pc[s] = "stop_save" /\ SaveCluster(s, [mem[s] EXCEPT !.state = "down"])
    BY <1>8 DEF StopSave
  <2>2. file'[c].members = mem[s].members /\ file'[c].state = "down"
    BY <2>1, <1>t, SaveFile DEF ClusterObjs
  <2> QED BY <2>1, <2>2, <1>3 DEF Holding
<1> QED BY <1>1, <1>2, <1>4, <1>5, <1>6, <1>7, <1>8, ActWrites DEF Writes

\* The local instances of the object after a step: those it held, those of the
\* file it loaded, or one that was just launched and was never restarted.
LEMMA HeldLocal ==
    ASSUME Typed, CompleteInv, KnownInv, ReachInv, NEW s \in Sessions, SessionInv(s), Act(s),
           pc'[s] \in Holding, NEW m \in Members, Local(mem'[s], m)
    PROVE  Answers(inst', boots', ClusterOf[s], mem'[s], m)
<1> DEFINE c == ClusterOf[s]
<1>t. /\ mem \in [Sessions -> ClusterObjs] /\ mem[s] \in ClusterObjs /\ c \in Clusters
      /\ file[c] \in ClusterObjs /\ bad[s] \in Outcomes /\ inst \in [Ids -> InstanceStates]
      /\ boots \in [Ids -> 0..MaxBoots]
  BY DEF Typed, SessionTypeOK, DiskFileTypeOK, CloudTypeOK
<1>i. mem'[s].members[m].id \in 1..MaxLaunch
  BY DEF Local
\* the object that was held, with the same record of this member
<1>1. ASSUME pc[s] \in Holding, mem'[s].members[m] = mem[s].members[m]
      PROVE  Answers(inst', boots', c, mem'[s], m)
  <2>1. Local(mem[s], m)
    BY <1>1, LocalSame
  <2> QED BY <1>1, <2>1, HeldAnswers, AnswersSame
<1>2. CASE pc[s] \in Holding /\ SameMembers(mem'[s], mem[s])
  BY <1>1, <1>2 DEF SameMembers
<1>3. CASE pc[s] = "launch" /\ mem'[s] = mem[s]
  BY <1>1, <1>3 DEF Holding
<1>4. CASE mem'[s] = file[c]
  BY <1>4, FileAnswers
<1>5. CASE AllocateEnv(s)
  <2>1. pc[s] = "alloc_env" /\ mem'[s].members = mem[s].members
    BY <1>5, <1>t DEF AllocateEnv, ClusterObjs
  <2> QED BY <1>1, <2>1 DEF Holding
<1>6. CASE AllocateCollect(s)
  <2>1. pc[s] = "launch" /\ bad[s] = "ok"
    BY <1>6, <1>t, ExitMem DEF AllocateCollect, Outcomes
  <2>2. mem'[s] = AfterLaunch(s)
    BY <1>6, <2>1, <1>t DEF AllocateCollect
  <2>3. mem'[s].members[m] = mem[s].members[m]
    BY <2>1, <2>2, <1>i, LaunchedMembers DEF ReachInv
  <2> QED BY <1>1, <2>1, <2>3 DEF Holding
<1>7. ASSUME NEW k \in Members, LaunchInstance(s, k) PROVE Answers(inst', boots', c, mem'[s], m)
  <2>1. PICK n \in 1..MaxLaunch, r \in StorageResults(k), ip \in LaunchIps :
           /\ inst[<<c, k, n>>] = "none"
           /\ inst' = [inst EXCEPT ![<<c, k, n>>] = "running"]
           /\ mem' = [mem EXCEPT ![s].members[k] = [id |-> n, ip |-> ip, vol |-> r.vol]]
    BY <1>7 DEF LaunchInstance, RunInstance, IsNextId
  <2>2. pc[s] = "launch" /\ boots' = boots
    BY <1>7 DEF LaunchInstance
  <2>3. CASE k = m
    <3>1. mem'[s].members[m] = [id |-> n, ip |-> ip, vol |-> r.vol]
      BY <2>1, <2>3, <1>t DEF ClusterObjs
    <3>2. <<c, m, n>> \in Ids
      BY <1>t DEF Ids
    <3>3. boots[<<c, m, n>>] = 0
      BY <2>1, <2>3, <3>2 DEF ReachInv
    <3>4. mem'[s].members[m].id = n /\ mem'[s].members[m].ip \in {0, NoIp}
      BY <2>1, <3>1 DEF LaunchIps
    <3>5. inst'[<<c, m, n>>] = "running"
      BY <2>1, <2>3, <3>2, <1>t
    <3> QED BY <2>2, <3>3, <3>4, <3>5 DEF Answers
  <2>4. CASE k # m
    <3>1. mem'[s].members[m] = mem[s].members[m]
      BY <2>1, <2>4, <1>t DEF ClusterObjs
    <3> QED BY <1>1, <2>2, <3>1 DEF Holding
  <2> QED BY <2>3, <2>4
<1>8. ASSUME NEW k \in Members, Starts(s, k) PROVE Answers(inst', boots', c, mem'[s], m)
  <2>1. pc[s] = "start" /\ k \in todo[s]
    BY <1>8, StartsMembers
  <2>2. /\ \A l \in Members \ {k} : mem'[s].members[l] = mem[s].members[l]
        /\ mem'[s].members[k].id = mem[s].members[k].id
        /\ mem'[s].members[k].vol = mem[s].members[k].vol
    BY <1>8, StartsMembers
  <2>3. ~Local(mem[s], k)
    BY <2>1 DEF ReachInv, ReachHeld
  <2>4. k # m
    BY <2>2, <2>3 DEF Local
  <2> QED BY <1>1, <2>1, <2>2, <2>4 DEF Holding
<1> QED BY <1>2, <1>3, <1>4, <1>5, <1>6, <1>7, <1>8, ActMem DEF MemStep

\* start and stop are not called for local instances.
LEMMA CallsNoLocal ==
    ASSUME Typed, ReachInv, NEW s \in Sessions, Act(s), pc'[s] \in {"start", "stop"},
           NEW m \in todo'[s]
    PROVE  ~Local(mem'[s], m)
<1>t. /\ mem \in [Sessions -> ClusterObjs] /\ mem[s] \in ClusterObjs
      /\ todo \in [Sessions -> SUBSET Members] /\ pc \in [Sessions -> Labels]
  BY DEF Typed, SessionTypeOK
<1>1. CASE StartEnv(s) \/ StopSave(s)
  <2>1. todo'[s] = InstancesOf(s) /\ mem'[s].members = mem[s].members
    <3>1. CASE StopSave(s)
      BY <3>1, <1>t DEF StopSave, StartCalls, ClusterObjs
    <3>2. CASE StartEnv(s)
      <4>1. ~Raise(s)
        BY ExitPc DEF Raise
      <4> QED BY <3>2, <4>1, <1>t DEF StartEnv, StartCalls
    <3> QED BY <1>1, <3>1, <3>2
  <2> QED BY <2>1 DEF InstancesOf, Local
<1>2. ASSUME NEW k \in Members, Starts(s, k) PROVE ~Local(mem'[s], m)
  <2>1. pc[s] = "start" /\ m \in todo[s] /\ m \in Members
    BY <1>2, <1>t, StartsMembers
  <2>2. /\ mem'[s].members[m].id = mem[s].members[m].id
        /\ mem'[s].members[m].vol = mem[s].members[m].vol
    BY <1>2, <2>1, StartsMembers
  <2>3. ~Local(mem[s], m)
    BY <2>1 DEF ReachInv, ReachHeld
  <2> QED BY <2>2, <2>3 DEF Local
<1>3. ASSUME NEW k \in Members, StartRaises(s, k) \/ StopNode(s, k) \/ StopRaises(s, k)
      PROVE  ~Local(mem'[s], m)
  <2>1. pc[s] \in {"start", "stop"} /\ m \in todo[s] /\ mem' = mem
    BY <1>3, <1>t DEF StartRaises, StopNode, StopRaises, CallDone
  <2> QED BY <2>1 DEF ReachInv, ReachHeld
<1> QED BY <1>1, <1>2, <1>3, ActEnters DEF Enters

\* An instance that start has called for answers at the address it described;
\* what it was not called for is local, in the one environment there is.
LEMMA StartedAnswers ==
    ASSUME Typed, CompleteInv, KnownInv, ReachInv, NEW s \in Sessions, SessionInv(s), Act(s),
           pc'[s] = "start", bad'[s] # "raise", NEW m \in Members \ todo'[s],
           mem'[s].members[m].id \in 1..MaxLaunch
    PROVE  Answers(inst', boots', ClusterOf[s], mem'[s], m)
<1> DEFINE c == ClusterOf[s]
<1>t. /\ mem \in [Sessions -> ClusterObjs] /\ mem[s] \in ClusterObjs /\ c \in Clusters
      /\ todo \in [Sessions -> SUBSET Members] /\ bad \in [Sessions -> Outcomes]
      /\ pc \in [Sessions -> Labels]
      /\ inst \in [Ids -> InstanceStates] /\ boots \in [Ids -> 0..MaxBoots]
  BY DEF Typed, SessionTypeOK, CloudTypeOK
<1>1. CASE StartEnv(s)
  <2>1. /\ pc[s] = "start_env" /\ todo'[s] = InstancesOf(s) /\ mem' = mem
        /\ inst' = inst /\ boots' = boots /\ ix[s] \in 1..Len(mem[s].envs)
    <3>1. ~Raise(s)
      BY ExitPc DEF Raise
    <3> QED BY <1>1, <3>1, <1>t DEF StartEnv, StartCalls, cloudVars
  <2>2. MemberEnv[m] = mem[s].envs[ix[s]]
    <3>1. mem[s].envs[ix[s]] \in Envs /\ MemberEnv[m] \in Envs
      BY <2>1, <1>t DEF ClusterObjs
    <3> QED BY <3>1 DEF ReachInv, SingleEnv, Envs
  <2>3. Local(mem[s], m)
    BY <2>1, <2>2 DEF InstancesOf, MembersOf, StartStopEnv, Recorded, Local
  <2> QED BY <2>1, <2>3 DEF ReachInv, ReachHeld, Holding
<1>2. ASSUME NEW k \in Members, Starts(s, k) PROVE Answers(inst', boots', c, mem'[s], m)
  <2>1. /\ pc[s] = "start" /\ k \in todo[s]
        /\ todo'[s] = todo[s] \ {k} /\ bad'[s] = bad[s]
    BY <1>2, StartsMembers
  <2>2. CASE m = k /\ StartNode(s, k)
    <3>1. /\ mem'[s].members[k].id = mem[s].members[k].id
          /\ mem'[s].members[k].ip = boots'[Id(s, k)]
      <4>1. mem[s].members \in [Members -> MemberRecs]
        BY <1>t DEF ClusterObjs
      <4> QED BY <2>2, <4>1, <1>t DEF StartNode, ClusterObjs, MemberRecs
    <3>2. Id(s, k) = <<c, k, mem[s].members[k].id>>
      BY DEF Id
    <3>3. Id(s, k) \in Ids
      BY <3>1, <3>2, <2>2, <1>t DEF Ids
    <3>4. inst'[Id(s, k)] = "running"
      BY <2>2, <3>3, <1>t DEF StartNode, StartInstance
    <3> QED BY <2>2, <3>1, <3>2, <3>4 DEF Answers
  <2>4. CASE m = k /\ StartNodePending(s, k)
    <3>1. mem[s].members \in [Members -> MemberRecs]
      BY <1>t DEF ClusterObjs
    <3>2. mem'[s].members[m].ip = NoIp
      BY <2>4, <3>1, <1>t DEF StartNodePending, ClusterObjs, MemberRecs
    <3> QED BY <3>2 DEF Answers
  <2>3. CASE m # k
    <3>1. mem'[s].members[m] = mem[s].members[m] /\ m \notin todo[s]
      BY <1>2, <2>1, <2>3, StartsMembers
    <3>2. Answers(inst, boots, c, mem[s], m)
      BY <2>1, <3>1 DEF ReachInv, ReachHeld, IsEc2
    <3>3. inst[<<c, m, mem[s].members[m].id>>] # "none"
      BY <2>1, <3>1 DEF KnownInv, KnownHeld, KnownIn, Holding
    <3>4. Answers(inst', boots', c, mem[s], m)
      BY <3>1, <3>2, <3>3, <1>t, AnswersKeep
    <3> QED BY <3>1, <3>4, AnswersSame
  <2> QED BY <1>2, <2>2, <2>3, <2>4 DEF Starts
<1>3. ASSUME NEW k \in Members, StartRaises(s, k) PROVE FALSE
  BY <1>3, <1>t DEF StartRaises, CallDone
<1> QED BY <1>1, <1>2, <1>3, ActEnters DEF Enters

\* Sessions on other clusters only see instances terminated by nuke.
LEMMA ReachOthers ==
    ASSUME Typed, KnownInv, ReachInv, NEW s \in Sessions, Act(s)
    PROVE  /\ \A c \in Clusters : c # ClusterOf[s] => ReachFile(c)'
           /\ \A t \in Sessions : ClusterOf[t] # ClusterOf[s] => ReachHeld(t)'
<1>k. OthersKeep(s)
  BY ActKeeps
<1>1. ASSUME NEW c \in Clusters, c # ClusterOf[s] PROVE ReachFile(c)'
  <2>1. file'[c] = file[c]
    BY <1>1, <1>k DEF OthersKeep
  <2> SUFFICES ASSUME NEW m \in Members,
                      Local(file[c], m) \/ (IsEc2(file[c], m) /\ file[c].state = "ready")
               PROVE  Answers(inst', boots', c, file[c], m)
    BY <2>1 DEF ReachFile, Local, IsEc2, Answers
  <2>2. file[c].members[m].id \in 1..MaxLaunch /\ Answers(inst, boots, c, file[c], m)
    BY DEF Local, IsEc2, ReachInv, ReachFile
  <2>3. inst[<<c, m, file[c].members[m].id>>] # "none"
    BY <2>2 DEF KnownInv, KnownIn
  <2> QED BY <1>1, <2>2, <2>3, AnswersKeep
<1>2. ASSUME NEW t \in Sessions, ClusterOf[t] # ClusterOf[s] PROVE ReachHeld(t)'
  <2>1. /\ mem'[t] = mem[t] /\ pc'[t] = pc[t] /\ todo'[t] = todo[t] /\ bad'[t] = bad[t]
        /\ ClusterOf[t] \in Clusters
    BY <1>2, <1>k DEF OthersKeep
  <2>2. ASSUME NEW m \in Members, pc[t] \in Holding, mem[t].members[m].id \in 1..MaxLaunch,
               Answers(inst, boots, ClusterOf[t], mem[t], m)
        PROVE  Answers(inst', boots', ClusterOf[t], mem[t], m)
    <3>1. inst[<<ClusterOf[t], m, mem[t].members[m].id>>] # "none"
      BY <2>2 DEF KnownInv, KnownHeld, KnownIn
    <3> QED BY <1>2, <2>1, <2>2, <3>1, AnswersKeep
  <2>3. ReachHeld(t)
    BY DEF ReachInv
  <2>4. ASSUME pc[t] \in Holding, NEW m \in Members, Local(mem[t], m)
        PROVE  Answers(inst', boots', ClusterOf[t], mem[t], m)
    BY <2>2, <2>3, <2>4 DEF ReachHeld, Local
  <2>5. ASSUME pc[t] = "start", bad[t] # "raise", NEW m \in Members \ todo[t], IsEc2(mem[t], m)
        PROVE  Answers(inst', boots', ClusterOf[t], mem[t], m)
    BY <2>2, <2>3, <2>5 DEF ReachHeld, IsEc2, Holding
  <2>6. pc[t] \in {"start", "stop"} => \A m \in todo[t] : ~Local(mem[t], m)
    BY <2>3 DEF ReachHeld
  <2>7. /\ pc'[t] \in Holding =>
             \A m \in Members : Local(mem'[t], m) => Answers(inst', boots', ClusterOf[t], mem'[t], m)
        /\ pc'[t] \in {"start", "stop"} => \A m \in todo'[t] : ~Local(mem'[t], m)
    BY <2>1, <2>4, <2>6
  <2>8. pc'[t] = "start" /\ bad'[t] # "raise" =>
             \A m \in Members \ todo'[t] : IsEc2(mem'[t], m) =>
                Answers(inst', boots', ClusterOf[t], mem'[t], m)
    BY <2>1, <2>5
  <2> QED BY <2>7, <2>8 DEF ReachHeld, Answers, Local, IsEc2
<1> QED BY <1>1, <1>2

\* ReachInv is inductive, given CompleteInv, MirrorInv and KnownInv.
LEMMA ReachStep ==
    Typed /\ CompleteInv /\ MirrorInv /\ KnownInv /\ ReachInv /\ [Next]_vars => ReachInv'
<1> SUFFICES ASSUME Typed, CompleteInv, MirrorInv, KnownInv, ReachInv, [Next]_vars PROVE ReachInv'
  OBVIOUS
<1>0. SingleEnv'
  BY DEF ReachInv, SingleEnv
<1>1. ASSUME NEW s \in Sessions, Act(s) PROVE ReachInv'
  <2>s. SessionInv(s) /\ OneUser
    BY DEF MirrorInv
  <2>1. ASSUME NEW i \in Ids, inst'[i] = "none" PROVE boots'[i] = 0
    <3>1. InstStep(s, i)
      BY <1>1, ActInst
    <3> QED BY <2>1, <3>1 DEF InstStep, ReachInv
  <2>2. \A c \in Clusters : ReachFile(c)'
    BY <1>1, <2>s, ReachFileAct, ReachOthers
  <2>3. ReachHeld(s)'
    <3>1. pc'[s] \in Holding =>
             \A m \in Members : Local(mem'[s], m) => Answers(inst', boots', ClusterOf[s], mem'[s], m)
      BY <1>1, <2>s, HeldLocal
    <3>2. pc'[s] \in {"start", "stop"} => \A m \in todo'[s] : ~Local(mem'[s], m)
      BY <1>1, CallsNoLocal
    <3>3. pc'[s] = "start" /\ bad'[s] # "raise" =>
             \A m \in Members \ todo'[s] : IsEc2(mem'[s], m) =>
                Answers(inst', boots', ClusterOf[s], mem'[s], m)
      BY <1>1, <2>s, StartedAnswers DEF IsEc2
    <3> QED BY <3>1, <3>2, <3>3 DEF ReachHeld, Local, Answers, IsEc2
  <2>4. \A t \in Sessions : ReachHeld(t)'
    BY <1>1, <2>s, <2>3, ReachOthers DEF OneUser
  <2> QED BY <1>0, <2>1, <2>2, <2>4 DEF ReachInv
<1>2. CASE UNCHANGED vars
  <2>1. /\ inst' = inst /\ boots' = boots /\ file' = file /\ mem' = mem /\ pc' = pc /\ todo' = todo
        /\ bad' = bad
    BY <1>2 DEF vars, cloudVars, fileVars, loopVars
  <2>2. \A i \in Ids : inst'[i] = "none" => boots'[i] = 0
    BY <2>1 DEF ReachInv
  <2>3. ASSUME NEW c \in Clusters PROVE ReachFile(c)'
    <3>1. ReachFile(c)
      BY DEF ReachInv
    <3> QED BY <2>1, <3>1 DEF ReachFile, Local, IsEc2, Answers
  <2>4. ASSUME NEW s \in Sessions PROVE ReachHeld(s)'
    <3>1. ReachHeld(s)
      BY DEF ReachInv
    <3> QED BY <2>1, <3>1 DEF ReachHeld, Local, IsEc2, Answers
  <2> QED BY <1>0, <2>2, <2>3, <2>4 DEF ReachInv
<1> QED BY <1>1, <1>2 DEF Next, Act

\* With one user for each cluster, and clusters in one environment, the
\* addresses in the file of a ready cluster are true: no failure and no
\* interruption of start, stop or any other command leaves an instance that is
\* recorded with an address stopped, or running at another one. (An instance
\* that was still pending when it was described is recorded without any.)
THEOREM ReadyReachable == OneUser /\ SingleEnv /\ Spec => []ReadyIsReachable
<1>1. SingleEnv /\ Init => ReachInv
  BY DEF Init, CloudInit, FileInit, ReachInv, ReachFile, ReachHeld, Local, IsEc2, NewCluster,
     NoMember, Holding
<1>2. ReachInv => ReadyIsReachable
  BY DEF ReachInv, ReachFile, ReadyIsReachable, HasAddress, InFile, FileId, Answers
<1> QED BY <1>1, <1>2, ReachStep, CompleteAlways, KnownAlways, MirrorAlways, TypedInvariant,
   PTL DEF Spec

(***************************************************************************)
(* OneInstancePerMember                                                    *)
(*                                                                         *)
(* A launch that fails or is interrupted leaves an instance that runs and  *)
(* is on no record: start can then bring back the one on record, so no     *)
(* more is said of commands that fail.                                     *)
(***************************************************************************)
NoFaults == ~MayFail /\ ~MayCrash

\* What runs is on record: in the file or, while it is launched, in memory.
Traced(c) ==
    fileExists[c] => \A m \in Members, n \in 1..MaxLaunch :
        inst[<<c, m, n>>] = "running" =>
            \/ file[c].members[m].id = n
            \/ \E s \in Sessions : ClusterOf[s] = c /\ pc[s] = "launch" /\ mem[s].members[m].id = n

Alone(c) ==
    \A m \in Members : \A n, k \in 1..MaxLaunch :
        inst[<<c, m, n>>] = "running" /\ inst[<<c, m, k>>] = "running" => n = k

LaunchesFine(s) == pc[s] = "launch" => bad[s] = "ok"

TracedInv ==
    /\ NoFaults
    /\ \A c \in Clusters : Traced(c) /\ Alone(c)
    /\ \A s \in Sessions : LaunchesFine(s)

\* A step changes one instance at most.
LEMMA OneChanges ==
    ASSUME Typed, NEW s \in Sessions, Act(s)
    PROVE  \E i : \A j \in Ids : j # i => inst'[j] = inst[j]
<1> USE DEF cloudVars
<1>t. inst \in [Ids -> InstanceStates]
  BY DEF Typed, CloudTypeOK
<1>0. ASSUME inst' = inst PROVE \E i : \A j \in Ids : j # i => inst'[j] = inst[j]
  BY <1>0
<1>e. ASSUME NEW i, NEW v, inst' = [inst EXCEPT ![i] = v]
      PROVE  \E k : \A j \in Ids : j # k => inst'[j] = inst[j]
  <2>1. \A j \in Ids : j # i => inst'[j] = inst[j]
    BY <1>e, <1>t
  <2> QED BY <2>1
<1>1. CASE Begin(s) \/ Crash(s)
  <2>1. inst' = inst
    BY <1>1 DEF Begin, Provision, Deprovision, Nuke, Start, Stop, Crash, Raise
  <2> QED BY <1>0, <2>1
<1>2. CASE ProvisioningStep(s)
  <2>1. inst' = inst \/ \E m \in Members : LaunchInstance(s, m) \/ LaunchReturnsNone(s, m)
    <3>1. CASE AllocateCollect(s)
      BY <3>1 DEF AllocateCollect
    <3> QED BY <1>2, <3>1 DEF ProvisioningStep, ConfigureCheck, ConfigureRefused, ConfigureSave,
          AllocateLoad, AllocateEnv, AllocateRefused, AllocateStorage, LaunchRaises, AllocateDone,
          SelfTest, Make, OnAllNodes, InstallLoad, InstallSave, UninstallLoad, UninstallEnv,
          UninstallDone, ProvisioningRaises, Raise
  <2>2. ASSUME NEW m \in Members, LaunchInstance(s, m) \/ LaunchReturnsNone(s, m)
        PROVE  inst' = inst \/ \E i : inst' = [inst EXCEPT ![i] = "running"]
    BY <2>2 DEF LaunchInstance, LaunchReturnsNone, RunInstance
  <2> QED BY <1>0, <1>e, <2>1, <2>2
<1>3. CASE DeProvisioningStep(s)
  <2>1. inst' = inst \/ \E i : inst' = [inst EXCEPT ![i] = "terminated"]
    BY <1>3 DEF DeProvisioningStep, CleanSave, CleanEnv, CleanStorage, CleanStorageRaises,
       CleanRemove, TerminateNode,
       TerminateRaises, TerminateInstance, NukeDescribe, NukeWait, NukeRemove, NukeInstance,
       NukeVolume, DeProvisioningRaises, Raise
  <2> QED BY <1>0, <1>e, <2>1
<1>4. CASE CloudCommandsStep(s)
  <2>1. inst' = inst \/ \E i : \/ inst' = [inst EXCEPT ![i] = "running"]
                               \/ inst' = [inst EXCEPT ![i] = "stopped"]
    BY <1>4 DEF CloudCommandsStep, StartStopDone, StartEnv, StartSave, StartBackends, Starts,
       StartNode, StartNodePending,
       StartRaises, StartInstance, StopEnv, StopSave, StopCollect, StopNode, StopInstance,
       StopRaises,
       CloudCommandsRaises, Raise
  <2> QED BY <1>0, <1>e, <2>1
<1> QED BY <1>1, <1>2, <1>3, <1>4 DEF Act, Step

\* Without faults a launch goes on to the end.
LEMMA LaunchGoesOn ==
    ASSUME Typed, NoFaults, NEW s \in Sessions, Act(s), pc[s] = "launch"
    PROVE  AllocateCollect(s) \/ \E m \in Members : LaunchInstance(s, m)
<1> USE DEF NoFaults
<1>1. ~Begin(s) /\ ~Crash(s)
  BY DEF Begin, Provision, Deprovision, Nuke, Start, Stop, Crash
<1>2. ~DeProvisioningStep(s)
  BY DEF DeProvisioningStep, CleanSave, CleanEnv, CleanStorage, CleanStorageRaises, CleanRemove,
     TerminateNode,
     TerminateRaises, NukeDescribe, NukeWait, NukeRemove, NukeInstance, NukeVolume,
     DeProvisioningRaises
<1>3. ~CloudCommandsStep(s)
  BY DEF CloudCommandsStep, StartStopDone, StartEnv, StartSave, StartBackends, Starts, StartNode,
     StartNodePending, StartRaises,
     StopEnv, StopSave, StopCollect, StopNode, StopRaises, CloudCommandsRaises
<1>4. ProvisioningStep(s)
  BY <1>1, <1>2, <1>3 DEF Act, Step
<1> QED BY <1>4 DEF ProvisioningStep, ConfigureCheck, ConfigureRefused, ConfigureSave, AllocateLoad,
        AllocateEnv, AllocateRefused, AllocateStorage, LaunchReturnsNone, LaunchRaises,
        AllocateDone,
        SelfTest, Make, OnAllNodes, InstallLoad, InstallSave, UninstallLoad, UninstallEnv,
        UninstallDone, ProvisioningRaises

\* What is launched did not run, nor what it replaces.
LEMMA LaunchesQuiet ==
    ASSUME ForgetInv, NEW s \in Sessions, SessionInv(s), pc[s] = "launch", NEW m \in Members
    PROVE  /\ m \in todo[s] => Quiet(ClusterOf[s], m)
           /\ MemberEnv[m] = ix[s] /\ InFile(ClusterOf[s], m) => inst[FileId(ClusterOf[s], m)] # "running"
<1>1. Allocating(s)
  BY DEF ForgetInv, Checked
<1>2. m \in todo[s] => MemberEnv[m] = ix[s]
  BY DEF SessionInv, Launching
<1>3. MemberEnv[m] = ix[s] => CloudOf[MemberEnv[m]] \in Asked(s)
  BY DEF Asked
<1>4. m \in todo[s] => Ahead(s, m)
  BY <1>2 DEF Ahead
<1> QED BY <1>1, <1>2, <1>3, <1>4 DEF Allocating

\* A member that is started is the one on record.
LEMMA StartsRecorded ==
    ASSUME Typed, NEW s \in Sessions, SessionInv(s), Act(s), NEW m \in Members, NEW n \in 1..MaxLaunch,
           inst[<<ClusterOf[s], m, n>>] # "running", inst'[<<ClusterOf[s], m, n>>] = "running"
    PROVE  \/ pc[s] = "launch" /\ m \in todo[s] /\ inst[<<ClusterOf[s], m, n>>] = "none"
           \/ pc[s] = "start" /\ file[ClusterOf[s]].members[m].id = n
<1> DEFINE i == <<ClusterOf[s], m, n>>
<1>1. i \in Ids /\ i[1] = ClusterOf[s] /\ i[2] = m /\ i[3] = n
  BY DEF Ids
<1>2. InstStep(s, i)
  BY <1>1, ActInst
<1>3. i = Id(s, i[2]) => mem[s].members[m].id = n
  BY <1>1 DEF Id
<1>4. pc[s] = "start" => mem[s].members[m].id = file[ClusterOf[s]].members[m].id
  BY DEF SessionInv, Mirrors, Holding
<1> HIDE DEF i
<1> QED BY <1>1, <1>2, <1>3, <1>4 DEF InstStep, i

\* No step makes a second instance of a member run: launch is for members of
\* which none runs, start for the one on record, which is the only one.
LEMMA AloneAct ==
    ASSUME Typed, MirrorInv, ForgetInv, TracedInv, NEW s \in Sessions, Act(s)
    PROVE  Alone(ClusterOf[s])'
<1> DEFINE c == ClusterOf[s]
<1> SUFFICES ASSUME NEW m \in Members, NEW n \in 1..MaxLaunch, NEW k \in 1..MaxLaunch,
                    inst'[<<c, m, n>>] = "running", inst'[<<c, m, k>>] = "running", n # k
             PROVE  FALSE
  BY DEF Alone
<1>s. SessionInv(s) /\ c \in Clusters /\ OneUser
  BY DEF MirrorInv
<1>d. <<c, m, n>> \in Ids /\ <<c, m, k>> \in Ids /\ <<c, m, n>> # <<c, m, k>>
  BY <1>s DEF Ids
\* one of them is new and the other is not
<1>1. ASSUME NEW a \in 1..MaxLaunch, NEW b \in 1..MaxLaunch, a # b,
             inst[<<c, m, a>>] # "running", inst'[<<c, m, a>>] = "running",
             inst[<<c, m, b>>] = "running"
      PROVE  FALSE
  <2>1. CASE pc[s] = "launch" /\ m \in todo[s]
    BY <1>1, <2>1, <1>s, LaunchesQuiet DEF Quiet
  <2>2. CASE pc[s] = "start" /\ file[c].members[m].id = a
    <3>1. fileExists[c]
      BY <2>2, <1>s DEF SessionInv, Mirrors, Holding
    <3>2. ~\E t \in Sessions : ClusterOf[t] = c /\ pc[t] = "launch"
      BY <2>2, <1>s DEF OneUser
    <3> QED BY <1>1, <2>2, <3>1, <3>2, <1>s DEF TracedInv, Traced
  <2> QED BY <1>1, <1>s, <2>1, <2>2, StartsRecorded
<1>2. inst[<<c, m, n>>] = "running" \/ inst[<<c, m, k>>] = "running"
  BY <1>d, OneChanges
<1>3. ~(inst[<<c, m, n>>] = "running" /\ inst[<<c, m, k>>] = "running")
  BY <1>s DEF TracedInv, Alone
<1> QED BY <1>1, <1>2, <1>3

\* What runs stays on record: without faults the ids of a launch reach the file.
LEMMA TracedAct ==
    ASSUME Typed, MirrorInv, KnownInv, ForgetInv, TracedInv, NEW s \in Sessions, Act(s)
    PROVE  Traced(ClusterOf[s])'
<1> DEFINE c == ClusterOf[s]
<1> SUFFICES ASSUME fileExists'[c], NEW m \in Members, NEW n \in 1..MaxLaunch,
                    inst'[<<c, m, n>>] = "running"
             PROVE  \/ file'[c].members[m].id = n
                    \/ pc'[s] = "launch" /\ mem'[s].members[m].id = n
  BY DEF Traced
<1>s. SessionInv(s) /\ c \in Clusters /\ OneUser
  BY DEF MirrorInv
<1>t. /\ mem \in [Sessions -> ClusterObjs] /\ mem[s] \in ClusterObjs /\ file[c] \in ClusterObjs
      /\ inst \in [Ids -> InstanceStates]
  BY DEF Typed, SessionTypeOK, DiskFileTypeOK, CloudTypeOK
<1>d. <<c, m, n>> \in Ids
  BY <1>s DEF Ids
<1>r. ASSUME fileExists[c], inst[<<c, m, n>>] = "running"
      PROVE  file[c].members[m].id = n \/ (pc[s] = "launch" /\ mem[s].members[m].id = n)
  BY <1>r, <1>s DEF TracedInv, Traced, OneUser
<1>h. pc[s] \in Holding => fileExists[c]
  BY <1>s DEF SessionInv, Mirrors
<1>1. CASE AllocateCollect(s)
  <2>1. pc[s] = "launch" /\ bad[s] = "ok" /\ inst' = inst /\ fileExists[c]
    BY <1>1, <1>h DEF AllocateCollect, cloudVars, TracedInv, LaunchesFine, Holding
  <2>2. file'[c] = AfterLaunch(s)
    BY <1>1, <2>1, SaveFile DEF AllocateCollect
  <2>3. mem[s].members[m].id = n
    <3>1. CASE file[c].members[m].id = n
      <4>1. InFile(c, m) /\ FileId(c, m) = <<c, m, n>>
        BY <2>1, <3>1 DEF InFile, IsEc2, FileId
      <4>2. MemberEnv[m] # ix[s]
        BY <2>1, <4>1, <1>s, LaunchesQuiet
      <4>3. mem[s].members[m] = file[c].members[m]
        BY <2>1, <4>2, <1>s DEF SessionInv, Mirrors, Holding
      <4> QED BY <3>1, <4>3
    <3> QED BY <2>1, <3>1, <1>r
  <2>4. m \notin SelfManaged
    BY <2>1, <2>3 DEF KnownInv, KnownHeld, KnownIn, Holding
  <2>5. AfterLaunch(s).members[m] = mem[s].members[m]
    BY <2>4, <1>t DEF AfterLaunch, ClusterObjs
  <2> QED BY <2>2, <2>3, <2>5
<1>2. ASSUME NEW k \in Members, LaunchInstance(s, k)
      PROVE  file'[c].members[m].id = n \/ (pc'[s] = "launch" /\ mem'[s].members[m].id = n)
  <2>1. PICK a \in 1..MaxLaunch, r \in StorageResults(k), ip \in LaunchIps :
           /\ inst' = [inst EXCEPT ![<<c, k, a>>] = "running"]
           /\ mem' = [mem EXCEPT ![s].members[k] = [id |-> a, ip |-> ip, vol |-> r.vol]]
    BY <1>2 DEF LaunchInstance, RunInstance
  <2>2. pc[s] = "launch" /\ pc' = pc /\ k \in todo[s] /\ file' = file /\ fileExists[c]
    BY <1>2, <1>h DEF LaunchInstance, fileVars, Holding
  <2>3. /\ \A l \in Members \ {k} : mem'[s].members[l] = mem[s].members[l]
        /\ mem'[s].members[k].id = a
    BY <2>1, <1>t DEF ClusterObjs
  <2>4. CASE k = m
    <3>1. inst[<<c, m, n>>] # "running"
      BY <2>2, <2>4, <1>s, LaunchesQuiet DEF Quiet
    <3>2. <<c, m, n>> = <<c, k, a>>
      BY <2>1, <3>1, <1>t, <1>d
    <3>3. n = a
      BY <3>2
    <3> QED BY <2>2, <2>3, <2>4, <3>3
  <2>5. CASE k # m
    <3>1. <<c, m, n>> # <<c, k, a>>
      BY <2>5
    <3>2. inst[<<c, m, n>>] = "running"
      BY <2>1, <3>1, <1>t, <1>d
    <3> QED BY <2>2, <2>3, <2>5, <3>2, <1>r
  <2> QED BY <2>4, <2>5
<1>3. ASSUME pc[s] # "launch", fileExists[c],
             file'[c].members[m].id = file[c].members[m].id
      PROVE  file'[c].members[m].id = n
  <2>1. CASE inst[<<c, m, n>>] = "running"
    BY <1>3, <2>1, <1>r
  <2>2. CASE inst[<<c, m, n>>] # "running"
    BY <1>3, <2>2, <1>s, StartsRecorded
  <2> QED BY <2>1, <2>2
<1>4. CASE pc[s] # "launch"
  <2>1. CASE file' = file /\ fileExists' = fileExists
    BY <1>3, <1>4, <2>1
  <2>2. CASE ConfigureSave(s)
    <3>1. pc[s] = "configure" /\ inst' = inst /\ ix[s] > NumEnvs /\ MemberEnv[m] \in Envs /\ ix[s] \in Nat
      BY <2>2 DEF ConfigureSave, cloudVars, Typed, SessionTypeOK
    <3>2. MemberEnv[m] < ix[s]
      BY <3>1 DEF Envs
    <3>3. Quiet(c, m)
      BY <3>1, <3>2 DEF ForgetInv, Checked, Configured
    <3> QED BY <3>1, <3>3 DEF Quiet
  <2>3. CASE CleanRemove(s) \/ NukeRemove(s)
    <3>1. ~fileExists'[c]
      BY <2>3, <1>s DEF CleanRemove, NukeRemove, RemoveClusterYaml, Typed, DiskFileTypeOK
    <3> QED BY <3>1
  <2>4. CASE pc[s] \in Holding \ {"launch"} /\ SameMembers(file'[c], mem[s])
    <3>1. mem[s].members[m].id = file[c].members[m].id
      BY <2>4, <1>s DEF SessionInv, Mirrors
    <3> QED BY <1>3, <2>4, <3>1, <1>h DEF SameMembers
  <2> QED BY <1>1, <1>s, <2>1, <2>2, <2>3, <2>4, ActMem DEF FileStep
<1>5. CASE pc[s] = "launch"
  BY <1>1, <1>2, <1>5, LaunchGoesOn DEF TracedInv
<1> QED BY <1>4, <1>5

\* TracedInv is inductive, given MirrorInv, KnownInv and ForgetInv.
LEMMA TracedStep ==
    Typed /\ MirrorInv /\ KnownInv /\ ForgetInv /\ TracedInv /\ [Next]_vars => TracedInv'
<1> SUFFICES ASSUME Typed, MirrorInv, KnownInv, ForgetInv, TracedInv, [Next]_vars PROVE TracedInv'
  OBVIOUS
<1>0. NoFaults /\ NoFaults'
  BY DEF TracedInv, NoFaults
<1>1. ASSUME NEW s \in Sessions, Act(s) PROVE TracedInv'
  <2>k. OthersKeep(s) /\ OneUser
    BY <1>1, ActKeeps DEF MirrorInv
  <2>1. ASSUME NEW c \in Clusters, c # ClusterOf[s] PROVE Traced(c)' /\ Alone(c)'
    <3>1. \A m \in Members, n \in 1..MaxLaunch : <<c, m, n>> \in Ids /\ <<c, m, n>>[1] = c
      BY DEF Ids
    <3>2. \A m \in Members, n \in 1..MaxLaunch :
             inst'[<<c, m, n>>] = "running" => inst[<<c, m, n>>] = "running"
      BY <1>1, <2>1, <3>1, RunningFrom
    <3>3. Alone(c)'
      BY <3>2 DEF TracedInv, Alone
    <3>4. /\ file'[c] = file[c] /\ fileExists'[c] = fileExists[c]
          /\ \A t \in Sessions : ClusterOf[t] = c => pc'[t] = pc[t] /\ mem'[t] = mem[t]
      BY <2>1, <2>k DEF OthersKeep
    <3>5. Traced(c)
      BY DEF TracedInv
    <3>6. Traced(c)'
      BY <3>2, <3>4, <3>5 DEF Traced
    <3> QED BY <3>3, <3>6
  <2>2. Traced(ClusterOf[s])' /\ Alone(ClusterOf[s])'
    BY <1>1, TracedAct, AloneAct
  <2>3. ASSUME pc'[s] = "launch" PROVE bad'[s] = "ok"
    <3>1. bad \in [Sessions -> Outcomes]
      BY DEF Typed, SessionTypeOK
    <3>2. CASE AllocateStorage(s)
      BY <3>1, <3>2 DEF AllocateStorage, StartCalls
    <3>3. ASSUME NEW m \in Members, LaunchInstance(s, m) PROVE bad'[s] = "ok"
      BY <3>1, <3>3 DEF LaunchInstance, CallDone, TracedInv, LaunchesFine
    <3> QED BY <1>0, <1>1, <2>3, <3>2, <3>3, ActEnters DEF Enters, NoFaults, LaunchReturnsNone,
            LaunchRaises
  <2>4. ASSUME NEW t \in Sessions PROVE LaunchesFine(t)'
    BY <2>k, <2>3 DEF OthersKeep, TracedInv, LaunchesFine
  <2> QED BY <1>0, <2>1, <2>2, <2>4 DEF TracedInv
<1>2. CASE UNCHANGED vars
  BY <1>2, <1>0 DEF vars, cloudVars, fileVars, loopVars, TracedInv, Traced, Alone, LaunchesFine
<1> QED BY <1>1, <1>2 DEF Next, Act

\* Without failures and interruptions, with one user for each cluster and one
\* region in each cloud, a member has one running instance at most, after any
\* sequence of allocate, clean, nuke, start and stop.
THEOREM OneInstance ==
    OneUser /\ OneRegionPerCloud /\ NoFaults /\ Spec => []OneInstancePerMember
<1>1. NoFaults /\ Init => TracedInv
  BY DEF Init, CloudInit, FileInit, TracedInv, Traced, Alone, LaunchesFine, Ids
<1>2. TracedInv => OneInstancePerMember
  <2> SUFFICES ASSUME TracedInv, NEW i \in Ids, NEW j \in Ids, i[1] = j[1], i[2] = j[2],
                      inst[i] = "running", inst[j] = "running"
               PROVE  i = j
    BY DEF OneInstancePerMember
  <2>1. /\ i = <<i[1], i[2], i[3]>> /\ j = <<i[1], i[2], j[3]>> /\ i[1] \in Clusters
        /\ i[2] \in Members /\ i[3] \in 1..MaxLaunch /\ j[3] \in 1..MaxLaunch
    BY DEF Ids
  <2>2. i[3] = j[3]
    BY <2>1 DEF TracedInv, Alone
  <2> QED BY <2>1, <2>2
<1> QED BY <1>1, <1>2, TracedStep, ForgetAlways, KnownAlways, MirrorAlways, TypedInvariant, PTL
        DEF Spec

(***************************************************************************)
(* DownIsStopped                                                           *)
(*                                                                         *)
(* start raises at a faked member, after it started others, and so it does *)
(* at an instance that nuke, of this cluster or of one with a shorter name, *)
(* terminated before it raised: the file then still says down. stop looks   *)
(* at the backends only, so it does not notice that another one is gone.    *)
(***************************************************************************)
Undisturbed ==
    /\ SingleEnv
    /\ NoFaults
    /\ SelfManaged = {}
    /\ "nuke" \notin Commands

Durable(m) == Storage[m] # "ephemeral"

\* Every member on record is an instance with its storage.
Whole(o) ==
    \A m \in Members : o.members[m].id # 0 =>
        o.members[m].id \in 1..MaxLaunch /\ (Storage[m] = "ephemeral" => o.members[m].vol)

\* Steps at which instances of a cluster that is down may run
Switching == {"clean_env", "terminate", "start", "stop"}

\* The instances that start and stop work on are there.
Alive(states, c, o) ==
    \A m \in Members : o.members[m].id \in 1..MaxLaunch /\ Durable(m) =>
        states[<<c, m, o.members[m].id>>] \in {"running", "stopped"}

Cleaning == {"clean_env", "terminate"}

AliveFile(c) ==
    \/ Alive(inst, c, file[c])
    \/ \E s \in Sessions : ClusterOf[s] = c /\ pc[s] \in Cleaning

AliveHeld(s) == pc[s] \in Holding \ Cleaning => Alive(inst, ClusterOf[s], mem[s])

DownFile(c) ==
    file[c].state = "down" =>
        \A m \in Members : IsEc2(file[c], m) /\ Durable(m) =>
            \/ inst[<<c, m, file[c].members[m].id>>] = "stopped"
            \/ \E s \in Sessions : ClusterOf[s] = c /\ pc[s] \in Switching

DownHeld(s) ==
    /\ pc[s] \in Holding => Whole(mem[s])
    /\ pc[s] \in {"launch", "terminate", "start", "stop"} => bad[s] = "ok"
    /\ pc[s] = "stop_save" => ix[s] \in 1..Len(mem[s].envs)
    /\ pc[s] \in {"start", "stop"} => \A m \in todo[s] : Durable(m) /\ mem[s].members[m].id # 0
    /\ pc[s] = "stop" => \A m \in Members \ todo[s] :
          IsEc2(mem[s], m) /\ Durable(m) => inst[Id(s, m)] = "stopped"
    /\ pc[s] \notin {"nuke", "nuke_instances"}

DownInv ==
    /\ Undisturbed
    /\ \A c \in Clusters : Whole(file[c]) /\ AliveFile(c) /\ DownFile(c)
    /\ \A s \in Sessions : AliveHeld(s) /\ DownHeld(s)

\* Whole depends on the ids and the storage on record.
LEMMA WholeSame ==
    ASSUME NEW o, NEW p, Whole(o),
           \A m \in Members : p.members[m].id # 0 =>
              p.members[m].id = o.members[m].id /\ p.members[m].vol = o.members[m].vol
    PROVE  Whole(p)
BY DEF Whole

\* The instances of other clusters are left alone.
LEMMA OwnOnly ==
    ASSUME Typed, DownInv, NEW s \in Sessions, Act(s), NEW i \in Ids, i[1] # ClusterOf[s]
    PROVE  inst'[i] = inst[i]
<1>1. InstStep(s, i)
  BY ActInst
<1>2. i # Id(s, i[2])
  BY DEF Id
<1>3. pc[s] # "nuke_instances"
  BY DEF DownInv, DownHeld
<1> QED BY <1>1, <1>2, <1>3 DEF InstStep

\* What is stopped stays stopped but for clean and start.
LEMMA StaysStopped ==
    ASSUME Typed, DownInv, NEW s \in Sessions, Act(s), NEW i \in Ids, inst[i] = "stopped",
           pc[s] \notin {"terminate", "start"}
    PROVE  inst'[i] = "stopped"
<1>1. InstStep(s, i)
  BY ActInst
<1>3. pc[s] # "nuke_instances"
  BY DEF DownInv, DownHeld
<1> QED BY <1>1, <1>3 DEF InstStep

\* Only clean terminates.
LEMMA StaysAlive ==
    ASSUME Typed, DownInv, NEW s \in Sessions, Act(s), NEW i \in Ids,
           inst[i] \in {"running", "stopped"}, pc[s] # "terminate"
    PROVE  inst'[i] \in {"running", "stopped"}
<1>1. InstStep(s, i)
  BY ActInst
<1>2. pc[s] # "nuke_instances"
  BY DEF DownInv, DownHeld
<1> QED BY <1>1, <1>2 DEF InstStep

\* Alive depends on the instances on record.
LEMMA AliveSame ==
    ASSUME Typed, DownInv, NEW s \in Sessions, Act(s), NEW o, NEW p, NEW c \in Clusters,
           Alive(inst, c, o), pc[s] # "terminate",
           \A m \in Members : p.members[m].id \in 1..MaxLaunch => p.members[m].id = o.members[m].id
    PROVE  Alive(inst', c, p)
<1> SUFFICES ASSUME NEW m \in Members, p.members[m].id \in 1..MaxLaunch, Durable(m)
             PROVE  inst'[<<c, m, p.members[m].id>>] \in {"running", "stopped"}
  BY DEF Alive
<1>1. inst[<<c, m, p.members[m].id>>] \in {"running", "stopped"}
  BY DEF Alive
<1>2. <<c, m, p.members[m].id>> \in Ids
  BY DEF Ids
<1> QED BY <1>1, <1>2, StaysAlive

\* Without faults clean, start and stop go on to the end.
LEMMA SwitchingGoesOn ==
    ASSUME Typed, NoFaults, NEW s \in Sessions, Act(s), pc[s] \in Switching
    PROVE  \/ CleanEnv(s) \/ CleanRemove(s) \/ CleanStorage(s) \/ StartSave(s) \/ StopCollect(s)
           \/ \E m \in Members : \/ TerminateNode(s, m) \/ Starts(s, m) \/ StartRaises(s, m)
                                 \/ StopNode(s, m) \/ StopRaises(s, m)
<1> USE DEF NoFaults, Switching
<1>1. ~Begin(s) /\ ~Crash(s)
  BY DEF Begin, Provision, Deprovision, Nuke, Start, Stop, Crash
<1>2. ~ProvisioningStep(s)
  BY DEF ProvisioningStep, ConfigureCheck, ConfigureRefused, ConfigureSave, AllocateLoad,
     AllocateEnv, AllocateRefused, AllocateStorage, LaunchInstance, LaunchReturnsNone, LaunchRaises,
     AllocateCollect, AllocateDone, SelfTest, Make, OnAllNodes, InstallLoad, InstallSave,
     UninstallLoad, UninstallEnv, UninstallDone, ProvisioningRaises
<1>3. CASE DeProvisioningStep(s)
  BY <1>3 DEF DeProvisioningStep, CleanSave, CleanStorageRaises, TerminateRaises, NukeDescribe,
     NukeWait, NukeRemove, NukeInstance, NukeVolume, DeProvisioningRaises
<1>4. CASE CloudCommandsStep(s)
  BY <1>4 DEF CloudCommandsStep, Starts, StartStopDone, StartEnv, StartBackends, StopEnv,
     StopSave, CloudCommandsRaises
<1> QED BY <1>1, <1>2, <1>3, <1>4 DEF Act, Step

\* The one environment is that of every member.
LEMMA SameEnv ==
    ASSUME SingleEnv, NEW o \in ClusterObjs, NEW k \in 1..Len(o.envs), NEW m \in Members
    PROVE  MemberEnv[m] = o.envs[k]
<1>1. o.envs[k] \in Envs /\ MemberEnv[m] \in Envs
  BY DEF ClusterObjs
<1> QED BY <1>1 DEF SingleEnv, Envs

\* clean goes on to the end: it leaves no file.
LEMMA CleaningGoesOn ==
    ASSUME Typed, MirrorInv, ForgetInv, DownInv, NEW s \in Sessions, Act(s), pc[s] \in Cleaning
    PROVE  pc'[s] \in Cleaning \/ (pc'[s] = "idle" /\ file'[ClusterOf[s]] = NewCluster)
<1>t. /\ mem[s] \in ClusterObjs /\ pc \in [Sessions -> Labels] /\ ClusterOf[s] \in Clusters
  BY DEF Typed, SessionTypeOK
<1>s. DownHeld(s) /\ SingleEnv /\ NoFaults
  BY DEF DownInv, Undisturbed
<1>1. CASE CleanEnv(s)
  BY <1>1, <1>t DEF CleanEnv, Goto, Cleaning
<1>2. CASE CleanRemove(s)
  <2>1. file'[ClusterOf[s]] = NewCluster
    BY <1>2 DEF CleanRemove, RemoveClusterYaml, Typed, DiskFileTypeOK
  <2>2. pc'[s] = "idle"
    BY <1>2, ExitPc DEF CleanRemove
  <2> QED BY <2>1, <2>2
<1>3. CASE CleanStorage(s)
  <2>1. pc[s] = "terminate" /\ bad[s] = "ok"
    BY <1>3, <1>s DEF CleanStorage, DownHeld
  <2>2. \A e \in mem[s].shared : CloudOf[e] = CloudOf[ThisEnv(s)]
    <3>1. ix[s] \in 1..Len(mem[s].envs)
      BY <2>1 DEF ForgetInv, Checked, Cleaned
    <3>2. mem[s].shared \subseteq Envs /\ ThisEnv(s) \in Envs
      BY <3>1, <1>t DEF ClusterObjs, ThisEnv
    <3> QED BY <3>2, <1>s DEF SingleEnv, Envs
  <2> QED BY <1>3, <2>1, <2>2, <1>t DEF CleanStorage, Goto, Cleaning
<1>4. ASSUME NEW m \in Members, TerminateNode(s, m) PROVE pc'[s] \in Cleaning
  BY <1>4 DEF TerminateNode, Cleaning
<1>5. ASSUME NEW m \in Members, \/ Starts(s, m) \/ StartRaises(s, m)
                                \/ StopNode(s, m) \/ StopRaises(s, m)
      PROVE  FALSE
  BY <1>5 DEF Starts, StartNode, StartNodePending, StartRaises, StopNode, StopRaises, Cleaning
<1>6. ~StartSave(s) /\ ~StopCollect(s)
  BY DEF StartSave, StopCollect, Cleaning
<1> QED BY <1>1, <1>2, <1>3, <1>4, <1>5, <1>6, <1>s, SwitchingGoesOn DEF Switching, Cleaning

\* Only clean, which leaves no file, takes the recorded instances away.
LEMMA AliveAct ==
    ASSUME Typed, MirrorInv, ForgetInv, DownInv, NEW s \in Sessions, Act(s)
    PROVE  AliveFile(ClusterOf[s])' /\ AliveHeld(s)'
<1> DEFINE c == ClusterOf[s]
<1>s. SessionInv(s) /\ c \in Clusters /\ DownHeld(s) /\ OneUser
  BY DEF MirrorInv, DownInv
<1>t. /\ mem \in [Sessions -> ClusterObjs] /\ mem[s] \in ClusterObjs /\ bad[s] \in Outcomes
      /\ inst \in [Ids -> InstanceStates]
  BY DEF Typed, SessionTypeOK, CloudTypeOK
<1>n. Alive(inst', c, NewCluster)
  BY DEF Alive, NewCluster, NoMember
<1>1. CASE pc[s] \in Cleaning
  <2>1. pc'[s] \in Cleaning \/ (pc'[s] = "idle" /\ file'[c] = NewCluster)
    BY <1>1, CleaningGoesOn
  <2>2. AliveFile(c)'
    BY <2>1, <1>n DEF AliveFile, Alive
  <2>3. AliveHeld(s)'
    BY <2>1 DEF AliveHeld, Holding
  <2> QED BY <2>2, <2>3
<1>2. CASE pc[s] \notin Cleaning
  <2>p. pc[s] # "terminate"
    BY <1>2 DEF Cleaning
  <2>f. Alive(inst, c, file[c])
    BY <1>2, <1>s DEF DownInv, AliveFile, OneUser
  <2>h. pc[s] \in Holding => Alive(inst, c, mem[s])
    BY <1>2 DEF DownInv, AliveHeld
  <2>m. ASSUME NEW p, pc[s] \in Holding,
               \A m \in Members : p.members[m].id \in 1..MaxLaunch
                   => p.members[m].id = mem[s].members[m].id
        PROVE  Alive(inst', c, p)
    BY <2>m, <2>h, <2>p, <1>s, AliveSame
  <2>l. ASSUME NEW p, p = file[c] PROVE Alive(inst', c, p)
    BY <2>f, <2>p, <2>l, <1>s, AliveSame
  <2>c. ASSUME AllocateCollect(s) PROVE Alive(inst', c, AfterLaunch(s))
    <3>1. pc[s] \in Holding
      BY <2>c DEF AllocateCollect, Holding
    <3>2. \A m \in Members : AfterLaunch(s).members[m].id \in 1..MaxLaunch
             => AfterLaunch(s).members[m].id = mem[s].members[m].id
      BY <1>t DEF AfterLaunch, ClusterObjs, SelfId
    <3> QED BY <3>1, <3>2, <2>m
  <2>1. Alive(inst', c, file'[c])
    <3>1. CASE file' = file
      BY <3>1, <2>l
    <3>2. CASE file'[c] = NewCluster
      BY <3>2, <1>n
    <3>3. CASE pc[s] \in Holding /\ SameMembers(file'[c], mem[s])
      BY <3>3, <2>m DEF SameMembers
    <3>4. CASE AllocateCollect(s)
      <4>1. file' = file \/ SaveCluster(s, AfterLaunch(s))
        BY <3>4, <1>t DEF AllocateCollect, fileVars, Outcomes
      <4> QED BY <3>1, <3>4, <4>1, <2>c, SaveFile
    <3> QED BY <1>s, <3>1, <3>2, <3>3, <3>4, ActMem DEF FileStep
  <2>2. ASSUME pc'[s] \in Holding PROVE Alive(inst', c, mem'[s])
    <3>1. CASE pc[s] \in Holding /\ SameMembers(mem'[s], mem[s])
      BY <3>1, <2>m DEF SameMembers
    <3>2. CASE mem'[s] = file[c]
      BY <3>2, <2>l
    <3>3. CASE AllocateEnv(s)
      <4>1. pc[s] \in Holding /\ mem'[s].members = mem[s].members
        BY <3>3, <1>t DEF AllocateEnv, ClusterObjs, Holding
      <4> QED BY <4>1, <2>m
    <3>4. CASE AllocateCollect(s)
      <4>1. bad[s] = "ok"
        BY <3>4, <1>s DEF AllocateCollect, DownHeld
      <4>2. mem'[s] = AfterLaunch(s)
        BY <3>4, <4>1, <1>t DEF AllocateCollect
      <4> QED BY <3>4, <4>2, <2>c
    <3>5. ASSUME NEW k \in Members, LaunchInstance(s, k) PROVE Alive(inst', c, mem'[s])
      <4>1. PICK n \in 1..MaxLaunch, r \in StorageResults(k), ip \in LaunchIps :
               /\ inst' = [inst EXCEPT ![<<c, k, n>>] = "running"]
               /\ mem' = [mem EXCEPT ![s].members[k] = [id |-> n, ip |-> ip, vol |-> r.vol]]
        BY <3>5 DEF LaunchInstance, RunInstance
      <4>2. /\ \A m \in Members \ {k} : mem'[s].members[m] = mem[s].members[m]
            /\ mem'[s].members[k] = [id |-> n, ip |-> ip, vol |-> r.vol]
        BY <4>1, <1>t DEF ClusterObjs
      <4>3. Alive(inst', c, mem[s])
        BY <3>5, <2>m DEF LaunchInstance, Holding
      <4>4. mem'[s].members[k].id = n /\ inst'[<<c, k, n>>] = "running"
        BY <4>1, <4>2, <1>t, <1>s DEF Ids
      <4> QED BY <4>2, <4>3, <4>4 DEF Alive
    <3>6. ASSUME NEW k \in Members, Starts(s, k) PROVE Alive(inst', c, mem'[s])
      BY <3>6, <2>m, StartsMembers DEF Holding
    <3>7. CASE pc[s] = "launch" /\ mem'[s] = mem[s]
      BY <3>7, <2>m DEF Holding
    <3> QED BY <2>2, <1>s, <3>1, <3>2, <3>3, <3>4, <3>5, <3>6, <3>7, ActMem DEF MemStep
  <2> QED BY <2>1, <2>2 DEF AliveFile, AliveHeld, Alive
<1> QED BY <1>1, <1>2

\* When a step leaves the file saying down, the instances are stopped or the
\* command is still at work on them.
LEMMA DownFileAct ==
    ASSUME Typed, MirrorInv, ForgetInv, DownInv, NEW s \in Sessions, Act(s)
    PROVE  DownFile(ClusterOf[s])'
<1> DEFINE c == ClusterOf[s]
<1> SUFFICES ASSUME file'[c].state = "down", NEW m \in Members,
                    file'[c].members[m].id \in 1..MaxLaunch, Durable(m)
             PROVE  \/ inst'[<<c, m, file'[c].members[m].id>>] = "stopped"
                    \/ pc'[s] \in Switching
  BY DEF DownFile, IsEc2
<1>s. SessionInv(s) /\ c \in Clusters /\ OneUser /\ DownHeld(s) /\ DownFile(c)
  BY DEF MirrorInv, DownInv
<1>u. SingleEnv /\ NoFaults
  BY DEF DownInv, Undisturbed
<1>t. /\ mem \in [Sessions -> ClusterObjs] /\ mem[s] \in ClusterObjs /\ file[c] \in ClusterObjs
      /\ pc \in [Sessions -> Labels] /\ bad[s] \in Outcomes
  BY DEF Typed, SessionTypeOK, DiskFileTypeOK
<1>1. CASE pc[s] \in Switching
  <2>1. CASE CleanEnv(s)
    BY <2>1, <1>t DEF CleanEnv, Goto, Switching
  <2>2. CASE CleanRemove(s)
    <3>1. file'[c] = NewCluster
      BY <2>2 DEF CleanRemove, RemoveClusterYaml, Typed, DiskFileTypeOK
    <3> QED BY <3>1 DEF NewCluster
  <2>3. CASE CleanStorage(s)
    <3>1. pc[s] = "terminate" /\ bad[s] = "ok"
      BY <2>3, <1>s DEF CleanStorage, DownHeld
    <3>2. \A e \in mem[s].shared : CloudOf[e] = CloudOf[ThisEnv(s)]
      <4>1. ix[s] \in 1..Len(mem[s].envs)
        BY <3>1 DEF ForgetInv, Checked, Cleaned
      <4>2. mem[s].shared \subseteq Envs /\ ThisEnv(s) \in Envs
        BY <4>1, <1>t DEF ClusterObjs, ThisEnv
      <4> QED BY <4>2, <1>u DEF SingleEnv, Envs
    <3> QED BY <2>3, <3>1, <3>2, <1>t DEF CleanStorage, Goto, Switching
  <2>4. CASE StartSave(s)
    <3>1. SaveCluster(s, [mem[s] EXCEPT !.state = "ready"])
      BY <2>4, <1>s DEF StartSave, DownHeld
    <3>2. file'[c].state = "ready"
      BY <3>1, <1>t, SaveFile DEF ClusterObjs
    <3> QED BY <3>2
  <2>5. CASE StopCollect(s)
    <3>1. pc[s] = "stop" /\ todo[s] = {} /\ file' = file /\ inst' = inst
      BY <2>5 DEF StopCollect, Raise, fileVars, cloudVars
    <3>2. mem[s].members[m] = file[c].members[m]
      BY <3>1, <1>s DEF SessionInv, Mirrors, Holding
    <3>3. inst[Id(s, m)] = "stopped"
      BY <3>1, <3>2, <1>s DEF DownHeld, IsEc2
    <3> QED BY <3>1, <3>2, <3>3 DEF Id
  <2>6. ASSUME NEW k \in Members, \/ TerminateNode(s, k) \/ Starts(s, k) \/ StartRaises(s, k)
                                  \/ StopNode(s, k) \/ StopRaises(s, k)
        PROVE  pc'[s] \in Switching
    BY <1>1, <2>6 DEF TerminateNode, Starts, StartNode, StartNodePending, StartRaises, StopNode,
       StopRaises
  <2> QED BY <1>1, <1>u, <2>1, <2>2, <2>3, <2>4, <2>5, <2>6, SwitchingGoesOn
<1>2. CASE pc[s] \notin Switching
  \* the record of the member is that of the file, which said down before
  <2>1. ASSUME file[c].state = "down", file'[c].members[m] = file[c].members[m]
        PROVE  inst'[<<c, m, file'[c].members[m].id>>] = "stopped"
    <3>1. inst[<<c, m, file[c].members[m].id>>] = "stopped"
      BY <1>2, <1>s, <2>1 DEF DownFile, IsEc2, OneUser
    <3>2. <<c, m, file[c].members[m].id>> \in Ids
      BY <2>1, <1>s DEF Ids
    <3> QED BY <1>2, <2>1, <3>1, <3>2, StaysStopped DEF Switching
  <2>2. CASE UNCHANGED fileVars
    BY <2>1, <2>2 DEF fileVars
  <2>3. CASE ConfigureSave(s) \/ CleanRemove(s) \/ NukeRemove(s)
    <3>1. file'[c] = NewCluster
      BY <2>3, SaveFile DEF ConfigureSave, CleanRemove, NukeRemove, RemoveClusterYaml, Typed,
         DiskFileTypeOK
    <3> QED BY <3>1 DEF NewCluster
  <2>4. CASE AllocateCollect(s)
    <3>1. pc[s] = "launch" /\ bad[s] = "ok" /\ SaveCluster(s, AfterLaunch(s))
      BY <2>4, <1>s DEF AllocateCollect, DownHeld
    <3>2. file'[c] = AfterLaunch(s) /\ MemberEnv[m] = ix[s]
      BY <3>1, <1>s, <1>u, SaveFile DEF SessionInv, Launching, SingleEnv, Envs
    <3>3. AfterLaunch(s).state = "allocated"
      BY <3>1, <3>2, <1>t DEF AfterLaunch, ClusterObjs
    <3> QED BY <3>2, <3>3
  <2>5. CASE InstallSave(s) /\ ~UNCHANGED fileVars
    <3> DEFINE o == [mem[s] EXCEPT !.target = TRUE, !.state = "ready"]
    <3>1. SaveCluster(s, o)
      BY <2>5 DEF InstallSave, Raise
    <3>2. o.state = "ready"
      BY <1>t DEF ClusterObjs
    <3> HIDE DEF o
    <3> QED BY <3>1, <3>2, SaveFile
  <2>6. CASE (UninstallEnv(s) \/ CleanSave(s)) /\ ~UNCHANGED fileVars
    <3>1. /\ pc[s] \in {"uninstalling", "clean"}
          /\ SaveCluster(s, [mem[s] EXCEPT !.target = FALSE]) \/ SaveCluster(s, mem[s])
      BY <2>6 DEF UninstallEnv, CleanSave, Raise
    <3>2. file'[c].members = mem[s].members /\ file'[c].state = mem[s].state
      BY <3>1, <1>t, SaveFile DEF ClusterObjs
    <3>3. mem[s].state = file[c].state /\ mem[s].members[m] = file[c].members[m]
      BY <3>1, <1>s DEF SessionInv, Mirrors, Holding
    <3> QED BY <2>1, <3>2, <3>3
  <2>7. CASE StopSave(s)
    BY <2>7, <1>t DEF StopSave, Goto, Switching
  <2>8. CASE StartSave(s)
    BY <1>2, <2>8 DEF StartSave, Switching
  <2> QED BY <2>2, <2>3, <2>4, <2>5, <2>6, <2>7, <2>8, ActWrites DEF Writes
<1> QED BY <1>1, <1>2

\* The object in memory and the file stay whole.
LEMMA WholeAct ==
    ASSUME Typed, MirrorInv, DownInv, NEW s \in Sessions, Act(s)
    PROVE  /\ Whole(file'[ClusterOf[s]])
           /\ pc'[s] \in Holding => Whole(mem'[s])
<1> DEFINE c == ClusterOf[s]
<1>s. SessionInv(s) /\ c \in Clusters /\ DownHeld(s) /\ Whole(file[c])
  BY DEF MirrorInv, DownInv
<1>u. NoFaults /\ SelfManaged = {}
  BY DEF DownInv, Undisturbed
<1>t. mem \in [Sessions -> ClusterObjs] /\ mem[s] \in ClusterObjs /\ bad[s] \in Outcomes
  BY DEF Typed, SessionTypeOK
<1>h. pc[s] \in Holding => Whole(mem[s])
  BY <1>s DEF DownHeld
<1>m. ASSUME NEW p, pc[s] \in Holding, p.members = mem[s].members PROVE Whole(p)
  BY <1>m, <1>h, WholeSame
<1>c. ASSUME AllocateCollect(s) PROVE Whole(AfterLaunch(s))
  <2>1. pc[s] \in Holding
    BY <1>c DEF AllocateCollect, Holding
  <2>2. \A m \in Members : AfterLaunch(s).members[m] = mem[s].members[m]
    BY <1>t, <1>u DEF AfterLaunch, ClusterObjs
  <2>3. \A m \in Members : AfterLaunch(s).members[m].id # 0 =>
           AfterLaunch(s).members[m].id = mem[s].members[m].id
           /\ AfterLaunch(s).members[m].vol = mem[s].members[m].vol
    BY <2>2
  <2> QED BY <2>1, <2>3, <1>h, WholeSame
<1>1. Whole(file'[c])
  <2>1. CASE file' = file
    BY <2>1, <1>s
  <2>2. CASE file'[c] = NewCluster
    BY <2>2 DEF NewCluster, NoMember, Whole
  <2>3. CASE pc[s] \in Holding /\ SameMembers(file'[c], mem[s])
    BY <2>3, <1>m DEF SameMembers
  <2>4. CASE AllocateCollect(s)
    <3>1. file' = file \/ SaveCluster(s, AfterLaunch(s))
      BY <2>4, <1>t DEF AllocateCollect, fileVars, Outcomes
    <3> QED BY <2>1, <2>4, <3>1, <1>c, SaveFile
  <2> QED BY <1>s, <2>1, <2>2, <2>3, <2>4, ActMem DEF FileStep
<1>2. ASSUME pc'[s] \in Holding PROVE Whole(mem'[s])
  <2>1. CASE pc[s] \in Holding /\ SameMembers(mem'[s], mem[s])
    BY <2>1, <1>m DEF SameMembers
  <2>2. CASE mem'[s] = file[c]
    BY <2>2, <1>s
  <2>3. CASE AllocateEnv(s)
    <3>1. pc[s] \in Holding /\ mem'[s].members = mem[s].members
      BY <2>3, <1>t DEF AllocateEnv, ClusterObjs, Holding
    <3> QED BY <3>1, <1>m
  <2>4. CASE AllocateCollect(s)
    <3>1. bad[s] = "ok"
      BY <2>4, <1>s DEF AllocateCollect, DownHeld
    <3>2. mem'[s] = AfterLaunch(s)
      BY <2>4, <3>1, <1>t DEF AllocateCollect
    <3> QED BY <2>4, <3>2, <1>c
  <2>5. ASSUME NEW k \in Members, LaunchInstance(s, k) PROVE Whole(mem'[s])
    <3>1. PICK n \in 1..MaxLaunch, r \in StorageResults(k), ip \in LaunchIps :
             mem' = [mem EXCEPT ![s].members[k] = [id |-> n, ip |-> ip, vol |-> r.vol]]
      BY <2>5 DEF LaunchInstance
    <3>2. Storage[k] = "ephemeral" => r.vol
      BY <3>1, <1>u DEF StorageResults, NoFaults
    <3>3. /\ \A l \in Members \ {k} : mem'[s].members[l] = mem[s].members[l]
          /\ mem'[s].members[k] = [id |-> n, ip |-> ip, vol |-> r.vol]
      BY <3>1, <1>t DEF ClusterObjs
    <3>4. mem'[s].members[k].id = n /\ mem'[s].members[k].vol = r.vol
      BY <3>3
    <3>5. Whole(mem[s])
      BY <2>5, <1>h DEF LaunchInstance, Holding
    <3> QED BY <3>2, <3>3, <3>4, <3>5 DEF Whole
  <2>6. ASSUME NEW k \in Members, Starts(s, k) PROVE Whole(mem'[s])
    <3>1. pc[s] \in Holding
      BY <2>6, StartsMembers DEF Holding
    <3>2. \A l \in Members : /\ mem'[s].members[l].id = mem[s].members[l].id
                             /\ mem'[s].members[l].vol = mem[s].members[l].vol
      BY <2>6, StartsMembers
    <3> QED BY <3>1, <3>2, <1>h, WholeSame
  <2>7. CASE pc[s] = "launch" /\ mem'[s] = mem[s]
    BY <2>7, <1>h DEF Holding
  <2> QED BY <1>2, <1>s, <2>1, <2>2, <2>3, <2>4, <2>5, <2>6, <2>7, ActMem DEF MemStep
<1> QED BY <1>1, <1>2

\* No call of start and stop raises.
LEMMA NoCallRaises ==
    ASSUME Typed, DownInv, NEW s \in Sessions, NEW k \in Members
    PROVE  ~StartRaises(s, k) /\ ~StopRaises(s, k)
<1>u. NoFaults /\ DownHeld(s) /\ AliveHeld(s)
  BY DEF DownInv, Undisturbed
<1>1. ASSUME pc[s] \in {"start", "stop"}, k \in todo[s]
      PROVE  IsEc2(mem[s], k) /\ inst[Id(s, k)] \in {"running", "stopped"}
  <2>1. IsEc2(mem[s], k) /\ Durable(k)
    BY <1>1, <1>u DEF DownHeld, Whole, IsEc2, Holding
  <2> QED BY <1>1, <1>u, <2>1 DEF AliveHeld, Alive, Holding, Cleaning, Id, IsEc2
<1> QED BY <1>1, <1>u DEF StartRaises, StopRaises, CanStart, CanStop, NoFaults

\* The calls of launch, clean, start and stop return what they should.
LEMMA CallsFine ==
    ASSUME Typed, DownInv, NEW s \in Sessions, Act(s),
           pc'[s] \in {"launch", "terminate", "start", "stop"}
    PROVE  bad'[s] = "ok"
<1>u. NoFaults /\ DownHeld(s) /\ bad \in [Sessions -> Outcomes]
  BY DEF DownInv, Undisturbed, Typed, SessionTypeOK
<1>1. CASE AllocateStorage(s) \/ CleanEnv(s) \/ StopSave(s)
  BY <1>1, <1>u DEF AllocateStorage, CleanEnv, StopSave, StartCalls
<1>2. CASE StartEnv(s)
  <2>1. ~Raise(s)
    BY ExitPc DEF Raise
  <2> QED BY <1>2, <2>1, <1>u DEF StartEnv, StartCalls
<1>3. ASSUME NEW m \in Members, \/ LaunchInstance(s, m) \/ TerminateNode(s, m)
                                \/ Starts(s, m) \/ StopNode(s, m)
      PROVE  bad'[s] = "ok"
  <2>1. bad[s] = "ok" /\ CallDone(s, m, "ok")
    BY <1>3, <1>u DEF LaunchInstance, TerminateNode, Starts, StartNode, StartNodePending,
       StopNode, DownHeld
  <2> QED BY <2>1, <1>u DEF CallDone
<1>4. ASSUME NEW m \in Members, LaunchReturnsNone(s, m) \/ LaunchRaises(s, m) \/ TerminateRaises(s, m)
      PROVE  FALSE
  BY <1>4, <1>u DEF LaunchReturnsNone, LaunchRaises, TerminateRaises, NoFaults
<1> QED BY <1>1, <1>2, <1>3, <1>4, ActEnters, NoCallRaises DEF Enters

\* start and stop are called for the members without ephemeral storage.
LEMMA CallsDurable ==
    ASSUME Typed, DownInv, NEW s \in Sessions, Act(s), pc'[s] \in {"start", "stop"},
           NEW m \in todo'[s]
    PROVE  Durable(m) /\ mem'[s].members[m].id # 0
<1>t. /\ mem \in [Sessions -> ClusterObjs] /\ mem[s] \in ClusterObjs
      /\ todo \in [Sessions -> SUBSET Members]
  BY DEF Typed, SessionTypeOK
<1>s. DownHeld(s)
  BY DEF DownInv
<1>1. CASE StartEnv(s) \/ StopSave(s)
  <2>1. /\ todo'[s] = InstancesOf(s) /\ mem'[s].members = mem[s].members
        /\ pc[s] \in Holding
    <3>1. CASE StopSave(s)
      BY <3>1, <1>t DEF StopSave, StartCalls, ClusterObjs, Holding
    <3>2. CASE StartEnv(s)
      <4>1. ~Raise(s)
        BY ExitPc DEF Raise
      <4> QED BY <3>2, <4>1, <1>t DEF StartEnv, StartCalls, Holding
    <3> QED BY <1>1, <3>1, <3>2
  <2>2. Whole(mem[s])
    BY <2>1, <1>s DEF DownHeld
  <2> QED BY <2>1, <2>2 DEF InstancesOf, MembersOf, Recorded, Whole, Durable
<1>2. ASSUME NEW k \in Members, Starts(s, k) PROVE Durable(m) /\ mem'[s].members[m].id # 0
  <2>1. pc[s] = "start" /\ m \in todo[s] /\ m \in Members
    BY <1>2, <1>t, StartsMembers
  <2>2. mem'[s].members[m].id = mem[s].members[m].id
    BY <1>2, <2>1, StartsMembers
  <2> QED BY <2>1, <2>2, <1>s DEF DownHeld
<1>3. ASSUME NEW k \in Members, StopNode(s, k) PROVE Durable(m) /\ mem'[s].members[m].id # 0
  <2>1. pc[s] = "stop" /\ m \in todo[s] /\ mem' = mem
    BY <1>3, <1>t DEF StopNode, CallDone
  <2> QED BY <2>1, <1>s DEF DownHeld
<1> QED BY <1>1, <1>2, <1>3, ActEnters, NoCallRaises DEF Enters

\* What stop has been called for is stopped.
LEMMA StoppedInstances ==
    ASSUME Typed, MirrorInv, DownInv, NEW s \in Sessions, Act(s), pc'[s] = "stop",
           NEW m \in Members, mem'[s].members[m].id \in 1..MaxLaunch, Durable(m), m \notin todo'[s]
    PROVE  inst'[<<ClusterOf[s], m, mem'[s].members[m].id>>] = "stopped"
<1> DEFINE c == ClusterOf[s]
           i == <<c, m, mem'[s].members[m].id>>
<1>t. /\ mem \in [Sessions -> ClusterObjs] /\ mem[s] \in ClusterObjs /\ c \in Clusters
      /\ todo \in [Sessions -> SUBSET Members] /\ inst \in [Ids -> InstanceStates]
  BY DEF Typed, SessionTypeOK, CloudTypeOK
<1>s. DownHeld(s) /\ SingleEnv
  BY DEF DownInv, Undisturbed
<1>i. i \in Ids
  BY <1>t DEF Ids
<1>1. CASE StopSave(s)
  <2>1. pc[s] = "stop_save" /\ todo'[s] = InstancesOf(s) /\ mem'[s].members = mem[s].members
    BY <1>1, <1>t DEF StopSave, StartCalls, ClusterObjs
  <2>2. ix[s] \in 1..Len(mem[s].envs)
    BY <2>1, <1>s DEF DownHeld
  <2>3. MemberEnv[m] = mem[s].envs[ix[s]]
    BY <2>2, <1>s, <1>t, SameEnv
  <2>4. m \in InstancesOf(s)
    BY <2>1, <2>3 DEF InstancesOf, MembersOf, StartStopEnv, Recorded, Durable
  <2> QED BY <2>1, <2>4
<1>2. ASSUME NEW k \in Members, StopNode(s, k) PROVE inst'[i] = "stopped"
  <2>1. pc[s] = "stop" /\ k \in todo[s] /\ todo'[s] = todo[s] \ {k} /\ mem' = mem
    BY <1>2, <1>t DEF StopNode, CallDone
  <2>2. IsEc2(mem[s], k)
    BY <2>1, <1>s DEF DownHeld, Whole, IsEc2, Holding
  <2>3. inst' = [inst EXCEPT ![Id(s, k)] = "stopped"]
    BY <1>2, <2>2 DEF StopNode, StopInstance
  <2>4. i = Id(s, m) /\ IsEc2(mem[s], m)
    BY <2>1 DEF Id, IsEc2
  <2>5. k # m => inst[i] = "stopped"
    BY <2>1, <2>4, <1>s DEF DownHeld
  <2> HIDE DEF i
  <2> QED BY <2>3, <2>4, <2>5, <1>i, <1>t
<1> QED BY <1>1, <1>2, ActEnters, NoCallRaises DEF Enters

\* No session is at nuke.
LEMMA NoNuke ==
    ASSUME Typed, DownInv, NEW s \in Sessions, Act(s)
    PROVE  pc'[s] \notin {"nuke", "nuke_instances"}
<1>1. pc[s] \notin {"nuke", "nuke_instances"} /\ "nuke" \notin Commands
  BY DEF DownInv, DownHeld, Undisturbed
<1>2. ~NukeDescribe(s) /\ ~\E i \in Ids : NukeInstance(s, i)
  BY <1>1 DEF NukeDescribe, NukeInstance
<1> QED BY <1>1, <1>2, ActEnters DEF Enters

\* stop is in one of the environments of the file.
LEMMA StopsInEnv ==
    ASSUME Typed, NEW s \in Sessions, Act(s), pc'[s] = "stop_save"
    PROVE  ix'[s] \in 1..Len(mem'[s].envs)
<1>1. StopEnv(s) /\ ~Raise(s)
  BY ActEnters, ExitPc DEF Enters, Raise
<1>2. pc[s] = "stop_env" /\ ix[s] \in 1..Len(mem[s].envs)
  BY <1>1 DEF StopEnv
<1>3. ix' = ix /\ mem' = mem
  BY <1>1, <1>2 DEF StopEnv, loopVars
<1> QED BY <1>2, <1>3

\* Sessions on other clusters do not notice.
LEMMA DownOthers ==
    ASSUME Typed, MirrorInv, DownInv, NEW s \in Sessions, Act(s)
    PROVE  /\ \A c \in Clusters : c # ClusterOf[s] => Whole(file'[c]) /\ AliveFile(c)' /\ DownFile(c)'
           /\ \A t \in Sessions : t # s => AliveHeld(t)' /\ DownHeld(t)'
<1>k. OthersKeep(s) /\ OneUser
  BY ActKeeps DEF MirrorInv
<1>1. ASSUME NEW c \in Clusters, c # ClusterOf[s] PROVE Whole(file'[c]) /\ AliveFile(c)' /\ DownFile(c)'
  <2>1. /\ file'[c] = file[c] /\ Whole(file[c]) /\ AliveFile(c) /\ DownFile(c)
        /\ \A t \in Sessions : ClusterOf[t] = c => pc'[t] = pc[t]
    BY <1>1, <1>k DEF OthersKeep, DownInv
  <2>2. \A m \in Members, n \in 1..MaxLaunch : <<c, m, n>> \in Ids /\ <<c, m, n>>[1] = c
    BY DEF Ids
  <2>3. \A m \in Members, n \in 1..MaxLaunch : inst'[<<c, m, n>>] = inst[<<c, m, n>>]
    BY <1>1, <2>2, OwnOnly
  <2> QED BY <2>1, <2>3 DEF DownFile, AliveFile, Alive, IsEc2
<1>2. ASSUME NEW t \in Sessions, t # s PROVE AliveHeld(t)' /\ DownHeld(t)'
  <2>1. /\ pc'[t] = pc[t] /\ mem'[t] = mem[t] /\ ix'[t] = ix[t] /\ todo'[t] = todo[t]
        /\ bad'[t] = bad[t] /\ ClusterOf[t] # ClusterOf[s]
        /\ ClusterOf[t] \in Clusters /\ AliveHeld(t) /\ DownHeld(t)
    BY <1>2, <1>k DEF OthersKeep, OneUser, DownInv, Typed, SessionTypeOK
  <2>2. \A i \in Ids : i[1] = ClusterOf[t] => inst'[i] = inst[i]
    BY <2>1, OwnOnly
  <2>3. \A m \in Members : IsEc2(mem[t], m) => Id(t, m) \in Ids /\ Id(t, m)[1] = ClusterOf[t]
    BY <2>1 DEF Id, Ids, IsEc2
  <2>4. \A m \in Members : /\ Id(t, m)' = Id(t, m)
                           /\ IsEc2(mem[t], m)' = IsEc2(mem[t], m)
    BY <2>1 DEF Id, IsEc2
  <2>5. \A m \in Members : IsEc2(mem[t], m) => inst'[Id(t, m)] = inst[Id(t, m)]
    BY <2>2, <2>3
  <2>6. AliveHeld(t)'
    BY <2>1, <2>5 DEF AliveHeld, Alive, Id, IsEc2
  <2>7. Whole(mem[t])' = Whole(mem[t])
    BY <2>1 DEF Whole
  <2>8. DownHeld(t)'
    BY <2>1, <2>4, <2>5, <2>7 DEF DownHeld
  <2> QED BY <2>6, <2>8
<1> QED BY <1>1, <1>2

\* DownInv is inductive, given MirrorInv and ForgetInv.
LEMMA DownStep == Typed /\ MirrorInv /\ ForgetInv /\ DownInv /\ [Next]_vars => DownInv'
<1> SUFFICES ASSUME Typed, MirrorInv, ForgetInv, DownInv, [Next]_vars PROVE DownInv'
  OBVIOUS
<1>0. Undisturbed'
  BY DEF DownInv, Undisturbed, SingleEnv, NoFaults
<1>1. ASSUME NEW s \in Sessions, Act(s) PROVE DownInv'
  <2>1. \A c \in Clusters : Whole(file'[c]) /\ AliveFile(c)' /\ DownFile(c)'
    BY <1>1, WholeAct, AliveAct, DownFileAct, DownOthers
  <2>2. DownHeld(s)'
    <3>1. pc'[s] \in Holding => Whole(mem'[s])
      BY <1>1, WholeAct
    <3>2. pc'[s] \in {"launch", "terminate", "start", "stop"} => bad'[s] = "ok"
      BY <1>1, CallsFine
    <3>3. pc'[s] = "stop_save" => ix'[s] \in 1..Len(mem'[s].envs)
      BY <1>1, StopsInEnv
    <3>4. pc'[s] \in {"start", "stop"} => \A m \in todo'[s] : Durable(m) /\ mem'[s].members[m].id # 0
      BY <1>1, CallsDurable
    <3>5. ASSUME NEW m \in Members, mem'[s].members[m].id \in 1..MaxLaunch, Durable(m)
          PROVE  pc'[s] = "stop" /\ m \notin todo'[s] =>
                     inst'[<<ClusterOf[s], m, mem'[s].members[m].id>>] = "stopped"
      BY <1>1, <3>5, StoppedInstances
    <3>6. pc'[s] \notin {"nuke", "nuke_instances"}
      BY <1>1, NoNuke
    <3>7. Whole(mem[s])' = Whole(mem'[s])
      BY DEF Whole
    <3> QED BY <3>1, <3>2, <3>3, <3>4, <3>5, <3>6, <3>7 DEF DownHeld, IsEc2, Id
  <2>3. \A t \in Sessions : AliveHeld(t)' /\ DownHeld(t)'
    BY <1>1, <2>2, AliveAct, DownOthers
  <2>4. \A c \in Clusters : Whole(file[c])' = Whole(file'[c])
    BY DEF Whole
  <2> QED BY <1>0, <2>1, <2>3, <2>4 DEF DownInv
<1>2. CASE UNCHANGED vars
  <2>1. /\ inst' = inst /\ file' = file /\ mem' = mem /\ pc' = pc /\ todo' = todo /\ bad' = bad
        /\ ix' = ix /\ ids' = ids
    BY <1>2 DEF vars, cloudVars, fileVars, loopVars
  <2>2. ASSUME NEW c \in Clusters PROVE Whole(file[c])' /\ AliveFile(c)' /\ DownFile(c)'
    <3>1. Whole(file[c]) /\ AliveFile(c) /\ DownFile(c)
      BY DEF DownInv
    <3> QED BY <2>1, <3>1 DEF Whole, AliveFile, Alive, DownFile, IsEc2
  <2>3. ASSUME NEW s \in Sessions PROVE AliveHeld(s)' /\ DownHeld(s)'
    <3>1. AliveHeld(s) /\ DownHeld(s)
      BY DEF DownInv
    <3> QED BY <2>1, <3>1 DEF AliveHeld, Alive, DownHeld, Whole, IsEc2, Id
  <2> QED BY <1>0, <2>2, <2>3 DEF DownInv
<1> QED BY <1>1, <1>2 DEF Next, Act

\* Without failures and interruptions, with one user for each cluster, one
\* environment, no faked members and no nuke, a cluster that is down has no
\* running instance but those with ephemeral storage: what stop leaves, and what
\* start and allocate find.
THEOREM DownStopped == OneUser /\ Undisturbed /\ Spec => []DownIsStopped
<1>1. Undisturbed /\ Init => DownInv
  BY DEF Init, CloudInit, FileInit, DownInv, Whole, AliveFile, AliveHeld, Alive, DownFile, DownHeld,
     IsEc2, NewCluster, NoMember, Holding
<1>2. DownInv => DownIsStopped
  BY DEF DownInv, DownFile, DownIsStopped, Idle, InFile, FileId, Switching, Durable
<1>3. Undisturbed => OneRegionPerCloud
  BY DEF Undisturbed, SingleEnv, OneRegionPerCloud, Envs
<1> QED BY <1>1, <1>2, <1>3, DownStep, ForgetAlways, MirrorAlways, TypedInvariant, PTL DEF Spec
=============================================================================
