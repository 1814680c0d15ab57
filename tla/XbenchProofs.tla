---------------------------- MODULE XbenchProofs ----------------------------
(***************************************************************************)
(* Proofs about XbenchSystem for every set of clusters, members, sessions  *)
(* and environments: its types, and what the cluster files say.            *)
(***************************************************************************)
EXTENDS XbenchSystem, TLAPS

USE CloudAssumption, SessionAssumption, CommandsAssumption

(***************************************************************************)
(* Type correctness                                                        *)
(***************************************************************************)
\* The variables of sessions, and of the files, apart
SessionTypeOK ==
    /\ pc \in [Sessions -> Labels]
    /\ all \in [Sessions -> BOOLEAN]
    /\ ix \in [Sessions -> Nat]
    /\ todo \in [Sessions -> SUBSET Members]
    /\ bad \in [Sessions -> Outcomes]
    /\ ids \in [Sessions -> SUBSET Ids]
    /\ vols \in [Sessions -> SUBSET Ids]
    /\ mem \in [Sessions -> ClusterObjs]

DiskFileTypeOK ==
    /\ fileExists \in [Clusters -> BOOLEAN]
    /\ file \in [Clusters -> ClusterObjs]

\* The object configure starts from is a cluster object.
LEMMA NewClusterType == NewCluster \in ClusterObjs
BY DEF NewCluster, ClusterObjs, ClusterStates, NoMember, MemberRecs, SelfId, NoIp

\* Changing one field of a cluster object gives a cluster object.
LEMMA FieldTypes ==
    ASSUME NEW o \in ClusterObjs
    PROVE  /\ \A st \in ClusterStates : [o EXCEPT !.state = st] \in ClusterObjs
           /\ \A es \in Seq(Envs) : [o EXCEPT !.envs = es] \in ClusterObjs
           /\ \A b \in BOOLEAN : [o EXCEPT !.target = b] \in ClusterObjs
           /\ \A es \in SUBSET Envs : [o EXCEPT !.shared = es] \in ClusterObjs
           /\ \A m \in Members, r \in MemberRecs :
                 [o EXCEPT !.members[m] = r] \in ClusterObjs
BY DEF ClusterObjs

\* Giving a session another cluster object keeps mem well typed.
LEMMA MemUpdate ==
    ASSUME SessionTypeOK, NEW s \in Sessions, NEW o \in ClusterObjs,
           mem' = [mem EXCEPT ![s] = o]
    PROVE  mem' \in [Sessions -> ClusterObjs]
BY DEF SessionTypeOK

\* A command that ends leaves well-typed session variables.
LEMMA ExitType ==
    ASSUME SessionTypeOK, NEW s \in Sessions, Exit(s)
    PROVE  SessionTypeOK'
BY NewClusterType DEF SessionTypeOK, Exit, Labels, Outcomes

\* save_cluster of a cluster object and remove_cluster_yaml keep the files well typed.
LEMMA SaveType ==
    ASSUME DiskFileTypeOK, NEW s \in Sessions, NEW obj \in ClusterObjs, SaveCluster(s, obj)
    PROVE  DiskFileTypeOK'
BY DEF DiskFileTypeOK, SaveCluster

\* remove_cluster_yaml leaves the files well typed.
LEMMA RemoveType ==
    ASSUME DiskFileTypeOK, NEW s \in Sessions, RemoveClusterYaml(s)
    PROVE  DiskFileTypeOK'
BY NewClusterType DEF DiskFileTypeOK, RemoveClusterYaml

\* A step of provision that ends, alone or within "all".
LEMMA StepDoneType ==
    ASSUME SessionTypeOK, NEW s \in Sessions, NEW next \in Labels, StepDone(s, next)
    PROVE  SessionTypeOK'
<1>1. CASE all[s]
  BY <1>1 DEF StepDone, SessionTypeOK, Goto, nukeVars
<1>2. CASE ~all[s]
  BY <1>2, ExitType DEF StepDone
<1> QED BY <1>1, <1>2

\* A step within a command keeps the labels typed.
LEMMA GotoType ==
    ASSUME SessionTypeOK, NEW s \in Sessions, NEW l \in Labels, Goto(s, l)
    PROVE  pc' \in [Sessions -> Labels]
BY DEF SessionTypeOK, Goto

\* The loop over environments advances.
LEMMA AdvanceType ==
    ASSUME SessionTypeOK, NEW s \in Sessions, pc' \in [Sessions -> Labels], NextEnv(s),
           UNCHANGED <<all, todo, bad, nukeVars, mem>>
    PROVE  SessionTypeOK'
BY DEF SessionTypeOK, NextEnv, nukeVars

\* The parallel calls of an environment begin.
LEMMA CallsType ==
    ASSUME SessionTypeOK, NEW s \in Sessions, pc' \in [Sessions -> Labels],
           NEW ms \in SUBSET Members, StartCalls(s, ms), mem' \in [Sessions -> ClusterObjs],
           UNCHANGED <<all, ix, nukeVars>>
    PROVE  SessionTypeOK'
<1>1. todo' \in [Sessions -> SUBSET Members]
  BY DEF SessionTypeOK, StartCalls
<1>2. bad' \in [Sessions -> Outcomes]
  BY DEF SessionTypeOK, StartCalls, Outcomes
<1> QED BY <1>1, <1>2 DEF SessionTypeOK, nukeVars

\* One of the parallel calls ends.
LEMMA CallDoneType ==
    ASSUME SessionTypeOK, NEW s \in Sessions, NEW m, NEW r \in Outcomes, CallDone(s, m, r),
           mem' \in [Sessions -> ClusterObjs], UNCHANGED <<pc, all, ix, nukeVars>>
    PROVE  SessionTypeOK'
<1>1. todo' \in [Sessions -> SUBSET Members]
  BY DEF SessionTypeOK, CallDone
<1>2. bad' \in [Sessions -> Outcomes]
  BY DEF SessionTypeOK, CallDone
<1> QED BY <1>1, <1>2 DEF SessionTypeOK, nukeVars

\* A command moves on with a cluster object, its loops as they were.
LEMMA MoveType ==
    ASSUME SessionTypeOK, NEW s \in Sessions, pc' \in [Sessions -> Labels],
           mem' \in [Sessions -> ClusterObjs], UNCHANGED loopVars
    PROVE  SessionTypeOK'
BY DEF SessionTypeOK, loopVars

\* What a step leaves alone keeps its type.
LEMMA SameCloudType == ASSUME CloudTypeOK, UNCHANGED cloudVars PROVE CloudTypeOK'
BY DEF CloudTypeOK, cloudVars

\* A step that leaves the files alone keeps their type.
LEMMA SameFileType == ASSUME DiskFileTypeOK, UNCHANGED fileVars PROVE DiskFileTypeOK'
BY DEF DiskFileTypeOK, fileVars

\* A step that hands on the object it holds keeps its type.
LEMMA SameMemType ==
    ASSUME SessionTypeOK, UNCHANGED mem PROVE mem' \in [Sessions -> ClusterObjs]
BY DEF SessionTypeOK

\* A command loads the cluster file.
LEMMA LoadType ==
    ASSUME CloudTypeOK, SessionTypeOK, DiskFileTypeOK, NEW s \in Sessions, NEW l \in Labels,
           mem' = [mem EXCEPT ![s] = file[ClusterOf[s]]], Goto(s, l),
           UNCHANGED <<cloudVars, fileVars, loopVars>>
    PROVE  CloudTypeOK' /\ SessionTypeOK' /\ DiskFileTypeOK'
<1>1. file[ClusterOf[s]] \in ClusterObjs
  BY DEF DiskFileTypeOK
<1>2. mem' \in [Sessions -> ClusterObjs]
  BY <1>1, MemUpdate
<1>3. pc' \in [Sessions -> Labels]
  BY GotoType
<1> QED BY <1>2, <1>3, MoveType, SameCloudType, SameFileType

\* A command that raises changes nothing but its own session.
LEMMA RaiseType ==
    ASSUME CloudTypeOK, SessionTypeOK, DiskFileTypeOK, NEW s \in Sessions, Raise(s)
    PROVE  CloudTypeOK' /\ SessionTypeOK' /\ DiskFileTypeOK'
BY ExitType, SameCloudType, SameFileType DEF Raise

\* Every step of provision keeps the types.
LEMMA ProvisioningType ==
    ASSUME CloudTypeOK, SessionTypeOK, DiskFileTypeOK, NEW s \in Sessions, ProvisioningStep(s)
    PROVE  CloudTypeOK' /\ SessionTypeOK' /\ DiskFileTypeOK'
<1> USE DEF cloudVars, fileVars, loopVars, nukeVars
<1>a. ClusterOf[s] \in Clusters
  OBVIOUS
<1>m. mem[s] \in ClusterObjs
  BY DEF SessionTypeOK
<1>r. ASSUME Raise(s) PROVE CloudTypeOK' /\ SessionTypeOK' /\ DiskFileTypeOK'
  BY <1>r, RaiseType
<1>o. "ok" \in Outcomes /\ "none" \in Outcomes /\ "raise" \in Outcomes
  BY DEF Outcomes
<1>1. CASE ConfigureCheck(s)
  <2>1. pc' \in [Sessions -> Labels]
    BY <1>1 DEF ConfigureCheck, SessionTypeOK
  <2> QED BY <1>1, <2>1, AdvanceType, SameCloudType, SameFileType DEF ConfigureCheck
<1>2. CASE ConfigureRefused(s)
  BY <1>2, <1>r DEF ConfigureRefused
<1>3. CASE ConfigureSave(s)
  <2>1. CloudTypeOK'
    BY <1>3 DEF ConfigureSave, CloudTypeOK
  <2>2. SessionTypeOK'
    BY <1>3, StepDoneType DEF ConfigureSave, Labels
  <2>3. DiskFileTypeOK'
    BY <1>3, SaveType, NewClusterType DEF ConfigureSave
  <2> QED BY <2>1, <2>2, <2>3
<1>4. CASE AllocateLoad(s)
  <2>1. "alloc_env" \in Labels
    BY DEF Labels
  <2> QED BY <1>4, <1>r, <2>1, LoadType DEF AllocateLoad
<1>5. CASE AllocateEnv(s)
  <2>1. Append(mem[s].envs, ix[s]) \in Seq(Envs)
    BY <1>5 DEF AllocateEnv, SessionTypeOK, ClusterObjs
  <2>2. mem' \in [Sessions -> ClusterObjs]
    BY <2>1, <1>5, <1>m, FieldTypes, MemUpdate DEF AllocateEnv
  <2>3. "alloc_storage" \in Labels
    BY DEF Labels
  <2>4. pc' \in [Sessions -> Labels]
    BY <2>3, <1>5, GotoType DEF AllocateEnv
  <2> QED BY <2>2, <2>4, <1>5, MoveType, SameCloudType, SameFileType DEF AllocateEnv
<1>6. CASE AllocateRefused(s)
  BY <1>6, <1>r DEF AllocateRefused
<1>7. CASE AllocateStorage(s)
  <2>1. mem' \in [Sessions -> ClusterObjs]
    <3>1. SharedEnvs \cap {ix[s]} \in SUBSET Envs
      OBVIOUS
    <3> QED BY <3>1, <1>7, <1>m, FieldTypes, MemUpdate DEF AllocateStorage
  <2>2. shared' \in [Clusters -> SUBSET Envs]
    BY <1>7 DEF AllocateStorage, CloudTypeOK
  <2>3. "launch" \in Labels
    BY DEF Labels
  <2>4. pc' \in [Sessions -> Labels]
    BY <2>3, <1>7, GotoType DEF AllocateStorage
  <2>5. SessionTypeOK'
    BY <2>1, <2>4, <1>7, CallsType DEF AllocateStorage
  <2>6. CloudTypeOK'
    BY <2>2, <1>7 DEF AllocateStorage, CloudTypeOK
  <2> QED BY <2>5, <2>6, <1>7, SameFileType DEF AllocateStorage
<1>8. ASSUME NEW m \in Members,
             LaunchInstance(s, m) \/ LaunchReturnsNone(s, m) \/ LaunchRaises(s, m)
      PROVE  CloudTypeOK' /\ SessionTypeOK' /\ DiskFileTypeOK'
  <2>1. CASE LaunchInstance(s, m)
    <3>1. PICK n \in 1..MaxLaunch, r \in StorageResults(m), ip \in LaunchIps :
             /\ RunInstance(<<ClusterOf[s], m, n>>)
             /\ disk' = [disk EXCEPT ![<<ClusterOf[s], m, n>>] = r.disk]
             /\ mem' = [mem EXCEPT ![s].members[m] = [id |-> n, ip |-> ip, vol |-> r.vol]]
      BY <2>1 DEF LaunchInstance
    <3>2. r.disk \in DiskStates /\ r.vol \in BOOLEAN
      BY <3>1 DEF StorageResults
    <3>3. [id |-> n, ip |-> ip, vol |-> r.vol] \in MemberRecs
      BY <3>2, CloudAssumption DEF MemberRecs, LaunchIps
    <3>4. mem' \in [Sessions -> ClusterObjs]
      BY <3>1, <3>3, <1>m, FieldTypes, MemUpdate
    <3>5. <<ClusterOf[s], m, n>> \in Ids
      BY <1>a DEF Ids
    <3>6. disk' \in [Ids -> DiskStates] /\ inst' \in [Ids -> InstanceStates]
      BY <3>1, <3>2, <3>5 DEF CloudTypeOK, RunInstance, InstanceStates
    <3>7. SessionTypeOK'
      BY <2>1, <3>4, <1>o, CallDoneType DEF LaunchInstance
    <3>8. CloudTypeOK'
      BY <2>1, <3>6 DEF LaunchInstance, CloudTypeOK
    <3> QED BY <2>1, <3>7, <3>8, SameFileType DEF LaunchInstance
  <2>2. CASE LaunchReturnsNone(s, m)
    <3>1. inst' \in [Ids -> InstanceStates]
      BY <2>2, <1>a DEF LaunchReturnsNone, RunInstance, CloudTypeOK, InstanceStates, Ids
    <3>2. CloudTypeOK'
      BY <2>2, <3>1 DEF LaunchReturnsNone, CloudTypeOK
    <3>3. SessionTypeOK'
      BY <2>2, <1>o, SameMemType, CallDoneType DEF LaunchReturnsNone
    <3> QED BY <2>2, <3>2, <3>3, SameFileType DEF LaunchReturnsNone
  <2>3. CASE LaunchRaises(s, m)
    BY <2>3, <1>o, SameMemType, CallDoneType, SameCloudType, SameFileType DEF LaunchRaises
  <2> QED BY <1>8, <2>1, <2>2, <2>3
<1>9. CASE AllocateCollect(s)
  <2>1. AfterLaunch(s) \in ClusterObjs
    <3>2. [id |-> SelfId, ip |-> 0, vol |-> FALSE] \in MemberRecs
      BY DEF MemberRecs
    <3> QED BY <1>m, <3>2 DEF AfterLaunch, ClusterObjs, ClusterStates
  <2>2. CloudTypeOK'
    BY <1>9 DEF AllocateCollect, CloudTypeOK
  <2>3. CASE bad[s] = "raise"
    BY <1>9, <2>2, <2>3, ExitType DEF AllocateCollect, DiskFileTypeOK
  <2>4. CASE bad[s] = "none"
    BY <1>9, <2>1, <2>2, <2>4, ExitType, SaveType DEF AllocateCollect
  <2>5. CASE bad[s] = "ok"
    <3>1. /\ SaveCluster(s, AfterLaunch(s))
          /\ mem' = [mem EXCEPT ![s] = AfterLaunch(s)]
          /\ NextEnv(s)
          /\ Goto(s, "alloc_env")
          /\ UNCHANGED <<all, todo, bad, nukeVars>>
      BY <1>9, <2>5 DEF AllocateCollect
    <3>2. "alloc_env" \in Labels
      BY DEF Labels
    <3>3. pc' \in [Sessions -> Labels] /\ mem' \in [Sessions -> ClusterObjs]
      BY <3>1, <3>2, <2>1, GotoType, MemUpdate
    <3>4. SessionTypeOK'
      BY <3>1, <3>3 DEF SessionTypeOK, NextEnv
    <3> QED BY <3>1, <3>4, <2>1, <2>2, SaveType
  <2> QED BY <2>3, <2>4, <2>5 DEF SessionTypeOK, Outcomes
<1>10. CASE AllocateDone(s)
  BY <1>10, StepDoneType DEF AllocateDone, Labels, CloudTypeOK, DiskFileTypeOK
<1>11. CASE SelfTest(s) \/ Make(s)
  BY <1>11, <1>r, StepDoneType
  DEF SelfTest, Make, OnAllNodes, Labels, CloudTypeOK, DiskFileTypeOK
<1>12. CASE InstallLoad(s) \/ UninstallLoad(s)
  <2>1. "installing" \in Labels /\ "uninstalling" \in Labels
    BY DEF Labels
  <2>2. CASE InstallLoad(s)
    BY <2>1, <2>2, <1>r, LoadType DEF InstallLoad
  <2>3. CASE UninstallLoad(s)
    BY <2>1, <2>3, <1>r, LoadType DEF UninstallLoad
  <2> QED BY <1>12, <2>2, <2>3
<1>13. CASE InstallSave(s)
  <2>1. [mem[s] EXCEPT !.target = TRUE, !.state = "ready"] \in ClusterObjs
    BY <1>m DEF ClusterObjs, ClusterStates
  <2> QED BY <2>1, <1>13, <1>r, ExitType, SaveType DEF InstallSave, CloudTypeOK
<1>14. CASE UninstallEnv(s)
  <2>1. [mem[s] EXCEPT !.target = FALSE] \in ClusterObjs
    BY <1>m, FieldTypes
  <2>2. CASE Raise(s)
    BY <2>2, <1>r
  <2>3. ASSUME SaveCluster(s, [mem[s] EXCEPT !.target = FALSE]),
               mem' = [mem EXCEPT ![s] = [mem[s] EXCEPT !.target = FALSE]],
               NextEnv(s), UNCHANGED <<cloudVars, pc, all, todo, bad, nukeVars>>
        PROVE  CloudTypeOK' /\ SessionTypeOK' /\ DiskFileTypeOK'
    <3>1. DiskFileTypeOK'
      BY <2>1, <2>3, SaveType
    <3>2. mem' \in [Sessions -> ClusterObjs]
      BY <2>1, <2>3, MemUpdate
    <3> QED BY <2>3, <3>1, <3>2 DEF CloudTypeOK, SessionTypeOK, NextEnv
  <2> QED BY <2>2, <2>3, <1>14 DEF UninstallEnv
<1>15. CASE UninstallDone(s)
  BY <1>15, ExitType DEF UninstallDone, CloudTypeOK, DiskFileTypeOK
<1>16. CASE ProvisioningRaises(s)
  BY <1>16, <1>r DEF ProvisioningRaises
<1> QED BY <1>1, <1>2, <1>3, <1>4, <1>5, <1>6, <1>7, <1>8, <1>9, <1>10, <1>11, <1>12, <1>13,
        <1>14, <1>15, <1>16 DEF ProvisioningStep

\* Every step of deprovision keeps the types.
LEMMA DeProvisioningType ==
    ASSUME CloudTypeOK, SessionTypeOK, DiskFileTypeOK, NEW s \in Sessions, DeProvisioningStep(s)
    PROVE  CloudTypeOK' /\ SessionTypeOK' /\ DiskFileTypeOK'
<1> USE DEF cloudVars, fileVars, loopVars, nukeVars
<1>m. mem[s] \in ClusterObjs
  BY DEF SessionTypeOK
<1>r. ASSUME Raise(s) PROVE CloudTypeOK' /\ SessionTypeOK' /\ DiskFileTypeOK'
  BY <1>r, RaiseType
<1>t. ASSUME NEW i, TerminateInstance(i)
      PROVE  inst' \in [Ids -> InstanceStates] /\ disk' \in [Ids -> DiskStates]
  BY <1>t DEF TerminateInstance, CloudTypeOK, InstanceStates, DiskStates
<1>1. CASE CleanSave(s)
  <2>1. "clean_env" \in Labels
    BY DEF Labels
  <2>2. pc' \in [Sessions -> Labels]
    BY <1>1, <2>1, GotoType DEF CleanSave
  <2> QED BY <1>1, <1>m, <2>2, SaveType, SameMemType, MoveType, SameCloudType DEF CleanSave
<1>2. CASE CleanEnv(s)
  <2>1. NodesToTerminate(s) \in SUBSET Members
    BY DEF NodesToTerminate, MembersOf
  <2>2. "terminate" \in Labels
    BY DEF Labels
  <2>3. pc' \in [Sessions -> Labels]
    BY <1>2, <2>2, GotoType DEF CleanEnv
  <2> QED BY <1>2, <2>1, <2>3, SameMemType, CallsType, SameCloudType, SameFileType DEF CleanEnv
<1>3. CASE CleanStorage(s)
  <2>1. CASE Raise(s)
    BY <2>1, <1>r
  <2>2. ASSUME shared' = [shared EXCEPT ![ClusterOf[s]] = @ \ mem[s].shared],
               NextEnv(s), Goto(s, "clean_env"),
               UNCHANGED <<inst, boots, disk, fileVars, all, todo, bad, nukeVars, mem>>
        PROVE  CloudTypeOK' /\ SessionTypeOK' /\ DiskFileTypeOK'
    <3>1. CloudTypeOK'
      BY <2>2 DEF CloudTypeOK
    <3>2. "clean_env" \in Labels
      BY DEF Labels
    <3>3. pc' \in [Sessions -> Labels]
      BY <2>2, <3>2, GotoType
    <3> QED BY <2>2, <3>1, <3>3, AdvanceType, SameFileType
  <2> QED BY <1>3, <2>1, <2>2 DEF CleanStorage
<1>4. CASE CleanRemove(s)
  BY <1>4, ExitType, RemoveType DEF CleanRemove, CloudTypeOK
<1>5. ASSUME NEW m \in Members, TerminateNode(s, m) \/ TerminateRaises(s, m)
      PROVE  CloudTypeOK' /\ SessionTypeOK' /\ DiskFileTypeOK'
  <2>1. inst' \in [Ids -> InstanceStates] /\ disk' \in [Ids -> DiskStates]
    BY <1>5, <1>t DEF TerminateNode, TerminateRaises, CloudTypeOK
  <2>2. /\ CallDone(s, m, "ok") \/ CallDone(s, m, "raise")
        /\ UNCHANGED <<boots, shared, fileVars, pc, all, ix, nukeVars, mem>>
    BY <1>5 DEF TerminateNode, TerminateRaises
  <2>3. "ok" \in Outcomes /\ "raise" \in Outcomes
    BY DEF Outcomes
  <2>4. SessionTypeOK'
    BY <2>2, <2>3, SameMemType, CallDoneType
  <2>5. CloudTypeOK'
    BY <2>1, <2>2 DEF CloudTypeOK
  <2> QED BY <2>2, <2>4, <2>5, SameFileType
<1>6. CASE NukeDescribe(s)
  <2>1. /\ DescribeInstancesByTag(ClusterOf[s], ix[s]) \in SUBSET Ids
        /\ DescribeVolumesByTag(ClusterOf[s], ix[s]) \in SUBSET Ids
    BY DEF DescribeInstancesByTag, DescribeVolumesByTag, TaggedIn
  <2>2. "nuke_instances" \in Labels
    BY DEF Labels
  <2>3. pc' \in [Sessions -> Labels]
    BY <1>6, <2>2, GotoType DEF NukeDescribe
  <2>4. SessionTypeOK'
    BY <1>6, <2>1, <2>3 DEF NukeDescribe, SessionTypeOK
  <2> QED BY <1>6, <2>4, SameCloudType, SameFileType DEF NukeDescribe
<1>7. CASE NukeWait(s)
  <2>1. "nuke_volumes" \in Labels
    BY DEF Labels
  <2>2. pc' \in [Sessions -> Labels]
    BY <1>7, <2>1, GotoType DEF NukeWait
  <2> QED BY <1>7, <2>2, SameMemType, MoveType, SameCloudType, SameFileType DEF NukeWait
<1>8. CASE NukeRemove(s)
  BY <1>8, ExitType, RemoveType DEF NukeRemove, CloudTypeOK
<1>9. ASSUME NEW i \in Ids, NukeInstance(s, i)
      PROVE  CloudTypeOK' /\ SessionTypeOK' /\ DiskFileTypeOK'
  <2>1. CloudTypeOK'
    BY <1>9, <1>t DEF NukeInstance, CloudTypeOK
  <2>2. SessionTypeOK'
    BY <1>9 DEF NukeInstance, SessionTypeOK
  <2> QED BY <1>9, <2>1, <2>2, SameFileType DEF NukeInstance
<1>10. ASSUME NEW i \in Ids, NukeVolume(s, i)
       PROVE  CloudTypeOK' /\ SessionTypeOK' /\ DiskFileTypeOK'
  <2>1. CASE Raise(s)
    BY <2>1, <1>r
  <2>2. ASSUME DeleteVolume(i), vols' = [vols EXCEPT ![s] = @ \ {i}],
               UNCHANGED <<inst, boots, shared, fileVars, pc, all, ix, todo, bad, ids, mem>>
        PROVE  CloudTypeOK' /\ SessionTypeOK' /\ DiskFileTypeOK'
    <3>1. CloudTypeOK'
      BY <2>2 DEF DeleteVolume, CloudTypeOK, DiskStates
    <3>2. SessionTypeOK'
      BY <2>2 DEF SessionTypeOK
    <3> QED BY <2>2, <3>1, <3>2, SameFileType
  <2> QED BY <1>10, <2>1, <2>2 DEF NukeVolume
<1>11. CASE DeProvisioningRaises(s)
  BY <1>11, <1>r DEF DeProvisioningRaises
<1>12. CASE CleanStorageRaises(s)
  BY <1>12, ExitType DEF CleanStorageRaises, CloudTypeOK, DiskFileTypeOK
<1> QED BY <1>1, <1>2, <1>3, <1>4, <1>5, <1>6, <1>7, <1>8, <1>9, <1>10, <1>11, <1>12
        DEF DeProvisioningStep

\* Every step of start and stop keeps the types.
LEMMA CloudCommandsType ==
    ASSUME CloudTypeOK, SessionTypeOK, DiskFileTypeOK, NEW s \in Sessions, CloudCommandsStep(s)
    PROVE  CloudTypeOK' /\ SessionTypeOK' /\ DiskFileTypeOK'
<1> USE DEF cloudVars, fileVars, loopVars, nukeVars
<1>a. ClusterOf[s] \in Clusters
  OBVIOUS
<1>m. mem[s] \in ClusterObjs
  BY DEF SessionTypeOK
<1>r. ASSUME Raise(s) PROVE CloudTypeOK' /\ SessionTypeOK' /\ DiskFileTypeOK'
  BY <1>r, RaiseType
<1>i. InstancesOf(s) \in SUBSET Members
  BY DEF InstancesOf, MembersOf
<1>d. ASSUME NEW m \in Members, IsEc2(mem[s], m) PROVE Id(s, m) \in Ids
  BY <1>a, <1>d DEF IsEc2, Id, Ids
<1>s. ASSUME NEW i \in Ids, StartInstance(i)
      PROVE  inst' \in [Ids -> InstanceStates] /\ boots' \in [Ids -> 0..MaxBoots]
  BY <1>s DEF StartInstance, CloudTypeOK, InstanceStates
<1>o. "ok" \in Outcomes /\ "none" \in Outcomes /\ "raise" \in Outcomes
  BY DEF Outcomes
<1>1. CASE StartStopDone(s)
  BY <1>1, ExitType DEF StartStopDone, CloudTypeOK, DiskFileTypeOK
<1>2. CASE StartEnv(s)
  <2>1. "start" \in Labels
    BY DEF Labels
  <2>2. \/ Raise(s)
        \/ /\ StartCalls(s, InstancesOf(s))
           /\ Goto(s, "start")
           /\ UNCHANGED <<cloudVars, fileVars, all, ix, nukeVars, mem>>
    BY <1>2 DEF StartEnv
  <2>3. CASE ~Raise(s)
    <3>1. pc' \in [Sessions -> Labels]
      BY <2>1, <2>2, <2>3, GotoType
    <3> QED BY <2>2, <2>3, <3>1, <1>i, SameMemType, CallsType, SameCloudType, SameFileType
  <2> QED BY <2>3, <1>r
<1>3. ASSUME NEW m \in Members, StartNode(s, m)
      PROVE  CloudTypeOK' /\ SessionTypeOK' /\ DiskFileTypeOK'
  <2>1. boots' \in [Ids -> 0..MaxBoots] /\ inst' \in [Ids -> InstanceStates]
    BY <1>3, <1>d, <1>s DEF StartNode
  <2>2. boots'[Id(s, m)] \in 0..MaxBoots
    BY <1>3, <1>d, <2>1 DEF StartNode
  <2>3. [mem[s] EXCEPT !.members[m].ip = boots'[Id(s, m)]] \in ClusterObjs
    <3>1. mem[s].members[m] \in MemberRecs
      BY <1>m DEF ClusterObjs
    <3>2. [mem[s].members[m] EXCEPT !.ip = boots'[Id(s, m)]] \in MemberRecs
      BY <3>1, <2>2 DEF MemberRecs
    <3> QED BY <3>2, <1>m, FieldTypes
  <2>4. mem' \in [Sessions -> ClusterObjs]
    BY <1>3, <2>3, MemUpdate DEF StartNode
  <2>5. SessionTypeOK'
    BY <1>3, <2>4, <1>o, CallDoneType DEF StartNode
  <2>6. CloudTypeOK'
    BY <1>3, <2>1 DEF StartNode, CloudTypeOK
  <2> QED BY <1>3, <2>5, <2>6, SameFileType DEF StartNode
<1>4. ASSUME NEW m \in Members, StartRaises(s, m)
      PROVE  CloudTypeOK' /\ SessionTypeOK' /\ DiskFileTypeOK'
  <2>1. boots' \in [Ids -> 0..MaxBoots] /\ inst' \in [Ids -> InstanceStates]
    BY <1>4, <1>d, <1>s DEF StartRaises, CloudTypeOK
  <2>2. SessionTypeOK'
    BY <1>4, <1>o, SameMemType, CallDoneType DEF StartRaises
  <2>3. CloudTypeOK'
    BY <1>4, <2>1 DEF StartRaises, CloudTypeOK
  <2> QED BY <1>4, <2>2, <2>3, SameFileType DEF StartRaises
<1>5. CASE StartSave(s)
  <2>1. [mem[s] EXCEPT !.state = "ready"] \in ClusterObjs
    BY <1>m, FieldTypes DEF ClusterStates
  <2>2. CASE Raise(s)
    BY <2>2, <1>r
  <2>3. ASSUME SaveCluster(s, [mem[s] EXCEPT !.state = "ready"]),
               mem' = [mem EXCEPT ![s] = [mem[s] EXCEPT !.state = "ready"]],
               Goto(s, "start_backends"), UNCHANGED <<cloudVars, loopVars>>
        PROVE  CloudTypeOK' /\ SessionTypeOK' /\ DiskFileTypeOK'
    <3>1. DiskFileTypeOK' /\ mem' \in [Sessions -> ClusterObjs]
      BY <2>1, <2>3, SaveType, MemUpdate
    <3>2. "start_backends" \in Labels
      BY DEF Labels
    <3>3. pc' \in [Sessions -> Labels]
      BY <2>3, <3>2, GotoType
    <3> QED BY <2>3, <3>1, <3>3, MoveType, SameCloudType
  <2> QED BY <1>5, <2>2, <2>3 DEF StartSave
<1>6. CASE StartBackends(s)
  <2>1. "start_env" \in Labels
    BY DEF Labels
  <2>2. \/ Raise(s)
        \/ /\ NextEnv(s)
           /\ Goto(s, "start_env")
           /\ UNCHANGED <<cloudVars, fileVars, all, todo, bad, nukeVars, mem>>
    BY <1>6 DEF StartBackends
  <2>3. CASE ~Raise(s)
    <3>1. pc' \in [Sessions -> Labels]
      BY <2>1, <2>2, <2>3, GotoType
    <3> QED BY <2>2, <2>3, <3>1, AdvanceType, SameCloudType, SameFileType
  <2> QED BY <2>3, <1>r
<1>7. CASE StopEnv(s)
  <2>1. \/ Raise(s)
        \/ NextEnv(s) /\ UNCHANGED <<cloudVars, fileVars, pc, all, todo, bad, nukeVars, mem>>
        \/ Goto(s, "stop_save") /\ UNCHANGED <<cloudVars, fileVars, loopVars, mem>>
    BY <1>7 DEF StopEnv
  <2>2. ASSUME NextEnv(s), UNCHANGED <<cloudVars, fileVars, pc, all, todo, bad, nukeVars, mem>>
        PROVE  CloudTypeOK' /\ SessionTypeOK' /\ DiskFileTypeOK'
    <3>1. pc' \in [Sessions -> Labels]
      BY <2>2 DEF SessionTypeOK
    <3> QED BY <2>2, <3>1, AdvanceType, SameCloudType, SameFileType
  <2>3. ASSUME Goto(s, "stop_save"), UNCHANGED <<cloudVars, fileVars, loopVars, mem>>
        PROVE  CloudTypeOK' /\ SessionTypeOK' /\ DiskFileTypeOK'
    <3>1. "stop_save" \in Labels
      BY DEF Labels
    <3>2. pc' \in [Sessions -> Labels]
      BY <2>3, <3>1, GotoType
    <3> QED BY <2>3, <3>2, SameMemType, MoveType, SameCloudType, SameFileType
  <2> QED BY <2>1, <2>2, <2>3, <1>r
<1>8. CASE StopSave(s)
  <2>1. [mem[s] EXCEPT !.state = "down"] \in ClusterObjs
    BY <1>m, FieldTypes DEF ClusterStates
  <2>2. DiskFileTypeOK' /\ mem' \in [Sessions -> ClusterObjs]
    BY <1>8, <2>1, SaveType, MemUpdate DEF StopSave
  <2>3. "stop" \in Labels
    BY DEF Labels
  <2>4. pc' \in [Sessions -> Labels]
    BY <1>8, <2>3, GotoType DEF StopSave
  <2> QED BY <1>8, <2>2, <2>4, <1>i, CallsType, SameCloudType DEF StopSave
<1>9. ASSUME NEW m \in Members, StopNode(s, m) \/ StopRaises(s, m)
      PROVE  CloudTypeOK' /\ SessionTypeOK' /\ DiskFileTypeOK'
  <2>1. inst' \in [Ids -> InstanceStates]
    BY <1>9 DEF StopNode, StopRaises, StopInstance, CloudTypeOK, InstanceStates
  <2>2. /\ CallDone(s, m, "ok") \/ CallDone(s, m, "raise")
        /\ UNCHANGED <<boots, disk, shared, fileVars, pc, all, ix, nukeVars, mem>>
    BY <1>9 DEF StopNode, StopRaises
  <2>3. SessionTypeOK'
    BY <2>2, <1>o, SameMemType, CallDoneType
  <2>4. CloudTypeOK'
    BY <2>1, <2>2 DEF CloudTypeOK
  <2> QED BY <2>2, <2>3, <2>4, SameFileType
<1>10. CASE StopCollect(s)
  <2>1. "stop_env" \in Labels
    BY DEF Labels
  <2>2. \/ Raise(s)
        \/ /\ NextEnv(s)
           /\ Goto(s, "stop_env")
           /\ UNCHANGED <<cloudVars, fileVars, all, todo, bad, nukeVars, mem>>
    BY <1>10 DEF StopCollect
  <2>3. CASE ~Raise(s)
    <3>1. pc' \in [Sessions -> Labels]
      BY <2>1, <2>2, <2>3, GotoType
    <3> QED BY <2>2, <2>3, <3>1, AdvanceType, SameCloudType, SameFileType
  <2> QED BY <2>3, <1>r
<1>11. CASE CloudCommandsRaises(s)
  BY <1>11, <1>r DEF CloudCommandsRaises
<1>12. ASSUME NEW m \in Members, StartNodePending(s, m)
       PROVE  CloudTypeOK' /\ SessionTypeOK' /\ DiskFileTypeOK'
  <2>1. boots' \in [Ids -> 0..MaxBoots] /\ inst' \in [Ids -> InstanceStates]
    BY <1>12, <1>d, <1>s DEF StartNodePending, CloudTypeOK
  <2>2. [mem[s] EXCEPT !.members[m].ip = NoIp] \in ClusterObjs
    <3>1. mem[s].members[m] \in MemberRecs
      BY <1>m DEF ClusterObjs
    <3>2. [mem[s].members[m] EXCEPT !.ip = NoIp] \in MemberRecs
      BY <3>1 DEF MemberRecs
    <3> QED BY <3>2, <1>m, FieldTypes
  <2>3. mem' \in [Sessions -> ClusterObjs]
    BY <1>12, <2>2, MemUpdate DEF StartNodePending
  <2>4. SessionTypeOK'
    BY <1>12, <2>3, <1>o, CallDoneType DEF StartNodePending
  <2>5. CloudTypeOK'
    BY <1>12, <2>1 DEF StartNodePending, CloudTypeOK
  <2> QED BY <1>12, <2>4, <2>5, SameFileType DEF StartNodePending
<1> QED BY <1>1, <1>2, <1>3, <1>4, <1>5, <1>6, <1>7, <1>8, <1>9, <1>10, <1>11, <1>12
        DEF CloudCommandsStep

\* Entering a command keeps the types.
LEMMA BeginType ==
    ASSUME CloudTypeOK, SessionTypeOK, DiskFileTypeOK, NEW s \in Sessions, Begin(s)
    PROVE  CloudTypeOK' /\ SessionTypeOK' /\ DiskFileTypeOK'
<1> USE DEF cloudVars, fileVars, loopVars, nukeVars
<1>1. ASSUME NEW step \in Steps, NEW force, Provision(s, step, force)
      PROVE  CloudTypeOK' /\ SessionTypeOK' /\ DiskFileTypeOK'
  <2>1. FirstLabel(step) \in Labels
    BY DEF FirstLabel, Labels, Steps
  <2> QED BY <1>1, <2>1 DEF Provision, CloudTypeOK, SessionTypeOK, DiskFileTypeOK, Goto
<1>2. CASE Deprovision(s) \/ Start(s) \/ Stop(s)
  <2>1. "clean" \in Labels /\ "start_env" \in Labels /\ "stop_env" \in Labels
    BY DEF Labels
  <2> QED BY <1>2, <2>1, LoadType DEF Deprovision, Start, Stop
<1>3. ASSUME NEW e \in Envs, Nuke(s, e)
      PROVE  CloudTypeOK' /\ SessionTypeOK' /\ DiskFileTypeOK'
  <2>1. "nuke" \in Labels
    BY DEF Labels
  <2>2. pc' \in [Sessions -> Labels]
    BY <1>3, <2>1, GotoType DEF Nuke
  <2>3. e \in Nat
    BY DEF Envs
  <2>4. ix' \in [Sessions -> Nat]
    BY <1>3, <2>3 DEF Nuke, SessionTypeOK
  <2>5. SessionTypeOK'
    BY <1>3, <2>2, <2>4 DEF Nuke, SessionTypeOK
  <2> QED BY <1>3, <2>5, SameCloudType, SameFileType DEF Nuke
<1> QED BY <1>1, <1>2, <1>3 DEF Begin

\* The initial state is well typed.
LEMMA InitType == Init => CloudTypeOK /\ SessionTypeOK /\ DiskFileTypeOK
BY NewClusterType DEF Init, CloudInit, FileInit, CloudTypeOK, SessionTypeOK, DiskFileTypeOK,
   InstanceStates, DiskStates, Labels, Outcomes

\* Type correctness: the variables of the cloud, of the cluster files and of the
\* sessions keep their types whatever commands are run, fail or are interrupted.
THEOREM TypeCorrect == Spec => []TypeOK
<1> DEFINE T == CloudTypeOK /\ SessionTypeOK /\ DiskFileTypeOK
<1>1. Init => T
  BY InitType
<1>2. T /\ [Next]_vars => T'
  <2> SUFFICES ASSUME T, [Next]_vars PROVE T'
    OBVIOUS
  <2>1. CASE UNCHANGED vars
    BY <2>1 DEF vars, cloudVars, fileVars, loopVars, CloudTypeOK, SessionTypeOK, DiskFileTypeOK
  <2>2. ASSUME NEW s \in Sessions, Begin(s) PROVE T'
    BY <2>2, BeginType
  <2>3. ASSUME NEW s \in Sessions, Step(s) PROVE T'
    BY <2>3, ProvisioningType, DeProvisioningType, CloudCommandsType DEF Step
  <2>4. ASSUME NEW s \in Sessions, Crash(s) PROVE T'
    BY <2>4, RaiseType DEF Crash
  <2> QED BY <2>1, <2>2, <2>3, <2>4 DEF Next
<1>3. T => TypeOK
  BY DEF TypeOK, FileTypeOK, SessionTypeOK, DiskFileTypeOK
<1> QED BY <1>1, <1>2, <1>3, PTL DEF Spec

Typed == CloudTypeOK /\ SessionTypeOK /\ DiskFileTypeOK

\* The parts of the type invariant the proofs below use.
LEMMA TypedInvariant == Spec => []Typed
<1>1. TypeOK => Typed
  BY DEF TypeOK, FileTypeOK, SessionTypeOK, DiskFileTypeOK, Typed
<1> QED BY <1>1, TypeCorrect, PTL

(***************************************************************************)
(* ReadyIsComplete                                                         *)
(***************************************************************************)
ObjComplete(o) ==
    o.state \in {"ready", "down"} => \A m \in Members : o.members[m].id # 0

\* A cluster object in memory is complete when it is ready or down, just as the
\* file, and the commands that are about to write one of these states hold an
\* object that has every member.
CompleteInv ==
    /\ \A c \in Clusters : ObjComplete(file[c])
    /\ \A s \in Sessions : ObjComplete(mem[s])
    /\ \A s \in Sessions : pc[s] = "installing" => \A m \in Members : mem[s].members[m].id # 0
    /\ \A s \in Sessions : pc[s] = "start" => mem[s].state = "down"
    /\ \A s \in Sessions : pc[s] = "stop_save" => mem[s].state = "ready"

\* A new cluster is neither ready nor down.
LEMMA NewIsComplete == ObjComplete(NewCluster) /\ NewCluster.state = "not_ready"
BY DEF ObjComplete, NewCluster

\* The end of a command preserves CompleteInv when the files do.
LEMMA ExitComplete ==
    ASSUME Typed, CompleteInv, NEW s \in Sessions, Exit(s),
           \A c \in Clusters : ObjComplete(file'[c])
    PROVE  CompleteInv'
BY NewIsComplete DEF Typed, SessionTypeOK, CompleteInv, Exit

\* Leaving the files alone, loading one into memory or handing on the same object.
LEMMA LoadComplete ==
    ASSUME Typed, CompleteInv, NEW s \in Sessions, NEW label \in Labels, Goto(s, label),
           UNCHANGED file,
           \/ UNCHANGED mem
           \/ mem' = [mem EXCEPT ![s] = file[ClusterOf[s]]],
           label = "installing" => \A m \in Members : mem'[s].members[m].id # 0,
           label = "start" => mem'[s].state = "down",
           label = "stop_save" => mem'[s].state = "ready"
    PROVE  CompleteInv'
BY DEF Typed, SessionTypeOK, DiskFileTypeOK, CompleteInv, Goto

\* Steps that neither move to another label nor touch the files or the object.
LEMMA SameComplete ==
    ASSUME CompleteInv, UNCHANGED <<file, pc, mem>>
    PROVE  CompleteInv'
BY DEF CompleteInv, ObjComplete

\* A command that saves an object and goes on with it.
LEMMA SaveComplete ==
    ASSUME Typed, CompleteInv, NEW s \in Sessions, NEW o, ObjComplete(o),
           file' = [file EXCEPT ![ClusterOf[s]] = o],
           mem' = [mem EXCEPT ![s] = o],
           pc' \in [Sessions -> Labels],
           \A t \in Sessions \ {s} : pc'[t] = pc[t],
           pc'[s] \notin {"installing", "start", "stop_save"}
    PROVE  CompleteInv'
BY DEF Typed, SessionTypeOK, DiskFileTypeOK, CompleteInv

\* provision preserves CompleteInv: allocate only adds members, and install is
\* the step that makes a cluster ready, from an object that has all of them.
LEMMA ProvisioningComplete ==
    ASSUME Typed, CompleteInv, NEW s \in Sessions, ProvisioningStep(s)
    PROVE  CompleteInv'
<1> USE DEF cloudVars, fileVars, loopVars, nukeVars
<1>a. ClusterOf[s] \in Clusters
  OBVIOUS
<1>m. mem[s] \in ClusterObjs /\ mem \in [Sessions -> ClusterObjs] /\ pc \in [Sessions -> Labels]
  BY DEF Typed, SessionTypeOK
<1>f. \A c \in Clusters : ObjComplete(file[c])
  BY DEF CompleteInv
<1>r. ASSUME Raise(s) PROVE CompleteInv'
  BY <1>r, <1>f, ExitComplete DEF Raise
<1>d. ASSUME NEW next \in {"allocate", "test", "make", "install"}, StepDone(s, next),
             \A c \in Clusters : ObjComplete(file'[c])
      PROVE  CompleteInv'
  <2>1. CASE all[s]
    BY <1>d, <2>1, <1>m DEF StepDone, Goto, CompleteInv
  <2>2. CASE ~all[s]
    BY <1>d, <2>2, ExitComplete DEF StepDone
  <2> QED BY <2>1, <2>2
<1>1. CASE ConfigureCheck(s)
  BY <1>1, SameComplete DEF ConfigureCheck
<1>2. CASE ConfigureRefused(s)
  BY <1>2, <1>r DEF ConfigureRefused
<1>3. CASE ConfigureSave(s)
  <2>1. \A c \in Clusters : ObjComplete(file'[c])
    BY <1>3, <1>f, NewIsComplete DEF ConfigureSave, SaveCluster, Typed, DiskFileTypeOK
  <2> QED BY <1>3, <1>d, <2>1 DEF ConfigureSave
<1>4. CASE AllocateLoad(s)
  BY <1>4, <1>r, LoadComplete DEF AllocateLoad, Labels
<1>5. CASE AllocateEnv(s)
  <2>1. \A t \in Sessions : mem'[t].state = mem[t].state /\ mem'[t].members = mem[t].members
    BY <1>5, <1>m DEF AllocateEnv, ClusterObjs
  <2> QED BY <1>5, <1>m, <2>1 DEF AllocateEnv, Goto, CompleteInv, ObjComplete
<1>6. CASE AllocateRefused(s)
  BY <1>6, <1>r DEF AllocateRefused
<1>7. CASE AllocateStorage(s)
  <2>1. \A t \in Sessions : mem'[t].state = mem[t].state /\ mem'[t].members = mem[t].members
    BY <1>7, <1>m DEF AllocateStorage, ClusterObjs
  <2> QED BY <1>7, <1>m, <2>1 DEF AllocateStorage, Goto, CompleteInv, ObjComplete
<1>8. ASSUME NEW m \in Members,
             LaunchInstance(s, m) \/ LaunchReturnsNone(s, m) \/ LaunchRaises(s, m)
      PROVE  CompleteInv'
  <2>1. CASE LaunchInstance(s, m)
    <3>1. PICK n \in 1..MaxLaunch, r \in StorageResults(m), ip \in LaunchIps :
             mem' = [mem EXCEPT ![s].members[m] = [id |-> n, ip |-> ip, vol |-> r.vol]]
      BY <2>1 DEF LaunchInstance
    <3>2. \A t \in Sessions : mem'[t].state = mem[t].state
      BY <3>1, <1>m DEF ClusterObjs
    <3>3. \A t \in Sessions, k \in Members :
             mem[t].members[k].id # 0 => mem'[t].members[k].id # 0
      BY <3>1, <1>m DEF ClusterObjs
    <3> QED BY <2>1, <3>2, <3>3 DEF LaunchInstance, CompleteInv, ObjComplete
  <2>2. CASE LaunchReturnsNone(s, m)
    BY <2>2, SameComplete DEF LaunchReturnsNone
  <2>3. CASE LaunchRaises(s, m)
    BY <2>3, SameComplete DEF LaunchRaises
  <2> QED BY <1>8, <2>1, <2>2, <2>3
<1>9. CASE AllocateCollect(s)
  <2>1. ObjComplete(AfterLaunch(s))
    <3>1. ObjComplete(mem[s])
      BY DEF CompleteInv
    <3>2. /\ AfterLaunch(s).state \in {"ready", "down"} => mem[s].state \in {"ready", "down"}
          /\ \A m \in Members : mem[s].members[m].id # 0 => AfterLaunch(s).members[m].id # 0
      BY <1>m DEF AfterLaunch, ClusterObjs, SelfId
    <3> QED BY <3>1, <3>2 DEF ObjComplete
  <2>2. ASSUME SaveCluster(s, AfterLaunch(s)) PROVE \A c \in Clusters : ObjComplete(file'[c])
    BY <2>1, <2>2, <1>f DEF SaveCluster, Typed, DiskFileTypeOK
  <2>3. CASE bad[s] = "raise"
    BY <1>9, <2>3, <1>f, ExitComplete DEF AllocateCollect
  <2>4. CASE bad[s] = "none"
    BY <1>9, <2>2, <2>4, ExitComplete DEF AllocateCollect
  <2>5. CASE bad[s] = "ok"
    BY <1>9, <2>1, <2>5, <1>m, SaveComplete DEF AllocateCollect, SaveCluster, Goto, Labels
  <2> QED BY <2>3, <2>4, <2>5 DEF Typed, SessionTypeOK, Outcomes
<1>10. CASE AllocateDone(s)
  BY <1>10, <1>d, <1>f DEF AllocateDone
<1>11. CASE SelfTest(s) \/ Make(s)
  BY <1>11, <1>r, <1>d, <1>f DEF SelfTest, Make, OnAllNodes
<1>12. CASE InstallLoad(s)
  <2>1. CASE Raise(s)
    BY <2>1, <1>r
  <2>2. ASSUME Complete(file[ClusterOf[s]]), mem' = [mem EXCEPT ![s] = file[ClusterOf[s]]],
               Goto(s, "installing"), UNCHANGED file
        PROVE  CompleteInv'
    <3>1. \A m \in Members : mem'[s].members[m].id # 0
      BY <2>2, <1>m DEF Complete, Recorded
    <3> QED BY <2>2, <3>1, LoadComplete DEF Labels
  <2> QED BY <1>12, <2>1, <2>2 DEF InstallLoad
<1>13. CASE UninstallLoad(s)
  BY <1>13, <1>r, LoadComplete DEF UninstallLoad, Labels
<1>14. CASE InstallSave(s)
  <2>1. ObjComplete([mem[s] EXCEPT !.target = TRUE, !.state = "ready"])
    BY <1>14, <1>m DEF InstallSave, CompleteInv, ObjComplete, ClusterObjs
  <2>2. CASE Raise(s)
    BY <2>2, <1>r
  <2>3. ASSUME SaveCluster(s, [mem[s] EXCEPT !.target = TRUE, !.state = "ready"]), Exit(s)
        PROVE  CompleteInv'
    <3>1. \A c \in Clusters : ObjComplete(file'[c])
      BY <2>1, <2>3, <1>f DEF SaveCluster, Typed, DiskFileTypeOK
    <3> QED BY <2>3, <3>1, ExitComplete
  <2> QED BY <1>14, <2>2, <2>3 DEF InstallSave
<1>15. CASE UninstallEnv(s)
  <2>1. ObjComplete([mem[s] EXCEPT !.target = FALSE])
    BY <1>m DEF CompleteInv, ObjComplete, ClusterObjs
  <2>2. CASE Raise(s)
    BY <2>2, <1>r
  <2>3. ASSUME SaveCluster(s, [mem[s] EXCEPT !.target = FALSE]),
               mem' = [mem EXCEPT ![s] = [mem[s] EXCEPT !.target = FALSE]],
               UNCHANGED pc, pc[s] = "uninstalling"
        PROVE  CompleteInv'
    BY <2>1, <2>3, <1>m, SaveComplete DEF SaveCluster
  <2> QED BY <1>15, <2>2, <2>3 DEF UninstallEnv
<1>16. CASE UninstallDone(s)
  BY <1>16, <1>f, ExitComplete DEF UninstallDone
<1>17. CASE ProvisioningRaises(s)
  BY <1>17, <1>r DEF ProvisioningRaises
<1> QED BY <1>1, <1>2, <1>3, <1>4, <1>5, <1>6, <1>7, <1>8, <1>9, <1>10, <1>11, <1>12, <1>13,
        <1>14, <1>15, <1>16, <1>17 DEF ProvisioningStep

\* deprovision preserves CompleteInv: clean writes the file back as it was read
\* and then removes it, nuke only removes it.
LEMMA DeProvisioningComplete ==
    ASSUME Typed, CompleteInv, NEW s \in Sessions, DeProvisioningStep(s)
    PROVE  CompleteInv'
<1> USE DEF cloudVars, fileVars, loopVars, nukeVars
<1>m. mem[s] \in ClusterObjs /\ mem \in [Sessions -> ClusterObjs] /\ pc \in [Sessions -> Labels]
  BY DEF Typed, SessionTypeOK
<1>f. \A c \in Clusters : ObjComplete(file[c])
  BY DEF CompleteInv
<1>r. ASSUME Raise(s) PROVE CompleteInv'
  BY <1>r, <1>f, ExitComplete DEF Raise
<1>x. ASSUME RemoveClusterYaml(s), Exit(s) PROVE CompleteInv'
  <2>1. \A c \in Clusters : ObjComplete(file'[c])
    BY <1>x, <1>f, NewIsComplete DEF RemoveClusterYaml, Typed, DiskFileTypeOK
  <2> QED BY <1>x, <2>1, ExitComplete
<1>1. CASE CleanSave(s)
  <2>1. \A c \in Clusters : ObjComplete(file'[c])
    BY <1>1, <1>f DEF CleanSave, SaveCluster, CompleteInv, Typed, DiskFileTypeOK
  <2> QED BY <1>1, <1>m, <2>1 DEF CleanSave, Goto, CompleteInv
<1>2. CASE CleanEnv(s)
  BY <1>2, LoadComplete DEF CleanEnv, Labels
<1>3. CASE CleanStorage(s)
  <2>1. Raise(s) \/ (Goto(s, "clean_env") /\ UNCHANGED <<file, mem>>)
    BY <1>3 DEF CleanStorage
  <2> QED BY <2>1, <1>r, LoadComplete DEF Labels
<1>4. CASE CleanRemove(s)
  BY <1>4, <1>x DEF CleanRemove
<1>5. ASSUME NEW m \in Members, TerminateNode(s, m) \/ TerminateRaises(s, m) PROVE CompleteInv'
  BY <1>5, SameComplete DEF TerminateNode, TerminateRaises
<1>6. CASE NukeDescribe(s)
  BY <1>6, LoadComplete DEF NukeDescribe, Labels
<1>7. CASE NukeWait(s)
  BY <1>7, LoadComplete DEF NukeWait, Labels
<1>8. CASE NukeRemove(s)
  BY <1>8, <1>x DEF NukeRemove
<1>9. ASSUME NEW i \in Ids, NukeInstance(s, i) PROVE CompleteInv'
  BY <1>9, SameComplete DEF NukeInstance
<1>10. ASSUME NEW i \in Ids, NukeVolume(s, i) PROVE CompleteInv'
  <2>1. Raise(s) \/ UNCHANGED <<file, pc, mem>>
    BY <1>10 DEF NukeVolume
  <2> QED BY <2>1, <1>r, SameComplete
<1>11. CASE DeProvisioningRaises(s)
  BY <1>11, <1>r DEF DeProvisioningRaises
<1>12. CASE CleanStorageRaises(s)
  BY <1>12, <1>f, ExitComplete DEF CleanStorageRaises
<1> QED BY <1>1, <1>2, <1>3, <1>4, <1>5, <1>6, <1>7, <1>8, <1>9, <1>10, <1>11, <1>12
        DEF DeProvisioningStep

\* start and stop preserve CompleteInv: start makes a cluster ready that was
\* down, stop makes one down that was ready, and neither drops a member.
LEMMA CloudCommandsComplete ==
    ASSUME Typed, CompleteInv, NEW s \in Sessions, CloudCommandsStep(s)
    PROVE  CompleteInv'
<1> USE DEF cloudVars, fileVars, loopVars, nukeVars
<1>m. mem[s] \in ClusterObjs /\ mem \in [Sessions -> ClusterObjs] /\ pc \in [Sessions -> Labels]
  BY DEF Typed, SessionTypeOK
<1>f. \A c \in Clusters : ObjComplete(file[c])
  BY DEF CompleteInv
<1>r. ASSUME Raise(s) PROVE CompleteInv'
  BY <1>r, <1>f, ExitComplete DEF Raise
<1>1. CASE StartStopDone(s)
  BY <1>1, <1>f, ExitComplete DEF StartStopDone
<1>2. CASE StartEnv(s)
  <2>1. Raise(s) \/ (Goto(s, "start") /\ mem[s].state = "down" /\ UNCHANGED <<file, mem>>)
    BY <1>2 DEF StartEnv
  <2> QED BY <2>1, <1>r, LoadComplete DEF Labels
<1>3. CASE StartSave(s)
  <2> DEFINE obj == [mem[s] EXCEPT !.state = "ready"]
  <2>1. \/ Raise(s)
        \/ SaveCluster(s, obj) /\ mem' = [mem EXCEPT ![s] = obj] /\ Goto(s, "start_backends")
    BY <1>3 DEF StartSave
  <2>2. ObjComplete(obj)
    BY <1>3, <1>m DEF StartSave, CompleteInv, ObjComplete, ClusterObjs
  <2>3. CASE SaveCluster(s, obj) /\ mem' = [mem EXCEPT ![s] = obj] /\ Goto(s, "start_backends")
    <3> HIDE DEF obj
    <3> QED BY <2>2, <2>3, <1>m, SaveComplete DEF SaveCluster, Goto, Labels
  <2> QED BY <2>1, <2>3, <1>r
<1>4. CASE StartBackends(s)
  <2>1. Raise(s) \/ (Goto(s, "start_env") /\ UNCHANGED <<file, mem>>)
    BY <1>4 DEF StartBackends
  <2> QED BY <2>1, <1>r, LoadComplete DEF Labels
<1>5. ASSUME NEW m \in Members, StartNode(s, m) PROVE CompleteInv'
  <2>1. \A t \in Sessions : mem'[t].state = mem[t].state
    BY <1>5, <1>m DEF StartNode, ClusterObjs
  <2>2. \A t \in Sessions, k \in Members : mem'[t].members[k].id = mem[t].members[k].id
    BY <1>5, <1>m DEF StartNode, ClusterObjs, MemberRecs
  <2> QED BY <1>5, <2>1, <2>2 DEF StartNode, CompleteInv, ObjComplete
<1>6. ASSUME NEW m \in Members, StartRaises(s, m) PROVE CompleteInv'
  BY <1>6, SameComplete DEF StartRaises
<1>7. CASE StopEnv(s)
  <2>1. \/ Raise(s)
        \/ UNCHANGED <<file, pc, mem>>
        \/ Goto(s, "stop_save") /\ mem[s].state = "ready" /\ UNCHANGED <<file, mem>>
    BY <1>7 DEF StopEnv
  <2> QED BY <2>1, <1>r, SameComplete, LoadComplete DEF Labels
<1>8. CASE StopSave(s)
  <2> DEFINE obj == [mem[s] EXCEPT !.state = "down"]
  <2>1. SaveCluster(s, obj) /\ mem' = [mem EXCEPT ![s] = obj] /\ Goto(s, "stop")
    BY <1>8 DEF StopSave
  <2>2. ObjComplete(obj)
    BY <1>8, <1>m DEF StopSave, CompleteInv, ObjComplete, ClusterObjs
  <2> HIDE DEF obj
  <2> QED BY <2>1, <2>2, <1>m, SaveComplete DEF SaveCluster, Goto, Labels
<1>9. CASE StopCollect(s)
  <2>1. Raise(s) \/ (Goto(s, "stop_env") /\ UNCHANGED <<file, mem>>)
    BY <1>9 DEF StopCollect
  <2> QED BY <2>1, <1>r, LoadComplete DEF Labels
<1>10. ASSUME NEW m \in Members, StopNode(s, m) \/ StopRaises(s, m) PROVE CompleteInv'
  BY <1>10, SameComplete DEF StopNode, StopRaises
<1>11. CASE CloudCommandsRaises(s)
  BY <1>11, <1>r DEF CloudCommandsRaises
<1>12. ASSUME NEW m \in Members, StartNodePending(s, m) PROVE CompleteInv'
  <2>1. \A t \in Sessions : mem'[t].state = mem[t].state
    BY <1>12, <1>m DEF StartNodePending, ClusterObjs
  <2>2. \A t \in Sessions, k \in Members : mem'[t].members[k].id = mem[t].members[k].id
    BY <1>12, <1>m DEF StartNodePending, ClusterObjs, MemberRecs
  <2> QED BY <1>12, <2>1, <2>2 DEF StartNodePending, CompleteInv, ObjComplete
<1> QED BY <1>1, <1>2, <1>3, <1>4, <1>5, <1>6, <1>7, <1>8, <1>9, <1>10, <1>11, <1>12
        DEF CloudCommandsStep

\* A command that begins has a file in memory or a new object.
LEMMA BeginComplete ==
    ASSUME Typed, CompleteInv, NEW s \in Sessions, Begin(s)
    PROVE  CompleteInv'
<1> USE DEF cloudVars, fileVars, loopVars, nukeVars
<1>1. ASSUME NEW step \in Steps, NEW force, Provision(s, step, force) PROVE CompleteInv'
  <2>1. FirstLabel(step) \in Labels \ {"installing", "start", "stop_save"}
    BY DEF FirstLabel, Steps, Labels
  <2> QED BY <1>1, <2>1, LoadComplete DEF Provision
<1>2. CASE Deprovision(s)
  BY <1>2, LoadComplete DEF Deprovision, Labels
<1>3. ASSUME NEW e \in Envs, Nuke(s, e) PROVE CompleteInv'
  BY <1>3, LoadComplete DEF Nuke, Labels
<1>4. CASE Start(s)
  BY <1>4, LoadComplete DEF Start, Labels
<1>5. CASE Stop(s)
  BY <1>5, LoadComplete DEF Stop, Labels
<1> QED BY <1>1, <1>2, <1>3, <1>4, <1>5 DEF Begin

\* CompleteInv holds throughout.
LEMMA CompleteAlways == Spec => []CompleteInv
<1> USE DEF cloudVars, fileVars, loopVars, nukeVars
<1>1. Init => CompleteInv
  BY NewIsComplete DEF Init, CloudInit, FileInit, CompleteInv
<1>2. Typed /\ CompleteInv /\ [Next]_vars => CompleteInv'
  <2> SUFFICES ASSUME Typed, CompleteInv, [Next]_vars PROVE CompleteInv'
    OBVIOUS
  <2>1. ASSUME NEW s \in Sessions, Crash(s) PROVE CompleteInv'
    BY <2>1, ExitComplete DEF Crash, Raise, CompleteInv
  <2>2. CASE UNCHANGED vars
    BY <2>2, SameComplete DEF vars
  <2> QED BY <2>1, <2>2, BeginComplete, ProvisioningComplete, DeProvisioningComplete,
          CloudCommandsComplete DEF Next, Step
<1> QED BY <1>1, <1>2, TypedInvariant, PTL DEF Spec

\* Of a cluster that its file calls ready or down, every member has a node:
\* whatever fails, whoever interrupts a command, and whatever other sessions
\* do to the same cluster at the same time.
THEOREM ReadyComplete == Spec => []ReadyIsComplete
<1>1. CompleteInv => ReadyIsComplete
  BY DEF CompleteInv, ObjComplete, ReadyIsComplete
<1> QED BY <1>1, CompleteAlways, PTL

(***************************************************************************)
(* One session for each cluster                                            *)
(*                                                                         *)
(* The file is not locked, so what is said below needs that nobody else    *)
(* works on a cluster while a command does.                                *)
(***************************************************************************)
OneUser == \A s, t \in Sessions : ClusterOf[s] = ClusterOf[t] => s = t

Act(s) == Begin(s) \/ Step(s) \/ Crash(s)

\* What a step of session s leaves to the others: their state and the files of
\* other clusters
OthersKeep(s) ==
    /\ \A t \in Sessions \ {s} :
          /\ pc'[t] = pc[t] /\ mem'[t] = mem[t] /\ ix'[t] = ix[t]
          /\ todo'[t] = todo[t] /\ bad'[t] = bad[t] /\ ids'[t] = ids[t]
    /\ \A c \in Clusters \ {ClusterOf[s]} : file'[c] = file[c] /\ fileExists'[c] = fileExists[c]

\* The building blocks of commands touch their own session only.
LEMMA ExitKeeps ==
    ASSUME Typed, NEW s \in Sessions, Exit(s)
    PROVE  \A t \in Sessions \ {s} :
          /\ pc'[t] = pc[t] /\ mem'[t] = mem[t] /\ ix'[t] = ix[t]
          /\ todo'[t] = todo[t] /\ bad'[t] = bad[t] /\ ids'[t] = ids[t]
BY DEF Typed, SessionTypeOK, Exit

\* An exception ends the command of one session only.
LEMMA RaiseKeeps ==
    ASSUME Typed, NEW s \in Sessions, Raise(s)
    PROVE  OthersKeep(s)
BY ExitKeeps DEF Raise, fileVars, OthersKeep

\* The end of a provisioning step concerns one session only.
LEMMA StepDoneKeeps ==
    ASSUME Typed, NEW s \in Sessions, NEW l, StepDone(s, l)
    PROVE  \A t \in Sessions \ {s} :
          /\ pc'[t] = pc[t] /\ mem'[t] = mem[t] /\ ix'[t] = ix[t]
          /\ todo'[t] = todo[t] /\ bad'[t] = bad[t] /\ ids'[t] = ids[t]
<1>1. CASE all[s]
  BY <1>1 DEF Typed, SessionTypeOK, StepDone, Goto, nukeVars
<1>2. CASE ~all[s]
  BY <1>2, ExitKeeps DEF StepDone
<1> QED BY <1>1, <1>2

\* A session writes and removes the file of its own cluster only.
LEMMA FileKeeps ==
    ASSUME Typed, NEW s \in Sessions,
           \/ UNCHANGED fileVars \/ RemoveClusterYaml(s)
           \/ \E o : SaveCluster(s, o)
    PROVE  \A c \in Clusters \ {ClusterOf[s]} : file'[c] = file[c] /\ fileExists'[c] = fileExists[c]
BY DEF Typed, DiskFileTypeOK, SaveCluster, RemoveClusterYaml, fileVars

\* provision touches its own session and its own cluster's file.
LEMMA ProvisioningKeeps ==
    ASSUME Typed, NEW s \in Sessions, ProvisioningStep(s)
    PROVE  OthersKeep(s)
<1> USE DEF cloudVars, fileVars, loopVars, nukeVars
<1>t. /\ pc \in [Sessions -> Labels] /\ mem \in [Sessions -> ClusterObjs] /\ ix \in [Sessions -> Nat]
      /\ todo \in [Sessions -> SUBSET Members] /\ bad \in [Sessions -> Outcomes]
      /\ ids \in [Sessions -> SUBSET Ids]
  BY DEF Typed, SessionTypeOK
<1>1. CASE ConfigureCheck(s)
  BY <1>1, <1>t DEF ConfigureCheck, NextEnv, OthersKeep
<1>2. CASE ConfigureRefused(s) \/ AllocateRefused(s) \/ ProvisioningRaises(s)
  BY <1>2, RaiseKeeps DEF ConfigureRefused, AllocateRefused, ProvisioningRaises
<1>3. CASE ConfigureSave(s)
  BY <1>3, FileKeeps, StepDoneKeeps DEF ConfigureSave, OthersKeep
<1>4. CASE AllocateLoad(s)
  <2>1. CASE Raise(s)
    BY <2>1, RaiseKeeps
  <2>2. CASE ~Raise(s)
    BY <1>4, <1>t, <2>2 DEF AllocateLoad, Goto, OthersKeep
  <2> QED BY <2>1, <2>2
<1>5. CASE AllocateEnv(s)
  BY <1>5, <1>t DEF AllocateEnv, Goto, OthersKeep
<1>6. CASE AllocateStorage(s)
  BY <1>6, <1>t DEF AllocateStorage, Goto, StartCalls, OthersKeep
<1>7. ASSUME NEW m \in Members,
             LaunchInstance(s, m) \/ LaunchReturnsNone(s, m) \/ LaunchRaises(s, m)
      PROVE  OthersKeep(s)
  BY <1>7, <1>t DEF LaunchInstance, LaunchReturnsNone, LaunchRaises, CallDone, OthersKeep
<1>8. CASE AllocateCollect(s)
  <2>1. CASE bad[s] = "raise"
    BY <1>8, <2>1, ExitKeeps DEF AllocateCollect, OthersKeep
  <2>2. CASE bad[s] = "none"
    BY <1>8, <2>2, ExitKeeps, FileKeeps DEF AllocateCollect, OthersKeep
  <2>3. CASE bad[s] = "ok"
    <3>1. SaveCluster(s, AfterLaunch(s)) /\ mem' = [mem EXCEPT ![s] = AfterLaunch(s)]
          /\ NextEnv(s) /\ Goto(s, "alloc_env") /\ UNCHANGED <<all, todo, bad, nukeVars>>
      BY <1>8, <2>3 DEF AllocateCollect
    <3>2. \A c \in Clusters \ {ClusterOf[s]} : file'[c] = file[c] /\ fileExists'[c] = fileExists[c]
      BY <3>1, FileKeeps
    <3> QED BY <1>t, <3>1, <3>2 DEF NextEnv, Goto, OthersKeep
  <2> QED BY <1>t, <2>1, <2>2, <2>3 DEF Outcomes
<1>9. CASE AllocateDone(s)
  BY <1>9, StepDoneKeeps DEF AllocateDone, OthersKeep
<1>10. CASE SelfTest(s) \/ Make(s)
  BY <1>10, StepDoneKeeps, RaiseKeeps DEF SelfTest, Make, OnAllNodes, OthersKeep
<1>11. CASE InstallLoad(s) \/ UninstallLoad(s)
  <2>1. CASE Raise(s)
    BY <2>1, RaiseKeeps
  <2>2. CASE ~Raise(s)
    BY <1>11, <1>t, <2>2 DEF InstallLoad, UninstallLoad, Goto, OthersKeep
  <2> QED BY <2>1, <2>2
<1>12. CASE InstallSave(s)
  BY <1>12, RaiseKeeps, ExitKeeps, FileKeeps DEF InstallSave, OthersKeep
<1>13. CASE UninstallEnv(s)
  <2>1. CASE Raise(s)
    BY <2>1, RaiseKeeps
  <2>2. CASE ~Raise(s)
    <3>1. \A c \in Clusters \ {ClusterOf[s]} : file'[c] = file[c] /\ fileExists'[c] = fileExists[c]
      BY <1>13, <2>2, FileKeeps DEF UninstallEnv
    <3> QED BY <1>13, <1>t, <2>2, <3>1 DEF UninstallEnv, NextEnv, OthersKeep
  <2> QED BY <2>1, <2>2
<1>14. CASE UninstallDone(s)
  BY <1>14, ExitKeeps DEF UninstallDone, OthersKeep
<1> QED BY <1>1, <1>2, <1>3, <1>4, <1>5, <1>6, <1>7, <1>8, <1>9, <1>10, <1>11, <1>12, <1>13,
        <1>14 DEF ProvisioningStep

\* deprovision touches its own session and its own cluster's file.
LEMMA DeProvisioningKeeps ==
    ASSUME Typed, NEW s \in Sessions, DeProvisioningStep(s)
    PROVE  OthersKeep(s)
<1> USE DEF cloudVars, fileVars, loopVars, nukeVars
<1>t. /\ pc \in [Sessions -> Labels] /\ mem \in [Sessions -> ClusterObjs] /\ ix \in [Sessions -> Nat]
      /\ todo \in [Sessions -> SUBSET Members] /\ bad \in [Sessions -> Outcomes]
      /\ ids \in [Sessions -> SUBSET Ids]
  BY DEF Typed, SessionTypeOK
<1>1. CASE CleanSave(s)
  <2>1. \A c \in Clusters \ {ClusterOf[s]} : file'[c] = file[c] /\ fileExists'[c] = fileExists[c]
    BY <1>1, FileKeeps DEF CleanSave
  <2> QED BY <1>1, <1>t, <2>1 DEF CleanSave, Goto, OthersKeep
<1>2. CASE CleanEnv(s)
  BY <1>2, <1>t DEF CleanEnv, Goto, StartCalls, OthersKeep
<1>3. CASE CleanStorage(s)
  <2>1. CASE Raise(s)
    BY <2>1, RaiseKeeps
  <2>2. CASE ~Raise(s)
    BY <1>3, <1>t, <2>2 DEF CleanStorage, Goto, NextEnv, OthersKeep
  <2> QED BY <2>1, <2>2
<1>4. CASE CleanRemove(s) \/ NukeRemove(s)
  BY <1>4, ExitKeeps, FileKeeps DEF CleanRemove, NukeRemove, OthersKeep
<1>5. ASSUME NEW m \in Members, TerminateNode(s, m) \/ TerminateRaises(s, m) PROVE OthersKeep(s)
  BY <1>5, <1>t DEF TerminateNode, TerminateRaises, CallDone, OthersKeep
<1>6. CASE NukeDescribe(s) \/ NukeWait(s)
  BY <1>6, <1>t DEF NukeDescribe, NukeWait, Goto, OthersKeep
<1>7. ASSUME NEW i \in Ids, NukeInstance(s, i) PROVE OthersKeep(s)
  BY <1>7, <1>t DEF NukeInstance, OthersKeep
<1>8. ASSUME NEW i \in Ids, NukeVolume(s, i) PROVE OthersKeep(s)
  BY <1>8, <1>t, RaiseKeeps DEF NukeVolume, OthersKeep
<1>9. CASE DeProvisioningRaises(s)
  BY <1>9, RaiseKeeps DEF DeProvisioningRaises
<1>10. CASE CleanStorageRaises(s)
  BY <1>10, ExitKeeps DEF CleanStorageRaises, OthersKeep
<1> QED BY <1>1, <1>2, <1>3, <1>4, <1>5, <1>6, <1>7, <1>8, <1>9, <1>10 DEF DeProvisioningStep

\* start and stop touch their own session and their own cluster's file.
LEMMA CloudCommandsKeep ==
    ASSUME Typed, NEW s \in Sessions, CloudCommandsStep(s)
    PROVE  OthersKeep(s)
<1> USE DEF cloudVars, fileVars, loopVars, nukeVars
<1>t. /\ pc \in [Sessions -> Labels] /\ mem \in [Sessions -> ClusterObjs] /\ ix \in [Sessions -> Nat]
      /\ todo \in [Sessions -> SUBSET Members] /\ bad \in [Sessions -> Outcomes]
      /\ ids \in [Sessions -> SUBSET Ids]
  BY DEF Typed, SessionTypeOK
<1>1. CASE StartStopDone(s)
  BY <1>1, ExitKeeps DEF StartStopDone, OthersKeep
<1>2. CASE StartEnv(s) \/ StartBackends(s) \/ StopEnv(s) \/ StopCollect(s)
  <2>1. CASE Raise(s)
    BY <2>1, RaiseKeeps
  <2>2. ASSUME ~Raise(s), StartEnv(s) PROVE OthersKeep(s)
    BY <1>t, <2>2 DEF StartEnv, StartCalls, Goto, OthersKeep
  <2>3. ASSUME ~Raise(s), StartBackends(s) PROVE OthersKeep(s)
    BY <1>t, <2>3 DEF StartBackends, NextEnv, Goto, OthersKeep
  <2>4. ASSUME ~Raise(s), StopEnv(s) PROVE OthersKeep(s)
    BY <1>t, <2>4 DEF StopEnv, NextEnv, Goto, OthersKeep
  <2>5. ASSUME ~Raise(s), StopCollect(s) PROVE OthersKeep(s)
    BY <1>t, <2>5 DEF StopCollect, NextEnv, Goto, OthersKeep
  <2> QED BY <1>2, <2>1, <2>2, <2>3, <2>4, <2>5
<1>3. CASE StartSave(s)
  <2>1. CASE Raise(s)
    BY <2>1, RaiseKeeps
  <2>2. CASE ~Raise(s)
    <3>1. \A c \in Clusters \ {ClusterOf[s]} : file'[c] = file[c] /\ fileExists'[c] = fileExists[c]
      BY <1>3, <2>2, FileKeeps DEF StartSave
    <3> QED BY <1>3, <1>t, <2>2, <3>1 DEF StartSave, Goto, OthersKeep
  <2> QED BY <2>1, <2>2
<1>4. CASE StopSave(s)
  <2>1. \A c \in Clusters \ {ClusterOf[s]} : file'[c] = file[c] /\ fileExists'[c] = fileExists[c]
    BY <1>4, FileKeeps DEF StopSave
  <2> QED BY <1>4, <1>t, <2>1 DEF StopSave, StartCalls, Goto, OthersKeep
<1>5. ASSUME NEW m \in Members,
             \/ StartNode(s, m) \/ StartNodePending(s, m) \/ StartRaises(s, m)
             \/ StopNode(s, m) \/ StopRaises(s, m)
      PROVE  OthersKeep(s)
  BY <1>5, <1>t DEF StartNode, StartNodePending, StartRaises, StopNode, StopRaises, CallDone,
     OthersKeep
<1>6. CASE CloudCommandsRaises(s)
  BY <1>6, RaiseKeeps DEF CloudCommandsRaises
<1> QED BY <1>1, <1>2, <1>3, <1>4, <1>5, <1>6 DEF CloudCommandsStep

\* To enter a command changes nothing for others.
LEMMA BeginKeeps ==
    ASSUME Typed, NEW s \in Sessions, Begin(s)
    PROVE  OthersKeep(s)
<1> USE DEF cloudVars, fileVars, loopVars, nukeVars
<1>t. /\ pc \in [Sessions -> Labels] /\ mem \in [Sessions -> ClusterObjs] /\ ix \in [Sessions -> Nat]
      /\ todo \in [Sessions -> SUBSET Members] /\ bad \in [Sessions -> Outcomes]
      /\ ids \in [Sessions -> SUBSET Ids]
  BY DEF Typed, SessionTypeOK
<1>1. ASSUME NEW step \in Steps, NEW force, Provision(s, step, force) PROVE OthersKeep(s)
  BY <1>1, <1>t DEF Provision, Goto, OthersKeep
<1>2. CASE Deprovision(s) \/ Start(s) \/ Stop(s)
  BY <1>2, <1>t DEF Deprovision, Start, Stop, Goto, OthersKeep
<1>3. ASSUME NEW e \in Envs, Nuke(s, e) PROVE OthersKeep(s)
  BY <1>3, <1>t DEF Nuke, Goto, OthersKeep
<1> QED BY <1>1, <1>2, <1>3 DEF Begin

\* A step of one session leaves the others their state.
LEMMA ActKeeps ==
    ASSUME Typed, NEW s \in Sessions, Act(s)
    PROVE  OthersKeep(s)
BY BeginKeeps, ProvisioningKeeps, DeProvisioningKeeps, CloudCommandsKeep, RaiseKeeps
   DEF Act, Step, Crash

(***************************************************************************)
(* The object in memory is that of the file                                *)
(***************************************************************************)
\* The steps at which a command holds the object it loaded
Holding == {"alloc_env", "alloc_storage", "launch", "installing", "uninstalling",
            "clean", "clean_env", "terminate", "start_env", "start", "start_backends",
            "stop_env", "stop_save", "stop"}

\* It has the state and the members of the file, but for those that are being
\* launched and for the addresses while the instances start.
Mirrors(s) ==
    LET o == mem[s]
        f == file[ClusterOf[s]]
    IN  pc[s] \in Holding =>
          /\ fileExists[ClusterOf[s]]
          /\ o.state = f.state
          /\ \A m \in Members :
                \/ o.members[m] = f.members[m]
                \/ pc[s] = "launch" /\ MemberEnv[m] = ix[s] /\ o.members[m].id \in 1..MaxLaunch
                \/ /\ pc[s] = "start"
                   /\ o.members[m].id = f.members[m].id
                   /\ o.members[m].vol = f.members[m].vol

\* Instances are launched in the environment of the loop, and not those of
\* faked members.
Launching(s) ==
    /\ pc[s] \in {"alloc_storage", "launch"} => ix[s] \in Envs
    /\ pc[s] = "launch" => \A m \in todo[s] : MemberEnv[m] = ix[s] /\ m \notin SelfManaged

\* stop said down before it stops an instance.
SaysDown(s) == pc[s] = "stop" => mem[s].state = "down"

\* Loops begin with the first environment.
FromFirst(s) ==
    pc[s] \in {"idle", "allocate", "test", "make", "install", "uninstall", "clean"} => ix[s] = 1

SessionInv(s) == Mirrors(s) /\ Launching(s) /\ SaysDown(s) /\ FromFirst(s)

MirrorInv == OneUser /\ \A s \in Sessions : SessionInv(s)

\* A command that ends holds nothing.
LEMMA ExitMirror ==
    ASSUME Typed, NEW s \in Sessions, Exit(s)
    PROVE  SessionInv(s)'
<1>1. pc'[s] = "idle" /\ ix'[s] = 1
  BY DEF Typed, SessionTypeOK, Exit
<1> QED BY <1>1 DEF SessionInv, Mirrors, Launching, SaysDown, FromFirst, Holding

\* The next provisioning step starts without an object in memory.
LEMMA StepDoneMirror ==
    ASSUME Typed, NEW s \in Sessions, NEW l \in {"allocate", "test", "make", "install"}, StepDone(s, l)
    PROVE  SessionInv(s)'
<1>1. CASE all[s]
  <2>1. pc'[s] = l /\ ix'[s] = 1
    BY <1>1 DEF Typed, SessionTypeOK, StepDone, Goto
  <2> QED BY <2>1 DEF SessionInv, Mirrors, Launching, SaysDown, FromFirst, Holding
<1>2. CASE ~all[s]
  BY <1>2, ExitMirror DEF StepDone
<1> QED BY <1>1, <1>2

\* A command that loads the file holds what is in it.
LEMMA LoadMirror ==
    ASSUME Typed, NEW s \in Sessions, NEW l, l \notin {"alloc_storage", "launch", "stop"},
           Goto(s, l), CanLoad(s), mem' = [mem EXCEPT ![s] = file[ClusterOf[s]]],
           UNCHANGED fileVars, ix'[s] = 1
    PROVE  SessionInv(s)'
<1>1. pc'[s] = l /\ mem'[s] = file[ClusterOf[s]] /\ file' = file /\ fileExists' = fileExists
  BY DEF Typed, SessionTypeOK, Goto, fileVars
<1> QED BY <1>1 DEF SessionInv, Mirrors, Launching, SaysDown, FromFirst, CanLoad

\* One that neither holds an object nor launches anything
LEMMA OtherMirror ==
    ASSUME Typed, NEW s \in Sessions, pc'[s] \notin Holding,
           ix'[s] = 1 \/ pc'[s] \in {"configure", "nuke", "nuke_instances", "nuke_volumes"}
    PROVE  SessionInv(s)'
BY DEF SessionInv, Mirrors, Launching, SaysDown, FromFirst, Holding

\* One that saves what it holds and goes on
LEMMA SaveMirror ==
    ASSUME Typed, NEW s \in Sessions, NEW o, SaveCluster(s, o), mem'[s] = o,
           pc'[s] \notin {"alloc_storage", "launch", "clean"},
           pc'[s] \in Holding, pc'[s] = "stop" => o.state = "down"
    PROVE  SessionInv(s)'
<1>1. file'[ClusterOf[s]] = o /\ fileExists'[ClusterOf[s]]
  BY DEF Typed, DiskFileTypeOK, SaveCluster
<1> QED BY <1>1 DEF SessionInv, Mirrors, Launching, SaysDown, FromFirst, Holding

\* One that goes on with the object it holds
LEMMA GoMirror ==
    ASSUME Typed, NEW s \in Sessions, SessionInv(s), UNCHANGED fileVars, mem'[s] = mem[s],
           pc[s] \in Holding \ {"launch", "start"},
           pc'[s] \in Holding \ {"alloc_storage", "launch", "stop", "clean"}
    PROVE  SessionInv(s)'
BY DEF SessionInv, Mirrors, Launching, SaysDown, FromFirst, Holding, fileVars

\* provision keeps its object like the file: allocate saves it after each
\* environment, install and clean save what they loaded.
LEMMA ProvisioningMirror ==
    ASSUME Typed, NEW s \in Sessions, SessionInv(s), ProvisioningStep(s)
    PROVE  SessionInv(s)'
<1> USE DEF cloudVars, fileVars, loopVars, nukeVars
<1>t. /\ pc \in [Sessions -> Labels] /\ mem \in [Sessions -> ClusterObjs] /\ ix \in [Sessions -> Nat]
      /\ todo \in [Sessions -> SUBSET Members] /\ bad \in [Sessions -> Outcomes]
      /\ file \in [Clusters -> ClusterObjs] /\ ClusterOf[s] \in Clusters
  BY DEF Typed, SessionTypeOK, DiskFileTypeOK
<1>r. ASSUME Raise(s) PROVE SessionInv(s)'
  BY <1>r, ExitMirror DEF Raise
<1>1. CASE ConfigureCheck(s)
  BY <1>1, <1>t, OtherMirror DEF ConfigureCheck, NextEnv, Holding
<1>2. CASE ConfigureRefused(s) \/ AllocateRefused(s) \/ ProvisioningRaises(s)
  BY <1>2, <1>r DEF ConfigureRefused, AllocateRefused, ProvisioningRaises
<1>3. CASE ConfigureSave(s)
  BY <1>3, StepDoneMirror DEF ConfigureSave
<1>4. CASE AllocateLoad(s)
  <2>1. ASSUME ~Raise(s) PROVE SessionInv(s)'
    <3>1. ix'[s] = 1
      BY <1>4, <2>1 DEF AllocateLoad, SessionInv, FromFirst
    <3> QED BY <1>4, <2>1, <3>1, LoadMirror DEF AllocateLoad
  <2> QED BY <2>1, <1>r
<1>5. CASE AllocateEnv(s)
  <2>1. /\ pc[s] = "alloc_env" /\ pc'[s] = "alloc_storage" /\ ix'[s] = ix[s] /\ ix[s] \in Envs
        /\ mem'[s].state = mem[s].state /\ mem'[s].members = mem[s].members
    BY <1>5, <1>t DEF AllocateEnv, Goto, ClusterObjs
  <2> QED BY <1>5, <2>1 DEF AllocateEnv, SessionInv, Mirrors, Launching, SaysDown, FromFirst, Holding
<1>6. CASE AllocateStorage(s)
  <2>1. /\ pc[s] = "alloc_storage" /\ pc'[s] = "launch" /\ ix'[s] = ix[s]
        /\ todo'[s] = {m \in Members \ SelfManaged : MemberEnv[m] = ix[s]}
        /\ mem'[s].state = mem[s].state /\ mem'[s].members = mem[s].members
    BY <1>6, <1>t DEF AllocateStorage, StartCalls, Goto, ClusterObjs
  <2> QED BY <1>6, <2>1 DEF AllocateStorage, SessionInv, Mirrors, Launching, SaysDown, FromFirst, Holding
<1>7. ASSUME NEW m \in Members,
             LaunchInstance(s, m) \/ LaunchReturnsNone(s, m) \/ LaunchRaises(s, m)
      PROVE  SessionInv(s)'
  <2>0. /\ pc[s] = "launch" /\ m \in todo[s] /\ pc' = pc /\ ix' = ix
        /\ todo'[s] = todo[s] \ {m} /\ file' = file /\ fileExists' = fileExists
    BY <1>7, <1>t DEF LaunchInstance, LaunchReturnsNone, LaunchRaises, CallDone
  <2>1. ASSUME mem'[s] = mem[s] PROVE SessionInv(s)'
    BY <2>0, <2>1 DEF SessionInv, Mirrors, Launching, SaysDown, FromFirst, Holding
  <2>2. CASE LaunchInstance(s, m)
    <3>1. PICK n \in 1..MaxLaunch, r \in StorageResults(m), ip \in LaunchIps :
             mem' = [mem EXCEPT ![s].members[m] = [id |-> n, ip |-> ip, vol |-> r.vol]]
      BY <2>2 DEF LaunchInstance
    <3>2. /\ mem'[s].state = mem[s].state
          /\ mem'[s].members[m].id = n
          /\ \A k \in Members \ {m} : mem'[s].members[k] = mem[s].members[k]
      BY <3>1, <1>t DEF ClusterObjs
    <3>3. MemberEnv[m] = ix[s]
      BY <2>0 DEF SessionInv, Launching
    <3> QED BY <2>0, <3>2, <3>3 DEF SessionInv, Mirrors, Launching, SaysDown, FromFirst, Holding
  <2> QED BY <1>7, <2>1, <2>2 DEF LaunchReturnsNone, LaunchRaises
<1>8. CASE AllocateCollect(s)
  <2>1. CASE bad[s] \in {"raise", "none"}
    BY <1>8, <2>1, ExitMirror DEF AllocateCollect
  <2>2. CASE bad[s] = "ok"
    <3>1. SaveCluster(s, AfterLaunch(s)) /\ mem'[s] = AfterLaunch(s) /\ pc'[s] = "alloc_env"
      BY <1>8, <1>t, <2>2 DEF AllocateCollect, Goto
    <3> QED BY <3>1, SaveMirror DEF Holding
  <2> QED BY <1>t, <2>1, <2>2 DEF Outcomes
<1>9. CASE AllocateDone(s)
  BY <1>9, StepDoneMirror DEF AllocateDone
<1>10. CASE SelfTest(s) \/ Make(s)
  BY <1>10, <1>r, StepDoneMirror DEF SelfTest, Make, OnAllNodes
<1>11. CASE InstallLoad(s) \/ UninstallLoad(s)
  <2>1. ASSUME ~Raise(s) PROVE SessionInv(s)'
    <3>1. ix'[s] = 1
      BY <1>11, <2>1 DEF InstallLoad, UninstallLoad, SessionInv, FromFirst
    <3> QED BY <1>11, <2>1, <3>1, LoadMirror DEF InstallLoad, UninstallLoad
  <2> QED BY <2>1, <1>r
<1>12. CASE InstallSave(s)
  BY <1>12, <1>r, ExitMirror DEF InstallSave
<1>13. CASE UninstallEnv(s)
  <2>1. ASSUME ~Raise(s) PROVE SessionInv(s)'
    <3> DEFINE obj == [mem[s] EXCEPT !.target = FALSE]
    <3>1. SaveCluster(s, obj) /\ mem'[s] = obj /\ pc'[s] = "uninstalling"
      BY <1>13, <1>t, <2>1 DEF UninstallEnv
    <3> HIDE DEF obj
    <3> QED BY <3>1, SaveMirror DEF Holding
  <2> QED BY <2>1, <1>r
<1>14. CASE UninstallDone(s)
  BY <1>14, ExitMirror DEF UninstallDone
<1> QED BY <1>1, <1>2, <1>3, <1>4, <1>5, <1>6, <1>7, <1>8, <1>9, <1>10, <1>11, <1>12, <1>13,
        <1>14 DEF ProvisioningStep

\* deprovision holds what it loaded until the file is removed.
LEMMA DeProvisioningMirror ==
    ASSUME Typed, NEW s \in Sessions, SessionInv(s), DeProvisioningStep(s)
    PROVE  SessionInv(s)'
<1> USE DEF cloudVars, fileVars, loopVars, nukeVars
<1>t. /\ pc \in [Sessions -> Labels] /\ mem \in [Sessions -> ClusterObjs] /\ ix \in [Sessions -> Nat]
      /\ file \in [Clusters -> ClusterObjs] /\ ClusterOf[s] \in Clusters
  BY DEF Typed, SessionTypeOK, DiskFileTypeOK
<1>r. ASSUME Raise(s) PROVE SessionInv(s)'
  BY <1>r, ExitMirror DEF Raise
<1>1. CASE CleanSave(s)
  <2>1. SaveCluster(s, mem[s]) /\ mem'[s] = mem[s] /\ pc'[s] = "clean_env"
    BY <1>1, <1>t DEF CleanSave, Goto
  <2> QED BY <2>1, SaveMirror DEF Holding
<1>2. CASE CleanEnv(s)
  BY <1>2, <1>t, GoMirror DEF CleanEnv, Goto, Holding
<1>3. CASE CleanStorage(s)
  BY <1>3, <1>t, <1>r, GoMirror DEF CleanStorage, Goto, Holding
<1>4. CASE CleanRemove(s) \/ NukeRemove(s)
  BY <1>4, ExitMirror DEF CleanRemove, NukeRemove
<1>5. ASSUME NEW m \in Members, TerminateNode(s, m) \/ TerminateRaises(s, m) PROVE SessionInv(s)'
  BY <1>5, <1>t, GoMirror DEF TerminateNode, TerminateRaises, Holding
<1>6. CASE NukeDescribe(s) \/ NukeWait(s)
  BY <1>6, <1>t, OtherMirror DEF NukeDescribe, NukeWait, Goto, Holding
<1>7. ASSUME NEW i \in Ids, NukeInstance(s, i) PROVE SessionInv(s)'
  BY <1>7, <1>t, OtherMirror DEF NukeInstance, Holding
<1>8. ASSUME NEW i \in Ids, NukeVolume(s, i) PROVE SessionInv(s)'
  BY <1>8, <1>t, <1>r, OtherMirror DEF NukeVolume, Holding
<1>9. CASE DeProvisioningRaises(s)
  BY <1>9, <1>r DEF DeProvisioningRaises
<1>10. CASE CleanStorageRaises(s)
  BY <1>10, ExitMirror DEF CleanStorageRaises
<1> QED BY <1>1, <1>2, <1>3, <1>4, <1>5, <1>6, <1>7, <1>8, <1>9, <1>10 DEF DeProvisioningStep

\* start and stop save their object with the state they set; the addresses
\* differ while instances start.
LEMMA CloudCommandsMirror ==
    ASSUME Typed, NEW s \in Sessions, SessionInv(s), CloudCommandsStep(s)
    PROVE  SessionInv(s)'
<1> USE DEF cloudVars, fileVars, loopVars, nukeVars
<1>t. /\ pc \in [Sessions -> Labels] /\ mem \in [Sessions -> ClusterObjs] /\ ix \in [Sessions -> Nat]
      /\ file \in [Clusters -> ClusterObjs] /\ ClusterOf[s] \in Clusters
  BY DEF Typed, SessionTypeOK, DiskFileTypeOK
<1>r. ASSUME Raise(s) PROVE SessionInv(s)'
  BY <1>r, ExitMirror DEF Raise
<1>1. CASE StartStopDone(s)
  BY <1>1, ExitMirror DEF StartStopDone
<1>2. CASE StartEnv(s)
  BY <1>2, <1>t, <1>r, GoMirror DEF StartEnv, Goto, Holding
<1>3. CASE StartBackends(s)
  BY <1>3, <1>t, <1>r, GoMirror DEF StartBackends, Goto, Holding
<1>4. CASE StopEnv(s)
  BY <1>4, <1>t, <1>r, GoMirror DEF StopEnv, Goto, Holding
<1>5. CASE StopCollect(s)
  BY <1>5, <1>t, <1>r, GoMirror DEF StopCollect, Goto, Holding
<1>6. CASE StartSave(s)
  <2>1. ASSUME ~Raise(s) PROVE SessionInv(s)'
    <3> DEFINE obj == [mem[s] EXCEPT !.state = "ready"]
    <3>1. SaveCluster(s, obj) /\ mem'[s] = obj /\ pc'[s] = "start_backends"
      BY <1>6, <1>t, <2>1 DEF StartSave, Goto
    <3> HIDE DEF obj
    <3> QED BY <3>1, SaveMirror DEF Holding
  <2> QED BY <2>1, <1>r
<1>7. CASE StopSave(s)
  <2> DEFINE obj == [mem[s] EXCEPT !.state = "down"]
  <2>1. SaveCluster(s, obj) /\ mem'[s] = obj /\ pc'[s] = "stop" /\ obj.state = "down"
    BY <1>7, <1>t DEF StopSave, Goto, ClusterObjs
  <2> HIDE DEF obj
  <2> QED BY <2>1, SaveMirror DEF Holding
<1>8. ASSUME NEW m \in Members, StartNode(s, m) \/ StartNodePending(s, m)
      PROVE  SessionInv(s)'
  <2>1. mem[s].members[m] \in MemberRecs
    BY <1>t DEF ClusterObjs
  <2>2. /\ mem'[s].state = mem[s].state
        /\ \A k \in Members : /\ mem'[s].members[k].id = mem[s].members[k].id
                              /\ mem'[s].members[k].vol = mem[s].members[k].vol
    <3>1. PICK ip : mem' = [mem EXCEPT ![s].members[m].ip = ip]
      BY <1>8 DEF StartNode, StartNodePending
    <3> QED BY <3>1, <1>t, <2>1 DEF ClusterObjs, MemberRecs
  <2>3. pc[s] = "start" /\ pc'[s] = "start" /\ file' = file /\ fileExists' = fileExists
    BY <1>8 DEF StartNode, StartNodePending
  <2> QED BY <2>2, <2>3 DEF SessionInv, Mirrors, Launching, SaysDown, FromFirst, Holding
<1>9. ASSUME NEW m \in Members, StartRaises(s, m) \/ StopNode(s, m) \/ StopRaises(s, m)
      PROVE SessionInv(s)'
  <2>1. pc[s] \in {"start", "stop"} /\ UNCHANGED <<pc, ix, mem, file, fileExists>>
    BY <1>9 DEF StartRaises, StopNode, StopRaises
  <2> QED BY <2>1 DEF SessionInv, Mirrors, Launching, SaysDown, FromFirst, Holding
<1>10. CASE CloudCommandsRaises(s)
  BY <1>10, <1>r DEF CloudCommandsRaises
<1> QED BY <1>1, <1>2, <1>3, <1>4, <1>5, <1>6, <1>7, <1>8, <1>9, <1>10 DEF CloudCommandsStep

\* A command that begins holds what it loaded, if anything.
LEMMA BeginMirror ==
    ASSUME Typed, NEW s \in Sessions, SessionInv(s), Begin(s)
    PROVE  SessionInv(s)'
<1> USE DEF cloudVars, fileVars, loopVars, nukeVars
<1>t. /\ pc \in [Sessions -> Labels] /\ mem \in [Sessions -> ClusterObjs] /\ ix \in [Sessions -> Nat]
  BY DEF Typed, SessionTypeOK
<1>i. pc[s] = "idle" => ix[s] = 1
  BY DEF SessionInv, FromFirst
<1>1. ASSUME NEW step \in Steps, NEW force, Provision(s, step, force) PROVE SessionInv(s)'
  <2>1. pc'[s] = FirstLabel(step) /\ ix'[s] = 1
    BY <1>1, <1>t, <1>i DEF Provision, Goto
  <2>2. FirstLabel(step) \notin Holding
    BY DEF FirstLabel, Steps, Holding
  <2> QED BY <2>1, <2>2, OtherMirror
<1>2. CASE Deprovision(s) \/ Start(s) \/ Stop(s)
  <2>1. ix'[s] = 1
    BY <1>2, <1>t, <1>i DEF Deprovision, Start, Stop
  <2> QED BY <1>2, <2>1, LoadMirror DEF Deprovision, Start, Stop
<1>3. ASSUME NEW e \in Envs, Nuke(s, e) PROVE SessionInv(s)'
  BY <1>3, <1>t, OtherMirror DEF Nuke, Goto, Holding
<1> QED BY <1>1, <1>2, <1>3 DEF Begin

\* The object in memory stays that of the file, since nobody else writes it.
LEMMA MirrorStep == Typed /\ MirrorInv /\ [Next]_vars => MirrorInv'
<1> SUFFICES ASSUME Typed, MirrorInv, [Next]_vars PROVE MirrorInv'
  OBVIOUS
<1>1. ASSUME NEW s \in Sessions, Act(s), NEW t \in Sessions PROVE SessionInv(t)'
  <2>1. CASE t = s
    BY <1>1, <2>1, BeginMirror, ProvisioningMirror, DeProvisioningMirror, CloudCommandsMirror,
       ExitMirror DEF Act, Step, Crash, Raise, MirrorInv
  <2>2. CASE t # s
    <3>1. ClusterOf[t] # ClusterOf[s] /\ ClusterOf[t] \in Clusters
      BY <2>2 DEF MirrorInv, OneUser
    <3>2. OthersKeep(s) /\ SessionInv(t)
      BY <1>1, ActKeeps DEF MirrorInv
    <3> QED BY <2>2, <3>1, <3>2
            DEF OthersKeep, SessionInv, Mirrors, Launching, SaysDown, FromFirst
  <2> QED BY <2>1, <2>2
<1>2. CASE UNCHANGED vars
  BY <1>2 DEF vars, fileVars, loopVars, MirrorInv, OneUser, SessionInv, Mirrors, Launching,
              SaysDown, FromFirst
<1>3. OneUser'
  BY DEF MirrorInv, OneUser
<1> QED BY <1>1, <1>2, <1>3 DEF Next, Act, MirrorInv

(***************************************************************************)
(* The refinement of ClusterLifecycle                                      *)
(***************************************************************************)
NodesIn(o) == {m \in Members : o.members[m].id # 0}

\* What save_cluster and remove_cluster_yaml are in the life cycle
LEMMA SaveBecomes ==
    ASSUME Typed, NEW s \in Sessions, NEW o, SaveCluster(s, o)
    PROVE  Lifecycle!Become(ClusterOf[s], o.state, NodesIn(o))
<1> DEFINE c == ClusterOf[s]
<1>0. c \in Clusters
  OBVIOUS
<1>1. file' = [file EXCEPT ![c] = o] /\ fileExists' = [fileExists EXCEPT ![c] = TRUE]
      /\ file \in [Clusters -> ClusterObjs] /\ fileExists \in [Clusters -> BOOLEAN]
  BY DEF SaveCluster, Typed, DiskFileTypeOK
<1> HIDE DEF c
<1>2. FileStatus' = [FileStatus EXCEPT ![c] = o.state]
  BY <1>0, <1>1 DEF FileStatus
<1>3. FileNodes' = [FileNodes EXCEPT ![c] = NodesIn(o)]
  BY <1>0, <1>1 DEF FileNodes, NodesIn
<1> QED BY <1>2, <1>3 DEF Lifecycle!Become, c

\* A removed file is an absent cluster.
LEMMA RemoveBecomes ==
    ASSUME Typed, NEW s \in Sessions, RemoveClusterYaml(s)
    PROVE  Lifecycle!Next
<1> DEFINE c == ClusterOf[s]
<1>0. c \in Clusters
  OBVIOUS
<1>1. file' = [file EXCEPT ![c] = NewCluster] /\ fileExists' = [fileExists EXCEPT ![c] = FALSE]
      /\ file \in [Clusters -> ClusterObjs] /\ fileExists \in [Clusters -> BOOLEAN]
  BY DEF RemoveClusterYaml, Typed, DiskFileTypeOK
<1> HIDE DEF c
<1>n. \A m \in Members : NewCluster.members[m].id = 0
  BY DEF NewCluster, NoMember
<1>2. FileStatus' = [FileStatus EXCEPT ![c] = "absent"]
  BY <1>0, <1>1 DEF FileStatus
<1>3. FileNodes' = [FileNodes EXCEPT ![c] = {}]
  BY <1>0, <1>1, <1>n DEF FileNodes
<1> QED BY <1>0, <1>2, <1>3 DEF Lifecycle!Become, Lifecycle!Remove, Lifecycle!Next

\* A file written with the state and the nodes that it had
LEMMA SaveStutters ==
    ASSUME Typed, NEW s \in Sessions, NEW o, SaveCluster(s, o),
           fileExists[ClusterOf[s]], o.state = file[ClusterOf[s]].state,
           NodesIn(o) = NodesIn(file[ClusterOf[s]])
    PROVE  UNCHANGED <<FileStatus, FileNodes>>
<1>1. Lifecycle!Become(ClusterOf[s], o.state, NodesIn(o)) /\ ClusterOf[s] \in Clusters
  BY SaveBecomes
<1>2. FileStatus[ClusterOf[s]] = o.state /\ FileNodes[ClusterOf[s]] = NodesIn(o)
  BY <1>1 DEF FileStatus, FileNodes, NodesIn
<1>3. FileStatus' = [FileStatus EXCEPT ![ClusterOf[s]] = o.state]
      /\ FileNodes' = [FileNodes EXCEPT ![ClusterOf[s]] = NodesIn(o)]
  BY <1>1 DEF Lifecycle!Become
<1>4. FileStatus = [k \in Clusters |-> FileStatus[k]] /\ FileNodes = [k \in Clusters |-> FileNodes[k]]
  BY DEF FileStatus, FileNodes
<1> QED BY <1>1, <1>2, <1>3, <1>4, ZenonT(60)

\* A file that is left alone
LEMMA SameStutters ==
    ASSUME UNCHANGED fileVars PROVE UNCHANGED <<FileStatus, FileNodes>>
BY DEF fileVars, FileStatus, FileNodes

\* The nodes of the object in memory are those of the file, but while it launches.
LEMMA HeldNodes ==
    ASSUME Typed, NEW s \in Sessions, SessionInv(s), pc[s] \in Holding
    PROVE  /\ fileExists[ClusterOf[s]] /\ mem[s].state = file[ClusterOf[s]].state
           /\ pc[s] # "launch" => NodesIn(mem[s]) = NodesIn(file[ClusterOf[s]])
           /\ NodesIn(file[ClusterOf[s]]) \subseteq NodesIn(mem[s])
           /\ FileStatus[ClusterOf[s]] = mem[s].state
           /\ FileNodes[ClusterOf[s]] = NodesIn(file[ClusterOf[s]])
<1>0. ClusterOf[s] \in Clusters
  OBVIOUS
<1>1. fileExists[ClusterOf[s]] /\ mem[s].state = file[ClusterOf[s]].state
  BY DEF SessionInv, Mirrors
<1>2. \A m \in Members : pc[s] # "launch" => mem[s].members[m].id = file[ClusterOf[s]].members[m].id
  BY DEF SessionInv, Mirrors
<1>3. \A m \in Members : file[ClusterOf[s]].members[m].id # 0 => mem[s].members[m].id # 0
  BY DEF SessionInv, Mirrors
<1>4. FileStatus[ClusterOf[s]] = mem[s].state /\ FileNodes[ClusterOf[s]] = NodesIn(file[ClusterOf[s]])
  BY <1>0, <1>1 DEF FileStatus, FileNodes, NodesIn
<1> QED BY <1>1, <1>2, <1>3, <1>4 DEF NodesIn

LifecycleStep == Lifecycle!Next \/ UNCHANGED <<FileStatus, FileNodes>>

\* Every step of provision is a step of the life cycle, or none at all.
LEMMA ProvisioningRefines ==
    ASSUME Typed, CompleteInv, NEW s \in Sessions, SessionInv(s), ProvisioningStep(s)
    PROVE  LifecycleStep
<1> USE DEF cloudVars, fileVars, loopVars, nukeVars
<1>t. /\ mem[s] \in ClusterObjs /\ bad[s] \in Outcomes /\ ClusterOf[s] \in Clusters
      /\ file[ClusterOf[s]] \in ClusterObjs
  BY DEF Typed, SessionTypeOK, DiskFileTypeOK
<1>u. ASSUME UNCHANGED fileVars PROVE LifecycleStep
  BY <1>u, SameStutters DEF LifecycleStep
<1>1. CASE ConfigureSave(s)
  <2>1. NewCluster.state = "not_ready" /\ NodesIn(NewCluster) = {}
    BY DEF NewCluster, NoMember, NodesIn
  <2> QED BY <1>1, <1>t, <2>1, SaveBecomes
          DEF ConfigureSave, Lifecycle!Configure, Lifecycle!Next, LifecycleStep
<1>2. CASE AllocateCollect(s)
  <2>h. /\ pc[s] = "launch" /\ pc[s] \in Holding
    BY <1>2 DEF AllocateCollect, Holding
  <2> DEFINE o == AfterLaunch(s)
             added == \E m \in Members : MemberEnv[m] = ix[s]
  <2>n. NodesIn(mem[s]) \subseteq NodesIn(o)
    BY <1>t DEF AfterLaunch, NodesIn, SelfId, ClusterObjs
  <2>s. /\ o.state \in {"allocated", "failed"} \/ (o.state = mem[s].state /\ ~added)
    BY <1>t DEF AfterLaunch, ClusterObjs
  <2>m. ~added => o.members = mem[s].members
    BY <1>t DEF AfterLaunch, ClusterObjs
  <2>k. ~added => NodesIn(mem[s]) = NodesIn(file[ClusterOf[s]])
    BY <2>h DEF SessionInv, Mirrors, NodesIn
  <2> HIDE DEF o
  <2>1. CASE bad[s] = "raise"
    BY <1>2, <2>1, <1>u DEF AllocateCollect
  <2>2. ASSUME bad[s] # "raise" PROVE LifecycleStep
    <3>1. SaveCluster(s, o)
      BY <1>2, <2>2, <1>t DEF AllocateCollect, Outcomes, o
    <3>2. CASE o.state \in {"allocated", "failed"}
      <4>1. FileStatus[ClusterOf[s]] # "absent" /\ FileNodes[ClusterOf[s]] \subseteq NodesIn(o)
        BY <2>h, <2>n, HeldNodes, <1>t, ZenonT(60) DEF ClusterObjs, ClusterStates
      <4>2. NodesIn(o) \in SUBSET Members
        BY DEF NodesIn
      <4> QED BY <3>1, <3>2, <4>1, <4>2, <1>t, SaveBecomes
              DEF Lifecycle!Allocate, Lifecycle!Next, LifecycleStep
    <3>3. CASE o.state = mem[s].state /\ ~added
      <4>1. NodesIn(o) = NodesIn(file[ClusterOf[s]])
        BY <3>3, <2>m, <2>k DEF NodesIn
      <4>2. fileExists[ClusterOf[s]] /\ o.state = file[ClusterOf[s]].state
        BY <3>3, <2>h, HeldNodes
      <4> QED BY <3>1, <4>1, <4>2, SaveStutters DEF LifecycleStep
    <3> QED BY <2>s, <3>2, <3>3
  <2> QED BY <2>1, <2>2
<1>3. CASE InstallSave(s)
  <2>h. /\ pc[s] = "installing" /\ pc[s] \in Holding
    BY <1>3 DEF InstallSave, Holding
  <2> DEFINE o == [mem[s] EXCEPT !.target = TRUE, !.state = "ready"]
  <2>1. o.state = "ready" /\ NodesIn(o) = NodesIn(mem[s])
    BY <1>t DEF ClusterObjs, NodesIn
  <2>2. NodesIn(mem[s]) = Members
    BY <2>h DEF CompleteInv, NodesIn
  <2>3. FileStatus[ClusterOf[s]] # "absent" /\ FileNodes[ClusterOf[s]] = Members
    BY <2>h, <2>2, HeldNodes, <1>t DEF ClusterObjs, ClusterStates
  <2>4. Raise(s) \/ SaveCluster(s, o)
    BY <1>3 DEF InstallSave
  <2> HIDE DEF o
  <2>5. CASE SaveCluster(s, o)
    BY <2>1, <2>2, <2>3, <2>5, <1>t, SaveBecomes DEF Lifecycle!Install, Lifecycle!Next, LifecycleStep
  <2> QED BY <2>4, <2>5, <1>u DEF Raise
<1>4. CASE UninstallEnv(s)
  <2>h. /\ pc[s] = "uninstalling" /\ pc[s] \in Holding
    BY <1>4 DEF UninstallEnv, Holding
  <2> DEFINE o == [mem[s] EXCEPT !.target = FALSE]
  <2>1. o.state = mem[s].state /\ NodesIn(o) = NodesIn(mem[s])
    BY <1>t DEF ClusterObjs, NodesIn
  <2>4. Raise(s) \/ SaveCluster(s, o)
    BY <1>4 DEF UninstallEnv
  <2> HIDE DEF o
  <2>5. CASE SaveCluster(s, o)
    BY <2>h, <2>1, <2>5, HeldNodes, SaveStutters DEF LifecycleStep
  <2> QED BY <2>4, <2>5, <1>u DEF Raise
<1>5. ASSUME ~ConfigureSave(s), ~AllocateCollect(s), ~InstallSave(s), ~UninstallEnv(s)
      PROVE  UNCHANGED fileVars
  <2>1. ASSUME NEW m \in Members,
               LaunchInstance(s, m) \/ LaunchReturnsNone(s, m) \/ LaunchRaises(s, m)
        PROVE  UNCHANGED fileVars
    BY <2>1 DEF LaunchInstance, LaunchReturnsNone, LaunchRaises
  <2> QED BY <1>5, <2>1 DEF ProvisioningStep, ConfigureCheck, ConfigureRefused, AllocateLoad,
          AllocateEnv, AllocateRefused, AllocateStorage, AllocateDone, SelfTest, Make, OnAllNodes,
          InstallLoad, UninstallLoad, UninstallDone, ProvisioningRaises, Raise
<1> QED BY <1>1, <1>2, <1>3, <1>4, <1>5, <1>u

\* Every step of deprovision is a step of the life cycle, or none at all.
LEMMA DeProvisioningRefines ==
    ASSUME Typed, NEW s \in Sessions, SessionInv(s), DeProvisioningStep(s)
    PROVE  LifecycleStep
<1> USE DEF cloudVars, fileVars, loopVars, nukeVars
<1>u. ASSUME UNCHANGED fileVars PROVE LifecycleStep
  BY <1>u, SameStutters DEF LifecycleStep
<1>1. CASE CleanSave(s)
  <2>h. /\ pc[s] = "clean" /\ pc[s] \in Holding /\ SaveCluster(s, mem[s])
    BY <1>1 DEF CleanSave, Holding
  <2> QED BY <2>h, HeldNodes, SaveStutters DEF LifecycleStep
<1>2. CASE CleanRemove(s) \/ NukeRemove(s)
  BY <1>2, RemoveBecomes DEF CleanRemove, NukeRemove, LifecycleStep
<1>3. ASSUME ~CleanSave(s), ~CleanRemove(s), ~NukeRemove(s) PROVE UNCHANGED fileVars
  <2>1. ASSUME NEW m \in Members, TerminateNode(s, m) \/ TerminateRaises(s, m)
        PROVE  UNCHANGED fileVars
    BY <2>1 DEF TerminateNode, TerminateRaises
  <2>2. ASSUME NEW i \in Ids, NukeInstance(s, i) \/ NukeVolume(s, i) PROVE UNCHANGED fileVars
    BY <2>2 DEF NukeInstance, NukeVolume, Raise
  <2> QED BY <1>3, <2>1, <2>2 DEF DeProvisioningStep, CleanEnv, CleanStorage,
          CleanStorageRaises, NukeDescribe, NukeWait, DeProvisioningRaises, Raise
<1> QED BY <1>1, <1>2, <1>3, <1>u

\* Every step of start and stop is a step of the life cycle, or none at all.
LEMMA CloudCommandsRefine ==
    ASSUME Typed, CompleteInv, NEW s \in Sessions, SessionInv(s), CloudCommandsStep(s)
    PROVE  LifecycleStep
<1> USE DEF cloudVars, fileVars, loopVars, nukeVars
<1>t. mem[s] \in ClusterObjs /\ ClusterOf[s] \in Clusters
  BY DEF Typed, SessionTypeOK
<1>u. ASSUME UNCHANGED fileVars PROVE LifecycleStep
  BY <1>u, SameStutters DEF LifecycleStep
<1>1. CASE StartSave(s)
  <2>h. /\ pc[s] = "start" /\ pc[s] \in Holding
    BY <1>1 DEF StartSave, Holding
  <2> DEFINE o == [mem[s] EXCEPT !.state = "ready"]
  <2>1. o.state = "ready" /\ NodesIn(o) = NodesIn(mem[s])
    BY <1>t DEF ClusterObjs, NodesIn
  <2>2. mem[s].state = "down"
    BY <2>h DEF CompleteInv
  <2>4. Raise(s) \/ SaveCluster(s, o)
    BY <1>1 DEF StartSave
  <2> HIDE DEF o
  <2>5. CASE SaveCluster(s, o)
    <3>1. FileStatus[ClusterOf[s]] = "down" /\ FileNodes[ClusterOf[s]] = NodesIn(o)
      BY <2>h, <2>1, <2>2, HeldNodes
    <3> QED BY <2>1, <2>5, <3>1, <1>t, SaveBecomes
            DEF Lifecycle!SwitchOn, Lifecycle!Next, LifecycleStep
  <2> QED BY <2>4, <2>5, <1>u DEF Raise
<1>2. CASE StopSave(s)
  <2>h. /\ pc[s] = "stop_save" /\ pc[s] \in Holding
    BY <1>2 DEF StopSave, Holding
  <2> DEFINE o == [mem[s] EXCEPT !.state = "down"]
  <2>1. o.state = "down" /\ NodesIn(o) = NodesIn(mem[s])
    BY <1>t DEF ClusterObjs, NodesIn
  <2>2. mem[s].state = "ready"
    BY <2>h DEF CompleteInv
  <2>4. SaveCluster(s, o)
    BY <1>2 DEF StopSave
  <2> HIDE DEF o
  <2>5. FileStatus[ClusterOf[s]] = "ready" /\ FileNodes[ClusterOf[s]] = NodesIn(o)
    BY <2>h, <2>1, <2>2, HeldNodes
  <2> QED BY <2>1, <2>4, <2>5, <1>t, SaveBecomes
          DEF Lifecycle!SwitchOff, Lifecycle!Next, LifecycleStep
<1>3. ASSUME ~StartSave(s), ~StopSave(s) PROVE UNCHANGED fileVars
  <2>1. ASSUME NEW m \in Members,
               \/ StartNode(s, m) \/ StartNodePending(s, m) \/ StartRaises(s, m)
               \/ StopNode(s, m) \/ StopRaises(s, m)
        PROVE  UNCHANGED fileVars
    BY <2>1 DEF StartNode, StartNodePending, StartRaises, StopNode, StopRaises
  <2> QED BY <1>3, <2>1 DEF CloudCommandsStep, StartStopDone, StartEnv, StartBackends, StopEnv,
          StopCollect, CloudCommandsRaises, Raise
<1> QED BY <1>1, <1>2, <1>3, <1>u

\* To enter a command leaves the files alone.
LEMMA BeginStutters ==
    ASSUME NEW s \in Sessions, Begin(s) PROVE UNCHANGED fileVars
BY DEF Begin, Provision, Deprovision, Nuke, Start, Stop

\* MirrorInv holds throughout when each cluster has one user.
LEMMA MirrorAlways == OneUser /\ Spec => []MirrorInv
<1>1. OneUser /\ Init => MirrorInv
  BY DEF Init, FileInit, MirrorInv, SessionInv, Mirrors, Launching, SaysDown, FromFirst, Holding
<1> QED BY <1>1, MirrorStep, TypedInvariant, PTL DEF Spec

\* With one user for each cluster its file follows the life cycle: whatever
\* fails or is interrupted, a cluster becomes ready only with every node or from
\* down, down only from ready, and allocate drops no node, for any number of
\* clusters, members and environments.
THEOREM FileFollowsLifecycle == OneUser /\ Spec => FollowsLifecycle
<1>1. Init => Lifecycle!Init
  <2>1. \A m \in Members : NewCluster.members[m].id = 0
    BY DEF NewCluster, NoMember
  <2> QED BY <2>1 DEF Init, FileInit, Lifecycle!Init, FileStatus, FileNodes
<1>2. Typed /\ CompleteInv /\ MirrorInv /\ [Next]_vars => [Lifecycle!Next]_<<FileStatus, FileNodes>>
  <2> SUFFICES ASSUME Typed, CompleteInv, MirrorInv, [Next]_vars PROVE LifecycleStep
    BY DEF LifecycleStep
  <2>1. ASSUME NEW s \in Sessions, Begin(s) \/ Step(s) \/ Crash(s) PROVE LifecycleStep
    <3>1. SessionInv(s)
      BY DEF MirrorInv
    <3>2. CASE Begin(s) \/ Crash(s)
      BY <3>2, BeginStutters, SameStutters DEF Crash, Raise, fileVars, LifecycleStep
    <3> QED BY <2>1, <3>1, <3>2, ProvisioningRefines, DeProvisioningRefines, CloudCommandsRefine DEF Step
  <2>2. CASE UNCHANGED vars
    BY <2>2, SameStutters DEF vars, fileVars, LifecycleStep
  <2> QED BY <2>1, <2>2 DEF Next
<1> QED BY <1>1, <1>2, CompleteAlways, MirrorAlways, TypedInvariant, PTL
        DEF Spec, FollowsLifecycle, Lifecycle!Spec
=============================================================================
