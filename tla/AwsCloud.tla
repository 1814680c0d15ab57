------------------------------ MODULE AwsCloud ------------------------------
(***************************************************************************)
(* The cloud as the commands of xbench see it through the aws command line *)
(* (cloud/aws/aws_cli.py, aws_ec2.py, aws_ebs.py, cloud/abstract_cloud.py).*)
(*                                                                         *)
(* An instance is identified by <<cluster, member, n>>: its Name tag is    *)
(* "<cluster>-<member>" and n tells the launches of one member apart, as   *)
(* EC2's instance id does. A member lives in one environment (a cloud and  *)
(* a region), fixed by the implementation files.                           *)
(***************************************************************************)
EXTENDS Integers, Sequences, FiniteSets

CONSTANTS
    Clusters,     \* names of clusters
    Members,      \* names of the members of a cluster (driver-0, backend-0, ...)
    NumEnvs,      \* number of environments the implementation lists
    MemberEnv,    \* the environment that provides a member
    CloudOf,      \* the cloud of an environment (entry of cloud.yaml)
    RegionOf,     \* the region of an environment
    Storage,      \* the storage a member asks for
    SelfManaged,  \* members with provisioned = False: faked, never launched
    SharedEnvs,   \* environments whose implementation lists shared_storage
    NamePrefix,   \* <<c, d>>: the name of cluster c is a prefix of that of d
    MaxLaunch,    \* bound: launches of one member
    MaxBoots      \* bound: restarts of one instance

Envs == 1..NumEnvs
Ids == Clusters \X Members \X (1..MaxLaunch)

InstanceStates == {"none", "running", "stopped", "terminated"}
DiskStates == {"none", "attached", "available", "deleted"}
StorageKinds == {"none", "ebs", "ephemeral"}

ASSUME CloudAssumption ==
    /\ NumEnvs \in Nat \ {0}
    /\ MaxLaunch \in Nat \ {0}
    /\ MaxBoots \in Nat
    /\ MemberEnv \in [Members -> Envs]
    /\ Storage \in [Members -> StorageKinds]
    /\ SelfManaged \subseteq Members
    /\ SharedEnvs \subseteq Envs
    /\ NamePrefix \subseteq Clusters \X Clusters
    /\ \A c \in Clusters : <<c, c>> \in NamePrefix
    /\ \A e, f \in Envs : RegionOf[e] = RegionOf[f] => CloudOf[e] = CloudOf[f]

VARIABLES
    inst,    \* [Ids -> InstanceStates]
    boots,   \* [Ids -> 0..MaxBoots]: each start gives the instance a new public address
    disk,    \* [Ids -> DiskStates]: the volume created for the instance
    shared   \* [Clusters -> SUBSET Envs]: shared stores that exist

cloudVars == <<inst, boots, disk, shared>>

CloudTypeOK ==
    /\ inst \in [Ids -> InstanceStates]
    /\ boots \in [Ids -> 0..MaxBoots]
    /\ disk \in [Ids -> DiskStates]
    /\ shared \in [Clusters -> SUBSET Envs]

CloudInit ==
    /\ inst = [i \in Ids |-> "none"]
    /\ boots = [i \in Ids |-> 0]
    /\ disk = [i \in Ids |-> "none"]
    /\ shared = [c \in Clusters |-> {}]

(***************************************************************************)
(* Resources of cluster c in the region of environment e are found by tag: *)
(* "Name=tag:Name,Values=<cluster>*" matches every name that starts with   *)
(* that of the cluster, and instances only while pending or running.       *)
(***************************************************************************)
TaggedIn(c, e) ==
    {i \in Ids : /\ <<c, i[1]>> \in NamePrefix
                 /\ RegionOf[MemberEnv[i[2]]] = RegionOf[e]}

DescribeInstancesByTag(c, e) == {i \in TaggedIn(c, e) : inst[i] = "running"}

DescribeVolumesByTag(c, e) ==
    {i \in TaggedIn(c, e) : disk[i] \in {"attached", "available"}}

IsRunning(c, e) == DescribeInstancesByTag(c, e) # {}

(***************************************************************************)
(* AwsEc2.create: i is the next id of this member that EC2 has not used.   *)
(***************************************************************************)
IsNextId(i) ==
    /\ inst[i] = "none"
    /\ \A n \in 1..(i[3] - 1) : inst[<<i[1], i[2], n>>] # "none"

RunInstance(i) == inst' = [inst EXCEPT ![i] = "running"]

\* terminate-instances: also of a stopped or an already terminated instance.
\* A volume that was attached survives (only the root disk is
\* DeleteOnTermination) and becomes available.
TerminateInstance(i) ==
    /\ inst' = [inst EXCEPT ![i] = "terminated"]
    /\ disk' = [disk EXCEPT ![i] = IF @ = "attached" THEN "available" ELSE @]

\* stop-instances is refused for a terminated instance.
CanStop(i) == inst[i] \in {"running", "stopped"}
StopInstance(i) == inst' = [inst EXCEPT ![i] = "stopped"]

\* start-instances: a stopped instance gets a new public address, a running
\* one keeps its own.
CanStart(i) == inst[i] \in {"running", "stopped"} 
StartInstance(i) ==
    /\ inst[i] = "stopped" => boots[i] < MaxBoots
    /\ inst' = [inst EXCEPT ![i] = "running"]
    /\ boots' = [boots EXCEPT ![i] = IF inst[i] = "stopped" THEN @ + 1 ELSE @]

\* delete-volume is refused while the volume is attached to an instance.
CanDeleteVolume(i) == disk[i] # "attached"
DeleteVolume(i) == disk' = [disk EXCEPT ![i] = "deleted"]
=============================================================================
