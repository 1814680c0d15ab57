---------------------------- MODULE ClusterFile ----------------------------
(***************************************************************************)
(* The cluster object (compute/cluster.py), the cluster file it is saved   *)
(* to and loaded from (xbench/xbench.py), and the sessions that use it: a  *)
(* session is one run of bin/xb.py at a time, working on the cluster its   *)
(* command line names.                                                     *)
(***************************************************************************)
EXTENDS AwsCloud

CONSTANTS
    Sessions,    \* terminals in which a user runs xb.py
    ClusterOf,   \* the cluster a session works on
    MaxEnvs,     \* bound: entries of cluster.envs
    Backends,    \* members whose klass is an AbstractBackend
    MayFail,     \* whether calls to the cloud or to a node may fail
    MayCrash     \* whether a session may be interrupted or killed

ASSUME SessionAssumption ==
    /\ ClusterOf \in [Sessions -> Clusters]
    /\ MaxEnvs \in Nat
    /\ Backends \subseteq Members
    /\ MayFail \in BOOLEAN
    /\ MayCrash \in BOOLEAN

ClusterStates == {"ready", "down", "failed", "allocated", "not_ready"}

(***************************************************************************)
(* What the file keeps of a member: the id of its instance (0: the member  *)
(* is not in cluster.members, SelfId: a faked one), the public address it  *)
(* had (NoIp: null, the instance was still pending when it was described)  *)
(* and whether its storage is recorded (vm.storage is not None).           *)
(***************************************************************************)
SelfId == -1
NoIp == -1
MemberRecs == [id : {SelfId} \cup 0..MaxLaunch, ip : {NoIp} \cup 0..MaxBoots, vol : BOOLEAN]
NoMember == [id |-> 0, ip |-> 0, vol |-> FALSE]

ClusterObjs == [state   : ClusterStates,
                envs    : Seq(Envs),
                members : [Members -> MemberRecs],
                target  : BOOLEAN,          \* bt: a backend target was set
                shared  : SUBSET Envs]      \* shared_storage: by the env that asked for it

NewCluster == [state   |-> "not_ready",
               envs    |-> <<>>,
               members |-> [m \in Members |-> NoMember],
               target  |-> FALSE,
               shared  |-> {}]

VARIABLES
    fileExists,   \* [Clusters -> BOOLEAN]
    file,         \* [Clusters -> ClusterObjs]: content of the file, NewCluster without one
    pc,           \* [Sessions -> Labels]: the step a session is at
    all,          \* [Sessions -> BOOLEAN]: provision runs all its steps
    ix,           \* [Sessions -> Nat]: index of the loop over environments
    todo,         \* [Sessions -> SUBSET Members]: run_parallel calls not finished
    bad,          \* [Sessions -> Outcomes]: the worst result of those that did
    ids,          \* [Sessions -> SUBSET Ids]: instances nuke has still to terminate
    vols,         \* [Sessions -> SUBSET Ids]: volumes nuke has still to delete
    mem           \* [Sessions -> ClusterObjs]: the cluster object in memory

fileVars == <<fileExists, file>>
loopVars == <<all, ix, todo, bad, ids, vols>>
nukeVars == <<ids, vols>>

Labels == {"idle",
           "configure", "allocate", "alloc_env", "alloc_storage", "launch",
           "test", "make", "install", "installing", "uninstall", "uninstalling",
           "clean", "clean_env", "terminate",
           "nuke", "nuke_instances", "nuke_volumes",
           "start_env", "start", "start_backends",
           "stop_env", "stop_save", "stop"}

Outcomes == {"ok", "none", "raise"}

FileTypeOK ==
    /\ fileExists \in [Clusters -> BOOLEAN]
    /\ file \in [Clusters -> ClusterObjs]
    /\ pc \in [Sessions -> Labels]
    /\ all \in [Sessions -> BOOLEAN]
    /\ ix \in [Sessions -> Nat]
    /\ todo \in [Sessions -> SUBSET Members]
    /\ bad \in [Sessions -> Outcomes]
    /\ ids \in [Sessions -> SUBSET Ids]
    /\ vols \in [Sessions -> SUBSET Ids]
    /\ mem \in [Sessions -> ClusterObjs]

FileInit ==
    /\ fileExists = [c \in Clusters |-> FALSE]
    /\ file = [c \in Clusters |-> NewCluster]
    /\ pc = [s \in Sessions |-> "idle"]
    /\ all = [s \in Sessions |-> FALSE]
    /\ ix = [s \in Sessions |-> 1]
    /\ todo = [s \in Sessions |-> {}]
    /\ bad = [s \in Sessions |-> "ok"]
    /\ ids = [s \in Sessions |-> {}]
    /\ vols = [s \in Sessions |-> {}]
    /\ mem = [s \in Sessions |-> NewCluster]

Recorded(obj, m) == obj.members[m].id # 0
Id(s, m) == <<ClusterOf[s], m, mem[s].members[m].id>>
IsEc2(obj, m) == obj.members[m].id \in 1..MaxLaunch

\* Members of the object that belong to environment e
MembersOf(obj, e) == {m \in Members : Recorded(obj, m) /\ MemberEnv[m] = e}

\* mutant of Complete: group_nodes_by_name skips members that have no node
CompleteUnchecked(obj) == TRUE

\* group_nodes_by_name looks up every member of the tree
Complete(obj) == \A m \in Members : Recorded(obj, m)

\* A node answers over ssh at the address recorded for it. Faked members are
\* not managed, nothing is run on them.
Reachable(c, obj, m) ==
    LET i == <<c, m, obj.members[m].id>>
    IN  IsEc2(obj, m) => inst[i] = "running" /\ boots[i] = obj.members[m].ip

AllReachable(c, obj) == \A m \in Members : Recorded(obj, m) => Reachable(c, obj, m)

\* What start and stop work on: the nodes of the whole cluster are grouped by
\* name, then those of each backend are called
BackendsAnswer(c, obj) ==
    Complete(obj) /\ \A m \in Backends : Reachable(c, obj, m)

(***************************************************************************)
(* save_cluster writes the file, remove_cluster_yaml deletes it (and does  *)
(* not mind when there is none), load_cluster raises without one, and when *)
(* a recorded address is null: Node.from_dict wants a string.              *)
(***************************************************************************)
SaveCluster(s, obj) ==
    /\ fileExists' = [fileExists EXCEPT ![ClusterOf[s]] = TRUE]
    /\ file' = [file EXCEPT ![ClusterOf[s]] = obj]

RemoveClusterYaml(s) ==
    /\ fileExists' = [fileExists EXCEPT ![ClusterOf[s]] = FALSE]
    /\ file' = [file EXCEPT ![ClusterOf[s]] = NewCluster]

CanLoad(s) ==
    /\ fileExists[ClusterOf[s]]
    /\ \A m \in Members : file[ClusterOf[s]].members[m].ip # NoIp

(***************************************************************************)
(* The end of a command, normal or by an exception that reaches main: what *)
(* the process had in memory is gone.                                      *)
(***************************************************************************)
Exit(s) ==
    /\ pc' = [pc EXCEPT ![s] = "idle"]
    /\ all' = [all EXCEPT ![s] = FALSE]
    /\ ix' = [ix EXCEPT ![s] = 1]
    /\ todo' = [todo EXCEPT ![s] = {}]
    /\ bad' = [bad EXCEPT ![s] = "ok"]
    /\ ids' = [ids EXCEPT ![s] = {}]
    /\ vols' = [vols EXCEPT ![s] = {}]
    /\ mem' = [mem EXCEPT ![s] = NewCluster]

Raise(s) == Exit(s) /\ UNCHANGED <<cloudVars, fileVars>>

\* Ctrl-C or a kill, between any two effects of a command
Crash(s) ==
    /\ MayCrash
    /\ pc[s] # "idle"
    /\ Raise(s)

\* Steps of a command that moves on within itself
Goto(s, label) == pc' = [pc EXCEPT ![s] = label]
\* mutant of NextEnv: the loop stays at its environment
NextEnvStays(s) == UNCHANGED ix

NextEnv(s) == ix' = [ix EXCEPT ![s] = @ + 1]

\* run_parallel: one call for each member of ms; the pool waits for all of
\* them before the first exception, if any, is raised again
StartCalls(s, ms) ==
    /\ todo' = [todo EXCEPT ![s] = ms]
    /\ bad' = [bad EXCEPT ![s] = "ok"]
CallDone(s, m, outcome) ==
    /\ todo' = [todo EXCEPT ![s] = @ \ {m}]
    /\ bad' = [bad EXCEPT ![s] = IF @ = "raise" \/ outcome = "ok" THEN @ ELSE outcome]
=============================================================================
