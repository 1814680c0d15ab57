---------------------------- MODULE ManagedServices ----------------------------
(***************************************************************************)
(* Clusters of two environments: a driver on a machine of AWS or Google,   *)
(* and a database that a provider manages (SkySQL, SkySQL 2, Aurora, RDS,  *)
(* AlloyDB). This module has the state they share: the provider's services,*)
(* the machine, the cluster file and the one command at work.              *)
(***************************************************************************)
EXTENDS Integers, Sequences, FiniteSets

CONSTANTS
    Clusters,
    Deployments,   \* the managed cloud and the order of the environments
    MaxServices, MaxBoots, MaxEnvs,  \* bounds: services, boots of machines, envs of a file
    MaxPolls       \* attempts of a waiting loop after the first

Kinds == {"skysql", "skysql2", "aurora", "rds", "alloydb"}
DriverFirst == <<"driver", "db">>
DbFirst == <<"db", "driver">>

ASSUME ManagedAssumption ==
    /\ Clusters # {}
    /\ Deployments \subseteq Kinds \X {DriverFirst, DbFirst}
    /\ {MaxServices, MaxBoots, MaxEnvs, MaxPolls} \subseteq Nat

VARIABLES
    kind, order,   \* the cloud of the database, the order of the envs (rigid)
    long,          \* the clusters' names are beyond the limit of SkySQL (rigid)
    svc,           \* [Services -> record]: what the provider has
    vm,            \* [Clusters -> record]: the newest machine of the driver, and
                   \* whether a disk that was never attached is left
    boots,         \* boots of machines so far: the newest id and address
    file,          \* [Clusters -> record]: the cluster file
    ses,           \* the command at work
    blind          \* clusters for which the list of services was refused, or
                   \* the reply to the creation of one was lost

vars == <<kind, order, long, svc, vm, boots, file, ses, blind>>
rigid == <<kind, order, long>>
machines == <<vm, boots>>

Services == 1..MaxServices
ServiceStates == {"none", "creating", "noip", "available", "busy", "failed",
                  "stopped", "deleting", "gone"}
InstanceStates == {"none", "creating", "available", "deleting"}
FileStates == {"not_ready", "allocated", "failed", "ready", "down"}

NoService == [by |-> CHOOSE c \in Clusters : TRUE, st |-> "none", inst |-> "none", allow |-> {}]
NoMachine == [id |-> 0, st |-> "none", addr |-> 0, stray |-> FALSE]
NoFile == [exists |-> FALSE, state |-> "not_ready", envs |-> <<>>, db |-> 0, id |-> 0, addr |-> 0]
Idle == [c |-> CHOOSE c \in Clusters : TRUE, cmd |-> "none", pc |-> "idle", ix |-> 1,
         polls |-> 0, id |-> 0]

ManagedTypeOK ==
    /\ <<kind, order>> \in Deployments /\ long \in BOOLEAN
    /\ svc \in [Services -> [by : Clusters, st : ServiceStates, inst : InstanceStates,
                             allow : SUBSET (1..MaxBoots)]]
    /\ vm \in [Clusters -> [id : 0..MaxBoots, st : {"none", "running", "stopped"},
                            addr : 0..MaxBoots, stray : BOOLEAN]]
    /\ boots \in 0..MaxBoots
    /\ \A c \in Clusters :
        /\ file[c].exists \in BOOLEAN
        /\ file[c].state \in FileStates
        /\ file[c].envs \in Seq({"driver", "db"}) /\ Len(file[c].envs) <= MaxEnvs
        /\ file[c].db \in 0..MaxServices
        /\ {file[c].id, file[c].addr} \subseteq 0..MaxBoots
    /\ ses.polls \in 0..MaxPolls /\ ses.id \in 0..MaxServices
    /\ blind \subseteq Clusters

ManagedInit ==
    /\ \E d \in Deployments : kind = d[1] /\ order = d[2]
    /\ long \in IF kind \in {"skysql", "skysql2"} THEN BOOLEAN ELSE {FALSE}
    /\ svc = [i \in Services |-> NoService]
    /\ vm = [c \in Clusters |-> NoMachine]
    /\ boots = 0
    /\ file = [c \in Clusters |-> NoFile]
    /\ ses = Idle
    /\ blind = {}

(***************************************************************************)
(* Services                                                                *)
(***************************************************************************)
Live(i) == svc[i].st \notin {"none", "gone"}

\* Services are named after their cluster; RDS names an instance after its type
SameName(c, d) == c = d \/ kind = "rds"

\* Live services with the name of a cluster
Named(c) == {i \in Services : Live(i) /\ SameName(svc[i].by, c)}

Unused == {i \in Services : svc[i].st = "none"}
NewId == CHOOSE i \in Unused : \A j \in Unused : i <= j
\* (Actions that create a service are bounded by NewId \in Unused.)
Create(i) == [svc EXCEPT ![i].by = ses.c, ![i].st = "creating"]

(***************************************************************************)
(* The provider: what was asked for happens by and by                      *)
(***************************************************************************)
Becomes == [creating |-> {"noip", "available", "failed"}, noip |-> {"available"},
            busy |-> {"available"}, deleting |-> {"gone"}]

\* Only services of SkySQL run before they have an address, and only those
\* of its second version fail or are busy
ServiceMoves(i) ==
    /\ svc[i].st \in DOMAIN Becomes
    /\ \E st \in Becomes[svc[i].st] :
        /\ st = "noip" => kind = "skysql"
        /\ st = "failed" => kind \in {"skysql", "skysql2"}
        /\ st = "gone" => svc[i].inst = "none"
        /\ svc' = [svc EXCEPT ![i] = IF st = "gone" THEN [NoService EXCEPT !.st = st]
                                                   ELSE [@ EXCEPT !.st = st]]
    /\ UNCHANGED <<rigid, machines, file, ses, blind>>

InstanceMoves(i) ==
    /\ svc[i].inst \in {"creating", "deleting"}
    /\ svc' = [svc EXCEPT ![i].inst = IF @ = "creating" THEN "available" ELSE "none"]
    /\ UNCHANGED <<rigid, machines, file, ses, blind>>

Provider == \E i \in Services : ServiceMoves(i) \/ InstanceMoves(i)

(***************************************************************************)
(* The command                                                             *)
(***************************************************************************)
Goto(pc) == ses' = [ses EXCEPT !.pc = pc, !.polls = 0]
GotoWith(pc, id) == ses' = [ses EXCEPT !.pc = pc, !.polls = 0, !.id = id]
NextEnv(pc) == ses' = [ses EXCEPT !.pc = pc, !.ix = @ + 1, !.polls = 0, !.id = 0]

\* The command returns or raises
Over == ses' = Idle

Only(state) == UNCHANGED <<rigid, blind>> /\ UNCHANGED state

\* mutant of Poll: the attempts are not counted
PollForever == UNCHANGED ses

\* mutant of Poll: one attempt too many
PollOnceMore ==
    ses' = IF ses.polls <= MaxPolls THEN [ses EXCEPT !.polls = @ + 1] ELSE Idle

\* One more turn of a waiting loop, which raises after the last one
Poll == ses' = IF ses.polls < MaxPolls THEN [ses EXCEPT !.polls = @ + 1] ELSE Idle
=============================================================================
