----------------------------- MODULE AwsDatabases -----------------------------
(***************************************************************************)
(* Aurora (aws_aurora_compute.py): a cluster and an instance in it, both   *)
(* named after xbench's cluster. RDS (aws_rds_compute.py): one instance    *)
(* named after its type, which is used again if there is one.              *)
(***************************************************************************)
EXTENDS ManagedServices

\* describe_instances_by_tag: a cluster in any state
AuroraIsRunning(c) == Named(c) # {}

AuroraCluster ==
    /\ ses.pc = "aurora_cluster"
    /\ IF Named(ses.c) # {}
       THEN Over /\ UNCHANGED svc
       ELSE NewId \in Unused /\ svc' = Create(NewId) /\ GotoWith("aurora_wait", NewId)
    /\ Only(<<machines, file>>)

AuroraWait ==
    /\ ses.pc = "aurora_wait"
    /\ IF svc[ses.id].st = "available" THEN Goto("aurora_instance") ELSE Poll
    /\ Only(<<svc, machines, file>>)

AuroraInstance ==
    /\ ses.pc = "aurora_instance"
    /\ svc' = [svc EXCEPT ![ses.id].inst = "creating"]
    /\ Goto("aurora_instance_wait")
    /\ Only(<<machines, file>>)

\* wait_for_db_instance and get_endpoint
AuroraInstanceWait ==
    /\ ses.pc = "aurora_instance_wait"
    /\ IF svc[ses.id].inst = "available" THEN Goto("save") ELSE Poll
    /\ Only(<<svc, machines, file>>)

\* destroy: the instance goes first
AuroraTerminate(i) ==
    IF svc[i].inst \in {"none", "deleting"}
    THEN Over /\ UNCHANGED svc
    ELSE /\ svc' = [svc EXCEPT ![i].inst = "deleting"]
         /\ GotoWith("aurora_deleting", i)

\* mutant of AuroraDeleting: the cluster is left when its instance goes
AuroraDeletingInstance ==
    /\ ses.pc = "aurora_deleting"
    /\ NextEnv("clean")
    /\ Only(<<svc, machines, file>>)

\* It waits for the status deleting: an instance that is gone already has none,
\* and the command raises before the cluster is deleted
AuroraDeleting ==
    /\ ses.pc = "aurora_deleting"
    /\ IF svc[ses.id].inst = "deleting"
       THEN svc' = [svc EXCEPT ![ses.id].st = "deleting"] /\ NextEnv("clean")
       ELSE Over /\ UNCHANGED svc
    /\ Only(<<machines, file>>)

\* DBInstanceAlreadyExists: it is used again, whoever created it and whatever
\* its state
RdsCreate ==
    /\ ses.pc = "rds_create"
    /\ IF Named(ses.c) # {}
       THEN \E i \in Named(ses.c) : GotoWith("rds_wait", i) /\ UNCHANGED svc
       ELSE NewId \in Unused /\ svc' = Create(NewId) /\ GotoWith("rds_wait", NewId)
    /\ Only(<<machines, file>>)

RdsWait ==
    /\ ses.pc = "rds_wait"
    /\ CASE svc[ses.id].st = "available" -> Goto("save")
         [] svc[ses.id].st = "gone" -> Over
         [] OTHER -> Poll
    /\ Only(<<svc, machines, file>>)

RdsTerminate(i) ==
    IF svc[i].st \in {"deleting", "gone"}
    THEN Over /\ UNCHANGED svc
    ELSE svc' = [svc EXCEPT ![i].st = "deleting"] /\ GotoWith("rds_deleting", i)

RdsDeleting ==
    /\ ses.pc = "rds_deleting"
    /\ IF svc[ses.id].st = "deleting" THEN NextEnv("clean") ELSE Over
    /\ Only(<<svc, machines, file>>)

AwsDatabaseStep ==
    \/ AuroraCluster \/ AuroraWait \/ AuroraInstance \/ AuroraInstanceWait \/ AuroraDeleting
    \/ RdsCreate \/ RdsWait \/ RdsDeleting
=============================================================================
