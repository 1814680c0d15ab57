-------------------------------- MODULE AlloyDb --------------------------------
(***************************************************************************)
(* AlloyDB (gcp_alloydb_compute.py): a cluster named after xbench's and its*)
(* primary instance, each by one call of gcloud that waits for the end.    *)
(***************************************************************************)
EXTENDS ManagedServices

\* describe_instances_by_tag returns an empty list
AlloyIsRunning(c) == FALSE

\* A name that is taken is refused
AlloyCluster ==
    /\ ses.pc = "alloy_cluster"
    /\ IF Named(ses.c) # {}
       THEN Over /\ UNCHANGED svc
       ELSE NewId \in Unused /\ svc' = Create(NewId) /\ GotoWith("alloy_wait", NewId)
    /\ Only(<<machines, file>>)

\* gcloud is ended when it takes too long; what it asked for goes on
AlloyWait ==
    /\ ses.pc = "alloy_wait"
    /\ IF svc[ses.id].st = "available" THEN Goto("alloy_primary") ELSE Poll
    /\ Only(<<svc, machines, file>>)

AlloyPrimary ==
    /\ ses.pc = "alloy_primary"
    /\ svc' = [svc EXCEPT ![ses.id].inst = "creating"]
    /\ Goto("alloy_primary_wait")
    /\ Only(<<machines, file>>)

\* and get_endpoint
AlloyPrimaryWait ==
    /\ ses.pc = "alloy_primary_wait"
    /\ IF svc[ses.id].inst = "available" THEN Goto("save") ELSE Poll
    /\ Only(<<svc, machines, file>>)

AlloyStep == AlloyCluster \/ AlloyWait \/ AlloyPrimary \/ AlloyPrimaryWait

\* --force takes the instances along, --async returns at once
AlloyTerminate(i) ==
    IF svc[i].st \in {"deleting", "gone"}
    THEN Over /\ UNCHANGED svc
    ELSE /\ svc' = [svc EXCEPT ![i].st = "deleting", ![i].inst = "none"]
         /\ NextEnv("clean")
=============================================================================
