-------------------------------- MODULE SkySql2 --------------------------------
(***************************************************************************)
(* A service of SkySQL, version 2 (cloud/skysql/skysql2.py, skysql_api2.py)*)
(* one with the cluster's name is used again whatever its state; each call *)
(* that changes it makes it pending for a while.                           *)
(***************************************************************************)
EXTENDS ManagedServices

\* create_service cuts a long name before it looks for it, and creates the
\* service under the whole name, which is not found
Sky2Found(c) == IF long THEN {} ELSE Named(c)

\* The version and the project are asked for before the service
Sky2NotOffered ==
    /\ ses.pc = "sky2_lookup"
    /\ Over
    /\ Only(<<svc, machines, file>>)

Sky2Lookup ==
    /\ ses.pc = "sky2_lookup"
    /\ IF Sky2Found(ses.c) # {}
       THEN \E i \in Sky2Found(ses.c) : GotoWith("sky2_ready", i)
       ELSE Goto("sky2_create")
    /\ Only(<<svc, machines, file>>)

Sky2Create ==
    /\ ses.pc = "sky2_create"
    /\ NewId \in Unused
    /\ svc' = Create(NewId) /\ GotoWith("sky2_ready", NewId)
    /\ Only(<<machines, file>>)

\* _api_call repeats a POST whose reply did not come in time
Sky2CreateTwice ==
    /\ ses.pc = "sky2_create"
    /\ {NewId, NewId + 1} \subseteq Unused
    /\ svc' = [Create(NewId) EXCEPT ![NewId + 1].by = ses.c, ![NewId + 1].st = "creating"]
    /\ GotoWith("sky2_ready", NewId + 1)
    /\ blind' = blind \cup {ses.c}
    /\ UNCHANGED <<rigid, machines, file>>

AfterReady == [sky2_ready |-> "sky2_local", sky2_ready_local |-> "sky2_drivers",
               sky2_ready_drivers |-> "sky2_connect"]

\* wait_until_service_is_ready
Sky2Ready ==
    /\ ses.pc \in DOMAIN AfterReady
    /\ CASE svc[ses.id].st = "available" -> Goto(AfterReady[ses.pc])
         [] svc[ses.id].st \in {"failed", "gone"} -> Over
         [] OTHER -> Poll
    /\ Only(<<svc, machines, file>>)

\* The API answers 4xx: "service is in pending delete state"
Rejected(i) == svc[i].st \in {"deleting", "gone"}

\* A service has its allow list until it is deleted
Allow(addresses, next) ==
    IF Rejected(ses.id)
    THEN Over /\ UNCHANGED svc
    ELSE /\ svc' = [svc EXCEPT ![ses.id].allow = @ \cup addresses, ![ses.id].st = "busy"]
         /\ Goto(next)

Sky2AllowLocal ==
    /\ ses.pc = "sky2_local"
    /\ Allow({}, "sky2_ready_local")
    /\ Only(<<machines, file>>)

\* mutant of Sky2AllowDrivers: the addresses of the drivers are left out
Sky2AllowNobody ==
    /\ ses.pc = "sky2_drivers"
    /\ Allow({}, "sky2_ready_drivers")
    /\ Only(<<machines, file>>)

\* all_drivers_public_ips reads the cluster file, which has no driver when its
\* environment comes after that of the service
Sky2AllowDrivers ==
    /\ ses.pc = "sky2_drivers"
    /\ IF file[ses.c].id = 0
       THEN Over /\ UNCHANGED svc
       ELSE Allow({file[ses.c].addr}, "sky2_ready_drivers")
    /\ Only(<<machines, file>>)

Sky2Connect ==
    /\ ses.pc = "sky2_connect"
    /\ IF svc[ses.id].st = "available" THEN Goto("save") ELSE Over
    /\ Only(<<svc, machines, file>>)

Sky2Step ==
    \/ Sky2NotOffered \/ Sky2Lookup \/ Sky2Create \/ Sky2CreateTwice \/ Sky2Ready \/ Sky2AllowLocal
    \/ Sky2AllowDrivers \/ Sky2Connect

Sky2Terminate(i) ==
    IF Rejected(i)
    THEN Over /\ UNCHANGED svc
    ELSE svc' = [svc EXCEPT ![i].st = "deleting"] /\ NextEnv("clean")

\* start and stop: power is switched by one request
Sky2Power(i, st) == svc' = IF Rejected(i) THEN svc ELSE [svc EXCEPT ![i].st = st]
=============================================================================
