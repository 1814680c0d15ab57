-------------------------------- MODULE SkySql --------------------------------
(***************************************************************************)
(* A database of SkySQL, version 1 (cloud/skysql/skysql.py, skysql_api.py):*)
(* one that is installed under the cluster's name is used again.           *)
(***************************************************************************)
EXTENDS ManagedServices

\* mutant of SkyFound: a database that is being installed is not seen
SkyFoundInstalled(c) == {i \in Named(c) : svc[i].st = "available"}

\* mutant of SkyFound: any database of the account will do
SkyFoundAny(c) == {i \in Services : Live(i)}

\* check_for_databases compares names with the whole name of the cluster; a long
\* one was cut when the database was created, and is not found
SkyFound(c) == IF long THEN {} ELSE Named(c)

\* The first database that is installed is used; one that is being installed or
\* repaired makes it raise; one that failed or is being deleted is passed over
SkyLookup ==
    /\ ses.pc = "sky_lookup"
    /\ \/ \E i \in SkyFound(ses.c) : svc[i].st = "available" /\ GotoWith("sky_allow", i)
       \/ \E i \in SkyFound(ses.c) : svc[i].st \in {"creating", "noip", "busy"} /\ Over
       \/ /\ \A i \in SkyFound(ses.c) : svc[i].st \notin {"available", "creating", "noip", "busy"}
          /\ Goto("sky_create")
    /\ Only(<<svc, machines, file>>)

\* Any 4xx answer, not only 404, leaves the list empty
SkyLookupRejected ==
    /\ ses.pc = "sky_lookup"
    /\ Goto("sky_create")
    /\ blind' = IF SkyFound(ses.c) # {} THEN blind \cup {ses.c} ELSE blind
    /\ UNCHANGED <<rigid, svc, machines, file>>

\* is_running gives the prefix of names to one that has it already
SkyIsRunning(c) == FALSE

\* What the offering lacks (a region, a size, ...) is refused before the request
SkyNotOffered ==
    /\ ses.pc = "sky_create"
    /\ Over
    /\ Only(<<svc, machines, file>>)

SkyCreate ==
    /\ ses.pc = "sky_create"
    /\ NewId \in Unused
    /\ svc' = Create(NewId) /\ GotoWith("sky_status", NewId)
    /\ Only(<<machines, file>>)

db_status_is_up(i) == svc[i].st \in {"noip", "available"}
db_has_ip(i) == svc[i].st = "available"
can_connect(i) == svc[i].st = "available"

\* create_db_cluster: one count of polls for the status and the address
SkyStatus ==
    /\ ses.pc = "sky_status"
    /\ IF db_status_is_up(ses.id)
       THEN ses' = [ses EXCEPT !.pc = "sky_ip"]
       ELSE Poll
    /\ Only(<<svc, machines, file>>)

SkyHasIp ==
    /\ ses.pc = "sky_ip"
    /\ IF db_has_ip(ses.id) THEN Goto("sky_allow") ELSE Poll
    /\ Only(<<svc, machines, file>>)

\* 0.0.0.0/0 is allowed; the list is read once, and what it then lacks is
\* missed until the loop over it raises
SkyAllow ==
    /\ ses.pc = "sky_allow"
    /\ Goto("sky_connect") \/ Over
    /\ Only(<<svc, machines, file>>)

\* wait_for_database_connectivity, then the database and its user are created
SkyConnect ==
    /\ ses.pc = "sky_connect"
    /\ IF can_connect(ses.id) THEN Goto("save") ELSE Poll
    /\ Only(<<svc, machines, file>>)

SkyStep ==
    \/ SkyLookup \/ SkyLookupRejected \/ SkyNotOffered \/ SkyCreate \/ SkyStatus \/ SkyHasIp \/ SkyAllow
    \/ SkyConnect

\* terminate_instances: the API answers 4xx for a service that is gone or going
SkyTerminate(i) ==
    IF svc[i].st \in {"deleting", "gone"}
    THEN Over /\ UNCHANGED svc
    ELSE svc' = [svc EXCEPT ![i].st = "deleting"] /\ NextEnv("clean")
=============================================================================
