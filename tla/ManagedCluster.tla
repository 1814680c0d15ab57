---------------------------- MODULE ManagedCluster ----------------------------
(***************************************************************************)
(* xb.py's commands on clusters of a driver and a managed database: the    *)
(* steps of Provisioning, DeProvisioning and CloudCommands, here with what *)
(* the managed clouds do where Provisioning and AwsCloud have machines of  *)
(* AWS. One command is at work at a time; it may raise after each step.    *)
(***************************************************************************)
EXTENDS SkySql, SkySql2, AwsDatabases, AlloyDb, DriverMachines

\* is_running asks the cloud's client for what has the cluster's tag. SkySQL 2
\* has no client; that of RDS asks for an Aurora cluster.
IsRunning(c, env) ==
    CASE env = "driver" -> MachineIsRunning(c)
      [] kind = "skysql" -> SkyIsRunning(c)
      [] kind = "aurora" -> AuroraIsRunning(c)
      [] kind = "alloydb" -> AlloyIsRunning(c)
      [] OTHER -> FALSE

Begin(c, cmd, pc) ==
    /\ ses.pc = "idle"
    /\ ses' = [Idle EXCEPT !.c = c, !.cmd = cmd, !.pc = pc]

\* Bounds on the model
RoomLeft(c, envs) ==
    /\ Unused # {}
    /\ boots < MaxBoots
    /\ Len(envs) + 2 <= MaxEnvs

(***************************************************************************)
(* provision, or its steps allocate and install alone                      *)
(***************************************************************************)
Provision(c) ==
    /\ RoomLeft(c, <<>>)
    /\ Begin(c, "provision", "configure")
    /\ Only(<<svc, machines, file>>)

Allocate(c) ==
    /\ file[c].exists
    /\ RoomLeft(c, file[c].envs)
    /\ Begin(c, "allocate", "allocate")
    /\ Only(<<svc, machines, file>>)

InstallAlone(c) ==
    /\ file[c].exists
    /\ Begin(c, "install", "install")
    /\ Only(<<svc, machines, file>>)

\* An existing file is given up with --force
Configure ==
    /\ ses.pc = "configure"
    /\ IF \E env \in {"driver", "db"} : IsRunning(ses.c, env)
       THEN Over /\ Only(<<svc, machines, file>>)
       ELSE /\ file' = [file EXCEPT ![ses.c] = [NoFile EXCEPT !.exists = TRUE]]
            /\ Goto("allocate")
            /\ UNCHANGED <<rigid, svc, machines, blind>>

Entry == [skysql |-> "sky_lookup", skysql2 |-> "sky2_lookup", aurora |-> "aurora_cluster",
          rds |-> "rds_create", alloydb |-> "alloy_cluster"]

AllocateEnv ==
    /\ ses.pc = "allocate"
    /\ ses.ix <= 2
    /\ CASE IsRunning(ses.c, order[ses.ix]) -> Over
         [] order[ses.ix] = "driver" -> Goto("vm")
         [] OTHER -> Goto(Entry[kind])
    /\ Only(<<svc, machines, file>>)

\* add_member and save_cluster after each environment
SaveEnv ==
    LET env == order[ses.ix]
        f == [WithEnv(file[ses.c], env) EXCEPT !.state = "allocated"]
    IN  /\ ses.pc = "save"
        /\ file' = [file EXCEPT ![ses.c] =
                        IF env = "db" THEN [f EXCEPT !.db = ses.id]
                        ELSE [f EXCEPT !.id = vm[ses.c].id, !.addr = vm[ses.c].addr]]
        /\ NextEnv("allocate")
        /\ Only(<<svc, machines>>)

AllocateDone ==
    /\ ses.pc = "allocate"
    /\ ses.ix > 2
    /\ IF ses.cmd = "provision" THEN Goto("install") ELSE Over
    /\ Only(<<svc, machines, file>>)

(***************************************************************************)
(* install: every component has its node, the driver answers where the file*)
(* says it is, and the backends of Aurora, RDS and AlloyDB log in to create*)
(* their database. SkySQL's did that when it was launched.                 *)
(***************************************************************************)
Reachable(c) ==
    /\ file[c].id # 0
    /\ vm[c].st = "running" /\ vm[c].id = file[c].id /\ vm[c].addr = file[c].addr

LogsIn(c) ==
    /\ file[c].db # 0
    /\ CASE kind \in {"skysql", "skysql2"} -> TRUE
         [] kind = "rds" -> svc[file[c].db].st = "available"
         [] OTHER -> svc[file[c].db].st = "available" /\ svc[file[c].db].inst = "available"

Install ==
    /\ ses.pc = "install"
    /\ IF Reachable(ses.c) /\ LogsIn(ses.c)
       THEN file' = [file EXCEPT ![ses.c].state = "ready"]
       ELSE UNCHANGED file
    /\ Over
    /\ Only(<<svc, machines>>)

(***************************************************************************)
(* deprovision by the cluster file                                         *)
(***************************************************************************)
Clean(c) ==
    /\ file[c].exists
    /\ Begin(c, "clean", "clean")
    /\ UNCHANGED <<rigid, svc, machines, file, blind>>

Terminate(i) ==
    CASE kind = "skysql" -> SkyTerminate(i)
      [] kind = "skysql2" -> Sky2Terminate(i)
      [] kind = "aurora" -> AuroraTerminate(i)
      [] kind = "rds" -> RdsTerminate(i)
      [] kind = "alloydb" -> AlloyTerminate(i)

CleanEnv ==
    LET f == file[ses.c]
    IN  /\ ses.pc = "clean"
        /\ ses.ix <= Len(f.envs)
        /\ CASE f.envs[ses.ix] = "driver" /\ f.id # 0 -> TerminateMachine(ses.c) /\ UNCHANGED svc
             [] f.envs[ses.ix] = "db" /\ f.db # 0 -> Terminate(f.db) /\ UNCHANGED machines
             [] OTHER -> NextEnv("clean") /\ UNCHANGED <<svc, machines>>
        /\ Only(file)

CleanDone ==
    /\ ses.pc = "clean"
    /\ ses.ix > Len(file[ses.c].envs)
    /\ file' = [file EXCEPT ![ses.c] = NoFile]
    /\ Over
    /\ Only(<<svc, machines>>)

\* deprovision by tag in one cloud. SkySQL has no command line: only the file
\* goes. That of Aurora has no volumes and AlloyDB's neither (len(None)), and
\* there is none for RDS.
Nuke(c, env) ==
    /\ ses.pc = "idle"
    /\ CASE env = "driver" -> NukeMachine(c) /\ file' = [file EXCEPT ![c] = NoFile]
         [] kind \in {"skysql", "skysql2"} -> file' = [file EXCEPT ![c] = NoFile] /\ UNCHANGED machines
         [] OTHER -> UNCHANGED <<file, machines>>
    /\ UNCHANGED <<rigid, svc, ses, blind>>

(***************************************************************************)
(* stop and start: the first environment changes the state of the cluster, *)
(* with which the second one makes the command raise                       *)
(***************************************************************************)
Stop(c) ==
    /\ file[c].exists /\ file[c].state = "ready"
    /\ Begin(c, "stop", "stop")
    /\ file' = [file EXCEPT ![c].state = "down"]
    /\ UNCHANGED <<rigid, svc, machines, blind>>

\* SkySQL only warns; Aurora, RDS and AlloyDB raise
StopEnv ==
    LET f == file[ses.c]
    IN  /\ ses.pc = "stop"
        /\ IF f.envs[1] = "driver"
           THEN StopMachine(ses.c) /\ UNCHANGED svc
           ELSE /\ IF kind = "skysql2" THEN Sky2Power(f.db, "stopped") ELSE UNCHANGED svc
                /\ UNCHANGED machines
        /\ Over
        /\ Only(file)

Start(c) ==
    /\ file[c].exists /\ file[c].state = "down"
    /\ boots < MaxBoots
    /\ Begin(c, "start", "start")
    /\ UNCHANGED <<rigid, svc, machines, file, blind>>

\* start_instances of SkySQL returns None, and the loop over it raises
StartEnv ==
    LET f == file[ses.c]
    IN  /\ ses.pc = "start"
        /\ IF f.envs[1] = "driver"
           THEN StartMachine(ses.c) /\ UNCHANGED svc
           ELSE /\ IF kind = "skysql2" THEN Sky2Power(f.db, "busy") ELSE UNCHANGED svc
                /\ Over /\ UNCHANGED machines
        /\ Only(file)

StartSave ==
    /\ ses.pc = "start_save"
    /\ file' = [file EXCEPT ![ses.c].addr = vm[ses.c].addr, ![ses.c].state = "ready"]
    /\ Over
    /\ Only(<<svc, machines>>)

\* A call fails, or the user interrupts the command
Raises ==
    /\ ses.pc # "idle"
    /\ Over
    /\ Only(<<svc, machines, file>>)

Steps ==
    \/ Configure \/ AllocateEnv \/ SaveEnv \/ AllocateDone \/ Install
    \/ CleanEnv \/ CleanDone \/ StopEnv \/ StartEnv \/ StartSave
    \/ MachineStep \/ SkyStep \/ Sky2Step \/ AwsDatabaseStep \/ AlloyStep

Commands ==
    \E c \in Clusters :
        \/ Provision(c) \/ Allocate(c) \/ InstallAlone(c)
        \/ Clean(c) \/ Stop(c) \/ Start(c)
        \/ \E env \in {"driver", "db"} : Nuke(c, env)

Next == Commands \/ Steps \/ Raises \/ Provider

\* A command goes on with its next step, since each of its calls has a timeout.
\* Those of SkySQL's first version have none: a request that is never answered
\* holds the command for ever.
Spec == ManagedInit /\ [][Next]_vars /\ WF_vars(kind # "skysql" /\ Steps)

(***************************************************************************)
(* Properties                                                              *)
(***************************************************************************)

\* Every variable has its type; a waiting loop stays within its attempts
\* (retries of the loops of skysql_api.py, attempts of @retry elsewhere).
TypeOK == ManagedTypeOK

\* The databases of a cluster that are paid for
PaidFor(c) == {i \in Named(c) : svc[i].st \notin {"failed", "deleting"}}

\* Provisioning again, after commands that gave up or were interrupted at any
\* step, does not pay for a second database: of a name there is at most one that
\* neither failed nor is on its way out. This is so of names within SkySQL's
\* limit, unless the list of databases was refused or the reply to a creation
\* was lost: in each of these cases provision may create another one, although
\* skysql.py:128 wants to use one that is "already ... ready for us to use".
OneService ==
    \A c \in Clusters :
        \/ long \/ \E d \in blind : SameName(c, d)
        \/ Cardinality(PaidFor(c)) <= 1

\* A file goes with deprovision only when what it names was deleted.
ForgetsDeleted ==
    \A c \in Clusters :
        file[c].exists /\ ~file'[c].exists /\ ses.cmd = "clean" =>
            /\ file[c].db # 0 => svc[file[c].db].st \in {"deleting", "gone"}
            /\ file[c].id # 0 /\ vm[c].id = file[c].id => vm[c].st = "none"

\* deprovision --clean forgets a cluster only when the database and the machine
\* its file names are gone or on their way: with the file goes the only record
\* of them.
CleanDeletes == [][ForgetsDeleted]_vars

\* A step of provision that makes a cluster ready
ServedReady ==
    \A c \in Clusters :
        file[c].state # "ready" /\ file'[c].state = "ready" /\ ses.cmd = "provision" =>
            LET s == svc[file[c].db]
            IN  /\ s.st \in {"available", "busy"}
                /\ kind = "skysql2" => vm[c].addr \in s.allow

\* When provision reports a cluster ready, its database is up, and SkySQL 2 lets
\* the driver in from the address it has now, whatever the commands before left
\* behind.
ReadyIsServed == [][ServedReady]_vars

\* A step that deletes the database of a file, or its instance
DeletesOwn ==
    \A c \in Clusters :
        LET i == file[c].db
        IN  /\ i # 0
            /\ \/ svc[i].st # "deleting" /\ svc'[i].st = "deleting"
               \/ svc[i].inst # "deleting" /\ svc'[i].inst = "deleting"
            => SameName(ses.c, c)

\* The database of a cluster's file is only ever deleted by a command on that
\* cluster; of RDS, which names an instance after its type, all clusters share
\* one, and nothing is claimed.
OnlyOwnDeprovision == [][DeletesOwn]_vars

\* Every command ends, however long a service stays in whatever state: the loops
\* that wait for one are bounded. A command on SkySQL's first version may not,
\* as its requests have no timeout (skysql_api.py:90-94).
CommandEnds == kind # "skysql" /\ ses.pc # "idle" ~> ses.pc = "idle"
=============================================================================
