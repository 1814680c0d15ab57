----------------------------- MODULE ManagedProofs -----------------------------
(***************************************************************************)
(* Commands on clusters with a managed database delete only their own,     *)
(* forget none, pay for one of a name and report ready what is served, for *)
(* any number of clusters, services and polls.                             *)
(***************************************************************************)
EXTENDS ManagedCluster, FiniteSetTheorems, TLAPS

USE ManagedAssumption

ServiceRecords == [by : Clusters, st : ServiceStates, inst : InstanceStates, allow : SUBSET Nat]
MachineRecords == [id : Nat, st : {"none", "running", "stopped"}, addr : Nat, stray : BOOLEAN]
FileRecords == [exists : BOOLEAN, state : FileStates, envs : Seq({"driver", "db"}),
                db : 0..MaxServices, id : Nat, addr : Nat]

Cmds == {"none", "provision", "allocate", "install", "clean", "stop", "start"}

\* Where a command is while it allocates for an environment, and elsewhere
AllocatePcs ==
    {"vm", "disk", "save",
     "sky_lookup", "sky_create", "sky_status", "sky_ip", "sky_allow", "sky_connect",
     "sky2_lookup", "sky2_create", "sky2_ready", "sky2_local", "sky2_ready_local",
     "sky2_drivers", "sky2_ready_drivers", "sky2_connect",
     "aurora_cluster", "aurora_wait", "aurora_instance", "aurora_instance_wait",
     "rds_create", "rds_wait", "alloy_cluster", "alloy_wait", "alloy_primary",
     "alloy_primary_wait"}
OtherPcs ==
    {"idle", "configure", "allocate", "install", "clean", "aurora_deleting", "rds_deleting",
     "stop", "start", "start_save"}

SessionRecords == [c : Clusters, cmd : Cmds, pc : AllocatePcs \cup OtherPcs, ix : Nat \ {0},
                   polls : 0..MaxPolls, id : 0..MaxServices]

StateTypes ==
    /\ kind \in Kinds /\ order \in {DriverFirst, DbFirst} /\ boots \in Nat
    /\ svc \in [Services -> ServiceRecords]
    /\ vm \in [Clusters -> MachineRecords]
    /\ file \in [Clusters -> FileRecords]

\* A service that is named by a file or by a command was created, and belongs to
\* that cluster or to one of the same name until it is gone.
Linked(c, i) ==
    i # 0 => svc[i].st # "none" /\ (svc[i].st # "gone" => SameName(svc[i].by, c))
FilesLinked == \A c \in Clusters : Linked(c, file[c].db)

\* An instance is part of a cluster that is there.
InstancesLive == \A i \in Services : svc[i].inst # "none" => svc[i].st \notin {"none", "gone"}

\* What a file names belongs to one of its environments.
EnvsRecorded ==
    \A c \in Clusters :
        /\ file[c].db # 0 => \E k \in 1..Len(file[c].envs) : file[c].envs[k] = "db"
        /\ file[c].id # 0 => \E k \in 1..Len(file[c].envs) : file[c].envs[k] = "driver"

StateInv == StateTypes /\ FilesLinked /\ InstancesLive /\ EnvsRecorded

DatabaseDeleted(c) == file[c].db # 0 => svc[file[c].db].st \in {"deleting", "gone"}
MachineDeleted(c) == file[c].id # 0 /\ vm[c].id = file[c].id => vm[c].st = "none"

\* deprovision has deleted what the environments before ix name.
CleanedSoFar ==
    ses.cmd = "clean" =>
        /\ ses.pc \in {"clean", "aurora_deleting", "rds_deleting"}
        /\ \A k \in 1..Len(file[ses.c].envs) : k < ses.ix =>
            /\ file[ses.c].envs[k] = "db" => DatabaseDeleted(ses.c)
            /\ file[ses.c].envs[k] = "driver" => MachineDeleted(ses.c)
        /\ ses.pc # "clean" => ses.id = file[ses.c].db /\ file[ses.c].envs[ses.ix] = "db"
        /\ ses.pc = "rds_deleting" => DatabaseDeleted(ses.c)

\* Where a command is, as far as its steps rely on it.
Places ==
    /\ ses.pc = "idle" => ses.cmd = "none"
    /\ ses.pc \in {"aurora_wait", "alloy_wait", "aurora_instance", "alloy_primary"} => ses.id # 0
    /\ ses.pc \in {"aurora_instance", "alloy_primary"} => svc[ses.id].st = "available"
    /\ ses.pc \in AllocatePcs => ses.ix \in 1..2

SessionInv == ses \in SessionRecords /\ Linked(ses.c, ses.id) /\ CleanedSoFar /\ Places

ManagedInv == StateInv /\ SessionInv

(***************************************************************************)
(* The parts of a step                                                     *)
(***************************************************************************)
\* The records that stand for nothing have their types.
LEMMA Defaults ==
    /\ Idle \in SessionRecords /\ Idle.id = 0 /\ Idle.cmd = "none" /\ Idle.pc = "idle" /\ Idle.ix = 1
    /\ NoService \in ServiceRecords /\ NoService.st = "none" /\ NoService.inst = "none"
    /\ NoMachine \in MachineRecords /\ NoMachine.id = 0
    /\ NoFile \in FileRecords /\ NoFile.db = 0 /\ NoFile.id = 0
  <1>1. (CHOOSE c \in Clusters : TRUE) \in Clusters
    OBVIOUS
  <1>2. <<>> \in Seq({"driver", "db"})
    OBVIOUS
  <1>3. 0 \in 0..MaxServices /\ 0 \in 0..MaxPolls
    BY DEF Kinds
  <1>4. Idle \in SessionRecords /\ Idle.id = 0 /\ Idle.cmd = "none" /\ Idle.pc = "idle" /\ Idle.ix = 1
    BY <1>1, <1>3 DEF Idle, SessionRecords, Cmds, OtherPcs
  <1>5. NoService \in ServiceRecords /\ NoService.st = "none" /\ NoService.inst = "none"
    BY <1>1 DEF NoService, ServiceRecords, ServiceStates, InstanceStates
  <1>6. NoMachine \in MachineRecords /\ NoMachine.id = 0
    BY DEF NoMachine, MachineRecords
  <1>7. NoFile \in FileRecords /\ NoFile.db = 0 /\ NoFile.id = 0
    BY <1>2, <1>3 DEF NoFile, FileRecords, FileStates
  <1> QED
    BY <1>4, <1>5, <1>6, <1>7

\* What the provider makes of a service.
LEMMA BecomesWhat ==
    \A s \in DOMAIN Becomes : \A t \in Becomes[s] :
        /\ s \in {"creating", "noip", "busy", "deleting"}
        /\ t \in {"noip", "available", "failed", "gone"}
        /\ s = "deleting" <=> t = "gone"
  BY DEF Becomes

(***************************************************************************)
(* Steps that change nothing but the command                               *)
(***************************************************************************)
Kept == UNCHANGED <<rigid, svc, machines, file>>

\* What is left alone keeps what is not about the command.
LEMMA KeptState ==
    ASSUME StateInv, Kept
    PROVE  /\ StateInv'
           /\ \A c, i : Linked(c, i) => Linked(c, i)'
  BY DEF StateInv, Kept, StateTypes, FilesLinked, Linked, SameName, InstancesLive,
     EnvsRecorded, rigid, machines

\* The command is over.
LEMMA OverSession ==
    ASSUME Over
    PROVE  SessionInv'
  BY Defaults DEF Over, SessionInv, Linked, CleanedSoFar, Places, AllocatePcs

\* A command other than clean goes on.
LEMMA GoneOn ==
    ASSUME SessionInv, ses.cmd # "clean", NEW c, c = ses.c, NEW pc \in AllocatePcs \cup OtherPcs,
           NEW id \in 0..MaxServices, NEW polls \in 0..MaxPolls,
           ses' = [ses EXCEPT !.pc = pc, !.polls = polls, !.id = id],
           pc # "idle", Linked(c, id)', pc \in AllocatePcs => ses.ix \in 1..2,
           pc \in {"aurora_wait", "alloy_wait", "aurora_instance", "alloy_primary"} => id # 0,
           pc \in {"aurora_instance", "alloy_primary"} => svc'[id].st = "available"
    PROVE  SessionInv'
  <1>1. /\ ses' \in SessionRecords /\ ses'.c = ses.c /\ ses'.cmd = ses.cmd /\ ses'.pc = pc
        /\ ses'.ix = ses.ix /\ ses'.id = id
    BY DEF SessionInv, SessionRecords
  <1>2. Linked(ses.c, ses.id)'
    BY <1>1 DEF Linked
  <1> QED
    BY <1>1, <1>2 DEF SessionInv, CleanedSoFar, Places

\* A command waits.
LEMMA PollSession ==
    ASSUME ManagedInv, Kept, Poll
    PROVE  SessionInv'
  <1>1. CASE ses.polls < MaxPolls
    <2>1. ses' = [ses EXCEPT !.polls = @ + 1]
      BY <1>1 DEF Poll
    <2>2. ses' \in SessionRecords
      BY <1>1, <2>1 DEF ManagedInv, SessionInv, SessionRecords
    <2>3. /\ ses'.c = ses.c /\ ses'.cmd = ses.cmd /\ ses'.pc = ses.pc
          /\ ses'.ix = ses.ix /\ ses'.id = ses.id
      BY <2>1 DEF ManagedInv, SessionInv, SessionRecords
    <2> QED
      BY <2>2, <2>3 DEF ManagedInv, SessionInv, Kept, Linked, SameName, CleanedSoFar, Places,
         DatabaseDeleted, MachineDeleted, rigid, machines
  <1>2. CASE ~(ses.polls < MaxPolls)
    BY <1>2, OverSession DEF Poll, Over
  <1> QED BY <1>1, <1>2

(***************************************************************************)
(* Steps that change services                                              *)
(***************************************************************************)
\* A service keeps its creator and does not come back.
Faithful(i) ==
    /\ svc[i].st # "none" =>
        svc'[i].st # "none" /\ (svc'[i].st # "gone" => svc[i].st # "gone" /\ svc'[i].by = svc[i].by)
    /\ svc'[i].inst # "none" => svc'[i].st \notin {"none", "gone"}

\* Links outlive such changes.
LEMMA FaithfulState ==
    ASSUME StateInv, svc' \in [Services -> ServiceRecords], \A i \in Services : Faithful(i),
           UNCHANGED <<rigid, machines, file>>
    PROVE  /\ StateInv'
           /\ \A c : \A i \in 0..MaxServices : Linked(c, i) => Linked(c, i)'
  <1>1. \A c : \A i \in 0..MaxServices : Linked(c, i) => Linked(c, i)'
    BY DEF Faithful, Linked, SameName, rigid, Services
  <1>2. FilesLinked'
    BY <1>1 DEF StateInv, StateTypes, FilesLinked, FileRecords
  <1> QED
    BY <1>1, <1>2 DEF StateInv, StateTypes, Faithful, InstancesLive, EnvsRecorded, rigid, machines

\* A new service is nobody's yet but the command's.
LEMMA CreateState ==
    ASSUME ManagedInv, NEW n \in Unused, NEW c, c = ses.c, svc' = Create(n),
           UNCHANGED <<rigid, machines, file>>
    PROVE  StateInv' /\ n \in 1..MaxServices /\ Linked(c, n)'
  <1>0. n \in Services /\ svc[n].st = "none"
    BY DEF Unused
  <1>1. svc \in [Services -> ServiceRecords] /\ ses.c \in Clusters
    BY DEF ManagedInv, StateInv, StateTypes, SessionInv, SessionRecords
  <1>2. svc[n].inst = "none"
    BY <1>0 DEF ManagedInv, StateInv, InstancesLive
  <1>3. /\ svc' \in [Services -> ServiceRecords]
        /\ svc'[n].st = "creating" /\ svc'[n].by = c /\ svc'[n].inst = "none"
        /\ \A i \in Services \ {n} : svc'[i] = svc[i]
    BY <1>0, <1>1, <1>2 DEF Create, ServiceRecords, ServiceStates
  <1>4. \A i \in Services : Faithful(i)
    BY <1>0, <1>3 DEF Faithful, ManagedInv, StateInv, InstancesLive
  <1>5. Linked(c, n)'
    BY <1>3 DEF Linked, SameName
  <1> QED
    BY <1>0, <1>3, <1>4, <1>5, FaithfulState DEF ManagedInv, Services

(***************************************************************************)
(* The managed clouds                                                      *)
(***************************************************************************)
CleanPcs == {"clean", "aurora_deleting", "rds_deleting"}

\* Goto of a command other than clean, which leaves the rest alone.
LEMMA GotoKeeps ==
    ASSUME ManagedInv, Kept, ses.pc \notin CleanPcs,
           NEW pc \in (AllocatePcs \cup OtherPcs)
                        \ {"idle", "aurora_wait", "alloy_wait", "aurora_instance", "alloy_primary"},
           pc \in AllocatePcs => ses.ix \in 1..2,
           \/ Goto(pc)
           \/ ses' = [ses EXCEPT !.pc = pc]
           \/ \E i \in 0..MaxServices : Linked(ses.c, i) /\ GotoWith(pc, i)
    PROVE  ManagedInv'
  <1>1. PICK c \in Clusters, i \in 0..MaxServices, polls \in 0..MaxPolls :
             /\ c = ses.c /\ Linked(c, i)
             /\ ses' = [ses EXCEPT !.pc = pc, !.polls = polls, !.id = i]
    <2>1. /\ ses.id \in 0..MaxServices /\ ses.polls \in 0..MaxPolls /\ 0 \in 0..MaxPolls
          /\ Linked(ses.c, ses.id) /\ ses.c \in Clusters
      BY DEF ManagedInv, SessionInv, SessionRecords
    <2>2. CASE Goto(pc)
      <3>1. ses' = [ses EXCEPT !.pc = pc, !.polls = 0, !.id = ses.id]
        BY <2>2 DEF Goto, ManagedInv, SessionInv, SessionRecords
      <3> QED BY <2>1, <3>1
    <2>3. CASE ses' = [ses EXCEPT !.pc = pc]
      <3>1. ses' = [ses EXCEPT !.pc = pc, !.polls = ses.polls, !.id = ses.id]
        BY <2>3 DEF ManagedInv, SessionInv, SessionRecords
      <3> QED BY <2>1, <3>1
    <2>4. CASE \E i \in 0..MaxServices : Linked(ses.c, i) /\ GotoWith(pc, i)
      BY <2>1, <2>4 DEF GotoWith
    <2> QED BY <2>2, <2>3, <2>4
  <1>2. StateInv' /\ Linked(c, i)'
    BY <1>1, KeptState DEF ManagedInv
  <1>3. ses.cmd # "clean"
    BY DEF ManagedInv, SessionInv, CleanedSoFar, CleanPcs
  <1> QED
    BY <1>1, <1>2, <1>3, GoneOn DEF ManagedInv

\* A service is created.
LEMMA CreateKeeps ==
    ASSUME ManagedInv, NewId \in Unused, svc' = Create(NewId), UNCHANGED <<rigid, machines, file>>,
           ses.pc \notin CleanPcs, ses.ix \in 1..2,
           NEW pc \in AllocatePcs \ {"aurora_instance", "alloy_primary"}, GotoWith(pc, NewId)
    PROVE  ManagedInv'
  <1>1. PICK n \in Unused, c \in Clusters : n = NewId /\ c = ses.c
    BY DEF ManagedInv, SessionInv, SessionRecords
  <1>2. StateInv' /\ n \in 1..MaxServices /\ Linked(c, n)'
    BY <1>1, CreateState
  <1>3. ses' = [ses EXCEPT !.pc = pc, !.polls = 0, !.id = n]
    BY <1>1 DEF GotoWith
  <1>4. ses.cmd # "clean" /\ SessionInv
    BY DEF ManagedInv, SessionInv, CleanedSoFar, CleanPcs
  <1>5. n \in 0..MaxServices /\ n # 0 /\ 0 \in 0..MaxPolls /\ pc # "idle"
    BY <1>2 DEF AllocatePcs
  <1> QED
    BY <1>1, <1>2, <1>3, <1>4, <1>5, GoneOn DEF ManagedInv

\* What leaves the rest alone and ends or waits.
LEMMA OverOrPoll ==
    ASSUME ManagedInv, Kept, Over \/ Poll
    PROVE  ManagedInv'
  BY KeptState, OverSession, PollSession DEF ManagedInv

\* SkySQL, version 1.
LEMMA SkyKeeps ==
    ASSUME ManagedInv, SkyStep
    PROVE  ManagedInv'
  <1> USE DEF AllocatePcs, OtherPcs, CleanPcs
  <1>a. ses.pc \in AllocatePcs => ses.ix \in 1..2
    BY DEF ManagedInv, SessionInv, Places
  <1>1. CASE SkyLookup
    <2>1. Kept
      BY <1>1 DEF SkyLookup, Only, Kept
    <2>2. CASE Over
      BY <2>1, <2>2, OverOrPoll
    <2>3. CASE Goto("sky_create")
      BY <1>1, <1>a, <2>1, <2>3, GotoKeeps DEF SkyLookup
    <2>4. ASSUME NEW i \in SkyFound(ses.c), GotoWith("sky_allow", i) PROVE ManagedInv'
      <3>1. i \in 0..MaxServices /\ Linked(ses.c, i)
        BY <2>4 DEF SkyFound, Named, Live, Linked, SameName, Services
      <3> QED BY <1>1, <1>a, <2>1, <2>4, <3>1, GotoKeeps DEF SkyLookup
    <2> QED BY <1>1, <2>2, <2>3, <2>4 DEF SkyLookup
  <1>2. CASE SkyLookupRejected
    BY <1>2, <1>a, GotoKeeps DEF SkyLookupRejected, Kept
  <1>3. CASE SkyNotOffered
    BY <1>3, OverOrPoll DEF SkyNotOffered, Only, Kept
  <1>4. CASE SkyCreate
    BY <1>4, <1>a, CreateKeeps DEF SkyCreate, Only
  <1>5. CASE SkyStatus
    BY <1>5, <1>a, OverOrPoll, GotoKeeps DEF SkyStatus, Only, Kept
  <1>6. CASE SkyHasIp
    BY <1>6, <1>a, OverOrPoll, GotoKeeps DEF SkyHasIp, Only, Kept
  <1>7. CASE SkyAllow
    BY <1>7, <1>a, OverOrPoll, GotoKeeps DEF SkyAllow, Only, Kept
  <1>8. CASE SkyConnect
    BY <1>8, <1>a, OverOrPoll, GotoKeeps DEF SkyConnect, Only, Kept
  <1> QED
    BY <1>1, <1>2, <1>3, <1>4, <1>5, <1>6, <1>7, <1>8 DEF SkyStep

\* Services are changed and the command goes on.
LEMMA ChangeKeeps ==
    ASSUME ManagedInv, svc' \in [Services -> ServiceRecords], \A i \in Services : Faithful(i),
           UNCHANGED <<rigid, machines, file>>, ses.pc \notin CleanPcs, ses.ix \in 1..2,
           NEW pc \in AllocatePcs \ {"aurora_wait", "alloy_wait", "aurora_instance", "alloy_primary"},
           Goto(pc)
    PROVE  ManagedInv'
  <1>1. PICK c \in Clusters, i \in 0..MaxServices : c = ses.c /\ i = ses.id
    BY DEF ManagedInv, SessionInv, SessionRecords
  <1>2. StateInv' /\ Linked(c, i)'
    BY <1>1, FaithfulState DEF ManagedInv, SessionInv
  <1>3. ses' = [ses EXCEPT !.pc = pc, !.polls = 0, !.id = i]
    BY <1>1 DEF Goto, ManagedInv, SessionInv, SessionRecords
  <1>4. ses.cmd # "clean" /\ SessionInv
    BY DEF ManagedInv, SessionInv, CleanedSoFar, CleanPcs
  <1>5. 0 \in 0..MaxPolls /\ pc # "idle"
    BY DEF AllocatePcs
  <1> QED
    BY <1>1, <1>2, <1>3, <1>4, <1>5, GoneOn DEF ManagedInv

\* The allow list of a service that is there.
LEMMA AllowKeeps ==
    ASSUME ManagedInv, ses.pc \in {"sky2_local", "sky2_drivers"}, NEW addresses \in SUBSET Nat,
           NEW next \in {"sky2_ready_local", "sky2_ready_drivers"}, Allow(addresses, next),
           UNCHANGED <<rigid, machines, file>>
    PROVE  ManagedInv'
  <1>1. CASE Rejected(ses.id)
    BY <1>1, OverOrPoll DEF Allow, Kept
  <1>2. CASE ~Rejected(ses.id)
    <2>1. /\ svc' = [svc EXCEPT ![ses.id].allow = @ \cup addresses, ![ses.id].st = "busy"]
          /\ Goto(next)
      BY <1>2 DEF Allow
    <2>2. svc \in [Services -> ServiceRecords] /\ ses.id \in 0..MaxServices
      BY DEF ManagedInv, StateInv, StateTypes, SessionInv, SessionRecords
    <2>3. \A i \in Services \ {ses.id} : svc'[i] = svc[i]
      BY <2>1, <2>2
    <2>4. ses.id \in Services =>
            /\ svc'[ses.id] \in ServiceRecords /\ svc'[ses.id].st = "busy"
            /\ svc'[ses.id].by = svc[ses.id].by
      BY <2>1, <2>2, ZenonT(60) DEF ServiceRecords, ServiceStates
    <2>5. svc' \in [Services -> ServiceRecords]
      BY <2>1, <2>2, <2>3, <2>4
    <2>6. \A i \in Services : Faithful(i)
      BY <1>2, <2>3, <2>4 DEF Faithful, Rejected, ManagedInv, StateInv, InstancesLive
    <2>7. ses.ix \in 1..2
      BY DEF ManagedInv, SessionInv, Places, AllocatePcs
    <2> QED
      BY <2>1, <2>5, <2>6, <2>7, ChangeKeeps DEF AllocatePcs, CleanPcs
  <1> QED BY <1>1, <1>2

\* SkySQL, version 2.
LEMMA Sky2Keeps ==
    ASSUME ManagedInv, Sky2Step
    PROVE  ManagedInv'
  <1> USE DEF AllocatePcs, OtherPcs, CleanPcs
  <1>a. ses.pc \in AllocatePcs => ses.ix \in 1..2
    BY DEF ManagedInv, SessionInv, Places
  <1>1. CASE Sky2NotOffered
    BY <1>1, OverOrPoll DEF Sky2NotOffered, Only, Kept
  <1>2. CASE Sky2Lookup
    <2>1. Kept /\ ses.pc = "sky2_lookup"
      BY <1>2 DEF Sky2Lookup, Only, Kept
    <2>2. CASE Goto("sky2_create")
      BY <1>a, <2>1, <2>2, GotoKeeps
    <2>3. ASSUME NEW i \in Sky2Found(ses.c), GotoWith("sky2_ready", i) PROVE ManagedInv'
      <3>1. i \in 0..MaxServices /\ Linked(ses.c, i)
        BY <2>3 DEF Sky2Found, Named, Live, Linked, Services
      <3> QED BY <1>a, <2>1, <2>3, <3>1, GotoKeeps
    <2> QED BY <1>2, <2>2, <2>3 DEF Sky2Lookup
  <1>3. CASE Sky2Create
    BY <1>3, <1>a, CreateKeeps DEF Sky2Create, Only
  <1>4. CASE Sky2CreateTwice
    <2>1. PICK n \in Services, c \in Clusters : n = NewId /\ c = ses.c
      BY <1>4 DEF Sky2CreateTwice, Unused, ManagedInv, SessionInv, SessionRecords
    <2>2. /\ n + 1 \in Services /\ svc[n].st = "none" /\ svc[n + 1].st = "none"
          /\ svc' = [Create(n) EXCEPT ![n + 1].by = c, ![n + 1].st = "creating"]
          /\ UNCHANGED <<rigid, machines, file>> /\ ses.pc = "sky2_create"
          /\ ses' = [ses EXCEPT !.pc = "sky2_ready", !.polls = 0, !.id = n + 1]
      BY <1>4, <2>1 DEF Sky2CreateTwice, Unused, GotoWith
    <2>3. svc \in [Services -> ServiceRecords]
      BY DEF ManagedInv, StateInv, StateTypes
    <2>4. svc[n].inst = "none" /\ svc[n + 1].inst = "none"
      BY <2>2 DEF ManagedInv, StateInv, InstancesLive
    <2>5. /\ Create(n) \in [Services -> ServiceRecords]
          /\ Create(n)[n].st = "creating"
          /\ \A i \in Services \ {n} : Create(n)[i] = svc[i]
      BY <2>1, <2>2, <2>3 DEF Create, ServiceRecords, ServiceStates
    <2>6. /\ svc' \in [Services -> ServiceRecords]
          /\ svc'[n + 1].st = "creating" /\ svc'[n + 1].by = c
          /\ svc'[n].st = "creating"
          /\ \A i \in Services \ {n, n + 1} : svc'[i] = svc[i]
      <3>1. n # n + 1 /\ n + 1 \in Services
        BY <2>1, <2>2 DEF Services
      <3> HIDE DEF Create
      <3> QED BY <2>1, <2>2, <2>5, <3>1 DEF ServiceRecords, ServiceStates
    <2>7. \A i \in Services : Faithful(i)
      BY <2>1, <2>2, <2>6 DEF Faithful, ManagedInv, StateInv, InstancesLive
    <2>8. StateInv'
      BY <2>2, <2>6, <2>7, FaithfulState DEF ManagedInv
    <2>9. Linked(c, n + 1)'
      BY <2>6 DEF Linked, SameName
    <2>10. ses.cmd # "clean" /\ SessionInv
      BY <2>2 DEF ManagedInv, SessionInv, CleanedSoFar
    <2>11. PICK m \in 0..MaxServices : m = n + 1
      BY <2>2 DEF Services
    <2>12. SessionInv'
      <3>1. /\ ses' = [ses EXCEPT !.pc = "sky2_ready", !.polls = 0, !.id = m]
            /\ Linked(c, n + 1)' => Linked(c, m)'
            /\ 0 \in 0..MaxPolls /\ ses.ix \in 1..2
            /\ "sky2_ready" \in AllocatePcs \cup OtherPcs
        BY <1>a, <2>2, <2>11 DEF Linked
      <3> HIDE DEF AllocatePcs, OtherPcs, CleanPcs
      <3> QED BY <2>1, <2>9, <2>10, <3>1, GoneOn
    <2> QED BY <2>8, <2>12 DEF ManagedInv
  <1>5. CASE Sky2Ready
    <2>1. Kept /\ ses.pc \in {"sky2_ready", "sky2_ready_local", "sky2_ready_drivers"}
      BY <1>5 DEF Sky2Ready, Only, Kept, AfterReady
    <2>2. AfterReady[ses.pc] \in {"sky2_local", "sky2_drivers", "sky2_connect"}
      BY <2>1 DEF AfterReady
    <2>3. CASE Over \/ Poll
      BY <2>1, <2>3, OverOrPoll
    <2>4. CASE Goto(AfterReady[ses.pc])
      <3>1. PICK pc \in {"sky2_local", "sky2_drivers", "sky2_connect"} : pc = AfterReady[ses.pc]
        BY <2>2
      <3> QED BY <1>a, <2>1, <2>4, <3>1, GotoKeeps
    <2> QED BY <1>5, <2>3, <2>4 DEF Sky2Ready
  <1>6. CASE Sky2AllowLocal
    BY <1>6, AllowKeeps DEF Sky2AllowLocal, Only
  <1>7. CASE Sky2AllowDrivers
    <2>1. CASE file[ses.c].id = 0
      BY <1>7, <2>1, OverOrPoll DEF Sky2AllowDrivers, Only, Kept
    <2>2. CASE file[ses.c].id # 0
      <3>1. {file[ses.c].addr} \in SUBSET Nat
        BY DEF ManagedInv, StateInv, StateTypes, FileRecords, SessionInv, SessionRecords
      <3>2. PICK a \in SUBSET Nat : a = {file[ses.c].addr}
        BY <3>1
      <3> QED BY <1>7, <2>2, <3>2, AllowKeeps DEF Sky2AllowDrivers, Only
    <2> QED BY <2>1, <2>2
  <1>8. CASE Sky2Connect
    BY <1>8, <1>a, OverOrPoll, GotoKeeps DEF Sky2Connect, Only, Kept
  <1> QED
    BY <1>1, <1>2, <1>3, <1>4, <1>5, <1>6, <1>7, <1>8 DEF Sky2Step

\* What a command waited for is there.
LEMMA WaitKeeps ==
    ASSUME ManagedInv, Kept, ses.pc \in {"aurora_wait", "alloy_wait"}, svc[ses.id].st = "available",
           NEW pc \in {"aurora_instance", "alloy_primary"}, Goto(pc)
    PROVE  ManagedInv'
  <1>1. PICK c \in Clusters, i \in 0..MaxServices : c = ses.c /\ i = ses.id
    BY DEF ManagedInv, SessionInv, SessionRecords
  <1>2. StateInv' /\ Linked(c, i)'
    BY <1>1, KeptState DEF ManagedInv, SessionInv
  <1>3. ses' = [ses EXCEPT !.pc = pc, !.polls = 0, !.id = i]
    BY <1>1 DEF Goto, ManagedInv, SessionInv, SessionRecords
  <1>4. ses.cmd # "clean" /\ SessionInv
    BY DEF ManagedInv, SessionInv, CleanedSoFar
  <1>5. i # 0 /\ ses.ix \in 1..2
    BY <1>1 DEF ManagedInv, SessionInv, Places, AllocatePcs
  <1>6. svc'[i].st = "available"
    BY <1>1 DEF Kept
  <1>7. 0 \in 0..MaxPolls /\ pc # "idle" /\ pc \in AllocatePcs \cup OtherPcs
    BY DEF AllocatePcs
  <1> QED
    BY <1>1, <1>2, <1>3, <1>4, <1>5, <1>6, <1>7, GoneOn DEF ManagedInv

\* A service that is there is changed.
LEMMA Changed ==
    ASSUME StateInv, NEW i \in Services, svc[i].st \notin {"none", "gone"},
           svc'[i].by = svc[i].by, svc'[i].st \notin {"none", "gone"},
           \A j \in Services \ {i} : svc'[j] = svc[j]
    PROVE  \A j \in Services : Faithful(j)
  <1>1. Faithful(i)
    BY DEF Faithful
  <1>2. \A j \in Services \ {i} : Faithful(j)
    BY DEF Faithful, StateInv, InstancesLive
  <1> QED BY <1>1, <1>2

\* The state of a service, its instance or both are changed.
LEMMA ChangedPart ==
    ASSUME StateInv, NEW i \in Services, svc[i].st \notin {"none", "gone"},
           NEW st \in ServiceStates \ {"none", "gone"}, NEW inst \in InstanceStates,
           \/ svc' = [svc EXCEPT ![i].st = st] /\ inst = svc[i].inst
           \/ svc' = [svc EXCEPT ![i].inst = inst] /\ st = svc[i].st
           \/ svc' = [svc EXCEPT ![i].st = st, ![i].inst = inst]
    PROVE  /\ svc' \in [Services -> ServiceRecords] /\ \A j \in Services : Faithful(j)
           /\ svc'[i].st = st /\ svc'[i].inst = inst
           /\ \A j \in Services \ {i} : svc'[j] = svc[j]
  <1>1. svc \in [Services -> ServiceRecords]
    BY DEF StateInv, StateTypes
  <1>2. svc' = [svc EXCEPT ![i].st = st, ![i].inst = inst]
    BY <1>1, ZenonT(60) DEF ServiceRecords
  <1>3. /\ svc'[i] \in ServiceRecords /\ svc'[i].st = st /\ svc'[i].by = svc[i].by
        /\ svc'[i].inst = inst
    BY <1>1, <1>2 DEF ServiceRecords
  <1>4. \A j \in Services \ {i} : svc'[j] = svc[j]
    BY <1>1, <1>2
  <1>5. svc' \in [Services -> ServiceRecords]
    BY <1>1, <1>2, <1>3, <1>4
  <1>6. \A j \in Services : Faithful(j)
    BY <1>3, <1>4, Changed
  <1> QED BY <1>3, <1>4, <1>5, <1>6

\* The state of a service that is there is changed.
LEMMA ChangedState ==
    ASSUME StateInv, NEW i \in Services, svc[i].st \notin {"none", "gone"},
           NEW st \in ServiceStates \ {"none", "gone"}, svc' = [svc EXCEPT ![i].st = st]
    PROVE  /\ svc' \in [Services -> ServiceRecords] /\ \A j \in Services : Faithful(j)
           /\ svc'[i].st = st /\ svc'[i].inst = svc[i].inst
           /\ \A j \in Services \ {i} : svc'[j] = svc[j]
  <1>1. PICK inst \in InstanceStates : inst = svc[i].inst
    BY DEF StateInv, StateTypes, ServiceRecords
  <1> QED BY <1>1, ChangedPart

\* The instance of a service that is there is changed.
LEMMA ChangedInstance ==
    ASSUME StateInv, NEW i \in Services, svc[i].st \notin {"none", "gone"},
           NEW inst \in InstanceStates, svc' = [svc EXCEPT ![i].inst = inst]
    PROVE  /\ svc' \in [Services -> ServiceRecords] /\ \A j \in Services : Faithful(j)
           /\ svc'[i].st = svc[i].st /\ svc'[i].inst = inst
           /\ \A j \in Services \ {i} : svc'[j] = svc[j]
  <1>1. PICK st \in ServiceStates \ {"none", "gone"} : st = svc[i].st
    BY DEF StateInv, StateTypes, ServiceRecords
  <1> QED BY <1>1, ChangedPart

\* The instance of a cluster is created.
LEMMA InstanceKeeps ==
    ASSUME ManagedInv, ses.pc \in {"aurora_instance", "alloy_primary"},
           svc' = [svc EXCEPT ![ses.id].inst = "creating"],
           NEW pc \in {"aurora_instance_wait", "alloy_primary_wait"}, Goto(pc),
           UNCHANGED <<rigid, machines, file>>
    PROVE  ManagedInv'
  <1>1. ses.id \in 0..MaxServices /\ ses.id # 0 /\ svc[ses.id].st = "available" /\ ses.ix \in 1..2
    BY DEF ManagedInv, SessionInv, SessionRecords, Places, AllocatePcs
  <1>2. PICK i \in Services : i = ses.id
    BY <1>1 DEF Services
  <1>3. "creating" \in InstanceStates
    BY DEF InstanceStates
  <1>4. svc' \in [Services -> ServiceRecords] /\ \A j \in Services : Faithful(j)
    BY <1>1, <1>2, <1>3, ChangedInstance DEF ManagedInv
  <1>5. /\ pc \in AllocatePcs \ {"aurora_wait", "alloy_wait", "aurora_instance", "alloy_primary"}
        /\ ses.pc \notin CleanPcs
    BY DEF AllocatePcs, CleanPcs
  <1> QED
    BY <1>1, <1>4, <1>5, ChangeKeeps

(***************************************************************************)
(* deprovision                                                             *)
(***************************************************************************)
\* An environment is done: nothing that was deleted before is back, and what it
\* names is deleted.
LEMMA NextEnvKeeps ==
    ASSUME ManagedInv, StateInv', NextEnv("clean"), file' = file, NEW c, c = ses.c,
           DatabaseDeleted(c) => DatabaseDeleted(c)', MachineDeleted(c) => MachineDeleted(c)',
           ses.cmd = "clean" /\ ses.ix <= Len(file[c].envs) =>
               /\ file[c].envs[ses.ix] = "db" => DatabaseDeleted(c)'
               /\ file[c].envs[ses.ix] = "driver" => MachineDeleted(c)'
    PROVE  ManagedInv'
  <1>1. ses \in SessionRecords /\ c \in Clusters
    BY DEF ManagedInv, SessionInv, SessionRecords
  <1>2. /\ ses'.c = c /\ ses'.cmd = ses.cmd /\ ses'.pc = "clean" /\ ses'.ix = ses.ix + 1
        /\ ses'.id = 0
    BY <1>1 DEF NextEnv, SessionRecords
  <1>3. ses' \in SessionRecords
    <2>1. 0 \in 0..MaxPolls /\ 0 \in 0..MaxServices /\ ses.ix + 1 \in Nat \ {0}
      BY <1>1 DEF SessionRecords
    <2> QED BY <1>1, <2>1 DEF NextEnv, SessionRecords, OtherPcs
  <1>4. file \in [Clusters -> FileRecords] /\ Len(file[c].envs) \in Nat
    BY <1>1, SMTT(30) DEF ManagedInv, StateInv, StateTypes, FileRecords
  <1>5. ASSUME ses.cmd = "clean", NEW k \in 1..Len(file[c].envs), k < ses.ix + 1
        PROVE  /\ file[c].envs[k] = "db" => DatabaseDeleted(c)'
               /\ file[c].envs[k] = "driver" => MachineDeleted(c)'
    <2>1. CASE k < ses.ix
      BY <1>5, <2>1 DEF ManagedInv, SessionInv, CleanedSoFar
    <2>2. CASE k = ses.ix
      BY <1>5, <2>2, <1>4
    <2> QED BY <1>1, <1>4, <1>5, <2>1, <2>2 DEF SessionRecords
  <1>6. /\ DatabaseDeleted(c)' => DatabaseDeleted(ses.c)'
        /\ MachineDeleted(c)' => MachineDeleted(ses.c)'
    BY <1>2 DEF DatabaseDeleted, MachineDeleted
  <1>7. CleanedSoFar'
    BY <1>2, <1>5, <1>6 DEF CleanedSoFar
  <1>8. Linked(ses.c, ses.id)'
    BY <1>2 DEF Linked
  <1>9. Places'
    BY <1>2 DEF Places, AllocatePcs
  <1> QED BY <1>3, <1>7, <1>8, <1>9 DEF ManagedInv, SessionInv

\* The deletion of a database was asked for and is waited for.
LEMMA DeletingKeeps ==
    ASSUME ManagedInv, StateInv', NEW c, c = ses.c, file' = file, UNCHANGED machines,
           ses.pc = "clean", file[c].envs[ses.ix] = "db",
           NEW i \in 0..MaxServices, i = file[c].db, Linked(c, i)',
           NEW pc \in {"aurora_deleting", "rds_deleting"}, GotoWith(pc, i),
           DatabaseDeleted(c) => DatabaseDeleted(c)', pc = "rds_deleting" => DatabaseDeleted(c)'
    PROVE  ManagedInv'
  <1>1. ses \in SessionRecords /\ c \in Clusters
    BY DEF ManagedInv, SessionInv, SessionRecords
  <1>2. /\ ses'.c = c /\ ses'.cmd = ses.cmd /\ ses'.pc = pc /\ ses'.ix = ses.ix /\ ses'.id = i
    BY <1>1 DEF GotoWith, SessionRecords
  <1>3. ses' \in SessionRecords
    <2>1. 0 \in 0..MaxPolls
      OBVIOUS
    <2> QED BY <1>1, <2>1 DEF GotoWith, SessionRecords, OtherPcs
  <1>4. /\ DatabaseDeleted(c)' => DatabaseDeleted(ses.c)'
        /\ MachineDeleted(c) => MachineDeleted(ses.c)'
    BY <1>2 DEF DatabaseDeleted, MachineDeleted, machines
  <1>5. CleanedSoFar'
    BY <1>2, <1>4 DEF CleanedSoFar, ManagedInv, SessionInv
  <1>6. Linked(ses.c, ses.id)'
    BY <1>2 DEF Linked
  <1>7. Places'
    BY <1>2 DEF Places, AllocatePcs
  <1> QED BY <1>3, <1>5, <1>6, <1>7 DEF ManagedInv, SessionInv

\* A database stays deleted when services change as they may and no deleted one
\* comes back; a machine stays deleted when machines do not change.
LEMMA StayDeleted ==
    ASSUME ManagedInv, NEW c \in Clusters, UNCHANGED <<rigid, machines, file>>,
           \A j \in Services : svc[j].st \in {"deleting", "gone"} => svc'[j].st \in {"deleting", "gone"}
    PROVE  /\ DatabaseDeleted(c) => DatabaseDeleted(c)'
           /\ MachineDeleted(c) => MachineDeleted(c)'
  <1>1. file[c].db # 0 => file[c].db \in Services
    BY DEF ManagedInv, StateInv, StateTypes, FileRecords, Services
  <1> QED BY <1>1 DEF DatabaseDeleted, MachineDeleted, machines

\* The database of an environment is deleted, or its deletion refused.
LEMMA TerminateKeeps ==
    ASSUME ManagedInv, NEW c, c = ses.c, ses.pc = "clean", file[c].envs[ses.ix] = "db",
           file[c].db # 0, kind \in Kinds, Terminate(file[c].db), UNCHANGED <<rigid, machines, file>>
    PROVE  ManagedInv'
  <1>1. PICK i \in Services : i = file[c].db
    BY DEF ManagedInv, StateInv, StateTypes, FileRecords, Services, SessionInv, SessionRecords
  <1>2. c \in Clusters /\ Linked(c, i) /\ svc[i].st # "none" /\ StateInv
    BY <1>1 DEF ManagedInv, StateInv, FilesLinked, Linked, SessionInv, SessionRecords, Services
  <1>3. /\ "deleting" \in ServiceStates \ {"none", "gone"} /\ "deleting" \in InstanceStates
        /\ "none" \in InstanceStates
    BY DEF ServiceStates, InstanceStates
  <1>4. CASE Over /\ UNCHANGED svc
    BY <1>4, OverOrPoll DEF Kept
  <1>5. CASE /\ svc[i].st # "gone" /\ NextEnv("clean")
             /\ \/ svc' = [svc EXCEPT ![i].st = "deleting"]
                \/ svc' = [svc EXCEPT ![i].st = "deleting", ![i].inst = "none"]
    <2>1. /\ svc' \in [Services -> ServiceRecords] /\ \A j \in Services : Faithful(j)
          /\ svc'[i].st = "deleting" /\ \A j \in Services \ {i} : svc'[j] = svc[j]
      <3>1. CASE svc' = [svc EXCEPT ![i].st = "deleting"]
        BY <1>2, <1>3, <1>5, <3>1, ChangedState
      <3>2. CASE svc' = [svc EXCEPT ![i].st = "deleting", ![i].inst = "none"]
        BY <1>2, <1>3, <1>5, <3>2, ChangedPart
      <3> QED BY <1>5, <3>1, <3>2
    <2>2. StateInv'
      BY <1>2, <2>1, FaithfulState
    <2>3. /\ DatabaseDeleted(c) => DatabaseDeleted(c)'
          /\ MachineDeleted(c) => MachineDeleted(c)'
      BY <1>2, <2>1, StayDeleted
    <2>4. DatabaseDeleted(c)'
      BY <1>1, <2>1 DEF DatabaseDeleted
    <2> QED BY <1>5, <2>2, <2>3, <2>4, NextEnvKeeps
  <1>6. CASE /\ svc[i].st # "gone" /\ svc' = [svc EXCEPT ![i].st = "deleting"]
             /\ GotoWith("rds_deleting", i)
    <2>1. /\ svc' \in [Services -> ServiceRecords] /\ \A j \in Services : Faithful(j)
          /\ svc'[i].st = "deleting" /\ \A j \in Services \ {i} : svc'[j] = svc[j]
      BY <1>2, <1>3, <1>6, ChangedState
    <2>2. StateInv' /\ Linked(c, i)' /\ i \in 0..MaxServices
      BY <1>2, <2>1, FaithfulState DEF Services
    <2>3. DatabaseDeleted(c)'
      BY <1>1, <2>1 DEF DatabaseDeleted
    <2> QED BY <1>1, <1>6, <2>2, <2>3, DeletingKeeps
  <1>7. CASE /\ svc[i].inst # "none" /\ svc' = [svc EXCEPT ![i].inst = "deleting"]
             /\ GotoWith("aurora_deleting", i)
    <2>1. svc[i].st # "gone"
      BY <1>7, <1>2 DEF StateInv, InstancesLive
    <2>2. /\ svc' \in [Services -> ServiceRecords] /\ \A j \in Services : Faithful(j)
          /\ svc'[i].st = svc[i].st /\ \A j \in Services \ {i} : svc'[j] = svc[j]
      BY <1>2, <1>3, <1>7, <2>1, ChangedInstance
    <2>3. StateInv' /\ Linked(c, i)' /\ i \in 0..MaxServices
      BY <1>2, <2>2, FaithfulState DEF Services
    <2>4. DatabaseDeleted(c) => DatabaseDeleted(c)'
      BY <1>2, <2>2, StayDeleted
    <2> QED BY <1>1, <1>7, <2>3, <2>4, DeletingKeeps
  <1> QED
    BY <1>1, <1>4, <1>5, <1>6, <1>7 DEF Terminate, Kinds, SkyTerminate, Sky2Terminate, Rejected,
       AuroraTerminate, RdsTerminate, AlloyTerminate

\* Aurora and RDS.
LEMMA AwsDatabaseKeeps ==
    ASSUME ManagedInv, AwsDatabaseStep
    PROVE  ManagedInv'
  <1> USE DEF AllocatePcs, OtherPcs, CleanPcs
  <1>a. ses.pc \in AllocatePcs => ses.ix \in 1..2
    BY DEF ManagedInv, SessionInv, Places
  <1>b. PICK c \in Clusters : c = ses.c
    BY DEF ManagedInv, SessionInv, SessionRecords
  <1>1. CASE AuroraCluster
    BY <1>1, <1>a, CreateKeeps, OverOrPoll DEF AuroraCluster, Only, Kept
  <1>2. CASE AuroraWait
    BY <1>2, WaitKeeps, OverOrPoll DEF AuroraWait, Only, Kept
  <1>3. CASE AuroraInstance
    BY <1>3, InstanceKeeps DEF AuroraInstance, Only
  <1>4. CASE AuroraInstanceWait
    BY <1>4, <1>a, GotoKeeps, OverOrPoll DEF AuroraInstanceWait, Only, Kept
  <1>5. CASE AuroraDeleting
    <2>1. CASE svc[ses.id].inst # "deleting"
      BY <1>5, <2>1, OverOrPoll DEF AuroraDeleting, Only, Kept
    <2>2. CASE svc[ses.id].inst = "deleting"
      <3>1. PICK i \in 0..MaxServices : i = ses.id
        BY DEF ManagedInv, SessionInv, SessionRecords
      <3>2. /\ svc' = [svc EXCEPT ![i].st = "deleting"] /\ NextEnv("clean")
            /\ UNCHANGED <<rigid, machines, file>>
        BY <1>5, <2>2, <3>1 DEF AuroraDeleting, Only
      <3>3. /\ StateInv' /\ (i \in Services => svc'[i].st = "deleting")
            /\ \A j \in Services \ {i} : svc'[j] = svc[j]
        <4>1. CASE i = 0
          <5>1. svc' = svc
            BY <3>2, <4>1 DEF ManagedInv, StateInv, StateTypes, Services
          <5> QED BY <3>2, <4>1, <5>1, KeptState DEF ManagedInv, Kept, Services
        <4>2. CASE i # 0
          <5>1. i \in Services /\ svc[i].st \notin {"none", "gone"} /\ StateInv
            BY <2>2, <3>1, <4>2 DEF Services, ManagedInv, StateInv, InstancesLive
          <5>2. "deleting" \in ServiceStates \ {"none", "gone"}
            BY DEF ServiceStates
          <5> QED BY <3>2, <5>1, <5>2, ChangedState, FaithfulState
        <4> QED BY <4>1, <4>2
      <3>4. /\ DatabaseDeleted(c) => DatabaseDeleted(c)'
            /\ MachineDeleted(c) => MachineDeleted(c)'
        BY <3>2, <3>3, StayDeleted
      <3>5. ses.cmd = "clean" => file[c].db = i /\ file[c].envs[ses.ix] = "db"
        BY <1>5, <1>b, <3>1 DEF AuroraDeleting, ManagedInv, SessionInv, CleanedSoFar
      <3>6. ses.cmd = "clean" => DatabaseDeleted(c)'
        BY <3>1, <3>2, <3>3, <3>5 DEF DatabaseDeleted, Services
      <3> QED BY <1>b, <3>2, <3>3, <3>4, <3>5, <3>6, NextEnvKeeps
    <2> QED BY <2>1, <2>2
  <1>6. CASE RdsCreate
    <2>1. CASE Named(ses.c) # {}
      <3>1. PICK i \in Named(ses.c) : GotoWith("rds_wait", i)
        BY <1>6, <2>1 DEF RdsCreate
      <3>2. i \in 0..MaxServices /\ Linked(ses.c, i)
        BY <3>1 DEF Named, Live, Linked, Services
      <3>3. Kept /\ ses.pc = "rds_create"
        BY <1>6, <2>1 DEF RdsCreate, Only, Kept
      <3> QED BY <1>a, <3>1, <3>2, <3>3, GotoKeeps
    <2>2. CASE Named(ses.c) = {}
      BY <1>6, <2>2, <1>a, CreateKeeps DEF RdsCreate, Only
    <2> QED BY <2>1, <2>2
  <1>7. CASE RdsWait
    BY <1>7, <1>a, GotoKeeps, OverOrPoll DEF RdsWait, Only, Kept
  <1>8. CASE RdsDeleting
    <2>1. Kept /\ ses.pc = "rds_deleting"
      BY <1>8 DEF RdsDeleting, Only, Kept
    <2>2. CASE Over
      BY <2>1, <2>2, OverOrPoll
    <2>3. CASE NextEnv("clean")
      <3>1. /\ DatabaseDeleted(c) => DatabaseDeleted(c)'
            /\ MachineDeleted(c) => MachineDeleted(c)'
        BY <2>1, StayDeleted DEF Kept
      <3>2. ses.cmd = "clean" => DatabaseDeleted(c) /\ file[c].envs[ses.ix] = "db"
        BY <1>b, <2>1 DEF ManagedInv, SessionInv, CleanedSoFar
      <3>3. StateInv' /\ file' = file
        BY <2>1, KeptState DEF ManagedInv, Kept
      <3> QED BY <1>b, <2>3, <3>1, <3>2, <3>3, NextEnvKeeps
    <2> QED BY <1>8, <2>2, <2>3 DEF RdsDeleting
  <1> QED
    BY <1>1, <1>2, <1>3, <1>4, <1>5, <1>6, <1>7, <1>8 DEF AwsDatabaseStep

\* AlloyDB.
LEMMA AlloyKeeps ==
    ASSUME ManagedInv, AlloyStep
    PROVE  ManagedInv'
  <1> USE DEF AllocatePcs, OtherPcs, CleanPcs
  <1>a. ses.pc \in AllocatePcs => ses.ix \in 1..2
    BY DEF ManagedInv, SessionInv, Places
  <1>1. CASE AlloyCluster
    BY <1>1, <1>a, CreateKeeps, OverOrPoll DEF AlloyCluster, Only, Kept
  <1>2. CASE AlloyWait
    BY <1>2, WaitKeeps, OverOrPoll DEF AlloyWait, Only, Kept
  <1>3. CASE AlloyPrimary
    BY <1>3, InstanceKeeps DEF AlloyPrimary, Only
  <1>4. CASE AlloyPrimaryWait
    BY <1>4, <1>a, GotoKeeps, OverOrPoll DEF AlloyPrimaryWait, Only, Kept
  <1> QED
    BY <1>1, <1>2, <1>3, <1>4 DEF AlloyStep

(***************************************************************************)
(* Steps that change machines and cluster files                            *)
(***************************************************************************)
Contains(s, env) == \E k \in 1..Len(s) : s[k] = env

\* What is appended is there, and what was there stays.
LEMMA AppendContains ==
    ASSUME NEW s \in Seq({"driver", "db"}), NEW env \in {"driver", "db"}
    PROVE  /\ Append(s, env) \in Seq({"driver", "db"})
           /\ Contains(Append(s, env), env)
           /\ \A e : Contains(s, e) => Contains(Append(s, env), e)
  <1>1. /\ Len(s) \in Nat /\ Len(Append(s, env)) = Len(s) + 1
        /\ Append(s, env)[Len(s) + 1] = env
        /\ \A k \in 1..Len(s) : Append(s, env)[k] = s[k]
        /\ Append(s, env) \in Seq({"driver", "db"})
    OBVIOUS
  <1>2. Len(s) + 1 \in 1..Len(Append(s, env)) /\ \A k \in 1..Len(s) : k \in 1..Len(Append(s, env))
    BY <1>1
  <1> QED
    BY <1>1, <1>2 DEF Contains

\* A file is replaced by one that names no service but its own.
LEMMA FileState ==
    ASSUME StateInv, NEW c \in Clusters, NEW f \in FileRecords, file' = [file EXCEPT ![c] = f],
           vm' \in [Clusters -> MachineRecords], boots' \in Nat, UNCHANGED <<rigid, svc>>,
           Linked(c, f.db), f.db # 0 => Contains(f.envs, "db"), f.id # 0 => Contains(f.envs, "driver")
    PROVE  StateInv'
  <1>1. file \in [Clusters -> FileRecords] /\ file'[c] = f
        /\ \A d \in Clusters \ {c} : file'[d] = file[d]
    BY DEF StateInv, StateTypes
  <1>2. StateTypes'
    BY <1>1 DEF StateInv, StateTypes, rigid
  <1>3. FilesLinked'
    BY <1>1 DEF StateInv, FilesLinked, Linked, SameName, rigid
  <1>4. InstancesLive'
    BY DEF StateInv, InstancesLive
  <1>5. EnvsRecorded'
    BY <1>1 DEF StateInv, EnvsRecorded, Contains
  <1> QED BY <1>2, <1>3, <1>4, <1>5 DEF StateInv

\* Machines change.
LEMMA MachinesState ==
    ASSUME StateInv, vm' \in [Clusters -> MachineRecords], boots' \in Nat,
           UNCHANGED <<rigid, svc, file>>
    PROVE  StateInv'
  BY DEF StateInv, StateTypes, FilesLinked, Linked, SameName, InstancesLive, EnvsRecorded, rigid

\* A command other than clean goes on and leaves the services alone.
LEMMA StepKeeps ==
    ASSUME ManagedInv, StateInv', UNCHANGED <<rigid, svc>>, ses.pc \notin CleanPcs,
           NEW pc \in (AllocatePcs \cup OtherPcs)
                        \ {"idle", "aurora_wait", "alloy_wait", "aurora_instance", "alloy_primary"},
           pc \in AllocatePcs => ses.ix \in 1..2, Goto(pc)
    PROVE  ManagedInv'
  <1>1. PICK c \in Clusters, i \in 0..MaxServices : c = ses.c /\ i = ses.id
    BY DEF ManagedInv, SessionInv, SessionRecords
  <1>2. Linked(c, i)'
    BY <1>1 DEF ManagedInv, SessionInv, Linked, SameName, rigid
  <1>3. ses' = [ses EXCEPT !.pc = pc, !.polls = 0, !.id = i]
    BY <1>1 DEF Goto, ManagedInv, SessionInv, SessionRecords
  <1>4. ses.cmd # "clean" /\ SessionInv /\ 0 \in 0..MaxPolls
    BY DEF ManagedInv, SessionInv, CleanedSoFar, CleanPcs
  <1> QED
    BY <1>1, <1>2, <1>3, <1>4, GoneOn DEF ManagedInv

\* A machine boots.
LEMMA BootTypes ==
    ASSUME StateInv, NEW c \in Clusters, NEW id \in Nat, Boot(c, id)
    PROVE  vm' \in [Clusters -> MachineRecords] /\ boots' \in Nat
  <1>1. vm \in [Clusters -> MachineRecords] /\ boots \in Nat
    BY DEF StateInv, StateTypes
  <1>2. boots' \in Nat /\ vm' = [vm EXCEPT ![c].id = id, ![c].addr = boots', ![c].st = "running"]
    BY <1>1 DEF Boot
  <1> QED BY <1>1, <1>2, ZenonT(60) DEF MachineRecords

\* The machine of the driver.
LEMMA MachineKeeps ==
    ASSUME ManagedInv, MachineStep
    PROVE  ManagedInv'
  <1>0. /\ StateInv /\ vm \in [Clusters -> MachineRecords] /\ boots \in Nat /\ boots + 1 \in Nat
        /\ file \in [Clusters -> FileRecords]
    BY DEF ManagedInv, StateInv, StateTypes
  <1>a. PICK c \in Clusters : c = ses.c
    BY DEF ManagedInv, SessionInv, SessionRecords
  <1>b. ses.pc \in {"vm", "disk"} => ses.ix \in 1..2 /\ ses.pc \notin CleanPcs
    BY DEF ManagedInv, SessionInv, Places, AllocatePcs, CleanPcs
  <1>c. Launch(c) => vm' \in [Clusters -> MachineRecords] /\ boots' \in Nat
    BY <1>0, BootTypes DEF Launch
  <1>d. /\ "save" \in (AllocatePcs \cup OtherPcs)
                        \ {"idle", "aurora_wait", "alloy_wait", "aurora_instance", "alloy_primary"}
        /\ "disk" \in (AllocatePcs \cup OtherPcs)
                        \ {"idle", "aurora_wait", "alloy_wait", "aurora_instance", "alloy_primary"}
    BY DEF AllocatePcs
  <1>1. CASE LaunchMachine
    <2>1. /\ Launch(c) /\ UNCHANGED <<rigid, svc, file>> /\ ses.pc = "vm"
          /\ Goto("disk") \/ Goto("save")
      BY <1>1, <1>a DEF LaunchMachine, Only
    <2>2. StateInv'
      BY <1>0, <1>c, <2>1, MachinesState
    <2> QED BY <1>b, <1>d, <2>1, <2>2, StepKeeps
  <1>2. CASE LaunchReturnsNone
    <2>1. /\ vm' \in [Clusters -> MachineRecords] /\ boots' \in Nat
      BY <1>0, <1>2, <1>a, <1>c DEF LaunchReturnsNone, machines
    <2>2. PICK f : f = [WithEnv(file[c], "driver") EXCEPT !.state = "failed"]
      OBVIOUS
    <2>3. /\ file' = [file EXCEPT ![c] = f] /\ Over /\ UNCHANGED <<rigid, svc>>
      BY <1>2, <1>a, <2>2 DEF LaunchReturnsNone, Only
    <2>4. file[c].envs \in Seq({"driver", "db"})
      BY <1>0 DEF FileRecords
    <2>5. /\ f \in FileRecords /\ f.db = file[c].db /\ f.id = file[c].id
          /\ f.envs = Append(file[c].envs, "driver")
      BY <1>0, <2>2, <2>4, AppendContains DEF WithEnv, FileRecords, FileStates
    <2>6. /\ Linked(c, f.db)
          /\ f.db # 0 => Contains(f.envs, "db")
          /\ f.id # 0 => Contains(f.envs, "driver")
      <3>1. Linked(c, file[c].db) /\ (file[c].db # 0 => Contains(file[c].envs, "db"))
        BY <1>0 DEF StateInv, FilesLinked, EnvsRecorded, Contains
      <3>2. /\ Contains(f.envs, "driver")
            /\ \A e : Contains(file[c].envs, e) => Contains(f.envs, e)
        BY <2>4, <2>5, AppendContains
      <3> QED BY <2>5, <3>1, <3>2
    <2>7. StateInv'
      BY <1>0, <2>1, <2>3, <2>5, <2>6, FileState
    <2> QED BY <2>3, <2>7, OverSession DEF ManagedInv
  <1>3. CASE LaunchDisk
    <2>1. /\ vm' \in {vm, CreateDisk, AttachDisk(CreateDisk)} /\ ses.pc = "disk"
          /\ Goto("save") /\ UNCHANGED <<rigid, svc, file, boots>>
      BY <1>3 DEF LaunchDisk, Only
    <2>2. CreateDisk \in [Clusters -> MachineRecords]
      BY <1>0, <1>a DEF CreateDisk, MachineRecords
    <2>3. AttachDisk(CreateDisk) \in [Clusters -> MachineRecords]
      <3>1. vm[c].stray \in BOOLEAN
        BY <1>0 DEF MachineRecords
      <3> QED BY <1>a, <2>2, <3>1 DEF AttachDisk, MachineRecords
    <2>4. StateInv'
      BY <1>0, <2>1, <2>2, <2>3, MachinesState
    <2> QED BY <1>b, <1>d, <2>1, <2>4, StepKeeps
  <1> QED BY <1>1, <1>2, <1>3 DEF MachineStep

(***************************************************************************)
(* xb.py's commands                                                        *)
(***************************************************************************)
\* A command begins.
LEMMA BeginSession ==
    ASSUME NEW c \in Clusters, NEW cmd \in Cmds, NEW pc \in {"configure", "allocate", "install", "clean", "stop", "start"},
           Begin(c, cmd, pc), cmd = "clean" => pc = "clean"
    PROVE  SessionInv'
  <1>1. /\ ses' \in SessionRecords /\ ses'.c = c /\ ses'.cmd = cmd /\ ses'.pc = pc
        /\ ses'.ix = 1 /\ ses'.id = 0
    BY Defaults DEF Begin, SessionRecords, OtherPcs
  <1> QED
    BY <1>1 DEF SessionInv, Linked, CleanedSoFar, Places, AllocatePcs

\* A file that is forgotten, or begun.
LEMMA EmptyFile ==
    ASSUME StateInv, NEW c \in Clusters,
           file' = [file EXCEPT ![c] = NoFile] \/ file' = [file EXCEPT ![c] = [NoFile EXCEPT !.exists = TRUE]],
           vm' \in [Clusters -> MachineRecords], boots' \in Nat, UNCHANGED <<rigid, svc>>
    PROVE  StateInv'
  <1>1. PICK f \in FileRecords : f.db = 0 /\ f.id = 0 /\ file' = [file EXCEPT ![c] = f]
    <2>1. CASE file' = [file EXCEPT ![c] = NoFile]
      BY <2>1, Defaults
    <2>2. CASE file' = [file EXCEPT ![c] = [NoFile EXCEPT !.exists = TRUE]]
      <3>1. PICK f : f = [NoFile EXCEPT !.exists = TRUE]
        OBVIOUS
      <3>2. f \in FileRecords /\ f.db = 0 /\ f.id = 0
        BY <3>1, Defaults DEF FileRecords
      <3> QED BY <2>2, <3>1, <3>2
    <2> QED BY <2>1, <2>2
  <1> QED
    BY <1>1, FileState DEF Linked

\* A file gets another state, or address.
LEMMA FileFields ==
    ASSUME StateInv, NEW c \in Clusters, NEW state \in FileStates, NEW addr \in Nat,
           file' = [file EXCEPT ![c].state = state, ![c].addr = addr],
           UNCHANGED <<rigid, svc, machines>>
    PROVE  StateInv'
  <1>0. file \in [Clusters -> FileRecords]
    BY DEF StateInv, StateTypes
  <1>1. PICK f : f = [file[c] EXCEPT !.state = state, !.addr = addr]
    OBVIOUS
  <1>2. f \in FileRecords /\ f.db = file[c].db /\ f.id = file[c].id /\ f.envs = file[c].envs
    BY <1>0, <1>1 DEF FileRecords
  <1>3. file' = [file EXCEPT ![c] = f]
    BY <1>0, <1>1 DEF FileRecords
  <1>4. /\ Linked(c, f.db)
        /\ f.db # 0 => Contains(f.envs, "db")
        /\ f.id # 0 => Contains(f.envs, "driver")
    BY <1>2 DEF StateInv, FilesLinked, EnvsRecorded, Contains
  <1>5. vm' \in [Clusters -> MachineRecords] /\ boots' \in Nat
    BY DEF StateInv, StateTypes, machines
  <1> QED
    BY <1>2, <1>3, <1>4, <1>5, FileState

\* The power of the service a file names is switched.
LEMMA PowerState ==
    ASSUME StateInv, NEW c \in Clusters, NEW st \in {"stopped", "busy"}, Sky2Power(file[c].db, st),
           UNCHANGED <<rigid, machines, file>>
    PROVE  StateInv'
  <1>1. PICK i \in 0..MaxServices : i = file[c].db
    BY DEF StateInv, StateTypes, FileRecords
  <1>2. CASE svc' = svc
    BY <1>2, KeptState DEF Kept
  <1>3. CASE ~Rejected(i) /\ i # 0
    <2>1. svc' = [svc EXCEPT ![i].st = st] /\ i \in Services
      BY <1>1, <1>3 DEF Sky2Power, Services
    <2>2. svc[i].st \notin {"none", "gone"}
      BY <1>1, <1>3 DEF StateInv, FilesLinked, Linked, Rejected
    <2>3. st \in ServiceStates \ {"none", "gone"}
      BY DEF ServiceStates
    <2>4. svc' \in [Services -> ServiceRecords] /\ \A j \in Services : Faithful(j)
      BY <2>1, <2>2, <2>3, ChangedState
    <2> QED BY <2>4, FaithfulState
  <1>4. CASE i = 0
    <2>1. svc' = svc
      BY <1>1, <1>4 DEF Sky2Power, StateInv, StateTypes, Services
    <2> QED BY <2>1, KeptState DEF Kept
  <1> QED BY <1>1, <1>2, <1>3, <1>4 DEF Sky2Power

\* A machine is deleted or stopped.
LEMMA MachineTypes ==
    ASSUME StateInv, NEW c \in Clusters
    PROVE  /\ Delete(c) => vm' \in [Clusters -> MachineRecords] /\ vm'[c].id = 0
           /\ [vm EXCEPT ![c].st = "stopped"] \in [Clusters -> MachineRecords]
  <1>0. vm \in [Clusters -> MachineRecords] /\ vm[c].stray \in BOOLEAN
    BY DEF StateInv, StateTypes, MachineRecords
  <1>1. PICK m : m = [NoMachine EXCEPT !.stray = vm[c].stray]
    OBVIOUS
  <1>2. m \in MachineRecords /\ m.id = 0
    BY <1>0, <1>1, Defaults DEF MachineRecords
  <1>3. Delete(c) => vm' \in [Clusters -> MachineRecords] /\ vm'[c].id = 0
    BY <1>0, <1>1, <1>2 DEF Delete
  <1>4. [vm EXCEPT ![c].st = "stopped"] \in [Clusters -> MachineRecords]
    BY <1>0 DEF MachineRecords
  <1> QED BY <1>3, <1>4

\* An environment is allocated, and saved.
LEMMA AllocateKeeps ==
    ASSUME ManagedInv, Configure \/ AllocateEnv \/ SaveEnv \/ AllocateDone
    PROVE  ManagedInv'
  <1>0. StateInv /\ SessionInv /\ ses \in SessionRecords
    BY DEF ManagedInv, SessionInv
  <1>a. PICK c \in Clusters : c = ses.c
    BY <1>0 DEF SessionRecords
  <1>b. vm \in [Clusters -> MachineRecords] /\ boots \in Nat /\ file \in [Clusters -> FileRecords]
    BY <1>0 DEF StateInv, StateTypes
  <1>1. CASE Configure
    <2>1. CASE Over /\ Only(<<svc, machines, file>>)
      BY <2>1, OverOrPoll DEF Only, Kept
    <2>2. CASE /\ file' = [file EXCEPT ![ses.c] = [NoFile EXCEPT !.exists = TRUE]]
               /\ Goto("allocate") /\ UNCHANGED <<rigid, svc, machines, blind>>
      <3>1. StateInv'
        BY <1>0, <1>a, <1>b, <2>2, EmptyFile DEF machines
      <3>2. ses.pc = "configure"
        BY <1>1 DEF Configure
      <3> QED BY <2>2, <3>1, <3>2, StepKeeps DEF AllocatePcs, OtherPcs, CleanPcs
    <2> QED BY <1>1, <2>1, <2>2 DEF Configure
  <1>2. CASE AllocateEnv
    <2>1. Kept /\ ses.pc = "allocate" /\ ses.ix \in 1..2
      BY <1>0, <1>2 DEF AllocateEnv, Only, Kept, SessionRecords
    <2>2. Entry[kind] \in {"sky_lookup", "sky2_lookup", "aurora_cluster", "rds_create", "alloy_cluster"}
      BY <1>0 DEF Entry, StateInv, StateTypes, Kinds
    <2>3. PICK pc \in {"sky_lookup", "sky2_lookup", "aurora_cluster", "rds_create", "alloy_cluster"} :
            pc = Entry[kind]
      BY <2>2
    <2>4. Over \/ Goto("vm") \/ Goto(pc)
      BY <1>2, <2>3 DEF AllocateEnv
    <2>5. CASE Over
      BY <2>1, <2>5, OverOrPoll
    <2>6. CASE Goto("vm")
      BY <2>1, <2>6, GotoKeeps DEF AllocatePcs, CleanPcs
    <2>7. CASE Goto(pc)
      BY <2>1, <2>7, GotoKeeps DEF AllocatePcs, CleanPcs
    <2> QED BY <2>4, <2>5, <2>6, <2>7
  <1>3. CASE SaveEnv
    <2>0. ses.pc = "save" /\ ses.ix \in 1..2 /\ ses.cmd # "clean"
      BY <1>0, <1>3 DEF SaveEnv, SessionInv, Places, AllocatePcs, CleanedSoFar
    <2>1. PICK env \in {"driver", "db"} : env = order[ses.ix]
      BY <1>0, <2>0 DEF StateInv, StateTypes, DriverFirst, DbFirst
    <2>2. PICK g : g = [WithEnv(file[c], env) EXCEPT !.state = "allocated"]
      OBVIOUS
    <2>3. PICK f : f = IF env = "db" THEN [g EXCEPT !.db = ses.id]
                       ELSE [g EXCEPT !.id = vm[c].id, !.addr = vm[c].addr]
      OBVIOUS
    <2>4. /\ file' = [file EXCEPT ![c] = f] /\ NextEnv("allocate") /\ UNCHANGED <<rigid, svc, machines>>
      BY <1>3, <1>a, <2>1, <2>2, <2>3 DEF SaveEnv, Only
    <2>5. file[c].envs \in Seq({"driver", "db"})
      BY <1>b DEF FileRecords
    <2>6. /\ g \in FileRecords /\ g.db = file[c].db /\ g.id = file[c].id
          /\ g.envs = Append(file[c].envs, env)
      BY <1>b, <2>2, <2>5, AppendContains DEF WithEnv, FileRecords, FileStates
    <2>7. /\ f \in FileRecords /\ f.envs = Append(file[c].envs, env)
          /\ f.db = IF env = "db" THEN ses.id ELSE file[c].db
          /\ f.id = IF env = "db" THEN file[c].id ELSE vm[c].id
      <3>1. ses.id \in 0..MaxServices /\ vm[c].id \in Nat /\ vm[c].addr \in Nat
        BY <1>0, <1>b DEF SessionRecords, MachineRecords
      <3> QED BY <2>3, <2>6, <3>1 DEF FileRecords
    <2>8. Linked(c, f.db)
      BY <1>0, <1>a, <2>7 DEF StateInv, FilesLinked, SessionInv
    <2>9. /\ f.db # 0 => Contains(f.envs, "db")
          /\ f.id # 0 => Contains(f.envs, "driver")
      <3>1. /\ file[c].db # 0 => Contains(file[c].envs, "db")
            /\ file[c].id # 0 => Contains(file[c].envs, "driver")
        BY <1>0 DEF StateInv, EnvsRecorded, Contains
      <3>2. /\ Contains(f.envs, env)
            /\ \A e : Contains(file[c].envs, e) => Contains(f.envs, e)
        BY <2>5, <2>7, AppendContains
      <3> QED BY <2>7, <3>1, <3>2
    <2>10. StateInv'
      BY <1>0, <1>b, <2>4, <2>7, <2>8, <2>9, FileState DEF machines
    <2>11. SessionInv'
      <3>1. 0 \in 0..MaxPolls /\ 0 \in 0..MaxServices /\ ses.ix + 1 \in Nat \ {0}
        BY <1>0 DEF SessionRecords
      <3>2. /\ ses'.c = ses.c /\ ses'.cmd = ses.cmd /\ ses'.pc = "allocate" /\ ses'.id = 0
        BY <1>0, <2>4 DEF NextEnv, SessionRecords
      <3>3. ses' \in SessionRecords
        BY <1>0, <2>4, <3>1 DEF NextEnv, SessionRecords, OtherPcs
      <3> QED BY <2>0, <3>2, <3>3 DEF SessionInv, Linked, CleanedSoFar, Places, AllocatePcs
    <2> QED BY <2>10, <2>11 DEF ManagedInv
  <1>4. CASE AllocateDone
    <2>1. Kept /\ ses.pc = "allocate" /\ (Over \/ Goto("install"))
      BY <1>4 DEF AllocateDone, Only, Kept
    <2> QED BY <2>1, OverOrPoll, GotoKeeps DEF AllocatePcs, OtherPcs, CleanPcs
  <1> QED BY <1>1, <1>2, <1>3, <1>4

\* The steps of deprovision by the file.
LEMMA CleanKeeps ==
    ASSUME ManagedInv, CleanEnv \/ CleanDone
    PROVE  ManagedInv'
  <1>0. StateInv /\ SessionInv /\ ses \in SessionRecords
    BY DEF ManagedInv, SessionInv
  <1>a. PICK c \in Clusters : c = ses.c
    BY <1>0 DEF SessionRecords
  <1>b. vm \in [Clusters -> MachineRecords] /\ boots \in Nat /\ kind \in Kinds
    BY <1>0 DEF StateInv, StateTypes
  <1>1. CASE CleanEnv
    <2>0. ses.pc = "clean" /\ UNCHANGED <<rigid, file>>
      BY <1>1 DEF CleanEnv, Only
    <2>1. CASE file[c].envs[ses.ix] = "driver" /\ file[c].id # 0
      <3>1. TerminateMachine(c) /\ UNCHANGED svc
        BY <1>1, <1>a, <2>1 DEF CleanEnv
      <3>2. /\ vm' \in [Clusters -> MachineRecords] /\ boots' \in Nat
            /\ MachineDeleted(c)'
        BY <1>0, <1>b, <2>0, <3>1, MachineTypes DEF TerminateMachine, Recorded, MachineDeleted
      <3>3. StateInv'
        BY <1>0, <2>0, <3>1, <3>2, MachinesState
      <3>4. DatabaseDeleted(c) => DatabaseDeleted(c)'
        BY <2>0, <3>1 DEF DatabaseDeleted
      <3>5. Over \/ NextEnv("clean")
        BY <3>1 DEF TerminateMachine
      <3>6. CASE Over
        BY <3>3, <3>6, OverSession DEF ManagedInv
      <3>7. CASE NextEnv("clean")
        BY <1>a, <2>0, <2>1, <3>2, <3>3, <3>4, <3>7, NextEnvKeeps
      <3> QED BY <3>5, <3>6, <3>7
    <2>2. CASE file[c].envs[ses.ix] = "db" /\ file[c].db # 0
      <3>1. Terminate(file[c].db) /\ UNCHANGED machines
        BY <1>1, <1>a, <2>2 DEF CleanEnv
      <3> QED BY <1>a, <1>b, <2>0, <2>2, <3>1, TerminateKeeps
    <2>3. CASE /\ ~(file[c].envs[ses.ix] = "driver" /\ file[c].id # 0)
               /\ ~(file[c].envs[ses.ix] = "db" /\ file[c].db # 0)
      <3>1. NextEnv("clean") /\ UNCHANGED <<svc, machines>>
        BY <1>1, <1>a, <2>3 DEF CleanEnv
      <3>2. StateInv'
        BY <1>0, <2>0, <3>1, KeptState DEF Kept
      <3>3. /\ DatabaseDeleted(c) => DatabaseDeleted(c)'
            /\ MachineDeleted(c) => MachineDeleted(c)'
        BY <2>0, <3>1, StayDeleted
      <3>4. /\ file[c].envs[ses.ix] = "db" => DatabaseDeleted(c)'
            /\ file[c].envs[ses.ix] = "driver" => MachineDeleted(c)'
        BY <2>0, <2>3 DEF DatabaseDeleted, MachineDeleted
      <3> QED BY <1>a, <2>0, <3>1, <3>2, <3>3, <3>4, NextEnvKeeps
    <2> QED BY <2>1, <2>2, <2>3
  <1>2. CASE CleanDone
    <2>1. file' = [file EXCEPT ![c] = NoFile] /\ Over /\ UNCHANGED <<rigid, svc, machines>>
      BY <1>2, <1>a DEF CleanDone, Only
    <2>2. StateInv'
      BY <1>0, <1>b, <2>1, EmptyFile DEF machines
    <2> QED BY <2>1, <2>2, OverSession DEF ManagedInv
  <1> QED BY <1>1, <1>2

\* install, stop and start.
LEMMA PowerKeeps ==
    ASSUME ManagedInv, Install \/ StopEnv \/ StartEnv \/ StartSave
    PROVE  ManagedInv'
  <1>0. StateInv /\ SessionInv /\ ses \in SessionRecords
    BY DEF ManagedInv, SessionInv
  <1>a. PICK c \in Clusters : c = ses.c
    BY <1>0 DEF SessionRecords
  <1>b. /\ vm \in [Clusters -> MachineRecords] /\ boots \in Nat /\ file \in [Clusters -> FileRecords]
        /\ vm[c].id \in Nat /\ vm[c].addr \in Nat /\ file[c].addr \in Nat
    BY <1>0 DEF StateInv, StateTypes, MachineRecords, FileRecords
  <1>c. "ready" \in FileStates
    BY DEF FileStates
  <1>1. CASE Install
    <2>0. Over /\ UNCHANGED <<rigid, svc, machines>>
      BY <1>1 DEF Install, Only
    <2>1. CASE file' = file
      BY <2>0, <2>1, OverOrPoll DEF Kept
    <2>2. CASE file' = [file EXCEPT ![c].state = "ready"]
      <3>1. PICK addr \in Nat : addr = file[c].addr
        BY <1>b
      <3>2. file' = [file EXCEPT ![c].state = "ready", ![c].addr = addr]
        BY <1>b, <2>2, <3>1 DEF FileRecords
      <3>3. StateInv'
        BY <1>0, <1>c, <2>0, <3>2, FileFields
      <3> QED BY <2>0, <3>3, OverSession DEF ManagedInv
    <2> QED BY <1>1, <1>a, <2>1, <2>2 DEF Install
  <1>2. CASE StopEnv
    <2>0. Over /\ UNCHANGED <<rigid, file>>
      BY <1>2 DEF StopEnv, Only
    <2>1. StateInv'
      <3>1. CASE StopMachine(c) /\ UNCHANGED svc
        <4>1. vm' \in [Clusters -> MachineRecords] /\ boots' \in Nat
          BY <1>0, <1>b, <3>1, MachineTypes DEF StopMachine
        <4> QED BY <1>0, <2>0, <3>1, <4>1, MachinesState
      <3>2. CASE Sky2Power(file[c].db, "stopped") /\ UNCHANGED machines
        BY <1>0, <2>0, <3>2, PowerState
      <3>3. CASE UNCHANGED <<svc, machines>>
        BY <1>0, <2>0, <3>3, KeptState DEF Kept
      <3> QED BY <1>2, <1>a, <3>1, <3>2, <3>3 DEF StopEnv
    <2> QED BY <2>0, <2>1, OverSession DEF ManagedInv
  <1>3. CASE StartEnv
    <2>0. ses.pc = "start" /\ UNCHANGED <<rigid, file>>
      BY <1>3 DEF StartEnv, Only
    <2>1. CASE StartMachine(c) /\ UNCHANGED svc
      <3>1. vm' \in [Clusters -> MachineRecords] /\ boots' \in Nat
        BY <1>0, <1>b, <2>1, BootTypes DEF StartMachine, machines
      <3>2. StateInv'
        BY <1>0, <2>0, <2>1, <3>1, MachinesState
      <3>3. CASE Over
        BY <3>2, <3>3, OverSession DEF ManagedInv
      <3>4. CASE Goto("start_save")
        <4>1. /\ "start_save" \in (AllocatePcs \cup OtherPcs)
                    \ {"idle", "aurora_wait", "alloy_wait", "aurora_instance", "alloy_primary"}
              /\ "start_save" \notin AllocatePcs /\ ses.pc \notin CleanPcs
          BY <2>0 DEF AllocatePcs, OtherPcs, CleanPcs
        <4> QED BY <2>0, <2>1, <3>2, <3>4, <4>1, StepKeeps
      <3> QED BY <2>1, <3>3, <3>4 DEF StartMachine
    <2>2. CASE Sky2Power(file[c].db, "busy") /\ UNCHANGED machines /\ Over
      BY <1>0, <2>0, <2>2, PowerState, OverSession DEF ManagedInv
    <2>3. CASE UNCHANGED <<svc, machines>> /\ Over
      BY <2>0, <2>3, OverOrPoll DEF Kept
    <2> QED BY <1>3, <1>a, <2>1, <2>2, <2>3 DEF StartEnv
  <1>4. CASE StartSave
    <2>1. /\ file' = [file EXCEPT ![c].addr = vm[c].addr, ![c].state = "ready"]
          /\ Over /\ UNCHANGED <<rigid, svc, machines>>
      BY <1>4, <1>a DEF StartSave, Only
    <2>2. PICK addr \in Nat : addr = vm[c].addr
      BY <1>b
    <2>3. file' = [file EXCEPT ![c].state = "ready", ![c].addr = addr]
      BY <1>b, <2>1, <2>2 DEF FileRecords
    <2>4. StateInv'
      BY <1>0, <1>c, <2>1, <2>3, FileFields
    <2> QED BY <2>1, <2>4, OverSession DEF ManagedInv
  <1> QED BY <1>1, <1>2, <1>3, <1>4

\* What the user calls for.
LEMMA CommandKeeps ==
    ASSUME ManagedInv, Commands
    PROVE  ManagedInv'
  <1>0. StateInv /\ SessionInv /\ ses \in SessionRecords
    BY DEF ManagedInv, SessionInv
  <1>b. vm \in [Clusters -> MachineRecords] /\ boots \in Nat /\ file \in [Clusters -> FileRecords]
    BY <1>0 DEF StateInv, StateTypes
  <1>1. PICK c \in Clusters :
            \/ Provision(c) \/ Allocate(c) \/ InstallAlone(c) \/ Clean(c) \/ Stop(c) \/ Start(c)
            \/ \E env \in {"driver", "db"} : Nuke(c, env)
    BY DEF Commands
  <1>2. CASE Provision(c) \/ Allocate(c) \/ InstallAlone(c) \/ Clean(c) \/ Start(c)
    <2>1. Kept
      BY <1>2 DEF Provision, Allocate, InstallAlone, Clean, Start, Only, Kept
    <2>2. SessionInv'
      BY <1>2, BeginSession DEF Provision, Allocate, InstallAlone, Clean, Start, Cmds
    <2> QED BY <1>0, <2>1, <2>2, KeptState DEF ManagedInv
  <1>3. CASE Stop(c)
    <2>1. SessionInv'
      BY <1>3, BeginSession DEF Stop, Cmds
    <2>2. file' = [file EXCEPT ![c].state = "down"] /\ UNCHANGED <<rigid, svc, machines>>
      BY <1>3 DEF Stop
    <2>3. PICK addr \in Nat : addr = file[c].addr
      BY <1>b DEF FileRecords
    <2>4. file' = [file EXCEPT ![c].state = "down", ![c].addr = addr]
      BY <1>b, <2>2, <2>3 DEF FileRecords
    <2>5. "down" \in FileStates
      BY DEF FileStates
    <2>6. StateInv'
      BY <1>0, <2>2, <2>4, <2>5, FileFields
    <2> QED BY <2>1, <2>6 DEF ManagedInv
  <1>4. ASSUME NEW env \in {"driver", "db"}, Nuke(c, env) PROVE ManagedInv'
    <2>0. ses.pc = "idle" /\ UNCHANGED <<rigid, svc, ses>>
      BY <1>4 DEF Nuke
    <2>1. vm' \in [Clusters -> MachineRecords] /\ boots' \in Nat
      BY <1>0, <1>b, <1>4, MachineTypes DEF Nuke, NukeMachine, machines
    <2>2. CASE file' = [file EXCEPT ![c] = NoFile]
      <3>1. StateInv'
        BY <1>0, <2>0, <2>1, <2>2, EmptyFile
      <3>2. SessionInv'
        BY <1>0, <2>0 DEF SessionInv, Linked, SameName, rigid, CleanedSoFar, Places, AllocatePcs
      <3> QED BY <3>1, <3>2 DEF ManagedInv
    <2>3. CASE file' = file
      <3>1. StateInv'
        BY <1>0, <2>0, <2>1, <2>3, MachinesState
      <3>2. SessionInv'
        BY <1>0, <2>0 DEF SessionInv, Linked, SameName, rigid, CleanedSoFar, Places, AllocatePcs
      <3> QED BY <3>1, <3>2 DEF ManagedInv
    <2> QED BY <1>4, <2>2, <2>3 DEF Nuke
  <1> QED BY <1>1, <1>2, <1>3, <1>4

\* The provider goes on with what it was asked for.
LEMMA ProviderKeeps ==
    ASSUME ManagedInv, Provider
    PROVE  ManagedInv'
  <1>0. StateInv /\ SessionInv /\ ses \in SessionRecords /\ svc \in [Services -> ServiceRecords]
    BY DEF ManagedInv, SessionInv, StateInv, StateTypes
  <1>1. PICK i \in Services : ServiceMoves(i) \/ InstanceMoves(i)
    BY DEF Provider
  <1>2. UNCHANGED <<rigid, machines, file, ses>>
    BY <1>1 DEF ServiceMoves, InstanceMoves
  <1>3. /\ svc' \in [Services -> ServiceRecords] /\ \A j \in Services : Faithful(j)
        /\ \A j \in Services :
             /\ svc[j].st \in {"deleting", "gone"} => svc'[j].st \in {"deleting", "gone"}
             /\ svc[j].st = "available" => svc'[j].st = "available"
    <2>1. CASE ServiceMoves(i)
      <3>0. PICK s \in DOMAIN Becomes : s = svc[i].st
        BY <2>1 DEF ServiceMoves
      <3>1. PICK st \in Becomes[s] :
               /\ s = svc[i].st /\ (st = "gone" => svc[i].inst = "none")
               /\ svc' = [svc EXCEPT ![i] = IF st = "gone" THEN [NoService EXCEPT !.st = st]
                                            ELSE [@ EXCEPT !.st = st]]
        BY <2>1, <3>0 DEF ServiceMoves
      <3>2. /\ s \in {"creating", "noip", "busy", "deleting"}
            /\ st \in {"noip", "available", "failed", "gone"} /\ (s = "deleting" <=> st = "gone")
        BY <3>1, BecomesWhat
      <3>3. CASE st = "gone"
        <4>1. PICK r : r = [NoService EXCEPT !.st = st]
          OBVIOUS
        <4>2. r \in ServiceRecords /\ r.st = "gone" /\ r.inst = "none"
          BY <3>3, <4>1, Defaults DEF ServiceRecords, ServiceStates
        <4>3. svc' = [svc EXCEPT ![i] = r]
          BY <3>1, <3>3, <4>1
        <4> QED BY <1>0, <3>1, <3>2, <3>3, <4>2, <4>3 DEF Faithful, StateInv, InstancesLive
      <3>4. CASE st # "gone"
        <4>1. svc' = [svc EXCEPT ![i].st = st]
          BY <1>0, <3>1, <3>4
        <4>2. st \in ServiceStates \ {"none", "gone"} /\ svc[i].st \notin {"none", "gone"}
          BY <3>1, <3>2, <3>4 DEF ServiceStates
        <4> QED BY <1>0, <3>1, <3>2, <3>4, <4>1, <4>2, ChangedState
      <3> QED BY <3>3, <3>4
    <2>2. CASE InstanceMoves(i)
      <3>1. PICK inst \in {"available", "none"} : svc' = [svc EXCEPT ![i].inst = inst]
        BY <1>0, <2>2 DEF InstanceMoves
      <3>2. inst \in InstanceStates /\ svc[i].st \notin {"none", "gone"}
        BY <1>0, <2>2 DEF InstanceMoves, InstanceStates, StateInv, InstancesLive
      <3> QED BY <1>0, <3>1, <3>2, ChangedInstance
    <2> QED BY <1>1, <2>1, <2>2
  <1>4. StateInv' /\ \A c : \A j \in 0..MaxServices : Linked(c, j) => Linked(c, j)'
    BY <1>0, <1>2, <1>3, FaithfulState
  <1>5. PICK c \in Clusters, id \in 0..MaxServices : c = ses.c /\ id = ses.id
    BY <1>0 DEF SessionRecords
  <1>6. Linked(ses.c, ses.id)'
    <2>1. Linked(c, id)'
      BY <1>0, <1>4, <1>5 DEF SessionInv
    <2> QED BY <1>2, <1>5, <2>1 DEF Linked
  <1>7. CleanedSoFar'
    <2>1. /\ DatabaseDeleted(c) => DatabaseDeleted(c)'
          /\ MachineDeleted(c) => MachineDeleted(c)'
      BY <1>2, <1>3, StayDeleted
    <2>2. /\ DatabaseDeleted(ses.c) => DatabaseDeleted(ses.c)'
          /\ MachineDeleted(ses.c) => MachineDeleted(ses.c)'
      BY <1>2, <1>5, <2>1 DEF DatabaseDeleted, MachineDeleted
    <2> QED BY <1>0, <1>2, <2>2 DEF SessionInv, CleanedSoFar
  <1>8. Places'
    BY <1>0, <1>2, <1>3, <1>5 DEF SessionInv, Places, Services
  <1> QED BY <1>0, <1>2, <1>4, <1>6, <1>7, <1>8 DEF ManagedInv, SessionInv

(***************************************************************************)
(* The invariant                                                           *)
(***************************************************************************)
\* Before the first command there is nothing.
LEMMA ManagedInitially ==
    ASSUME ManagedInit
    PROVE  ManagedInv
  <1>1. kind \in Kinds /\ order \in {DriverFirst, DbFirst}
    BY DEF ManagedInit
  <1>2. /\ svc = [i \in Services |-> NoService] /\ vm = [c \in Clusters |-> NoMachine]
        /\ file = [c \in Clusters |-> NoFile] /\ ses = Idle /\ boots = 0
    BY DEF ManagedInit
  <1>3. StateTypes
    BY <1>1, <1>2, Defaults DEF StateTypes
  <1>4. FilesLinked /\ EnvsRecorded
    BY <1>2, Defaults DEF FilesLinked, Linked, EnvsRecorded
  <1>5. InstancesLive
    BY <1>2, Defaults DEF InstancesLive
  <1>6. SessionInv
    BY <1>2, Defaults DEF SessionInv, Linked, CleanedSoFar, Places, AllocatePcs
  <1> QED BY <1>3, <1>4, <1>5, <1>6 DEF ManagedInv, StateInv

\* Every step keeps it.
LEMMA ManagedStep ==
    ASSUME ManagedInv, [Next]_vars
    PROVE  ManagedInv'
  <1>1. CASE UNCHANGED vars
    <2>1. Kept /\ ses' = ses
      BY <1>1 DEF vars, Kept, rigid, machines
    <2>2. StateInv'
      BY <2>1, KeptState DEF ManagedInv
    <2>3. SessionInv'
      BY <2>1 DEF ManagedInv, SessionInv, Kept, Linked, SameName, CleanedSoFar, Places,
         DatabaseDeleted, MachineDeleted, rigid, machines
    <2> QED BY <2>2, <2>3 DEF ManagedInv
  <1>2. CASE Raises
    BY <1>2, OverOrPoll DEF Raises, Only, Kept
  <1>3. CASE Steps
    BY <1>3, AllocateKeeps, PowerKeeps, CleanKeeps, MachineKeeps, SkyKeeps, Sky2Keeps,
       AwsDatabaseKeeps, AlloyKeeps DEF Steps
  <1> QED
    BY <1>1, <1>2, <1>3, CommandKeeps, ProviderKeeps DEF Next

(***************************************************************************)
(* The theorems                                                            *)
(***************************************************************************)
\* A file that goes with a clean names nothing that is left.
LEMMA ForgetsStep ==
    ASSUME ManagedInv, [Next]_vars
    PROVE  ForgetsDeleted
  <1> SUFFICES ASSUME NEW c \in Clusters, file[c].exists, ~file'[c].exists, ses.cmd = "clean"
               PROVE  DatabaseDeleted(c) /\ MachineDeleted(c)
    BY DEF ForgetsDeleted, DatabaseDeleted, MachineDeleted
  <1>1. ses.pc \in {"clean", "aurora_deleting", "rds_deleting"}
    BY DEF ManagedInv, SessionInv, CleanedSoFar
  <1>2. file' # file
    OBVIOUS
  <1>3. CleanDone
    <2>1. ~UNCHANGED vars /\ ~Raises /\ ~Provider
      BY <1>2 DEF vars, Raises, Only, Provider, ServiceMoves, InstanceMoves
    <2>2. ~Commands
      BY <1>1 DEF Commands, Provision, Allocate, InstallAlone, Clean, Stop, Start, Nuke, Begin
    <2>3. ~(SkyStep \/ Sky2Step)
      BY <1>2 DEF SkyStep, SkyLookup, SkyLookupRejected, SkyNotOffered, SkyCreate, SkyStatus,
         SkyHasIp, SkyAllow, SkyConnect, Sky2Step, Sky2NotOffered, Sky2Lookup, Sky2Create,
         Sky2CreateTwice, Sky2Ready, Sky2AllowLocal, Sky2AllowDrivers, Sky2Connect, Only
    <2>4. ~(AwsDatabaseStep \/ AlloyStep)
      BY <1>2 DEF AwsDatabaseStep, AuroraCluster, AuroraWait, AuroraInstance, AuroraInstanceWait,
         AuroraDeleting, RdsCreate, RdsWait, RdsDeleting, AlloyStep, AlloyCluster, AlloyWait,
         AlloyPrimary, AlloyPrimaryWait, Only
    <2>5. ~MachineStep
      BY <1>1 DEF MachineStep, LaunchMachine, LaunchReturnsNone, LaunchDisk
    <2>6. ~(Configure \/ AllocateEnv \/ SaveEnv \/ AllocateDone \/ Install \/ StopEnv \/ StartEnv \/ StartSave)
      BY <1>1 DEF Configure, AllocateEnv, SaveEnv, AllocateDone, Install, StopEnv, StartEnv, StartSave
    <2>7. ~CleanEnv
      BY <1>2 DEF CleanEnv, Only
    <2> QED BY <2>1, <2>2, <2>3, <2>4, <2>5, <2>6, <2>7 DEF Next, Steps
  <1>4. c = ses.c
    BY <1>3 DEF CleanDone, ManagedInv, StateInv, StateTypes
  <1>5. \A k \in 1..Len(file[c].envs) : k < ses.ix
    BY <1>3, <1>4, SMTT(30) DEF CleanDone, ManagedInv, StateInv, StateTypes, FileRecords, SessionInv, SessionRecords
  <1>6. \A k \in 1..Len(file[c].envs) :
            /\ file[c].envs[k] = "db" => DatabaseDeleted(c)
            /\ file[c].envs[k] = "driver" => MachineDeleted(c)
    BY <1>4, <1>5 DEF ManagedInv, SessionInv, CleanedSoFar
  <1>7. DatabaseDeleted(c)
    BY <1>6 DEF ManagedInv, StateInv, EnvsRecorded, DatabaseDeleted
  <1>8. MachineDeleted(c)
    BY <1>6 DEF ManagedInv, StateInv, EnvsRecorded, MachineDeleted
  <1> QED BY <1>7, <1>8

\* deprovision --clean (deprovisioning.py) removes a cluster file only when the
\* database and the machine it names are gone or on their way, for any number of
\* clusters, services and environments in the file, whatever the commands before
\* left behind.
THEOREM CleanForgetsNothing == Spec => CleanDeletes
  <1>1. ManagedInv /\ [Next]_vars => ManagedInv'
    BY ManagedStep
  <1>2. ManagedInv /\ [Next]_vars => ForgetsDeleted
    BY ForgetsStep
  <1>3. ManagedInit => ManagedInv
    BY ManagedInitially
  <1> QED BY <1>1, <1>2, <1>3, PTL DEF Spec, CleanDeletes

\* A service that a step does not delete
Spared(i) ==
    /\ svc'[i].st = "deleting" => svc[i].st = "deleting"
    /\ svc'[i].inst = "deleting" => svc[i].inst = "deleting"

\* Creation, allow lists, instances and power delete nothing.
LEMMA SparingChanges ==
    ASSUME ManagedInv, NEW i \in Services, NEW n, NEW m
    PROVE  /\ svc' = svc => Spared(i)
           /\ svc' = Create(n) => Spared(i)
           /\ svc' = [Create(n) EXCEPT ![m].by = ses.c, ![m].st = "creating"] => Spared(i)
           /\ \A a : \A next \in {"sky2_ready_local", "sky2_ready_drivers"} : Allow(a, next) => Spared(i)
           /\ svc' = [svc EXCEPT ![n].inst = "creating"] => Spared(i)
           /\ Sky2Power(n, "stopped") \/ Sky2Power(n, "busy") => Spared(i)
  <1>0. svc \in [Services -> ServiceRecords]
    BY DEF ManagedInv, StateInv, StateTypes
  <1>1. svc' = svc => Spared(i)
    BY DEF Spared
  <1>2. svc' = Create(n) => Spared(i)
    BY <1>0 DEF Create, Spared, ServiceRecords
  <1>3. svc' = [Create(n) EXCEPT ![m].by = ses.c, ![m].st = "creating"] => Spared(i)
    BY <1>0 DEF Create, Spared, ServiceRecords
  <1>4. ASSUME NEW a, NEW next \in {"sky2_ready_local", "sky2_ready_drivers"}, Allow(a, next)
        PROVE  Spared(i)
    <2>1. CASE svc' = svc
      BY <1>1, <2>1
    <2>2. CASE svc' = [svc EXCEPT ![ses.id].allow = @ \cup a, ![ses.id].st = "busy"]
      BY <1>0, <2>2 DEF Spared, ServiceRecords
    <2> QED BY <1>4, <2>1, <2>2 DEF Allow
  <1>5. svc' = [svc EXCEPT ![n].inst = "creating"] => Spared(i)
    BY <1>0 DEF Spared, ServiceRecords
  <1>6. Sky2Power(n, "stopped") \/ Sky2Power(n, "busy") => Spared(i)
    BY <1>0 DEF Sky2Power, Spared, ServiceRecords
  <1> QED BY <1>1, <1>2, <1>3, <1>4, <1>5, <1>6

\* Only deprovision deletes, and what it deletes is the command's.
LEMMA WhoDeletes ==
    ASSUME ManagedInv, [Next]_vars, NEW i \in Services, ~Spared(i)
    PROVE  Linked(ses.c, i) /\ svc[i].st # "gone"
  <1>0. svc \in [Services -> ServiceRecords] /\ svc' # svc
    BY SparingChanges DEF ManagedInv, StateInv, StateTypes
  <1>1. ~UNCHANGED vars /\ ~Raises /\ ~Commands
    BY <1>0 DEF vars, Raises, Only, Commands, Provision, Allocate, InstallAlone, Clean, Stop, Start, Nuke
  <1>2. ~Provider
    <2>1. ASSUME NEW j \in Services, ServiceMoves(j) PROVE Spared(i)
      <3>1. PICK s \in DOMAIN Becomes : s = svc[j].st
        BY <2>1 DEF ServiceMoves
      <3>2. PICK st \in Becomes[s] :
               svc' = [svc EXCEPT ![j] = IF st = "gone" THEN [NoService EXCEPT !.st = st]
                                         ELSE [@ EXCEPT !.st = st]]
        BY <2>1, <3>1 DEF ServiceMoves
      <3>3. st # "deleting"
        BY <3>1, <3>2, BecomesWhat
      <3> QED BY <1>0, <3>2, <3>3, Defaults DEF Spared, ServiceRecords
    <2>2. ASSUME NEW j \in Services, InstanceMoves(j) PROVE Spared(i)
      BY <1>0, <2>2 DEF InstanceMoves, Spared, ServiceRecords
    <2> QED BY <2>1, <2>2 DEF Provider
  <1>3. ~SkyStep
    BY <1>0, SparingChanges DEF SkyStep, SkyLookup, SkyLookupRejected, SkyNotOffered, SkyCreate,
       SkyStatus, SkyHasIp, SkyAllow, SkyConnect, Only
  <1>4. ~Sky2Step
    <2>1. ~(Sky2NotOffered \/ Sky2Lookup \/ Sky2Ready \/ Sky2Connect)
      BY <1>0 DEF Sky2NotOffered, Sky2Lookup, Sky2Ready, Sky2Connect, Only
    <2>2. ~(Sky2Create \/ Sky2CreateTwice)
      BY SparingChanges DEF Sky2Create, Sky2CreateTwice
    <2>3. ~(Sky2AllowLocal \/ Sky2AllowDrivers)
      BY <1>0, SparingChanges DEF Sky2AllowLocal, Sky2AllowDrivers
    <2> QED BY <2>1, <2>2, <2>3 DEF Sky2Step
  <1>5. ~(AuroraCluster \/ AuroraWait \/ AuroraInstance \/ AuroraInstanceWait \/ RdsCreate \/ RdsWait \/ RdsDeleting)
    BY <1>0, SparingChanges DEF AuroraCluster, AuroraWait, AuroraInstance, AuroraInstanceWait,
       RdsCreate, RdsWait, RdsDeleting, Only
  <1>6. ~AlloyStep
    BY <1>0, SparingChanges DEF AlloyStep, AlloyCluster, AlloyWait, AlloyPrimary, AlloyPrimaryWait, Only
  <1>7. ~(MachineStep \/ Configure \/ AllocateEnv \/ SaveEnv \/ AllocateDone \/ Install \/ CleanDone \/ StartSave)
    BY <1>0 DEF MachineStep, LaunchMachine, LaunchReturnsNone, LaunchDisk, Configure, AllocateEnv,
       SaveEnv, AllocateDone, Install, CleanDone, StartSave, Only
  <1>8. ~(StopEnv \/ StartEnv)
    BY <1>0, SparingChanges DEF StopEnv, StartEnv
  <1>9. CleanEnv \/ AuroraDeleting
    BY <1>1, <1>2, <1>3, <1>4, <1>5, <1>6, <1>7, <1>8 DEF Next, Steps, AwsDatabaseStep
  <1>10. CASE AuroraDeleting
    <2>1. svc' = [svc EXCEPT ![ses.id].st = "deleting"] /\ svc[ses.id].inst = "deleting"
      BY <1>0, <1>10 DEF AuroraDeleting
    <2>2. i = ses.id
      BY <1>0, <2>1 DEF Spared
    <2> QED BY <2>1, <2>2 DEF ManagedInv, StateInv, InstancesLive, SessionInv
  <1>11. CASE CleanEnv
    <2>1. PICK c \in Clusters : c = ses.c
      BY DEF ManagedInv, SessionInv, SessionRecords
    <2>2. /\ file[c].db # 0 /\ Terminate(file[c].db)
      BY <1>0, <1>11, <2>1 DEF CleanEnv
    <2>3. PICK d \in Services : d = file[c].db
      BY <2>2 DEF ManagedInv, StateInv, StateTypes, FileRecords, Services
    <2>4. kind \in Kinds /\ Linked(c, d) /\ InstancesLive
      BY <2>3 DEF ManagedInv, StateInv, StateTypes, FilesLinked
    <2>5. /\ svc[d].st # "gone"
          /\ \/ svc' = [svc EXCEPT ![d].st = "deleting"]
             \/ svc' = [svc EXCEPT ![d].st = "deleting", ![d].inst = "none"]
             \/ svc' = [svc EXCEPT ![d].inst = "deleting"]
      BY <1>0, <2>2, <2>3, <2>4 DEF Terminate, Kinds, SkyTerminate, Sky2Terminate, Rejected,
         AuroraTerminate, RdsTerminate, AlloyTerminate, InstancesLive, ServiceRecords, InstanceStates
    <2>6. i = d
      BY <1>0, <2>5 DEF Spared
    <2> QED BY <2>1, <2>4, <2>5, <2>6
  <1> QED BY <1>9, <1>10, <1>11

\* A database that a cluster file names is deleted (with SkySQL, SkySQL 2, Aurora
\* and AlloyDB) only by a command on that cluster, for any number of clusters,
\* services and commands. The clusters of RDS share theirs: of them it says nothing.
THEOREM DeletesOnlyOwn == Spec => OnlyOwnDeprovision
  <1>1. ManagedInv /\ [Next]_vars => ManagedInv'
    BY ManagedStep
  <1>2. ManagedInv /\ [Next]_vars => DeletesOwn
    <2> SUFFICES ASSUME ManagedInv, [Next]_vars, NEW c \in Clusters, NEW i, i = file[c].db, i # 0,
                        ~Spared(i)
                 PROVE  SameName(ses.c, c)
      BY DEF DeletesOwn, Spared
    <2>1. i \in Services /\ Linked(c, i)
      BY DEF ManagedInv, StateInv, StateTypes, FileRecords, FilesLinked, Services
    <2>2. Linked(ses.c, i) /\ svc[i].st # "gone"
      BY <2>1, WhoDeletes
    <2> QED BY <2>1, <2>2 DEF Linked, SameName
  <1>3. ManagedInit => ManagedInv
    BY ManagedInitially
  <1> QED BY <1>1, <1>2, <1>3, PTL DEF Spec, OnlyOwnDeprovision

(***************************************************************************)
(* Where a command is tells the cloud and the environment it works on      *)
(***************************************************************************)
SkyPcs == {"sky_lookup", "sky_create", "sky_status", "sky_ip", "sky_allow", "sky_connect"}
Sky2Pcs == {"sky2_lookup", "sky2_create", "sky2_ready", "sky2_local", "sky2_ready_local",
            "sky2_drivers", "sky2_ready_drivers", "sky2_connect"}
AuroraPcs == {"aurora_cluster", "aurora_wait", "aurora_instance", "aurora_instance_wait"}
RdsPcs == {"rds_create", "rds_wait"}
AlloyPcs == {"alloy_cluster", "alloy_wait", "alloy_primary", "alloy_primary_wait"}
DbPcs == SkyPcs \cup Sky2Pcs \cup AuroraPcs \cup RdsPcs \cup AlloyPcs

OnItsCloud ==
    /\ long \in BOOLEAN
    /\ <<kind, order>> \in Deployments /\ blind \subseteq Clusters
    /\ ses.pc \in SkyPcs => kind = "skysql"
    /\ ses.pc \in Sky2Pcs => kind = "skysql2"
    /\ ses.pc \in AuroraPcs => kind = "aurora"
    /\ ses.pc \in RdsPcs => kind = "rds"
    /\ ses.pc \in AlloyPcs => kind = "alloydb"
    /\ ses.pc \in DbPcs => order[ses.ix] = "db"
    /\ ses.pc \in {"vm", "disk"} => order[ses.ix] = "driver"
    /\ ses.pc = "allocate" => ses.ix \in 1..3
    /\ ses.pc = "configure" => ses.ix = 1
    /\ ses.pc \in {"sky_connect", "sky_status", "sky_ip", "sky_allow"}
                    \cup (Sky2Pcs \ {"sky2_lookup", "sky2_create"}) => ses.id # 0
    /\ ses.cmd = "provision" => ses.pc \in {"configure", "allocate", "install"} \cup AllocatePcs

(***************************************************************************)
(* One service of a name                                                   *)
(***************************************************************************)
\* A service that the next provision has to find: SkySQL's first version passes
\* over one that failed or is being deleted.
Counted(i) == Live(i) /\ (kind = "skysql" => svc[i].st \notin {"failed", "deleting"})
Blinded(c) == long \/ \E d \in blind : SameName(c, d)
Unique ==
    \A c \in Clusters :
        Blinded(c) \/ \A i, j \in Services :
            Counted(i) /\ Counted(j) /\ SameName(svc[i].by, c) /\ SameName(svc[j].by, c) => i = j
\* A name was looked up in vain before it is created.
NoneYet(c) == Blinded(c) \/ \A i \in Services : Counted(i) => ~SameName(svc[i].by, c)
LookedUp == ses.pc \in {"sky_create", "sky2_create"} => NoneYet(ses.c)

\* Only the second version of SkySQL stops services.
OnlySky2Stops == \A i \in Services : svc[i].st = "stopped" => kind = "skysql2"

OneServiceInv == OnItsCloud /\ Unique /\ LookedUp /\ OnlySky2Stops

(***************************************************************************)
(* Bounds                                                                  *)
(***************************************************************************)
\* A command that still boots the driver
DriverAhead ==
    \/ ses.pc \in {"configure", "start"}
    \/ /\ ses.pc \in {"allocate"} \cup AllocatePcs
       /\ \E i \in 1..2 : /\ order[i] = "driver"
                          /\ ses.ix < i \/ (ses.ix = i /\ ses.pc \notin {"disk", "save"})
BootLeft == boots <= MaxBoots /\ (DriverAhead => boots < MaxBoots)

EnvsLeft ==
    /\ \A c \in Clusters : Len(file[c].envs) <= MaxEnvs
    /\ ses.pc = "configure" => 2 <= MaxEnvs
    /\ ses.pc \in {"allocate"} \cup AllocatePcs => Len(file[ses.c].envs) + 3 - ses.ix <= MaxEnvs

Addresses ==
    /\ \A c \in Clusters :
        /\ {vm[c].id, vm[c].addr, file[c].id, file[c].addr} \subseteq 0..MaxBoots
        /\ vm[c].st # "none" => vm[c].addr # 0
        /\ file[c].id # 0 => file[c].addr # 0
    /\ \A i \in Services : svc[i].allow \subseteq 1..MaxBoots
    /\ ses.pc \in {"disk", "start_save"} \/ (ses.pc = "save" /\ order[ses.ix] = "driver") =>
          vm[ses.c].st # "none"

BoundsInv == BootLeft /\ EnvsLeft /\ Addresses

(***************************************************************************)
(* What provision leaves behind is served                                  *)
(***************************************************************************)
OnSky == kind \in {"skysql", "skysql2"}
Up(i) == svc[i].st \in {"available", "busy"}
\* The service lets in the driver that the file has.
LetsIn(c, i) == kind = "skysql2" => file[c].id # 0 /\ file[c].addr \in svc[i].allow

Admitted ==
    /\ ses.pc \in {"sky2_ready_drivers", "sky2_connect"} =>
          /\ file[ses.c].id # 0
          /\ svc[ses.id].st # "gone" => file[ses.c].addr \in svc[ses.id].allow
    /\ OnSky /\ ses.pc = "save" /\ order[ses.ix] = "db" => ses.id # 0 /\ Up(ses.id) /\ LetsIn(ses.c, ses.id)

Provisioned ==
    ses.cmd = "provision" /\ ses.pc # "configure" =>
        /\ file[ses.c].id # 0 =>
              /\ file[ses.c].addr = vm[ses.c].addr
              /\ \E i \in 1..2 : order[i] = "driver" /\ i < ses.ix
        /\ OnSky /\ file[ses.c].db # 0 =>
              /\ Up(file[ses.c].db) /\ LetsIn(ses.c, file[ses.c].db)
              /\ \E i \in 1..2 : order[i] = "db" /\ i < ses.ix

ServedInv == Admitted /\ Provisioned

(***************************************************************************)
(* The place of a command                                                  *)
(***************************************************************************)
\* The command is over.
LEMMA CloudOver ==
    ASSUME OnItsCloud, UNCHANGED rigid, blind' \subseteq Clusters, Over
    PROVE  OnItsCloud'
  BY Defaults DEF OnItsCloud, Over, rigid, AllocatePcs, DbPcs, SkyPcs, Sky2Pcs, AuroraPcs, RdsPcs, AlloyPcs

\* A command stays where it is.
LEMMA CloudStays ==
    ASSUME ManagedInv, OnItsCloud, UNCHANGED <<rigid, blind>>, ses' = ses \/ Poll
    PROVE  OnItsCloud'
  <1>1. CASE Over
    BY <1>1, CloudOver DEF OnItsCloud
  <1>2. CASE /\ ses'.pc = ses.pc /\ ses'.ix = ses.ix /\ ses'.cmd = ses.cmd /\ ses'.id = ses.id
    BY <1>2 DEF OnItsCloud, rigid
  <1>3. ses \in SessionRecords
    BY DEF ManagedInv, SessionInv
  <1> QED BY <1>1, <1>2, <1>3 DEF Poll, Over, SessionRecords

\* A command goes on in the same environment.
LEMMA CloudGoto ==
    ASSUME ManagedInv, OnItsCloud, UNCHANGED rigid, blind' \subseteq Clusters,
           NEW pc, NEW id, ses' = [ses EXCEPT !.pc = pc, !.polls = ses'.polls, !.id = id],
           \/ pc = "save" /\ ses.pc \in AllocatePcs
           \/ pc \in SkyPcs /\ ses.pc \in SkyPcs
           \/ pc \in Sky2Pcs /\ ses.pc \in Sky2Pcs
           \/ pc \in AuroraPcs /\ ses.pc \in AuroraPcs
           \/ pc \in RdsPcs /\ ses.pc \in RdsPcs
           \/ pc \in AlloyPcs /\ ses.pc \in AlloyPcs
           \/ pc = "disk" /\ ses.pc = "vm",
           \/ id # 0
           \/ pc \notin {"sky_connect", "sky_status", "sky_ip", "sky_allow"}
                          \cup (Sky2Pcs \ {"sky2_lookup", "sky2_create"})
    PROVE  OnItsCloud'
  <1>1. /\ ses'.pc = pc /\ ses'.ix = ses.ix /\ ses'.cmd = ses.cmd /\ ses'.id = id
        /\ pc \in AllocatePcs
    BY DEF ManagedInv, SessionInv, SessionRecords, AllocatePcs, SkyPcs, Sky2Pcs, AuroraPcs, RdsPcs, AlloyPcs
  <1>2. /\ kind' = kind /\ order' = order /\ long' = long
    BY DEF rigid
  <1> QED
    BY <1>1, <1>2 DEF OnItsCloud, AllocatePcs, DbPcs, SkyPcs, Sky2Pcs, AuroraPcs, RdsPcs, AlloyPcs

\* SkySQL, version 1.
LEMMA SkyCloud ==
    ASSUME ManagedInv, OnItsCloud, SkyStep
    PROVE  OnItsCloud'
  <1>0. /\ ses \in SessionRecords /\ ses.c \in Clusters /\ blind \subseteq Clusters
        /\ ses.pc \in SkyPcs /\ SkyPcs \subseteq AllocatePcs
    BY DEF ManagedInv, SessionInv, SessionRecords, OnItsCloud, SkyStep, SkyLookup, SkyLookupRejected,
       SkyNotOffered, SkyCreate, SkyStatus, SkyHasIp, SkyAllow, SkyConnect, SkyPcs, AllocatePcs
  <1>1. UNCHANGED rigid /\ blind' \subseteq Clusters
    BY <1>0 DEF SkyStep, SkyLookup, SkyLookupRejected, SkyNotOffered, SkyCreate, SkyStatus, SkyHasIp,
       SkyAllow, SkyConnect, Only
  <1>2. Over => OnItsCloud'
    BY <1>1, CloudOver
  <1>3. UNCHANGED blind /\ Poll => OnItsCloud'
    BY <1>1, CloudStays
  <1>4. ASSUME NEW pc \in {"sky_create", "sky_ip", "sky_allow", "sky_connect", "save"},
               Goto(pc) \/ ses' = [ses EXCEPT !.pc = pc],
               ses.pc \in {"sky_status", "sky_ip", "sky_allow", "sky_connect"} \/ pc = "sky_create"
        PROVE  OnItsCloud'
    <2>1. ses' = [ses EXCEPT !.pc = pc, !.polls = ses'.polls, !.id = ses.id]
      BY <1>0, <1>4 DEF SessionRecords, Goto
    <2>2. ses.id # 0 \/ pc = "save" \/ pc = "sky_create"
      BY <1>0, <1>4 DEF OnItsCloud
    <2> QED BY <1>0, <1>1, <2>1, <2>2, CloudGoto DEF SkyPcs, Sky2Pcs
  <1>5. ASSUME NEW pc \in {"sky_allow", "sky_status"}, NEW i \in Services, GotoWith(pc, i)
        PROVE  OnItsCloud'
    <2>1. ses' = [ses EXCEPT !.pc = pc, !.polls = ses'.polls, !.id = i] /\ i # 0
      BY <1>0, <1>5 DEF SessionRecords, GotoWith, Services
    <2> QED BY <1>0, <1>1, <2>1, CloudGoto DEF SkyPcs
  <1>6. SkyLookup => OnItsCloud'
    <2>1. SkyFound(ses.c) \subseteq Services
      BY DEF SkyFound, Named
    <2> QED BY <1>2, <1>4, <1>5, <2>1 DEF SkyLookup
  <1>7. SkyLookupRejected \/ SkyNotOffered \/ SkyCreate => OnItsCloud'
    BY <1>2, <1>4, <1>5 DEF SkyLookupRejected, SkyNotOffered, SkyCreate, Unused
  <1>8. SkyStatus \/ SkyHasIp \/ SkyAllow \/ SkyConnect => OnItsCloud'
    BY <1>2, <1>3, <1>4 DEF SkyStatus, SkyHasIp, SkyAllow, SkyConnect, Only
  <1> QED BY <1>6, <1>7, <1>8 DEF SkyStep

\* SkySQL, version 2.
LEMMA Sky2Cloud ==
    ASSUME ManagedInv, OnItsCloud, Sky2Step
    PROVE  OnItsCloud'
  <1>0. /\ ses \in SessionRecords /\ ses.c \in Clusters /\ blind \subseteq Clusters
        /\ ses.pc \in Sky2Pcs /\ Sky2Pcs \subseteq AllocatePcs
    BY DEF ManagedInv, SessionInv, SessionRecords, OnItsCloud, Sky2Step, Sky2NotOffered, Sky2Lookup,
       Sky2Create, Sky2CreateTwice, Sky2Ready, Sky2AllowLocal, Sky2AllowDrivers, Sky2Connect,
       AfterReady, Sky2Pcs, AllocatePcs
  <1>1. UNCHANGED rigid /\ blind' \subseteq Clusters
    BY <1>0 DEF Sky2Step, Sky2NotOffered, Sky2Lookup, Sky2Create, Sky2CreateTwice, Sky2Ready,
       Sky2AllowLocal, Sky2AllowDrivers, Sky2Connect, Only
  <1>2. Over => OnItsCloud'
    BY <1>1, CloudOver
  <1>3. UNCHANGED blind /\ Poll => OnItsCloud'
    BY <1>1, CloudStays
  <1>4. ASSUME NEW pc \in Sky2Pcs \cup {"save"}, Goto(pc),
               ses.pc \notin {"sky2_lookup", "sky2_create"} \/ pc = "sky2_create"
        PROVE  OnItsCloud'
    <2>1. ses' = [ses EXCEPT !.pc = pc, !.polls = ses'.polls, !.id = ses.id]
      BY <1>0, <1>4 DEF SessionRecords, Goto
    <2>2. ses.id # 0 \/ pc = "save" \/ pc = "sky2_create"
      BY <1>0, <1>4 DEF OnItsCloud
    <2> QED BY <1>0, <1>1, <1>4, <2>1, <2>2, CloudGoto DEF Sky2Pcs
  <1>5. ASSUME NEW i \in Services, GotoWith("sky2_ready", i)
        PROVE  OnItsCloud'
    <2>1. ses' = [ses EXCEPT !.pc = "sky2_ready", !.polls = ses'.polls, !.id = i] /\ i # 0
      BY <1>0, <1>5 DEF SessionRecords, GotoWith, Services
    <2> QED BY <1>0, <1>1, <2>1, CloudGoto DEF Sky2Pcs
  <1>6. Sky2NotOffered \/ Sky2Lookup => OnItsCloud'
    BY <1>2, <1>4, <1>5 DEF Sky2NotOffered, Sky2Lookup, Sky2Found, Named, Sky2Pcs
  <1>7. Sky2Create \/ Sky2CreateTwice => OnItsCloud'
    BY <1>5 DEF Sky2Create, Sky2CreateTwice, Unused
  <1>8. Sky2Ready => OnItsCloud'
    <2>1. ASSUME Sky2Ready
          PROVE  /\ ses.pc \in {"sky2_ready", "sky2_ready_local", "sky2_ready_drivers"}
                 /\ AfterReady[ses.pc] \in Sky2Pcs
      BY <2>1 DEF Sky2Ready, AfterReady, Sky2Pcs
    <2> QED BY <1>2, <1>3, <1>4, <2>1 DEF Sky2Ready, Only
  <1>9. Sky2AllowLocal \/ Sky2AllowDrivers \/ Sky2Connect => OnItsCloud'
    BY <1>2, <1>4 DEF Sky2AllowLocal, Sky2AllowDrivers, Allow, Sky2Connect, Sky2Pcs
  <1> QED BY <1>6, <1>7, <1>8, <1>9 DEF Sky2Step

\* Aurora, RDS and AlloyDB.
LEMMA DatabaseCloud ==
    ASSUME ManagedInv, OnItsCloud, AwsDatabaseStep \/ AlloyStep
    PROVE  OnItsCloud'
  <1>0. ses \in SessionRecords /\ ses.c \in Clusters /\ blind \subseteq Clusters
    BY DEF ManagedInv, SessionInv, SessionRecords, OnItsCloud
  <1>1. UNCHANGED <<rigid, blind>> /\ blind' \subseteq Clusters
    BY <1>0 DEF AwsDatabaseStep, AuroraCluster, AuroraWait, AuroraInstance, AuroraInstanceWait,
       AuroraDeleting, RdsCreate, RdsWait, RdsDeleting, AlloyStep, AlloyCluster, AlloyWait,
       AlloyPrimary, AlloyPrimaryWait, Only
  <1>2. Over => OnItsCloud'
    BY <1>1, CloudOver
  <1>3. Poll => OnItsCloud'
    BY <1>1, CloudStays
  <1>4. ASSUME NEW pc, Goto(pc),
               \/ pc = "save" /\ ses.pc \in AllocatePcs
               \/ pc \in AuroraPcs /\ ses.pc \in AuroraPcs
               \/ pc \in AlloyPcs /\ ses.pc \in AlloyPcs
        PROVE  OnItsCloud'
    <2>1. ses' = [ses EXCEPT !.pc = pc, !.polls = ses'.polls, !.id = ses.id]
      BY <1>0, <1>4 DEF SessionRecords, Goto
    <2> QED BY <1>1, <1>4, <2>1, CloudGoto DEF Sky2Pcs, AuroraPcs, AlloyPcs
  <1>5. ASSUME NEW pc, NEW i, GotoWith(pc, i),
               \/ pc \in AuroraPcs /\ ses.pc \in AuroraPcs
               \/ pc \in RdsPcs /\ ses.pc \in RdsPcs
               \/ pc \in AlloyPcs /\ ses.pc \in AlloyPcs
        PROVE  OnItsCloud'
    <2>1. ses' = [ses EXCEPT !.pc = pc, !.polls = ses'.polls, !.id = i]
      BY <1>0, <1>5 DEF SessionRecords, GotoWith
    <2> QED BY <1>1, <1>5, <2>1, CloudGoto DEF Sky2Pcs, AuroraPcs, RdsPcs, AlloyPcs
  <1>6. NextEnv("clean") /\ ses.cmd # "provision" => OnItsCloud'
    <2>1. ASSUME NextEnv("clean"), ses.cmd # "provision" PROVE ses'.pc = "clean" /\ ses'.cmd # "provision"
      BY <1>0, <2>1 DEF NextEnv, SessionRecords
    <2> QED BY <1>1, <2>1 DEF OnItsCloud, rigid, DbPcs, SkyPcs, Sky2Pcs, AuroraPcs, RdsPcs, AlloyPcs
  <1>7. AuroraCluster \/ AuroraWait \/ AuroraInstance \/ AuroraInstanceWait => OnItsCloud'
    BY <1>2, <1>3, <1>4, <1>5 DEF AuroraCluster, AuroraWait, AuroraInstance, AuroraInstanceWait,
       AuroraPcs, AllocatePcs
  <1>8. RdsCreate \/ RdsWait => OnItsCloud'
    BY <1>2, <1>3, <1>4, <1>5 DEF RdsCreate, RdsWait, RdsPcs, AllocatePcs
  <1>9. AuroraDeleting \/ RdsDeleting => OnItsCloud'
    BY <1>2, <1>6 DEF AuroraDeleting, RdsDeleting, OnItsCloud, AllocatePcs
  <1>10. AlloyStep => OnItsCloud'
    BY <1>2, <1>3, <1>4, <1>5 DEF AlloyStep, AlloyCluster, AlloyWait, AlloyPrimary, AlloyPrimaryWait,
       AlloyPcs, AllocatePcs
  <1> QED BY <1>7, <1>8, <1>9, <1>10 DEF AwsDatabaseStep

\* A command goes to a place of no cloud.
LEMMA CloudElsewhere ==
    ASSUME ManagedInv, OnItsCloud, UNCHANGED <<rigid, blind>>,
           ses'.pc \in {"configure", "allocate", "install", "clean", "aurora_deleting", "rds_deleting",
                        "stop", "start", "start_save"},
           ses'.pc = "configure" => ses'.ix = 1, ses'.pc = "allocate" => ses'.ix \in 1..3,
           ses'.cmd = "provision" => ses'.pc \in {"configure", "allocate", "install"}
    PROVE  OnItsCloud'
  BY DEF OnItsCloud, rigid, DbPcs, SkyPcs, Sky2Pcs, AuroraPcs, RdsPcs, AlloyPcs

\* The commands and their steps outside the clouds.
LEMMA ClusterCloud ==
    ASSUME ManagedInv, OnItsCloud, [Next]_vars,
           ~SkyStep, ~Sky2Step, ~AwsDatabaseStep, ~AlloyStep
    PROVE  OnItsCloud'
  <1>0. ses \in SessionRecords /\ blind \subseteq Clusters /\ kind \in Kinds /\ order \in {DriverFirst, DbFirst}
    BY DEF ManagedInv, SessionInv, OnItsCloud, StateInv, StateTypes
  <1>1. ASSUME UNCHANGED <<rigid, blind>>, Over PROVE OnItsCloud'
    BY <1>0, <1>1, CloudOver
  <1>2. CASE UNCHANGED vars
    BY <1>2, CloudStays DEF vars, rigid
  <1>3. CASE Raises \/ Install \/ CleanDone \/ StopEnv \/ StartSave \/ LaunchReturnsNone
    BY <1>1, <1>3 DEF Raises, Install, CleanDone, StopEnv, StartSave, LaunchReturnsNone, Only
  <1>4. CASE Provider
    BY <1>4, CloudStays DEF Provider, ServiceMoves, InstanceMoves
  <1>5. CASE Commands
    <2>1. UNCHANGED <<rigid, blind>>
      BY <1>5 DEF Commands, Provision, Allocate, InstallAlone, Clean, Stop, Start, Nuke, Only
    <2>2. CASE ses' = ses
      BY <2>1, <2>2, CloudStays
    <2>3. ASSUME NEW c, NEW cmd, NEW pc, Begin(c, cmd, pc),
                 <<cmd, pc>> \in {<<"provision", "configure">>, <<"allocate", "allocate">>,
                    <<"install", "install">>, <<"clean", "clean">>, <<"stop", "stop">>, <<"start", "start">>}
          PROVE  OnItsCloud'
      <3>1. ses'.pc = pc /\ ses'.cmd = cmd /\ ses'.ix = 1
        BY <2>3, Defaults DEF Begin, SessionRecords
      <3> QED BY <2>1, <2>3, <3>1, CloudElsewhere
    <2> QED BY <1>5, <2>2, <2>3 DEF Commands, Provision, Allocate, InstallAlone, Clean, Stop, Start, Nuke
  <1>6. CASE Configure
    <2>1. UNCHANGED <<rigid, blind>> /\ ses.pc = "configure" /\ (Over \/ Goto("allocate"))
      BY <1>6 DEF Configure, Only
    <2>2. Goto("allocate") => ses'.pc = "allocate" /\ ses'.ix = ses.ix /\ ses'.cmd = ses.cmd
      BY <1>0 DEF Goto, SessionRecords
    <2>3. ses.ix = 1
      BY <2>1 DEF OnItsCloud
    <2> QED BY <1>1, <2>1, <2>2, <2>3, CloudElsewhere
  <1>7. CASE AllocateEnv
    <2>1. UNCHANGED <<rigid, blind>> /\ ses.pc = "allocate" /\ ses.ix \in 1..2
      BY <1>7 DEF AllocateEnv, Only, OnItsCloud
    <2>2. ASSUME NEW pc, Goto(pc),
                 \/ pc = "vm" /\ order[ses.ix] = "driver"
                 \/ pc = Entry[kind] /\ order[ses.ix] = "db"
          PROVE  OnItsCloud'
      <3>1. ses'.pc = pc /\ ses'.ix = ses.ix /\ ses'.cmd = ses.cmd
        BY <1>0, <2>2 DEF Goto, SessionRecords
      <3>2. kind' = kind /\ order' = order /\ long' = long /\ blind' = blind
        BY <2>1 DEF rigid
      <3>3. CASE pc = "vm" /\ order[ses.ix] = "driver"
        BY <2>1, <3>1, <3>2, <3>3 DEF OnItsCloud, AllocatePcs, DbPcs, SkyPcs, Sky2Pcs, AuroraPcs, RdsPcs, AlloyPcs
      <3>4. CASE pc = Entry[kind] /\ order[ses.ix] = "db"
        <4>1. <<kind, pc>> \in {<<"skysql", "sky_lookup">>, <<"skysql2", "sky2_lookup">>,
                <<"aurora", "aurora_cluster">>, <<"rds", "rds_create">>, <<"alloydb", "alloy_cluster">>}
          BY <1>0, <3>4 DEF Kinds, Entry
        <4> QED BY <2>1, <3>1, <3>2, <3>4, <4>1 DEF OnItsCloud, AllocatePcs, DbPcs, SkyPcs, Sky2Pcs,
             AuroraPcs, RdsPcs, AlloyPcs
      <3> QED BY <2>2, <3>3, <3>4
    <2>3. order[ses.ix] \in {"driver", "db"}
      BY <1>0, <2>1 DEF DriverFirst, DbFirst
    <2> QED BY <1>1, <1>7, <2>1, <2>2, <2>3 DEF AllocateEnv
  <1>8. CASE SaveEnv
    <2>1. UNCHANGED <<rigid, blind>> /\ ses.pc = "save" /\ NextEnv("allocate")
      BY <1>8 DEF SaveEnv, Only
    <2>2. ses'.pc = "allocate" /\ ses'.ix = ses.ix + 1 /\ ses'.cmd = ses.cmd
      BY <1>0, <2>1 DEF NextEnv, SessionRecords
    <2>3. ses.ix \in 1..2
      BY <2>1 DEF ManagedInv, SessionInv, Places, AllocatePcs
    <2> QED BY <2>1, <2>2, <2>3, CloudElsewhere
  <1>9. CASE AllocateDone
    <2>1. UNCHANGED <<rigid, blind>> /\ (Over \/ Goto("install"))
      BY <1>9 DEF AllocateDone, Only
    <2>2. Goto("install") => ses'.pc = "install"
      BY <1>0 DEF Goto, SessionRecords
    <2> QED BY <1>1, <2>1, <2>2, CloudElsewhere
  <1>10. CASE CleanEnv
    <2>1. UNCHANGED <<rigid, blind>> /\ ses.pc = "clean" /\ ses.cmd # "provision"
      BY <1>10 DEF CleanEnv, Only, OnItsCloud, AllocatePcs
    <2>2. \/ Over \/ NextEnv("clean")
          \/ \E i : GotoWith("aurora_deleting", i) \/ GotoWith("rds_deleting", i)
      BY <1>0, <1>10 DEF CleanEnv, TerminateMachine, Terminate, Kinds, SkyTerminate, Sky2Terminate,
         AuroraTerminate, RdsTerminate, AlloyTerminate
    <2>3. ~Over => ses'.pc \in {"clean", "aurora_deleting", "rds_deleting"} /\ ses'.cmd = ses.cmd
      BY <1>0, <2>2 DEF NextEnv, GotoWith, SessionRecords
    <2> QED BY <1>1, <2>1, <2>3, CloudElsewhere
  <1>11. CASE StartEnv
    <2>1. UNCHANGED <<rigid, blind>> /\ ses.pc = "start" /\ ses.cmd # "provision" /\ (Over \/ Goto("start_save"))
      BY <1>11 DEF StartEnv, StartMachine, Only, OnItsCloud, AllocatePcs
    <2>2. Goto("start_save") => ses'.pc = "start_save" /\ ses'.cmd = ses.cmd
      BY <1>0 DEF Goto, SessionRecords
    <2> QED BY <1>1, <2>1, <2>2, CloudElsewhere
  <1>12. CASE LaunchMachine \/ LaunchDisk
    <2>1. /\ UNCHANGED <<rigid, blind>> /\ ses.pc \in {"vm", "disk"}
          /\ \E pc \in {"disk", "save"} : Goto(pc) /\ (pc = "disk" => ses.pc = "vm")
      BY <1>12 DEF LaunchMachine, LaunchDisk, Only
    <2>2. PICK pc \in {"disk", "save"} : Goto(pc) /\ (pc = "disk" => ses.pc = "vm")
      BY <2>1
    <2>3. ses' = [ses EXCEPT !.pc = pc, !.polls = ses'.polls, !.id = ses.id]
      BY <1>0, <2>2 DEF SessionRecords, Goto
    <2> QED BY <1>0, <2>1, <2>2, <2>3, CloudGoto DEF AllocatePcs, Sky2Pcs
  <1> QED
    BY <1>2, <1>3, <1>4, <1>5, <1>6, <1>7, <1>8, <1>9, <1>10, <1>11, <1>12 DEF Next, Steps, MachineStep

\* Every step keeps it.
LEMMA CloudStep ==
    ASSUME ManagedInv, OnItsCloud, [Next]_vars
    PROVE  OnItsCloud'
  BY SkyCloud, Sky2Cloud, DatabaseCloud, ClusterCloud

(***************************************************************************)
(* One service of a name                                                   *)
(***************************************************************************)
\* A step that neither creates a service nor brings one back
Settled(i) ==
    /\ Counted(i)' => Counted(i) /\ svc'[i].by = svc[i].by
    /\ svc'[i].st = "stopped" => svc[i].st = "stopped" \/ kind = "skysql2"

\* Such a step leaves no second one.
LEMMA SettledKeeps ==
    ASSUME UNCHANGED rigid, blind \subseteq blind', \A i \in Services : Settled(i)
    PROVE  /\ Unique => Unique'
           /\ \A c : NoneYet(c) => NoneYet(c)'
           /\ OnlySky2Stops => OnlySky2Stops'
  <1>1. \A c, d : SameName(c, d)' <=> SameName(c, d)
    BY DEF SameName, rigid
  <1>2. \A c : Blinded(c) => Blinded(c)'
    BY DEF Blinded, SameName, rigid
  <1>3. \A c : NoneYet(c) => NoneYet(c)'
    BY <1>2 DEF NoneYet, Settled, SameName, rigid
  <1>4. Unique => Unique'
    BY <1>2 DEF Unique, Settled, SameName, rigid
  <1>5. OnlySky2Stops => OnlySky2Stops'
    BY DEF OnlySky2Stops, Settled, rigid
  <1> QED BY <1>3, <1>4, <1>5

\* A service that is created where there was none is the only one.
LEMMA CreatedAlone ==
    ASSUME ManagedInv, Unique, NoneYet(ses.c), NEW n \in Unused, svc' = Create(n),
           UNCHANGED <<rigid, blind>>
    PROVE  Unique'
  <1>0. n \in Services /\ svc \in [Services -> ServiceRecords] /\ ses.c \in Clusters
    BY DEF Unused, ManagedInv, StateInv, StateTypes, SessionInv, SessionRecords
  <1>1. svc'[n].by = ses.c /\ \A i \in Services \ {n} : svc'[i] = svc[i]
    BY <1>0 DEF Create, ServiceRecords
  <1>2. \A i \in Services \ {n} : (Counted(i)' <=> Counted(i)) /\ svc'[i].by = svc[i].by
    BY <1>1 DEF Counted, Live, rigid
  <1>3. \A c, d : SameName(c, d)' <=> SameName(c, d)
    BY DEF SameName, rigid
  <1>4. \A c : Blinded(c)' <=> Blinded(c)
    BY <1>3 DEF Blinded, SameName, rigid
  <1>5. \A c, d : SameName(c, d) => (Blinded(c) <=> Blinded(d))
    BY DEF Blinded, SameName
  <1>6. ASSUME NEW c \in Clusters, ~Blinded(c), NEW i \in Services, NEW j \in Services,
               Counted(i)', Counted(j)', SameName(svc'[i].by, c), SameName(svc'[j].by, c)
        PROVE  i = j
    <2>1. CASE i # n /\ j # n
      BY <1>2, <1>6, <2>1 DEF Unique
    <2>2. ASSUME NEW k \in Services \ {n}, Counted(k)', SameName(svc'[k].by, c), SameName(ses.c, c)
          PROVE  FALSE
      <3>1. Counted(k) /\ SameName(svc[k].by, ses.c)
        BY <1>2, <2>2 DEF SameName
      <3>2. ~Blinded(ses.c)
        BY <1>5, <1>6, <2>2
      <3> QED BY <3>1, <3>2 DEF NoneYet
    <2> QED BY <1>1, <1>6, <2>1, <2>2
  <1> QED BY <1>3, <1>4, <1>6 DEF Unique, SameName, rigid

\* The forms of change that create nothing.
LEMMA SettlingChanges ==
    ASSUME ManagedInv, OnItsCloud, UNCHANGED rigid, NEW i \in Services, NEW n,
           n \in Services => svc[n].st # "none"
    PROVE  /\ svc' = svc => Settled(i)
           /\ \A a : \A next : kind # "skysql" /\ n = ses.id /\ Allow(a, next) => Settled(i)
           /\ svc' = [svc EXCEPT ![n].inst = "creating"] => Settled(i)
           /\ svc' = [svc EXCEPT ![n].inst = "deleting"] => Settled(i)
           /\ (n \in Services => svc[n].st # "gone") /\ svc' = [svc EXCEPT ![n].st = "deleting"] => Settled(i)
           /\ (n \in Services => svc[n].st # "gone")
                /\ svc' = [svc EXCEPT ![n].st = "deleting", ![n].inst = "none"] => Settled(i)
           /\ kind = "skysql2" /\ (Sky2Power(n, "stopped") \/ Sky2Power(n, "busy")) => Settled(i)
  <1>0. svc \in [Services -> ServiceRecords] /\ kind' = kind
    BY DEF ManagedInv, StateInv, StateTypes, rigid
  <1>1. svc' = svc => Settled(i)
    BY <1>0 DEF Settled, Counted, Live
  <1>2. ASSUME NEW a, NEW next, kind # "skysql", n = ses.id, Allow(a, next) PROVE Settled(i)
    <2>1. CASE svc' = svc
      BY <1>1, <2>1
    <2>2. CASE ~Rejected(n) /\ svc' = [svc EXCEPT ![n].allow = @ \cup a, ![n].st = "busy"]
      BY <1>0, <1>2, <2>2 DEF Settled, Counted, Live, ServiceRecords, Rejected
    <2> QED BY <1>2, <2>1, <2>2 DEF Allow
  <1>3. svc' = [svc EXCEPT ![n].inst = "creating"] \/ svc' = [svc EXCEPT ![n].inst = "deleting"] => Settled(i)
    BY <1>0 DEF Settled, Counted, Live, ServiceRecords
  <1>4. ASSUME n \in Services => svc[n].st # "gone",
               \/ svc' = [svc EXCEPT ![n].st = "deleting"]
               \/ svc' = [svc EXCEPT ![n].st = "deleting", ![n].inst = "none"]
        PROVE  Settled(i)
    BY <1>0, <1>4 DEF Settled, Counted, Live, ServiceRecords
  <1>5. ASSUME kind = "skysql2", Sky2Power(n, "stopped") \/ Sky2Power(n, "busy") PROVE Settled(i)
    <2>1. CASE svc' = svc
      BY <1>1, <2>1
    <2>2. ASSUME NEW st, ~Rejected(n), svc' = [svc EXCEPT ![n].st = st] PROVE Settled(i)
      BY <1>0, <1>5, <2>2 DEF Settled, Counted, Live, ServiceRecords, Rejected
    <2> QED BY <1>5, <2>1, <2>2 DEF Sky2Power
  <1> QED BY <1>1, <1>2, <1>3, <1>4, <1>5

\* No step changes the cloud, the order of the environments or their names.
LEMMA StepsAreRigid ==
    ASSUME [Next]_vars
    PROVE  UNCHANGED rigid
  <1> USE DEF Only
  <1>1. CASE UNCHANGED vars \/ Raises \/ Provider
    BY <1>1 DEF vars, rigid, Raises, Provider, ServiceMoves, InstanceMoves
  <1>2. CASE Commands
    BY <1>2 DEF Commands, Provision, Allocate, InstallAlone, Clean, Stop, Start, Nuke
  <1>3. CASE SkyStep \/ Sky2Step
    BY <1>3 DEF SkyStep, SkyLookup, SkyLookupRejected, SkyNotOffered, SkyCreate, SkyStatus,
       SkyHasIp, SkyAllow, SkyConnect, Sky2Step, Sky2NotOffered, Sky2Lookup, Sky2Create,
       Sky2CreateTwice, Sky2Ready, Sky2AllowLocal, Sky2AllowDrivers, Sky2Connect
  <1>4. CASE AwsDatabaseStep \/ AlloyStep
    BY <1>4 DEF AwsDatabaseStep, AuroraCluster, AuroraWait, AuroraInstance, AuroraInstanceWait,
       AuroraDeleting, RdsCreate, RdsWait, RdsDeleting, AlloyStep, AlloyCluster, AlloyWait,
       AlloyPrimary, AlloyPrimaryWait
  <1>5. CASE MachineStep \/ Configure \/ AllocateEnv \/ SaveEnv \/ AllocateDone \/ Install
    BY <1>5 DEF MachineStep, LaunchMachine, LaunchReturnsNone, LaunchDisk, Configure, AllocateEnv,
       SaveEnv, AllocateDone, Install
  <1>6. CASE CleanEnv \/ CleanDone \/ StopEnv \/ StartEnv \/ StartSave
    BY <1>6 DEF CleanEnv, CleanDone, StopEnv, StartEnv, StartSave
  <1> QED BY <1>1, <1>2, <1>3, <1>4, <1>5, <1>6 DEF Next, Steps

\* The steps that create a service
Creating ==
    \/ SkyCreate \/ Sky2Create \/ Sky2CreateTwice
    \/ (AuroraCluster \/ RdsCreate \/ AlloyCluster) /\ svc' # svc

\* All others settle every service.
LEMMA SettlingStep ==
    ASSUME ManagedInv, OnItsCloud, [Next]_vars, ~Creating, NEW i \in Services
    PROVE  Settled(i)
  <1>0. /\ svc \in [Services -> ServiceRecords] /\ ses.c \in Clusters /\ kind \in Kinds
        /\ ses.id \in Services => svc[ses.id].st # "none"
        /\ file[ses.c].db \in Services => svc[file[ses.c].db].st # "none"
    BY DEF ManagedInv, StateInv, StateTypes, SessionInv, SessionRecords, FilesLinked, Linked, Services
  <1>1. UNCHANGED rigid /\ kind' = kind
    BY StepsAreRigid DEF rigid
  <1>2. svc' = svc => Settled(i)
    BY <1>0, <1>1, SettlingChanges
  <1>3. CASE UNCHANGED vars \/ Raises \/ Commands
    BY <1>2, <1>3 DEF vars, Raises, Only, Commands, Provision, Allocate, InstallAlone, Clean, Stop, Start, Nuke
  <1>4. CASE Provider
    <2>1. ASSUME NEW j \in Services, ServiceMoves(j) PROVE Settled(i)
      <3>1. PICK s \in DOMAIN Becomes : s = svc[j].st
        BY <2>1 DEF ServiceMoves
      <3>2. PICK st \in Becomes[s] :
               svc' = [svc EXCEPT ![j] = IF st = "gone" THEN [NoService EXCEPT !.st = st]
                                         ELSE [@ EXCEPT !.st = st]]
        BY <2>1, <3>1 DEF ServiceMoves
      <3>3. s \in {"creating", "noip", "busy", "deleting"} /\ (s = "deleting" => st = "gone") /\ st # "stopped"
        BY <3>1, <3>2, BecomesWhat
      <3>4. CASE st = "gone"
        <4>1. PICK r : r = [NoService EXCEPT !.st = st]
          OBVIOUS
        <4>2. r \in ServiceRecords /\ r.st = "gone"
          BY <3>4, <4>1, Defaults DEF ServiceRecords, ServiceStates
        <4>3. svc' = [svc EXCEPT ![j] = r]
          BY <3>2, <3>4, <4>1
        <4> QED BY <1>0, <1>1, <4>2, <4>3 DEF Settled, Counted, Live
      <3>5. CASE st # "gone"
        <4>1. svc' = [svc EXCEPT ![j].st = st]
          BY <1>0, <3>2, <3>5
        <4> QED BY <1>0, <1>1, <3>1, <3>3, <3>5, <4>1 DEF Settled, Counted, Live, ServiceRecords
      <3> QED BY <3>4, <3>5
    <2>2. ASSUME NEW j \in Services, InstanceMoves(j) PROVE Settled(i)
      BY <1>0, <1>1, <2>2 DEF InstanceMoves, Settled, Counted, Live, ServiceRecords
    <2> QED BY <1>4, <2>1, <2>2 DEF Provider
  <1>5. CASE SkyStep
    BY <1>2, <1>5 DEF SkyStep, SkyLookup, SkyLookupRejected, SkyNotOffered, Creating,
       SkyStatus, SkyHasIp, SkyAllow, SkyConnect, Only
  <1>6. CASE Sky2Step
    <2>1. CASE Sky2NotOffered \/ Sky2Lookup \/ Sky2Ready \/ Sky2Connect
      BY <1>2, <2>1 DEF Sky2NotOffered, Sky2Lookup, Sky2Ready, Sky2Connect, Only
    <2>2. CASE Sky2AllowLocal \/ Sky2AllowDrivers
      <3>1. kind # "skysql"
        BY <2>2 DEF Sky2AllowLocal, Sky2AllowDrivers, OnItsCloud, Sky2Pcs
      <3>2. svc' = svc \/ \E a, next : Allow(a, next)
        BY <2>2 DEF Sky2AllowLocal, Sky2AllowDrivers
      <3> QED BY <1>0, <1>1, <1>2, <3>1, <3>2, SettlingChanges
    <2> QED BY <1>6, <2>1, <2>2 DEF Sky2Step, Creating
  <1>7. CASE AwsDatabaseStep
    <2>1. CASE AuroraCluster \/ AuroraWait \/ AuroraInstanceWait \/ RdsCreate \/ RdsWait \/ RdsDeleting
      BY <1>2, <2>1 DEF AuroraCluster, AuroraWait, AuroraInstanceWait, RdsCreate, RdsWait,
         RdsDeleting, Only, Creating
    <2>2. CASE AuroraInstance
      BY <1>0, <1>1, <2>2, SettlingChanges DEF AuroraInstance
    <2>3. CASE AuroraDeleting
      <3>1. svc' = svc \/ (svc[ses.id].inst = "deleting" /\ svc' = [svc EXCEPT ![ses.id].st = "deleting"])
        BY <2>3 DEF AuroraDeleting
      <3>2. svc[ses.id].inst = "deleting" /\ ses.id \in Services => svc[ses.id].st # "gone"
        BY DEF ManagedInv, StateInv, InstancesLive
      <3> QED BY <1>0, <1>1, <1>2, <3>1, <3>2, SettlingChanges
    <2> QED BY <1>7, <2>1, <2>2, <2>3 DEF AwsDatabaseStep
  <1>8. CASE AlloyStep
    <2>1. CASE AlloyCluster \/ AlloyWait \/ AlloyPrimaryWait
      BY <1>2, <2>1 DEF AlloyCluster, AlloyWait, AlloyPrimaryWait, Only, Creating
    <2>2. CASE AlloyPrimary
      BY <1>0, <1>1, <2>2, SettlingChanges DEF AlloyPrimary
    <2> QED BY <1>8, <2>1, <2>2 DEF AlloyStep
  <1>9. CASE MachineStep \/ Configure \/ AllocateEnv \/ SaveEnv \/ AllocateDone \/ Install \/ CleanDone \/ StartSave
    BY <1>2, <1>9 DEF MachineStep, LaunchMachine, LaunchReturnsNone, LaunchDisk, Configure, AllocateEnv,
       SaveEnv, AllocateDone, Install, CleanDone, StartSave, Only
  <1>10. CASE StopEnv \/ StartEnv
    <2>1. \/ svc' = svc
          \/ kind = "skysql2" /\ (Sky2Power(file[ses.c].db, "stopped") \/ Sky2Power(file[ses.c].db, "busy"))
      BY <1>10 DEF StopEnv, StartEnv
    <2> QED BY <1>0, <1>1, <1>2, <2>1, SettlingChanges
  <1>11. CASE CleanEnv
    <2>1. CASE svc' = svc
      BY <1>2, <2>1
    <2>2. CASE svc' # svc
      <3>1. PICK d : d = file[ses.c].db
        OBVIOUS
      <3>2. d # 0 /\ Terminate(d)
        BY <1>11, <2>2, <3>1 DEF CleanEnv
      <3>3. d \in Services
        BY <1>0, <3>1, <3>2, SMTT(30) DEF ManagedInv, StateInv, StateTypes, FileRecords, Services
      <3>4. /\ svc[d].st # "gone"
            /\ \/ svc' = [svc EXCEPT ![d].st = "deleting"]
               \/ svc' = [svc EXCEPT ![d].st = "deleting", ![d].inst = "none"]
               \/ svc' = [svc EXCEPT ![d].inst = "deleting"]
        BY <1>0, <2>2, <3>2, <3>3 DEF Terminate, Kinds, SkyTerminate, Sky2Terminate, Rejected,
           AuroraTerminate, RdsTerminate, AlloyTerminate, ManagedInv, StateInv, InstancesLive,
           ServiceRecords, InstanceStates
      <3> QED BY <1>0, <1>1, <3>1, <3>4, SettlingChanges
    <2> QED BY <2>1, <2>2
  <1> QED
    BY <1>3, <1>4, <1>5, <1>6, <1>7, <1>8, <1>9, <1>10, <1>11 DEF Next, Steps

\* What was not seen stays so; only the two steps that do not see add to it.
LEMMA BlindGrows ==
    ASSUME [Next]_vars
    PROVE  blind \subseteq blind' /\ (blind' # blind => SkyLookupRejected \/ Sky2CreateTwice)
  <1> USE DEF Only
  <1>1. CASE UNCHANGED vars \/ Raises \/ Provider
    BY <1>1 DEF vars, Raises, Provider, ServiceMoves, InstanceMoves
  <1>2. CASE Commands
    BY <1>2 DEF Commands, Provision, Allocate, InstallAlone, Clean, Stop, Start, Nuke
  <1>3. CASE SkyStep \/ Sky2Step
    BY <1>3 DEF SkyStep, SkyLookup, SkyLookupRejected, SkyNotOffered, SkyCreate, SkyStatus,
       SkyHasIp, SkyAllow, SkyConnect, Sky2Step, Sky2NotOffered, Sky2Lookup, Sky2Create,
       Sky2CreateTwice, Sky2Ready, Sky2AllowLocal, Sky2AllowDrivers, Sky2Connect
  <1>4. CASE AwsDatabaseStep \/ AlloyStep
    BY <1>4 DEF AwsDatabaseStep, AuroraCluster, AuroraWait, AuroraInstance, AuroraInstanceWait,
       AuroraDeleting, RdsCreate, RdsWait, RdsDeleting, AlloyStep, AlloyCluster, AlloyWait,
       AlloyPrimary, AlloyPrimaryWait
  <1>5. CASE MachineStep \/ Configure \/ AllocateEnv \/ SaveEnv \/ AllocateDone \/ Install
    BY <1>5 DEF MachineStep, LaunchMachine, LaunchReturnsNone, LaunchDisk, Configure, AllocateEnv,
       SaveEnv, AllocateDone, Install
  <1>6. CASE CleanEnv \/ CleanDone \/ StopEnv \/ StartEnv \/ StartSave
    BY <1>6 DEF CleanEnv, CleanDone, StopEnv, StartEnv, StartSave
  <1> QED BY <1>1, <1>2, <1>3, <1>4, <1>5, <1>6 DEF Next, Steps

\* Every step leaves at most one service of a name.
LEMMA UniqueStep ==
    ASSUME ManagedInv, OneServiceInv, [Next]_vars
    PROVE  Unique'
  <1>0. UNCHANGED rigid /\ blind \subseteq blind'
    BY StepsAreRigid, BlindGrows
  <1>1. CASE ~Creating
    BY <1>0, <1>1, SettlingStep, SettledKeeps DEF OneServiceInv
  <1>2. ASSUME Named(ses.c) = {} PROVE NoneYet(ses.c)
    BY <1>2 DEF Named, NoneYet, Counted
  <1>3. CASE Creating /\ ~Sky2CreateTwice
    <2>1. /\ NewId \in Unused /\ svc' = Create(NewId) /\ UNCHANGED blind
          /\ Named(ses.c) = {} \/ ses.pc \in {"sky_create", "sky2_create"}
      BY <1>3 DEF Creating, SkyCreate, Sky2Create, AuroraCluster, RdsCreate, AlloyCluster, Only
    <2>2. NoneYet(ses.c)
      BY <1>2, <2>1 DEF OneServiceInv, LookedUp
    <2>3. PICK n \in Unused : svc' = Create(n)
      BY <2>1
    <2> QED BY <1>0, <2>1, <2>2, <2>3, CreatedAlone DEF OneServiceInv
  <1>4. CASE Sky2CreateTwice
    <2>1. /\ ses.c \in blind' /\ ses.c \in Clusters /\ svc \in [Services -> ServiceRecords]
          /\ {NewId, NewId + 1} \subseteq Services
          /\ svc' = [Create(NewId) EXCEPT ![NewId + 1].by = ses.c, ![NewId + 1].st = "creating"]
      BY <1>4 DEF Sky2CreateTwice, ManagedInv, SessionInv, SessionRecords, StateInv, StateTypes, Unused
    <2>2. PICK n \in Services : n = NewId
      BY <2>1
    <2>3. /\ n + 1 \in Services /\ n # n + 1
          /\ svc' = [[svc EXCEPT ![n].by = ses.c, ![n].st = "creating"]
                        EXCEPT ![n + 1].by = ses.c, ![n + 1].st = "creating"]
      BY <2>1, <2>2 DEF Create, Services
    <2>4. svc'[n].by = ses.c /\ svc'[n + 1].by = ses.c /\ \A i \in Services \ {n, n + 1} : svc'[i] = svc[i]
      BY <2>1, <2>2, <2>3 DEF ServiceRecords
    <2>5. \A c : SameName(ses.c, c) => Blinded(c)'
      BY <1>0, <2>1 DEF Blinded, SameName, rigid
    <2>6. \A c : Blinded(c) => Blinded(c)'
      BY <1>0 DEF Blinded, SameName, rigid
    <2>7. \A c, d : SameName(c, d)' <=> SameName(c, d)
      BY <1>0 DEF SameName, rigid
    <2>8. \A i \in Services \ {n, n + 1} : (Counted(i)' <=> Counted(i)) /\ svc'[i].by = svc[i].by
      BY <1>0, <2>4 DEF Counted, Live, rigid
    <2>9. ASSUME NEW c \in Clusters, ~Blinded(c)', NEW i \in Services, NEW j \in Services,
                 Counted(i)', Counted(j)', SameName(svc'[i].by, c), SameName(svc'[j].by, c)
          PROVE  i = j
      <3>1. ~SameName(ses.c, c)
        BY <2>5, <2>9
      <3>2. {i, j} \cap {n, n + 1} = {}
        BY <2>4, <2>9, <3>1
      <3>3. /\ ~Blinded(c) /\ Counted(i) /\ Counted(j)
            /\ SameName(svc[i].by, c) /\ SameName(svc[j].by, c)
        BY <2>6, <2>8, <2>9, <3>2
      <3> QED BY <3>3 DEF OneServiceInv, Unique
    <2> QED BY <1>0, <2>9 DEF Unique, SameName, rigid
  <1> QED BY <1>1, <1>3, <1>4

\* A command comes to the creation of a service only from its search.
LEMMA FromLookup ==
    ASSUME ManagedInv, [Next]_vars, ses'.pc \in {"sky_create", "sky2_create"}
    PROVE  \/ SkyLookup \/ SkyLookupRejected \/ Sky2Lookup
           \/ ses'.pc = ses.pc /\ ses'.c = ses.c /\ ~Creating
  <1>0. ses \in SessionRecords /\ ses'.pc # "idle"
    BY DEF ManagedInv, SessionInv
  <1>1. ~Over
    BY <1>0, Defaults DEF Over
  <1>2. CASE UNCHANGED vars \/ Provider
    BY <1>0, <1>2 DEF vars, Provider, ServiceMoves, InstanceMoves, Creating, SkyCreate, Sky2Create,
       Sky2CreateTwice, AuroraCluster, RdsCreate, AlloyCluster, GotoWith, SessionRecords
  <1>3. Commands => ses' = ses /\ ses.pc = "idle"
    BY <1>0, Defaults, ZenonT(60) DEF Commands, Provision, Allocate, InstallAlone, Clean, Stop, Start, Nuke, Begin, SessionRecords
  <1>4. ~Raises
    BY <1>1 DEF Raises
  <1>5. Poll => ses'.pc = ses.pc /\ ses'.c = ses.c
    BY <1>0, <1>1 DEF Poll, Over, SessionRecords
  <1>6. \A pc, i : Goto(pc) \/ GotoWith(pc, i) \/ NextEnv(pc) => ses'.pc = pc
    BY <1>0 DEF Goto, GotoWith, NextEnv, SessionRecords
  <1>7. ~(SkyNotOffered \/ SkyCreate \/ SkyAllow \/ SkyStatus \/ SkyHasIp \/ SkyConnect)
    BY <1>0, <1>1, <1>5, <1>6 DEF SkyNotOffered, SkyCreate, SkyAllow, SkyStatus, SkyHasIp, SkyConnect, SessionRecords
  <1>8. ~(Sky2NotOffered \/ Sky2Create \/ Sky2CreateTwice \/ Sky2AllowLocal \/ Sky2AllowDrivers \/ Sky2Connect)
    BY <1>1, <1>6 DEF Sky2NotOffered, Sky2Create, Sky2CreateTwice, Sky2AllowLocal, Sky2AllowDrivers,
       Sky2Connect, Allow
  <1>9. ~Sky2Ready
    <2>1. ASSUME Sky2Ready
          PROVE  /\ ses.pc \in {"sky2_ready", "sky2_ready_local", "sky2_ready_drivers"}
                 /\ AfterReady[ses.pc] \in {"sky2_local", "sky2_drivers", "sky2_connect"}
      BY <2>1 DEF Sky2Ready, AfterReady
    <2> QED BY <1>1, <1>5, <1>6, <2>1 DEF Sky2Ready
  <1>10. ~AwsDatabaseStep
    BY <1>1, <1>5, <1>6 DEF AwsDatabaseStep, AuroraCluster, AuroraWait, AuroraInstance,
       AuroraInstanceWait, AuroraDeleting, RdsCreate, RdsWait, RdsDeleting
  <1>11. ~AlloyStep
    BY <1>1, <1>5, <1>6 DEF AlloyStep, AlloyCluster, AlloyWait, AlloyPrimary, AlloyPrimaryWait
  <1>12. ~(MachineStep \/ Configure \/ SaveEnv \/ AllocateDone \/ Install \/ CleanDone \/ StartSave \/ StopEnv \/ StartEnv)
    BY <1>1, <1>6 DEF MachineStep, LaunchMachine, LaunchReturnsNone, LaunchDisk, Configure,
       SaveEnv, AllocateDone, Install, CleanDone, StartSave, StopEnv, StartEnv, StartMachine
  <1>13. ~AllocateEnv
    <2>1. Entry[kind] \notin {"sky_create", "sky2_create"}
      BY DEF ManagedInv, StateInv, StateTypes, Kinds, Entry
    <2> QED BY <1>1, <1>6, <2>1 DEF AllocateEnv
  <1>14. ~CleanEnv
    <2>1. kind \in Kinds
      BY DEF ManagedInv, StateInv, StateTypes
    <2> QED BY <1>1, <1>6, <2>1 DEF CleanEnv, TerminateMachine, Terminate, Kinds, SkyTerminate, Sky2Terminate,
         AuroraTerminate, RdsTerminate, AlloyTerminate
  <1> QED
    BY <1>0, <1>2, <1>3, <1>4, <1>7, <1>8, <1>9, <1>10, <1>11, <1>12, <1>13, <1>14 DEF Next, Steps, SkyStep, Sky2Step

\* Every name was looked up before it is created.
LEMMA LookedUpStep ==
    ASSUME ManagedInv, OneServiceInv, [Next]_vars
    PROVE  LookedUp'
  <1> SUFFICES ASSUME ses'.pc \in {"sky_create", "sky2_create"}
               PROVE  NoneYet(ses.c)'
    BY DEF LookedUp
  <1>0. /\ ses \in SessionRecords /\ UNCHANGED rigid /\ blind \subseteq blind'
        /\ OnItsCloud
    BY StepsAreRigid, BlindGrows DEF ManagedInv, SessionInv, OneServiceInv
  <1>1. ASSUME svc' = svc PROVE \A i \in Services : Settled(i)
    BY <1>0, <1>1 DEF Settled, Counted, Live, rigid
  <1>2. ASSUME NEW c, c = ses.c, ses'.c = ses.c, NoneYet(c)' PROVE NoneYet(ses.c)'
    BY <1>2 DEF NoneYet, Blinded
  <1>3. CASE ses'.pc = ses.pc /\ ses'.c = ses.c /\ ~Creating
    <2>1. PICK c : c = ses.c /\ NoneYet(c)
      BY <1>3 DEF OneServiceInv, LookedUp
    <2>2. NoneYet(c)'
      BY <1>0, <1>3, <2>1, SettlingStep, SettledKeeps
    <2> QED BY <1>2, <1>3, <2>1, <2>2
  <1>4. CASE SkyLookup \/ Sky2Lookup
    <2>1. svc' = svc /\ (Goto("sky_create") \/ Goto("sky2_create"))
      BY <1>0, <1>4, Defaults DEF SkyLookup, Sky2Lookup, Only, Over, GotoWith, SessionRecords
    <2>2. ses'.c = ses.c
      BY <1>0, <2>1 DEF Goto, SessionRecords
    <2>3. NoneYet(ses.c)
      <3>1. CASE SkyLookup
        <4>1. \A i \in SkyFound(ses.c) : svc[i].st \notin {"available", "creating", "noip", "busy"}
          BY <1>0, <3>1, Defaults DEF SkyLookup, Over, GotoWith, SessionRecords
        <4>2. kind = "skysql"
          BY <1>0, <3>1 DEF SkyLookup, OnItsCloud, SkyPcs
        <4>3. svc \in [Services -> ServiceRecords]
          BY DEF ManagedInv, StateInv, StateTypes
        <4>4. ASSUME ~long, NEW i \in Services, Counted(i), SameName(svc[i].by, ses.c) PROVE FALSE
          <5>1. i \in SkyFound(ses.c)
            BY <4>4 DEF SkyFound, Named, Counted
          <5>2. svc[i].st = "stopped"
            BY <4>1, <4>2, <4>3, <4>4, <5>1 DEF Counted, Live, ServiceRecords, ServiceStates
          <5> QED BY <4>2, <5>2 DEF OneServiceInv, OnlySky2Stops
        <4> QED BY <4>4 DEF NoneYet, Blinded
      <3>2. CASE Sky2Lookup
        <4>1. long \/ Named(ses.c) = {}
          BY <1>0, <3>2 DEF Sky2Lookup, Sky2Found, GotoWith, SessionRecords
        <4> QED BY <4>1 DEF Named, NoneYet, Blinded, Counted
      <3> QED BY <1>4, <3>1, <3>2
    <2>4. PICK c : c = ses.c /\ NoneYet(c)
      BY <2>3
    <2>5. NoneYet(c)'
      BY <1>0, <1>1, <2>1, <2>4, SettledKeeps
    <2> QED BY <1>2, <2>2, <2>4, <2>5
  <1>5. CASE SkyLookupRejected
    <2>1. svc' = svc /\ Goto("sky_create") /\ blind' = IF SkyFound(ses.c) # {} THEN blind \cup {ses.c} ELSE blind
      BY <1>5 DEF SkyLookupRejected
    <2>2. ses'.c = ses.c
      BY <1>0, <2>1 DEF Goto, SessionRecords
    <2>3. CASE SkyFound(ses.c) # {}
      BY <2>1, <2>2, <2>3 DEF NoneYet, Blinded, SameName
    <2>4. CASE SkyFound(ses.c) = {}
      <3>2. PICK c : c = ses.c /\ NoneYet(c)
        BY <2>4 DEF NoneYet, Blinded, Counted, SkyFound, Named
      <3>3. NoneYet(c)'
        BY <1>0, <1>1, <2>1, <3>2, SettledKeeps
      <3> QED BY <1>2, <2>2, <3>2, <3>3
    <2> QED BY <2>3, <2>4
  <1> QED BY <1>3, <1>4, <1>5, FromLookup

\* Only a service of SkySQL 2 is stopped.
LEMMA StopsStep ==
    ASSUME ManagedInv, OneServiceInv, [Next]_vars
    PROVE  OnlySky2Stops'
  <1>0. UNCHANGED rigid /\ blind \subseteq blind' /\ svc \in [Services -> ServiceRecords]
    BY StepsAreRigid, BlindGrows DEF ManagedInv, StateInv, StateTypes
  <1>1. CASE ~Creating
    BY <1>0, <1>1, SettlingStep, SettledKeeps DEF OneServiceInv
  <1>2. CASE Creating
    <2>1. PICK n : svc' = Create(n) \/ \E m : svc' = [Create(n) EXCEPT ![m].by = ses.c, ![m].st = "creating"]
      BY <1>2 DEF Creating, SkyCreate, Sky2Create, Sky2CreateTwice, AuroraCluster, RdsCreate, AlloyCluster
    <2>2. /\ Create(n) \in [Services -> ServiceRecords]
          /\ \A i \in Services : Create(n)[i].st \in {svc[i].st, "creating"}
      BY <1>0, ZenonT(60) DEF Create, ServiceRecords, ServiceStates, ManagedInv, SessionInv, SessionRecords
    <2>3. \A i \in Services : svc'[i].st \in {svc[i].st, "creating"}
      <3> HIDE DEF Create
      <3> QED BY <2>1, <2>2 DEF ServiceRecords
    <2> QED BY <1>0, <2>3 DEF OneServiceInv, OnlySky2Stops, rigid
  <1> QED BY <1>1, <1>2

\* Before the first command there is no service.
LEMMA OneServiceInitially ==
    ASSUME ManagedInit
    PROVE  OneServiceInv
  <1>1. <<kind, order>> \in Deployments /\ long \in BOOLEAN
    <2>1. PICK d \in Deployments : kind = d[1] /\ order = d[2]
      BY DEF ManagedInit
    <2>2. d = <<d[1], d[2]>>
      BY <2>1
    <2>3. long \in BOOLEAN
      BY DEF ManagedInit
    <2> QED BY <2>1, <2>2, <2>3
  <1>2. svc = [i \in Services |-> NoService] /\ ses = Idle /\ blind = {}
    BY DEF ManagedInit
  <1>3. OnItsCloud
    BY <1>1, <1>2, Defaults DEF OnItsCloud, AllocatePcs, DbPcs, SkyPcs, Sky2Pcs, AuroraPcs, RdsPcs, AlloyPcs
  <1>4. \A i \in Services : svc[i].st = "none"
    BY <1>2, Defaults
  <1> QED
    BY <1>2, <1>3, <1>4, Defaults DEF OneServiceInv, Unique, Counted, Live, LookedUp, OnlySky2Stops

\* At most one service is counted.
LEMMA OneCounted ==
    ASSUME OneServiceInv
    PROVE  OneService
  <1> SUFFICES ASSUME NEW c \in Clusters, ~Blinded(c)
               PROVE  Cardinality({i \in Named(c) : svc[i].st \notin {"failed", "deleting"}}) <= 1
    BY DEF OneService, PaidFor, Blinded
  <1> DEFINE S == {i \in Named(c) : svc[i].st \notin {"failed", "deleting"}}
  <1>1. \A i, j \in S : i = j
    BY DEF OneServiceInv, Unique, Named, Counted
  <1>2. CASE S = {}
    BY <1>2, FS_EmptySet
  <1>3. ASSUME NEW i \in S PROVE Cardinality(S) <= 1
    <2>1. S = {i}
      BY <1>1, <1>3
    <2>2. Cardinality({i}) = 1
      BY FS_Singleton
    <2> QED BY <2>1, <2>2
  <1> QED BY <1>2, <1>3

\* provision never pays for a second database of a name (SkySQL, SkySQL 2, Aurora,
\* RDS and AlloyDB alike), after whatever went wrong before, unless a list of
\* databases was refused or the reply to a creation was lost, for any number of
\* clusters, services, polls and commands, as long as names are within SkySQL's
\* limit.
THEOREM PaysForOneService == Spec => []OneService
  <1>1. ManagedInv /\ [Next]_vars => ManagedInv'
    BY ManagedStep
  <1>2. ManagedInv /\ OneServiceInv /\ [Next]_vars => OneServiceInv'
    BY CloudStep, UniqueStep, LookedUpStep, StopsStep DEF OneServiceInv
  <1>3. ManagedInit => ManagedInv /\ OneServiceInv
    BY ManagedInitially, OneServiceInitially
  <1>4. OneServiceInv => OneService
    BY OneCounted
  <1> QED BY <1>1, <1>2, <1>3, <1>4, PTL DEF Spec

(***************************************************************************)
(* What a step does to the allow list of a service, and to one that is up  *)
(***************************************************************************)
Serving(i) ==
    /\ \/ svc'[i].allow \subseteq svc[i].allow
       \/ /\ Sky2AllowDrivers /\ file[ses.c].id # 0
          /\ svc'[i].allow = svc[i].allow \cup {file[ses.c].addr}
    /\ svc'[i].st # "gone" => svc[i].allow \subseteq svc'[i].allow
    /\ Up(i) => Up(i)' \/ ses.pc \in {"clean", "stop", "aurora_deleting"}

\* The forms of change.
LEMMA ServingChanges ==
    ASSUME ManagedInv, NEW i \in Services, NEW n
    PROVE  /\ svc' = svc => Serving(i)
           /\ (n \in Services => svc[n].st = "none") /\ svc' = Create(n) => Serving(i)
           /\ \A inst : svc' = [svc EXCEPT ![n].inst = inst] => Serving(i)
           /\ \A st, inst : ses.pc \in {"clean", "stop", "aurora_deleting"} /\
                (svc' = [svc EXCEPT ![n].st = st] \/ svc' = [svc EXCEPT ![n].st = st, ![n].inst = inst])
                => Serving(i)
           /\ svc' = [svc EXCEPT ![n].st = "busy"] => Serving(i)
  <1>0. svc \in [Services -> ServiceRecords]
    BY DEF ManagedInv, StateInv, StateTypes
  <1>1. svc' = svc => Serving(i)
    BY DEF Serving, Up
  <1>2. ASSUME n \in Services => svc[n].st = "none", svc' = Create(n) PROVE Serving(i)
    BY <1>0, <1>2 DEF Create, Serving, Up, ServiceRecords
  <1>3. ASSUME NEW inst, svc' = [svc EXCEPT ![n].inst = inst] PROVE Serving(i)
    BY <1>0, <1>3 DEF Serving, Up, ServiceRecords
  <1>4. ASSUME NEW st, NEW inst, ses.pc \in {"clean", "stop", "aurora_deleting"},
               svc' = [svc EXCEPT ![n].st = st] \/ svc' = [svc EXCEPT ![n].st = st, ![n].inst = inst]
        PROVE  Serving(i)
    BY <1>0, <1>4 DEF Serving, ServiceRecords
  <1>5. svc' = [svc EXCEPT ![n].st = "busy"] => Serving(i)
    BY <1>0 DEF Serving, Up, ServiceRecords
  <1> QED BY <1>1, <1>2, <1>3, <1>4, <1>5

\* Every step is one of them.
LEMMA ServingStep ==
    ASSUME ManagedInv, [Next]_vars, NEW i \in Services
    PROVE  Serving(i)
  <1>0. /\ svc \in [Services -> ServiceRecords] /\ ses.c \in Clusters /\ kind \in Kinds
        /\ ses.id \in 0..MaxServices
    BY DEF ManagedInv, StateInv, StateTypes, SessionInv, SessionRecords
  <1>1. svc' = svc => Serving(i)
    BY ServingChanges
  <1>2. CASE UNCHANGED vars \/ Raises \/ Commands
    BY <1>1, <1>2 DEF vars, Raises, Only, Commands, Provision, Allocate, InstallAlone, Clean, Stop, Start, Nuke
  <1>3. CASE Provider
    <2>1. ASSUME NEW j \in Services, ServiceMoves(j) PROVE Serving(i)
      <3>1. PICK s \in DOMAIN Becomes : s = svc[j].st
        BY <2>1 DEF ServiceMoves
      <3>2. PICK st \in Becomes[s] :
               svc' = [svc EXCEPT ![j] = IF st = "gone" THEN [NoService EXCEPT !.st = st]
                                         ELSE [@ EXCEPT !.st = st]]
        BY <2>1, <3>1 DEF ServiceMoves
      <3>3. /\ s \in {"creating", "noip", "busy", "deleting"} /\ (st = "gone" => s = "deleting")
            /\ s = "busy" => st = "available"
        BY <3>1, <3>2, BecomesWhat DEF Becomes
      <3>4. CASE st = "gone"
        <4>1. PICK r : r = [NoService EXCEPT !.st = st]
          OBVIOUS
        <4>2. r.st = "gone" /\ r.allow = {}
          BY <3>4, <4>1 DEF NoService
        <4>3. svc' = [svc EXCEPT ![j] = r]
          BY <3>2, <3>4, <4>1
        <4> QED BY <1>0, <3>1, <3>3, <3>4, <4>2, <4>3 DEF Serving, Up
      <3>5. CASE st # "gone"
        <4>1. svc' = [svc EXCEPT ![j].st = st]
          BY <1>0, <3>2, <3>5
        <4> QED BY <1>0, <3>1, <3>3, <3>5, <4>1 DEF Serving, Up, ServiceRecords
      <3> QED BY <3>4, <3>5
    <2>2. ASSUME NEW j \in Services, InstanceMoves(j) PROVE Serving(i)
      <3>1. \E inst : svc' = [svc EXCEPT ![j].inst = inst]
        BY <1>0, <2>2 DEF InstanceMoves
      <3> QED BY <3>1, ServingChanges
    <2> QED BY <1>3, <2>1, <2>2 DEF Provider
  <1>4. CASE SkyStep
    <2>1. CASE SkyCreate
      BY <2>1, ServingChanges DEF SkyCreate, Unused
    <2> QED BY <1>1, <1>4, <2>1 DEF SkyStep, SkyLookup, SkyLookupRejected, SkyNotOffered, SkyStatus,
         SkyHasIp, SkyAllow, SkyConnect, Only
  <1>5. CASE Sky2Step
    <2>1. CASE Sky2NotOffered \/ Sky2Lookup \/ Sky2Ready \/ Sky2Connect
      BY <1>1, <2>1 DEF Sky2NotOffered, Sky2Lookup, Sky2Ready, Sky2Connect, Only
    <2>2. CASE Sky2Create
      BY <2>2, ServingChanges DEF Sky2Create, Unused
    <2>3. CASE Sky2CreateTwice
      <3>1. PICK n \in Services : n = NewId
        BY <2>3 DEF Sky2CreateTwice, Unused
      <3>2. /\ n + 1 \in Services /\ svc[n].st = "none" /\ svc[n + 1].st = "none" /\ n # n + 1
            /\ svc' = [[svc EXCEPT ![n].by = ses.c, ![n].st = "creating"]
                          EXCEPT ![n + 1].by = ses.c, ![n + 1].st = "creating"]
        BY <2>3, <3>1 DEF Sky2CreateTwice, Unused, Create, Services
      <3> QED BY <1>0, <3>1, <3>2 DEF Serving, Up, ServiceRecords
    <2>4. ASSUME NEW a, \/ svc' = svc
                        \/ svc' = [svc EXCEPT ![ses.id].allow = @ \cup a, ![ses.id].st = "busy"],
                 a = {} \/ (Sky2AllowDrivers /\ file[ses.c].id # 0 /\ a = {file[ses.c].addr})
          PROVE  Serving(i)
      <3>1. CASE svc' = svc
        BY <1>1, <3>1
      <3>2. CASE i # ses.id
        BY <1>0, <2>4, <3>1, <3>2 DEF Serving, Up
      <3>3. CASE i = ses.id /\ svc' # svc
        <4>1. svc'[i].allow = svc[i].allow \cup a /\ svc'[i].st = "busy"
          BY <1>0, <2>4, <3>3 DEF ServiceRecords
        <4> QED BY <2>4, <4>1 DEF Serving, Up
      <3> QED BY <3>1, <3>2, <3>3
    <2>5. CASE Sky2AllowLocal
      BY <2>4, <2>5 DEF Sky2AllowLocal, Allow
    <2>6. CASE Sky2AllowDrivers
      <3>1. CASE file[ses.c].id = 0
        BY <1>1, <2>6, <3>1 DEF Sky2AllowDrivers
      <3>2. CASE file[ses.c].id # 0
        <4>1. \/ svc' = svc
              \/ svc' = [svc EXCEPT ![ses.id].allow = @ \cup {file[ses.c].addr}, ![ses.id].st = "busy"]
          BY <2>6, <3>2 DEF Sky2AllowDrivers, Allow
        <4> QED BY <2>4, <2>6, <3>2, <4>1
      <3> QED BY <3>1, <3>2
    <2> QED BY <1>5, <2>1, <2>2, <2>3, <2>5, <2>6 DEF Sky2Step
  <1>6. CASE AwsDatabaseStep
    <2>1. CASE AuroraWait \/ AuroraInstanceWait \/ RdsWait \/ RdsDeleting
      BY <1>1, <2>1 DEF AuroraWait, AuroraInstanceWait, RdsWait, RdsDeleting, Only
    <2>2. CASE AuroraCluster \/ RdsCreate
      BY <1>1, <2>2, ServingChanges DEF AuroraCluster, RdsCreate, Unused
    <2>3. CASE AuroraInstance
      BY <2>3, ServingChanges DEF AuroraInstance
    <2>4. CASE AuroraDeleting
      BY <1>1, <2>4, ServingChanges DEF AuroraDeleting
    <2> QED BY <1>6, <2>1, <2>2, <2>3, <2>4 DEF AwsDatabaseStep
  <1>7. CASE AlloyStep
    BY <1>1, <1>7, ServingChanges DEF AlloyStep, AlloyCluster, AlloyWait, AlloyPrimary, AlloyPrimaryWait, Only, Unused
  <1>8. CASE MachineStep \/ Configure \/ AllocateEnv \/ SaveEnv \/ AllocateDone \/ Install \/ CleanDone \/ StartSave
    BY <1>1, <1>8 DEF MachineStep, LaunchMachine, LaunchReturnsNone, LaunchDisk, Configure, AllocateEnv,
       SaveEnv, AllocateDone, Install, CleanDone, StartSave, Only
  <1>9. CASE StopEnv \/ StartEnv
    BY <1>1, <1>9, ServingChanges DEF StopEnv, StartEnv, Sky2Power
  <1>10. CASE CleanEnv
    <2>1. ses.pc = "clean"
      BY <1>10 DEF CleanEnv
    <2>2. PICK d : \/ svc' = svc
                   \/ svc' = [svc EXCEPT ![d].st = "deleting"]
                   \/ svc' = [svc EXCEPT ![d].st = "deleting", ![d].inst = "none"]
                   \/ svc' = [svc EXCEPT ![d].inst = "deleting"]
      BY <1>0, <1>10 DEF CleanEnv, Terminate, Kinds, SkyTerminate, Sky2Terminate,
         AuroraTerminate, RdsTerminate, AlloyTerminate
    <2> QED BY <1>1, <2>1, <2>2, ServingChanges
  <1> QED
    BY <1>2, <1>3, <1>4, <1>5, <1>6, <1>7, <1>8, <1>9, <1>10 DEF Next, Steps

\* Where a step of a managed cloud leads
LEMMA DatabaseGoesOn ==
    ASSUME ManagedInv, SkyStep \/ Sky2Step \/ AwsDatabaseStep \/ AlloyStep
    PROVE  /\ UNCHANGED <<rigid, machines, file>>
           /\ \/ Over
              \/ /\ ses'.c = ses.c /\ ses'.cmd = ses.cmd
                 /\ \/ ses'.ix = ses.ix /\ ses.pc \in DbPcs /\ ses'.pc \in DbPcs \cup {"save"}
                    \/ /\ ses.pc \in {"aurora_deleting", "rds_deleting"}
                       /\ ses'.pc \in {"clean", "aurora_deleting", "rds_deleting"}
  <1>0. ses \in SessionRecords
    BY DEF ManagedInv, SessionInv
  <1>1. UNCHANGED <<rigid, machines, file>>
    BY DEF SkyStep, SkyLookup, SkyLookupRejected, SkyNotOffered, SkyCreate, SkyStatus,
       SkyHasIp, SkyAllow, SkyConnect, Sky2Step, Sky2NotOffered, Sky2Lookup, Sky2Create,
       Sky2CreateTwice, Sky2Ready, Sky2AllowLocal, Sky2AllowDrivers, Sky2Connect,
       AwsDatabaseStep, AuroraCluster, AuroraWait, AuroraInstance, AuroraInstanceWait,
       AuroraDeleting, RdsCreate, RdsWait, RdsDeleting, AlloyStep, AlloyCluster, AlloyWait,
       AlloyPrimary, AlloyPrimaryWait, Only
  <1> DEFINE Same(pc) == ses'.c = ses.c /\ ses'.cmd = ses.cmd /\ ses'.ix = ses.ix /\ ses'.pc = pc
             Next1 == ses'.c = ses.c /\ ses'.cmd = ses.cmd /\ ses'.pc = "clean"
  <1>2. \A pc, i : Goto(pc) \/ GotoWith(pc, i) \/ ses' = [ses EXCEPT !.pc = pc] => Same(pc)
    BY <1>0 DEF Goto, GotoWith, SessionRecords
  <1>3. Poll => Over \/ Same(ses.pc)
    BY <1>0 DEF Poll, Over, SessionRecords
  <1>4. NextEnv("clean") => Next1
    BY <1>0 DEF NextEnv, SessionRecords
  <1> HIDE DEF Same, Next1
  <1>5. SkyStep => Over \/ (ses.pc \in SkyPcs /\ \E pc \in SkyPcs \cup {"save"} : Same(pc))
    BY <1>2, <1>3 DEF SkyStep, SkyLookup, SkyLookupRejected, SkyNotOffered, SkyCreate, SkyStatus,
       SkyHasIp, SkyAllow, SkyConnect, SkyPcs
  <1>6. Sky2Step => Over \/ (ses.pc \in Sky2Pcs /\ \E pc \in Sky2Pcs \cup {"save"} : Same(pc))
    <2>1. ASSUME Sky2Ready
          PROVE  ses.pc \in Sky2Pcs /\ AfterReady[ses.pc] \in Sky2Pcs
      BY <2>1 DEF Sky2Ready, AfterReady, Sky2Pcs
    <2>2. Sky2Ready => Over \/ (ses.pc \in Sky2Pcs /\ \E pc \in Sky2Pcs \cup {"save"} : Same(pc))
      BY <1>2, <1>3, <2>1 DEF Sky2Ready
    <2> QED BY <1>2, <2>2 DEF Sky2Step, Sky2NotOffered, Sky2Lookup, Sky2Create,
         Sky2CreateTwice, Sky2AllowLocal, Sky2AllowDrivers, Allow, Sky2Connect, Sky2Pcs
  <1>7. AwsDatabaseStep =>
          \/ Over \/ (ses.pc \in AuroraPcs \cup RdsPcs /\ \E pc \in AuroraPcs \cup RdsPcs \cup {"save"} : Same(pc))
          \/ ses.pc \in {"aurora_deleting", "rds_deleting"} /\ Next1
    BY <1>2, <1>3, <1>4 DEF AwsDatabaseStep, AuroraCluster, AuroraWait, AuroraInstance, AuroraInstanceWait,
       AuroraDeleting, RdsCreate, RdsWait, RdsDeleting, AuroraPcs, RdsPcs
  <1>8. AlloyStep => Over \/ (ses.pc \in AlloyPcs /\ \E pc \in AlloyPcs \cup {"save"} : Same(pc))
    BY <1>2, <1>3 DEF AlloyStep, AlloyCluster, AlloyWait, AlloyPrimary, AlloyPrimaryWait, AlloyPcs
  <1> QED BY <1>1, <1>5, <1>6, <1>7, <1>8 DEF Same, Next1, DbPcs

(***************************************************************************)
(* Bounds                                                                  *)
(***************************************************************************)
\* What a step does not touch, and a command that is over, keep the bounds.
LEMMA BoundsKept ==
    ASSUME ManagedInv, BoundsInv, [Next]_vars, UNCHANGED <<rigid, machines, file>>, ~Sky2AllowDrivers,
           \/ ses' = Idle
           \/ /\ ses'.c = ses.c /\ ses'.ix = ses.ix /\ ses'.pc = ses.pc
           \/ /\ ses'.c = ses.c /\ ses'.ix = ses.ix /\ ses.pc \in {"allocate"} \cup DbPcs
              /\ ses'.pc \in {"vm", "save"} \cup DbPcs
              /\ ses'.pc = "save" => order[ses.ix] = "db"
           \/ ses'.pc \in {"clean", "aurora_deleting", "rds_deleting", "install", "stop"}
    PROVE  BoundsInv'
  <1> USE DEF BoundsInv
  <1>0. \A i \in Services : svc'[i].allow \subseteq 1..MaxBoots
    BY ServingStep DEF Serving, Addresses
  <1>1. /\ vm' = vm /\ boots' = boots /\ file' = file /\ order' = order
    BY DEF rigid, machines
  <1>2. CASE ses' = Idle
    BY <1>0, <1>1, <1>2, Defaults DEF BootLeft, DriverAhead, EnvsLeft, Addresses, AllocatePcs
  <1>3. CASE /\ ses'.c = ses.c /\ ses'.ix = ses.ix /\ ses'.pc = ses.pc
    BY <1>0, <1>1, <1>3 DEF BootLeft, DriverAhead, EnvsLeft, Addresses
  <1>4. CASE ses'.pc \in {"clean", "aurora_deleting", "rds_deleting", "install", "stop"}
    BY <1>0, <1>1, <1>4 DEF BootLeft, DriverAhead, EnvsLeft, Addresses, AllocatePcs
  <1>5. CASE /\ ses'.c = ses.c /\ ses'.ix = ses.ix /\ ses.pc \in {"allocate"} \cup DbPcs
             /\ ses'.pc \in {"vm", "save"} \cup DbPcs
             /\ ses'.pc = "save" => order[ses.ix] = "db"
    <2>1. /\ DbPcs \subseteq AllocatePcs
          /\ \A p \in DbPcs : p \notin {"configure", "start", "disk", "start_save", "save"}
      BY DEF DbPcs, SkyPcs, Sky2Pcs, AuroraPcs, RdsPcs, AlloyPcs, AllocatePcs
    <2>2. "vm" \in AllocatePcs /\ "save" \in AllocatePcs
      BY DEF AllocatePcs
    <2>3. DriverAhead' => DriverAhead
      BY <1>1, <1>5, <2>1, <2>2 DEF DriverAhead
    <2>4. BootLeft' /\ EnvsLeft'
      BY <1>1, <1>5, <2>1, <2>2, <2>3 DEF BootLeft, EnvsLeft
    <2>5. Addresses'
      BY <1>0, <1>1, <1>5, <2>1 DEF Addresses
    <2> QED BY <2>4, <2>5
  <1> QED BY <1>2, <1>3, <1>4, <1>5

\* The steps of the managed clouds.
LEMMA DatabaseBounds ==
    ASSUME ManagedInv, OnItsCloud, BoundsInv, [Next]_vars,
           SkyStep \/ Sky2Step \/ AwsDatabaseStep \/ AlloyStep
    PROVE  BoundsInv'
  <1>1. CASE ~Sky2AllowDrivers
    BY <1>1, DatabaseGoesOn, BoundsKept DEF Over, OnItsCloud
  <1>2. CASE Sky2AllowDrivers
    <2>0. /\ ses.c \in Clusters /\ ses.pc = "sky2_drivers" /\ file \in [Clusters -> FileRecords]
          /\ "sky2_drivers" \in DbPcs
      BY <1>2 DEF ManagedInv, StateInv, StateTypes, SessionInv, SessionRecords, Sky2AllowDrivers,
         DbPcs, Sky2Pcs
    <2>1. \A i \in Services : svc'[i].allow \subseteq 1..MaxBoots
      <3>1. file[ses.c].id # 0 => file[ses.c].addr \in 1..MaxBoots
        BY <2>0 DEF BoundsInv, Addresses
      <3> QED BY <3>1, ServingStep DEF Serving, BoundsInv, Addresses
    <2>2. UNCHANGED <<rigid, machines, file>> /\ (Over \/ Goto("sky2_ready_drivers"))
      BY <1>2 DEF Sky2AllowDrivers, Allow, Only
    <2>3. ses'.pc = "idle" \/ (ses'.c = ses.c /\ ses'.ix = ses.ix /\ ses'.pc = "sky2_ready_drivers")
      BY <2>2, Defaults DEF Over, Goto, ManagedInv, SessionInv, SessionRecords
    <2>4. vm' = vm /\ boots' = boots /\ file' = file /\ order' = order
      BY <2>2 DEF rigid, machines
    <2>5. ses.pc \in AllocatePcs /\ "sky2_ready_drivers" \in AllocatePcs /\ "idle" \notin AllocatePcs
      BY <2>0 DEF AllocatePcs
    <2>6. BootLeft' /\ EnvsLeft'
      BY <2>0, <2>3, <2>4, <2>5 DEF BoundsInv, BootLeft, DriverAhead, EnvsLeft
    <2>7. Addresses'
      BY <2>1, <2>3, <2>4 DEF BoundsInv, Addresses
    <2> QED BY <2>6, <2>7 DEF BoundsInv
  <1> QED BY <1>1, <1>2

\* The commands begin within the bounds.
LEMMA CommandBounds ==
    ASSUME ManagedInv, BoundsInv, [Next]_vars, Commands
    PROVE  BoundsInv'
  <1> USE DEF BoundsInv
  <1>0. /\ svc \in [Services -> ServiceRecords] /\ boots \in Nat
        /\ vm \in [Clusters -> MachineRecords] /\ file \in [Clusters -> FileRecords]
        /\ ses \in SessionRecords
    BY DEF ManagedInv, StateInv, StateTypes, SessionInv
  <1>1. PICK c \in Clusters :
            \/ Provision(c) \/ Allocate(c) \/ InstallAlone(c)
            \/ Clean(c) \/ Stop(c) \/ Start(c)
            \/ \E env \in {"driver", "db"} : Nuke(c, env)
    BY DEF Commands
  <1>2. svc' = svc /\ order' = order
    BY <1>1 DEF Provision, Allocate, InstallAlone, Clean, Stop, Start, Nuke, Only, rigid
  <1>3. \A cmd, pc : Begin(c, cmd, pc) => ses'.c = c /\ ses'.pc = pc /\ ses'.ix = 1
    BY Defaults DEF Begin, SessionRecords
  <1>4. CASE Provision(c)
    <2>1. /\ vm' = vm /\ boots' = boots /\ file' = file /\ boots < MaxBoots /\ 2 <= MaxEnvs
          /\ ses'.pc = "configure"
      BY <1>3, <1>4 DEF Provision, RoomLeft, Only, machines
    <2> QED BY <1>2, <2>1 DEF BootLeft, EnvsLeft, Addresses, AllocatePcs
  <1>5. CASE Allocate(c)
    <2>1. /\ vm' = vm /\ boots' = boots /\ file' = file /\ boots < MaxBoots
          /\ Len(file[c].envs) + 2 <= MaxEnvs
          /\ ses'.pc = "allocate" /\ ses'.c = c /\ ses'.ix = 1
      BY <1>3, <1>5 DEF Allocate, RoomLeft, Only, machines
    <2>2. Len(file[c].envs) + 3 - 1 = Len(file[c].envs) + 2
      BY <1>0 DEF FileRecords
    <2> QED BY <1>2, <2>1, <2>2 DEF BootLeft, EnvsLeft, Addresses, AllocatePcs
  <1>6. CASE InstallAlone(c) \/ Clean(c)
    <2>1. /\ vm' = vm /\ boots' = boots /\ file' = file /\ ses'.pc \in {"install", "clean"}
      BY <1>3, <1>6 DEF InstallAlone, Clean, Only, machines
    <2> QED BY <1>2, <2>1 DEF BootLeft, DriverAhead, EnvsLeft, Addresses, AllocatePcs
  <1>7. CASE Start(c)
    <2>1. /\ vm' = vm /\ boots' = boots /\ file' = file /\ ses'.pc = "start" /\ boots < MaxBoots
      BY <1>3, <1>7 DEF Start, machines
    <2> QED BY <1>2, <2>1 DEF BootLeft, DriverAhead, EnvsLeft, Addresses, AllocatePcs
  <1>8. CASE Stop(c)
    <2>1. /\ vm' = vm /\ boots' = boots /\ file' = [file EXCEPT ![c].state = "down"] /\ ses'.pc = "stop"
      BY <1>3, <1>8 DEF Stop, machines
    <2>2. \A d \in Clusters : /\ file'[d].envs = file[d].envs /\ file'[d].id = file[d].id
                              /\ file'[d].addr = file[d].addr
      BY <1>0, <2>1 DEF FileRecords
    <2> QED BY <1>2, <2>1, <2>2 DEF BootLeft, DriverAhead, EnvsLeft, Addresses, AllocatePcs
  <1>9. CASE \E env \in {"driver", "db"} : Nuke(c, env)
    <2>1. /\ boots' = boots /\ ses' = ses /\ ses.pc = "idle"
          /\ file' = file \/ file' = [file EXCEPT ![c] = NoFile]
          /\ vm' = vm \/ vm' = [vm EXCEPT ![c] = [NoMachine EXCEPT !.stray = vm[c].stray]]
      BY <1>9 DEF Nuke, NukeMachine, Delete, machines
    <2>2. \A d \in Clusters :
            \/ vm'[d] = vm[d]
            \/ vm'[d].id = 0 /\ vm'[d].addr = 0 /\ vm'[d].st = "none"
      BY <1>0, <2>1 DEF NoMachine
    <2>3. \A d \in Clusters :
            \/ file'[d] = file[d]
            \/ file'[d].id = 0 /\ file'[d].addr = 0 /\ file'[d].envs = <<>>
      BY <1>0, <2>1 DEF NoFile
    <2>4. BootLeft' /\ EnvsLeft'
      BY <1>0, <2>1, <2>3 DEF BootLeft, DriverAhead, EnvsLeft, AllocatePcs
    <2>5. Addresses'
      BY <1>2, <2>1, <2>2, <2>3 DEF Addresses
    <2> QED BY <2>4, <2>5
  <1> QED BY <1>1, <1>4, <1>5, <1>6, <1>7, <1>8, <1>9

\* A machine is launched for an environment of the driver.
LEMMA MachineBounds ==
    ASSUME ManagedInv, OnItsCloud, BoundsInv, MachineStep
    PROVE  BoundsInv'
  <1> USE DEF BoundsInv
  <1>0. /\ svc \in [Services -> ServiceRecords] /\ boots \in Nat
        /\ vm \in [Clusters -> MachineRecords] /\ file \in [Clusters -> FileRecords]
        /\ ses \in SessionRecords /\ ses.c \in Clusters /\ order \in {DriverFirst, DbFirst}
    BY DEF ManagedInv, StateInv, StateTypes, SessionInv, SessionRecords
  <1>1. /\ ses.pc \in {"vm", "disk"} /\ order[ses.ix] = "driver" /\ ses.ix \in 1..2
        /\ \A i \in 1..2 : order[i] = "driver" => i = ses.ix
    <2>1. ses.pc \in {"vm", "disk"}
      BY DEF MachineStep, LaunchMachine, LaunchReturnsNone, LaunchDisk
    <2>2. order[ses.ix] = "driver" /\ ses.ix \in 1..2
      BY <2>1 DEF OnItsCloud, ManagedInv, SessionInv, Places, AllocatePcs
    <2> QED BY <1>0, <2>1, <2>2 DEF DriverFirst, DbFirst
  <1>2. svc' = svc /\ order' = order
    BY DEF MachineStep, LaunchMachine, LaunchReturnsNone, LaunchDisk, Only, rigid
  <1>3. ASSUME Launch(ses.c), ses.pc = "vm"
        PROVE  /\ boots' = boots + 1 /\ boots' <= MaxBoots
               /\ vm'[ses.c].st = "running"
               /\ \A c \in Clusters :
                    /\ {vm'[c].id, vm'[c].addr} \subseteq 0..MaxBoots
                    /\ vm'[c].st # "none" => vm'[c].addr # 0
    <2>1. boots < MaxBoots
      BY <1>1, <1>3 DEF BootLeft, DriverAhead, AllocatePcs
    <2>2. /\ boots' = boots + 1
          /\ vm' = [vm EXCEPT ![ses.c].id = boots + 1, ![ses.c].addr = boots + 1, ![ses.c].st = "running"]
      BY <1>3 DEF Launch, Boot
    <2>3. /\ vm'[ses.c].id = boots + 1 /\ vm'[ses.c].addr = boots + 1 /\ vm'[ses.c].st = "running"
          /\ \A c \in Clusters \ {ses.c} : vm'[c] = vm[c]
      BY <1>0, <2>2 DEF MachineRecords
    <2>4. boots + 1 \in 0..MaxBoots /\ boots + 1 # 0
      BY <1>0, <2>1
    <2>5. ASSUME NEW c \in Clusters
          PROVE  {vm'[c].id, vm'[c].addr} \subseteq 0..MaxBoots /\ (vm'[c].st # "none" => vm'[c].addr # 0)
      <3>1. CASE c = ses.c
        BY <2>3, <2>4, <3>1
      <3>2. CASE c # ses.c
        <4>1. vm'[c] = vm[c]
          BY <2>3, <3>2
        <4> QED BY <1>0, <4>1 DEF Addresses
      <3> QED BY <3>1, <3>2
    <2>6. boots' = boots + 1 /\ boots' <= MaxBoots
      BY <1>0, <2>2, <2>4
    <2>7. vm'[ses.c].st = "running"
      BY <2>3
    <2> QED BY <2>5, <2>6, <2>7
  <1>4. ASSUME NEW pc \in {"disk", "save"}, Goto(pc)
        PROVE  /\ ses'.c = ses.c /\ ses'.ix = ses.ix /\ ses'.pc = pc /\ ~DriverAhead'
    <2>1. ses'.c = ses.c /\ ses'.ix = ses.ix /\ ses'.pc = pc
      BY <1>0, <1>4 DEF Goto, SessionRecords
    <2>2. ~DriverAhead'
      BY <1>0, <1>1, <1>2, <2>1 DEF DriverAhead
    <2> QED BY <2>1, <2>2
  <1>5. CASE LaunchMachine
    <2>1. PICK pc \in {"disk", "save"} : Goto(pc)
      BY <1>5 DEF LaunchMachine
    <2>2. Launch(ses.c) /\ ses.pc = "vm" /\ file' = file
      BY <1>5 DEF LaunchMachine, Only
    <2>3. BootLeft' /\ EnvsLeft'
      BY <1>0, <1>1, <1>3, <1>4, <2>1, <2>2 DEF BootLeft, EnvsLeft, AllocatePcs
    <2>4. Addresses'
      BY <1>2, <1>3, <1>4, <2>1, <2>2 DEF Addresses
    <2> QED BY <2>3, <2>4
  <1>6. CASE LaunchReturnsNone
    <2>1. /\ ses.pc = "vm" /\ ses'.pc = "idle"
          /\ \/ boots' = boots /\ vm' = vm
             \/ Launch(ses.c)
          /\ file' = [file EXCEPT ![ses.c] = [WithEnv(@, "driver") EXCEPT !.state = "failed"]]
      BY <1>6, Defaults DEF LaunchReturnsNone, Over, machines
    <2>2. /\ file'[ses.c].envs = Append(file[ses.c].envs, "driver")
          /\ file'[ses.c].id = file[ses.c].id /\ file'[ses.c].addr = file[ses.c].addr
          /\ \A c \in Clusters \ {ses.c} : file'[c] = file[c]
      BY <1>0, <2>1 DEF WithEnv, FileRecords
    <2>3. /\ Len(file'[ses.c].envs) = Len(file[ses.c].envs) + 1 /\ Len(file[ses.c].envs) \in Nat
      BY <1>0, <2>2 DEF FileRecords
    <2>4. Len(file[ses.c].envs) + 3 - ses.ix <= MaxEnvs
      BY <2>1 DEF EnvsLeft, AllocatePcs
    <2>5. Len(file'[ses.c].envs) <= MaxEnvs
      BY <1>1, <2>3, <2>4
    <2>6. BootLeft'
      BY <1>3, <2>1 DEF BootLeft, DriverAhead, AllocatePcs
    <2>7. EnvsLeft'
      BY <2>1, <2>2, <2>5 DEF EnvsLeft, AllocatePcs
    <2>8. Addresses'
      BY <1>2, <1>3, <2>1, <2>2, SMTT(30) DEF Addresses
    <2> QED BY <2>6, <2>7, <2>8
  <1>7. CASE LaunchDisk
    <2>1. /\ boots' = boots /\ file' = file /\ Goto("save") /\ ses.pc = "disk"
          /\ vm' \in {vm, CreateDisk, AttachDisk(CreateDisk)}
      BY <1>7 DEF LaunchDisk, Only
    <2>2. \A c \in Clusters : vm'[c].id = vm[c].id /\ vm'[c].addr = vm[c].addr /\ vm'[c].st = vm[c].st
      BY <1>0, <2>1 DEF CreateDisk, AttachDisk, MachineRecords
    <2>3. BootLeft' /\ EnvsLeft'
      BY <1>1, <1>4, <2>1 DEF BootLeft, EnvsLeft, AllocatePcs
    <2>4. Addresses'
      BY <1>0, <1>2, <1>4, <2>1, <2>2 DEF Addresses
    <2> QED BY <2>3, <2>4
  <1> QED BY <1>5, <1>6, <1>7 DEF MachineStep

\* The other steps of the commands.
LEMMA ClusterBounds ==
    ASSUME ManagedInv, OnItsCloud, BoundsInv, [Next]_vars,
           \/ Configure \/ AllocateEnv \/ SaveEnv \/ AllocateDone \/ Install
           \/ CleanEnv \/ CleanDone \/ StopEnv \/ StartEnv \/ StartSave
    PROVE  BoundsInv'
  <1>0. /\ svc \in [Services -> ServiceRecords] /\ boots \in Nat /\ kind \in Kinds
        /\ vm \in [Clusters -> MachineRecords] /\ file \in [Clusters -> FileRecords]
        /\ ses \in SessionRecords /\ ses.c \in Clusters /\ order \in {DriverFirst, DbFirst}
    BY DEF ManagedInv, StateInv, StateTypes, SessionInv, SessionRecords
  <1>1. order' = order /\ UNCHANGED rigid
    BY StepsAreRigid DEF rigid
  <1>2. ~Sky2AllowDrivers
    BY DEF Sky2AllowDrivers, Configure, AllocateEnv, SaveEnv, AllocateDone, Install, CleanEnv,
       CleanDone, StopEnv, StartEnv, StartSave
  <1>3. \A i \in Services : svc'[i].allow \subseteq 1..MaxBoots
    BY <1>2, ServingStep DEF Serving, BoundsInv, Addresses
  <1>4. Over => ses'.pc = "idle" /\ ses' = Idle
    BY Defaults DEF Over
  <1>5. \A pc : /\ Goto(pc) => ses'.c = ses.c /\ ses'.ix = ses.ix /\ ses'.pc = pc
                /\ NextEnv(pc) => ses'.c = ses.c /\ ses'.ix = ses.ix + 1 /\ ses'.pc = pc
    BY <1>0 DEF Goto, NextEnv, SessionRecords
  <1>6. CASE Configure
    <2>1. CASE Over /\ Only(<<svc, machines, file>>)
      BY <1>1, <1>2, <1>4, <2>1, BoundsKept DEF Only
    <2>2. CASE ~(Over /\ Only(<<svc, machines, file>>))
      <3>1. /\ ses.pc = "configure" /\ file' = [file EXCEPT ![ses.c] = [NoFile EXCEPT !.exists = TRUE]]
            /\ Goto("allocate") /\ vm' = vm /\ boots' = boots
        BY <1>6, <2>2 DEF Configure, machines
      <3>2. /\ file'[ses.c].envs = <<>> /\ file'[ses.c].id = 0 /\ file'[ses.c].addr = 0
            /\ \A c \in Clusters \ {ses.c} : file'[c] = file[c]
        BY <1>0, <3>1 DEF NoFile
      <3>3. ses.ix = 1 /\ 2 <= MaxEnvs /\ boots < MaxBoots
        BY <3>1 DEF OnItsCloud, BoundsInv, EnvsLeft, BootLeft, DriverAhead
      <3>4. Len(file'[ses.c].envs) = 0
        BY <3>2
      <3>5. BootLeft' /\ EnvsLeft'
        BY <1>5, <3>1, <3>2, <3>3, <3>4 DEF BoundsInv, BootLeft, EnvsLeft
      <3>6. Addresses'
        BY <1>3, <1>5, <3>1, <3>2 DEF BoundsInv, Addresses
      <3> QED BY <3>5, <3>6 DEF BoundsInv
    <2> QED BY <2>1, <2>2
  <1>7. CASE AllocateEnv
    <2>1. ses.pc = "allocate" /\ UNCHANGED <<rigid, machines, file>>
      BY <1>1, <1>7 DEF AllocateEnv, Only
    <2>2. Entry[kind] \in DbPcs
      BY <1>0 DEF Kinds, Entry, DbPcs, SkyPcs, Sky2Pcs, AuroraPcs, RdsPcs, AlloyPcs
    <2>3. Over \/ \E pc \in {"vm"} \cup DbPcs : Goto(pc)
      BY <1>7, <2>2 DEF AllocateEnv
    <2>4. "save" \notin DbPcs
      BY DEF DbPcs, SkyPcs, Sky2Pcs, AuroraPcs, RdsPcs, AlloyPcs
    <2>5. ses' = Idle \/ (ses'.c = ses.c /\ ses'.ix = ses.ix /\ ses'.pc \in {"vm"} \cup DbPcs)
      BY <1>4, <1>5, <2>3
    <2> QED BY <1>2, <2>1, <2>4, <2>5, BoundsKept
  <1>8. CASE SaveEnv
    <2>1. ses.pc = "save" /\ vm' = vm /\ boots' = boots /\ ses.ix \in 1..2 /\ NextEnv("allocate")
      BY <1>8 DEF SaveEnv, Only, machines, ManagedInv, SessionInv, Places, AllocatePcs
    <2>2. PICK f : f = [WithEnv(file[ses.c], order[ses.ix]) EXCEPT !.state = "allocated"]
      OBVIOUS
    <2>3. /\ f.envs = Append(file[ses.c].envs, order[ses.ix]) /\ f.id = file[ses.c].id
          /\ f.addr = file[ses.c].addr /\ DOMAIN f = {"exists", "state", "envs", "db", "id", "addr"}
      BY <1>0, <2>2 DEF WithEnv, FileRecords
    <2>4. file' = [file EXCEPT ![ses.c] =
                        IF order[ses.ix] = "db" THEN [f EXCEPT !.db = ses.id]
                        ELSE [f EXCEPT !.id = vm[ses.c].id, !.addr = vm[ses.c].addr]]
      BY <1>8, <2>2 DEF SaveEnv
    <2>5. /\ file'[ses.c].envs = Append(file[ses.c].envs, order[ses.ix])
          /\ \/ file'[ses.c].id = file[ses.c].id /\ file'[ses.c].addr = file[ses.c].addr
             \/ /\ order[ses.ix] # "db"
                /\ file'[ses.c].id = vm[ses.c].id /\ file'[ses.c].addr = vm[ses.c].addr
          /\ \A c \in Clusters \ {ses.c} : file'[c] = file[c]
      BY <1>0, <2>3, <2>4
    <2>6. order[ses.ix] \in {"driver", "db"}
      BY <1>0, <2>1 DEF DriverFirst, DbFirst
    <2>7. Len(file'[ses.c].envs) = Len(file[ses.c].envs) + 1 /\ Len(file[ses.c].envs) \in Nat
      BY <1>0, <2>5, <2>6 DEF FileRecords
    <2>8. Len(file[ses.c].envs) + 3 - ses.ix <= MaxEnvs
      BY <2>1 DEF BoundsInv, EnvsLeft, AllocatePcs
    <2>9. ses'.pc = "allocate" /\ ses'.c = ses.c /\ ses'.ix = ses.ix + 1
      BY <1>5, <2>1
    <2>10. BootLeft'
      <3>1. DriverAhead' => DriverAhead
        BY <1>1, <2>1, <2>9 DEF DriverAhead, AllocatePcs
      <3> QED BY <2>1, <3>1 DEF BoundsInv, BootLeft
    <2>11. EnvsLeft'
      <3>1. Len(file'[ses.c].envs) <= MaxEnvs /\ Len(file'[ses.c].envs) + 3 - (ses.ix + 1) <= MaxEnvs
        BY <2>1, <2>7, <2>8
      <3>2. \A c \in Clusters : Len(file'[c].envs) <= MaxEnvs
        BY <2>5, <3>1 DEF BoundsInv, EnvsLeft
      <3> QED BY <2>9, <3>1, <3>2 DEF EnvsLeft
    <2>12. Addresses'
      <3>1. order[ses.ix] # "db" => vm[ses.c].st # "none"
        BY <2>1, <2>6 DEF BoundsInv, Addresses
      <3>2. /\ vm[ses.c].id \in 0..MaxBoots /\ vm[ses.c].addr \in 0..MaxBoots
            /\ file[ses.c].id \in 0..MaxBoots /\ file[ses.c].addr \in 0..MaxBoots
            /\ vm[ses.c].st # "none" => vm[ses.c].addr # 0
            /\ file[ses.c].id # 0 => file[ses.c].addr # 0
        BY <1>0 DEF BoundsInv, Addresses
      <3>3. /\ file'[ses.c].id \in 0..MaxBoots /\ file'[ses.c].addr \in 0..MaxBoots
            /\ file'[ses.c].id # 0 => file'[ses.c].addr # 0
        BY <2>5, <3>1, <3>2
      <3> QED BY <1>3, <2>1, <2>5, <2>9, <3>3, SMTT(30) DEF BoundsInv, Addresses
    <2> QED BY <2>10, <2>11, <2>12 DEF BoundsInv
  <1>9. CASE AllocateDone
    <2>1. UNCHANGED <<rigid, machines, file>> /\ (Over \/ Goto("install"))
      BY <1>1, <1>9 DEF AllocateDone, Only
    <2> QED BY <1>2, <1>4, <1>5, <2>1, BoundsKept
  <1>10. CASE CleanEnv
    <2>1. /\ boots' = boots /\ file' = file
          /\ vm' = vm \/ vm' = [vm EXCEPT ![ses.c] = [NoMachine EXCEPT !.stray = vm[ses.c].stray]]
      BY <1>10 DEF CleanEnv, Only, machines, TerminateMachine, Delete
    <2>2. \/ Over \/ NextEnv("clean")
          \/ \E i : GotoWith("aurora_deleting", i) \/ GotoWith("rds_deleting", i)
      BY <1>0, <1>10 DEF CleanEnv, TerminateMachine, Terminate, Kinds, SkyTerminate, Sky2Terminate,
         AuroraTerminate, RdsTerminate, AlloyTerminate
    <2>3. ses'.pc \in {"idle", "clean", "aurora_deleting", "rds_deleting"}
      BY <1>0, <1>4, <1>5, <2>2 DEF GotoWith, SessionRecords
    <2>4. \A d \in Clusters :
            \/ vm'[d] = vm[d]
            \/ vm'[d].id = 0 /\ vm'[d].addr = 0 /\ vm'[d].st = "none"
      BY <1>0, <2>1 DEF NoMachine
    <2>5. BootLeft' /\ EnvsLeft'
      BY <2>1, <2>3 DEF BoundsInv, BootLeft, DriverAhead, EnvsLeft, AllocatePcs
    <2>6. Addresses'
      BY <1>3, <2>1, <2>3, <2>4 DEF BoundsInv, Addresses
    <2> QED BY <2>5, <2>6 DEF BoundsInv
  <1>11. CASE Install \/ CleanDone
    <2>1. /\ boots' = boots /\ vm' = vm /\ ses'.pc = "idle"
          /\ \/ file' = file
             \/ file' = [file EXCEPT ![ses.c].state = "ready"]
             \/ file' = [file EXCEPT ![ses.c] = NoFile]
      BY <1>4, <1>11 DEF Install, CleanDone, Only, machines
    <2>2. \A d \in Clusters :
            \/ /\ file'[d].id = file[d].id /\ file'[d].addr = file[d].addr
               /\ file'[d].envs = file[d].envs
            \/ file'[d].id = 0 /\ file'[d].addr = 0 /\ file'[d].envs = <<>>
      <3>1. \/ \A d \in Clusters : /\ file'[d].id = file[d].id /\ file'[d].addr = file[d].addr
                                   /\ file'[d].envs = file[d].envs
            \/ file' = [file EXCEPT ![ses.c] = NoFile]
        <4>1. CASE file' = [file EXCEPT ![ses.c].state = "ready"]
          BY <1>0, <4>1 DEF FileRecords
        <4> QED BY <2>1, <4>1
      <3>2. CASE file' = [file EXCEPT ![ses.c] = NoFile]
        <4>1. NoFile.id = 0 /\ NoFile.addr = 0 /\ NoFile.envs = <<>>
          BY DEF NoFile
        <4> QED BY <1>0, <3>2, <4>1
      <3> QED BY <3>1, <3>2
    <2>3. BootLeft' /\ EnvsLeft'
      BY <2>1, <2>2 DEF BoundsInv, BootLeft, DriverAhead, EnvsLeft, AllocatePcs
    <2>4. Addresses'
      BY <1>3, <2>1, <2>2 DEF BoundsInv, Addresses
    <2> QED BY <2>3, <2>4 DEF BoundsInv
  <1>12. CASE StopEnv
    <2>1. /\ boots' = boots /\ file' = file /\ ses'.pc = "idle"
          /\ vm' = vm \/ (Recorded(ses.c) /\ vm' = [vm EXCEPT ![ses.c].st = "stopped"])
      BY <1>4, <1>12 DEF StopEnv, Only, machines, StopMachine
    <2>2. \A d \in Clusters :
            /\ vm'[d].id = vm[d].id /\ vm'[d].addr = vm[d].addr
            /\ vm'[d].st # "none" => vm[d].st # "none"
      BY <1>0, <2>1 DEF MachineRecords, Recorded
    <2>3. BootLeft' /\ EnvsLeft'
      BY <2>1 DEF BoundsInv, BootLeft, DriverAhead, EnvsLeft, AllocatePcs
    <2>4. Addresses'
      BY <1>3, <2>1, <2>2 DEF BoundsInv, Addresses
    <2> QED BY <2>3, <2>4 DEF BoundsInv
  <1>13. CASE StartEnv
    <2>1. /\ ses.pc = "start" /\ file' = file
          /\ (boots' = boots /\ vm' = vm) \/ Boot(ses.c, vm[ses.c].id)
          /\ Over \/ (Goto("start_save") /\ Recorded(ses.c))
      BY <1>13 DEF StartEnv, Only, machines, StartMachine
    <2>2. boots < MaxBoots
      BY <2>1 DEF BoundsInv, BootLeft, DriverAhead
    <2>3. CASE boots' = boots /\ vm' = vm
      BY <1>3, <1>4, <1>5, <2>1, <2>3 DEF BoundsInv, BootLeft, DriverAhead, EnvsLeft, Addresses,
         AllocatePcs, Recorded
    <2>4. CASE Boot(ses.c, vm[ses.c].id)
      <3>1. /\ boots' = boots + 1
            /\ vm' = [vm EXCEPT ![ses.c].id = vm[ses.c].id, ![ses.c].addr = boots + 1, ![ses.c].st = "running"]
        BY <2>4 DEF Boot
      <3>2. /\ vm'[ses.c].id = vm[ses.c].id /\ vm'[ses.c].addr = boots + 1 /\ vm'[ses.c].st = "running"
            /\ \A c \in Clusters \ {ses.c} : vm'[c] = vm[c]
        BY <1>0, <3>1 DEF MachineRecords
      <3>3. boots + 1 \in 0..MaxBoots /\ boots + 1 # 0
        BY <1>0, <2>2
      <3>4. ses'.pc \in {"idle", "start_save"} /\ (ses'.pc = "start_save" => ses'.c = ses.c)
        BY <1>4, <1>5, <2>1
      <3>5. BootLeft' /\ EnvsLeft'
        BY <2>1, <3>1, <3>3, <3>4 DEF BoundsInv, BootLeft, DriverAhead, EnvsLeft, AllocatePcs
      <3>6. Addresses'
        BY <1>3, <2>1, <3>2, <3>3, <3>4 DEF BoundsInv, Addresses
      <3> QED BY <3>5, <3>6 DEF BoundsInv
    <2> QED BY <2>1, <2>3, <2>4
  <1>14. CASE StartSave
    <2>1. /\ ses.pc = "start_save" /\ boots' = boots /\ vm' = vm /\ ses'.pc = "idle"
          /\ file' = [file EXCEPT ![ses.c].addr = vm[ses.c].addr, ![ses.c].state = "ready"]
      BY <1>4, <1>14 DEF StartSave, Only, machines
    <2>2. /\ file'[ses.c].addr = vm[ses.c].addr /\ file'[ses.c].id = file[ses.c].id
          /\ file'[ses.c].envs = file[ses.c].envs
          /\ \A c \in Clusters \ {ses.c} : file'[c] = file[c]
      BY <1>0, <2>1 DEF FileRecords
    <2>3. vm[ses.c].st # "none"
      BY <2>1 DEF BoundsInv, Addresses
    <2>4. BootLeft' /\ EnvsLeft'
      BY <2>1, <2>2 DEF BoundsInv, BootLeft, DriverAhead, EnvsLeft, AllocatePcs
    <2>5. Addresses'
      <3>1. /\ file'[ses.c].id \in 0..MaxBoots /\ file'[ses.c].addr \in 0..MaxBoots
            /\ file'[ses.c].addr # 0
        BY <1>0, <2>2, <2>3 DEF BoundsInv, Addresses
      <3>2. \A c \in Clusters :
              /\ {vm[c].id, vm[c].addr, file'[c].id, file'[c].addr} \subseteq 0..MaxBoots
              /\ vm[c].st # "none" => vm[c].addr # 0
              /\ file'[c].id # 0 => file'[c].addr # 0
        <4>1. ASSUME NEW c \in Clusters, c = ses.c
              PROVE  /\ {vm[c].id, vm[c].addr, file'[c].id, file'[c].addr} \subseteq 0..MaxBoots
                     /\ vm[c].st # "none" => vm[c].addr # 0
                     /\ file'[c].id # 0 => file'[c].addr # 0
          BY <3>1, <4>1 DEF BoundsInv, Addresses
        <4>2. ASSUME NEW c \in Clusters, c # ses.c
              PROVE  /\ {vm[c].id, vm[c].addr, file'[c].id, file'[c].addr} \subseteq 0..MaxBoots
                     /\ vm[c].st # "none" => vm[c].addr # 0
                     /\ file'[c].id # 0 => file'[c].addr # 0
          BY <2>2, <4>2 DEF BoundsInv, Addresses
        <4> QED BY <4>1, <4>2
      <3> QED BY <1>3, <2>1, <3>2 DEF Addresses
    <2> QED BY <2>4, <2>5 DEF BoundsInv
  <1> QED
    BY <1>6, <1>7, <1>8, <1>9, <1>10, <1>11, <1>12, <1>13, <1>14

\* Every step keeps the bounds.
LEMMA BoundsStep ==
    ASSUME ManagedInv, OnItsCloud, BoundsInv, [Next]_vars
    PROVE  BoundsInv'
  <1>1. CASE UNCHANGED vars \/ Provider
    <2>1. UNCHANGED <<rigid, machines, file, ses>>
      BY <1>1 DEF vars, rigid, machines, Provider, ServiceMoves, InstanceMoves
    <2>2. CASE ~Sky2AllowDrivers
      BY <2>1, <2>2, BoundsKept
    <2>3. CASE Sky2AllowDrivers
      BY <2>3, DatabaseBounds DEF Sky2Step
    <2> QED BY <2>2, <2>3
  <1>2. CASE Raises
    <2>1. UNCHANGED <<rigid, machines, file>> /\ ses' = Idle
      BY <1>2 DEF Raises, Only, Over
    <2>2. CASE ~Sky2AllowDrivers
      BY <2>1, <2>2, BoundsKept
    <2>3. CASE Sky2AllowDrivers
      BY <2>3, DatabaseBounds DEF Sky2Step
    <2> QED BY <2>2, <2>3
  <1> QED
    BY <1>1, <1>2, CommandBounds, DatabaseBounds, MachineBounds, ClusterBounds DEF Next, Steps

\* Nothing is beyond the bounds before the first command.
LEMMA BoundsInitially ==
    ASSUME ManagedInit
    PROVE  BoundsInv
  <1>1. /\ svc = [i \in Services |-> NoService] /\ vm = [c \in Clusters |-> NoMachine]
        /\ file = [c \in Clusters |-> NoFile] /\ ses = Idle /\ boots = 0
    BY DEF ManagedInit
  <1>2. NoFile.envs = <<>> /\ NoFile.addr = 0 /\ NoMachine.addr = 0 /\ NoMachine.st = "none" /\ NoService.allow = {}
    BY DEF NoFile, NoMachine, NoService
  <1>3. Len(<<>>) = 0
    OBVIOUS
  <1> QED
    BY <1>1, <1>2, <1>3, Defaults DEF BoundsInv, BootLeft, DriverAhead, EnvsLeft, Addresses, AllocatePcs

\* The invariants together imply the types.
LEMMA ManagedTypes ==
    ASSUME ManagedInv, OnItsCloud, BoundsInv
    PROVE  TypeOK
  <1>0. /\ svc \in [Services -> ServiceRecords] /\ boots \in Nat
        /\ vm \in [Clusters -> MachineRecords] /\ file \in [Clusters -> FileRecords]
        /\ ses \in SessionRecords
    BY DEF ManagedInv, StateInv, StateTypes, SessionInv
  <1>1. <<kind, order>> \in Deployments /\ long \in BOOLEAN /\ blind \subseteq Clusters
    BY DEF OnItsCloud
  <1>2. svc \in [Services -> [by : Clusters, st : ServiceStates, inst : InstanceStates,
                             allow : SUBSET (1..MaxBoots)]]
    <2>1. \A i \in Services : svc[i] \in [by : Clusters, st : ServiceStates, inst : InstanceStates,
                                          allow : SUBSET (1..MaxBoots)]
      BY <1>0 DEF BoundsInv, Addresses, ServiceRecords
    <2> QED BY <1>0, <2>1
  <1>3. vm \in [Clusters -> [id : 0..MaxBoots, st : {"none", "running", "stopped"},
                            addr : 0..MaxBoots, stray : BOOLEAN]]
    <2>1. \A c \in Clusters : vm[c] \in [id : 0..MaxBoots, st : {"none", "running", "stopped"},
                                         addr : 0..MaxBoots, stray : BOOLEAN]
      BY <1>0 DEF BoundsInv, Addresses, MachineRecords
    <2> QED BY <1>0, <2>1
  <1>4. boots \in 0..MaxBoots
    BY <1>0 DEF BoundsInv, BootLeft
  <1>5. \A c \in Clusters :
        /\ file[c].exists \in BOOLEAN
        /\ file[c].state \in FileStates
        /\ file[c].envs \in Seq({"driver", "db"})
        /\ file[c].db \in 0..MaxServices
    BY <1>0 DEF FileRecords
  <1>6. \A c \in Clusters :
        Len(file[c].envs) <= MaxEnvs /\ {file[c].id, file[c].addr} \subseteq 0..MaxBoots
    BY DEF BoundsInv, EnvsLeft, Addresses
  <1>7. ses.polls \in 0..MaxPolls /\ ses.id \in 0..MaxServices
    BY <1>0 DEF SessionRecords
  <1> QED
    BY <1>1, <1>2, <1>3, <1>4, <1>5, <1>6, <1>7 DEF TypeOK, ManagedTypeOK

\* The state of the managed clusters keeps its types: every waiting loop stays
\* within its attempts, and no command allocates beyond what it was begun with,
\* for any number of clusters, services and polls.
THEOREM ManagedTyped == Spec => []TypeOK
  <1>1. ManagedInv /\ [Next]_vars => ManagedInv'
    BY ManagedStep
  <1>2. ManagedInv /\ OnItsCloud /\ [Next]_vars => OnItsCloud'
    BY CloudStep
  <1>3. ManagedInv /\ OnItsCloud /\ BoundsInv /\ [Next]_vars => BoundsInv'
    BY BoundsStep
  <1>4. ManagedInit => ManagedInv /\ OnItsCloud /\ BoundsInv
    BY ManagedInitially, OneServiceInitially, BoundsInitially DEF OneServiceInv
  <1>5. ManagedInv /\ OnItsCloud /\ BoundsInv => TypeOK
    BY ManagedTypes
  <1> QED BY <1>1, <1>2, <1>3, <1>4, <1>5, PTL DEF Spec

(***************************************************************************)
(* What provision reports ready is served                                  *)
(***************************************************************************)
\* A service that is up stays so under provision, and lets in whom it let in.
LEMMA ServiceStaysUp ==
    ASSUME ManagedInv, [Next]_vars, NEW i \in Services, Up(i),
           ses.pc \notin {"clean", "stop", "aurora_deleting"}
    PROVE  Up(i)' /\ svc[i].allow \subseteq svc'[i].allow
  BY ServingStep DEF Serving, Up

\* A command that is over, or one that is not at work on an environment, claims
\* nothing.
LEMMA ServedElsewhere ==
    ASSUME ses'.pc \notin {"sky2_ready_drivers", "sky2_connect", "save"},
           ses'.cmd = "provision" => ses'.pc = "configure"
    PROVE  ServedInv'
  BY DEF ServedInv, Admitted, Provisioned

\* A command that goes on with the same file and machine keeps what it has.
LEMMA ProvisionedKept ==
    ASSUME ManagedInv, OnItsCloud, ServedInv, [Next]_vars, UNCHANGED file,
           \A c \in Clusters : vm'[c].addr = vm[c].addr,
           ses'.c = ses.c, ses'.cmd = ses.cmd, ses'.ix = ses.ix, ses.pc # "configure"
    PROVE  Provisioned'
  <1> SUFFICES ASSUME ses.cmd = "provision"
               PROVE  /\ file[ses.c].id # 0 =>
                          /\ file[ses.c].addr = vm'[ses.c].addr
                          /\ \E i \in 1..2 : order[i] = "driver" /\ i < ses.ix
                      /\ OnSky /\ file[ses.c].db # 0 =>
                          /\ Up(file[ses.c].db)' /\ LetsIn(ses.c, file[ses.c].db)'
                          /\ \E i \in 1..2 : order[i] = "db" /\ i < ses.ix
    <2>1. kind' = kind /\ order' = order
      BY StepsAreRigid DEF rigid
    <2> QED BY <2>1 DEF Provisioned, OnSky, Up, LetsIn
  <1>1. ses.c \in Clusters /\ file[ses.c].db \in 0..MaxServices
    BY DEF ManagedInv, SessionInv, SessionRecords, StateInv, StateTypes, FileRecords
  <1>2. ses.pc \notin {"clean", "stop", "aurora_deleting"}
    BY DEF OnItsCloud, AllocatePcs
  <1>3. kind' = kind
    BY StepsAreRigid DEF rigid
  <1>4. ASSUME OnSky, file[ses.c].db # 0
        PROVE  Up(file[ses.c].db)' /\ LetsIn(ses.c, file[ses.c].db)'
    <2>1. PICK d \in Services : d = file[ses.c].db
      BY <1>1, <1>4 DEF Services
    <2>2. Up(d) /\ LetsIn(ses.c, d)
      BY <1>4, <2>1 DEF ServedInv, Provisioned
    <2>3. Up(d)' /\ svc[d].allow \subseteq svc'[d].allow
      BY <1>2, <2>2, ServiceStaysUp
    <2> QED BY <1>3, <2>1, <2>2, <2>3 DEF LetsIn, Up
  <1> QED BY <1>1, <1>4 DEF ServedInv, Provisioned

\* The steps of the managed clouds.
LEMMA DatabaseServes ==
    ASSUME ManagedInv, OnItsCloud, ServedInv, [Next]_vars,
           SkyStep \/ Sky2Step \/ AwsDatabaseStep \/ AlloyStep
    PROVE  ServedInv'
  <1>0. /\ ses \in SessionRecords /\ ses.c \in Clusters /\ ses.id \in 0..MaxServices
        /\ svc \in [Services -> ServiceRecords]
    BY DEF ManagedInv, SessionInv, SessionRecords, StateInv, StateTypes
  <1>1. CASE ses'.pc \notin {"sky2_ready_drivers", "sky2_connect", "save"} /\ ses'.cmd # "provision"
    BY <1>1, ServedElsewhere
  <1>2. /\ UNCHANGED <<rigid, machines, file>> /\ kind' = kind /\ order' = order /\ vm' = vm
    BY DatabaseGoesOn DEF rigid, machines
  <1>3. CASE Over
    BY <1>3, Defaults, ServedElsewhere DEF Over
  <1>4. CASE ses.pc \in {"aurora_deleting", "rds_deleting"}
    <2>1. ses.cmd # "provision"
      BY <1>4 DEF OnItsCloud, AllocatePcs
    <2>2. ses.pc \notin DbPcs
      BY <1>4 DEF DbPcs, SkyPcs, Sky2Pcs, AuroraPcs, RdsPcs, AlloyPcs
    <2> QED BY <1>1, <1>3, <2>1, <2>2, DatabaseGoesOn
  <1>5. CASE /\ ses'.c = ses.c /\ ses'.cmd = ses.cmd /\ ses'.ix = ses.ix
             /\ ses.pc \in DbPcs /\ ses'.pc \in DbPcs \cup {"save"} /\ ~Over
    <2>1. ses.pc # "configure"
      BY <1>5 DEF DbPcs, SkyPcs, Sky2Pcs, AuroraPcs, RdsPcs, AlloyPcs
    <2>2. Provisioned'
      BY <1>2, <1>5, <2>1, ProvisionedKept
    <2>3. ses.pc \notin {"clean", "stop", "aurora_deleting"}
      BY <1>5 DEF DbPcs, SkyPcs, Sky2Pcs, AuroraPcs, RdsPcs, AlloyPcs
    <2>4. /\ \A pc, i : Goto(pc) \/ GotoWith(pc, i) => ses'.pc = pc
          /\ \A pc : Goto(pc) => ses'.id = ses.id
          /\ ~Over
      BY <1>0, <1>5 DEF Goto, GotoWith, SessionRecords
    <2>5. Poll => ses'.pc = ses.pc /\ ses'.id = ses.id
      BY <1>0, <1>5 DEF Poll, Over, SessionRecords
    <2>6. ses'.pc \in {"sky2_ready_drivers", "sky2_connect"} =>
            /\ file[ses.c].id # 0
            /\ svc'[ses'.id].st # "gone" => file[ses.c].addr \in svc'[ses'.id].allow
      <3>1. ASSUME ses.pc \in {"sky2_ready_drivers", "sky2_connect"}, ses'.id = ses.id
            PROVE  /\ file[ses.c].id # 0
                   /\ svc'[ses.id].st # "gone" => file[ses.c].addr \in svc'[ses.id].allow
        <4>1. ses.id \in Services
          BY <1>0, <3>1 DEF OnItsCloud, Sky2Pcs, Services
        <4>2. svc[ses.id].st # "gone" \/ svc'[ses.id].st = "gone"
          <5>1. \A j \in Services : Settled(j) \/ Creating
            BY SettlingStep
          <5>2. ~Creating
            BY <3>1 DEF Creating, SkyCreate, Sky2Create, Sky2CreateTwice, AuroraCluster, RdsCreate, AlloyCluster
          <5>3. kind' = "skysql2" /\ svc'[ses.id].st # "none"
            <6>1. ManagedInv'
              BY ManagedStep
            <6>2. Linked(ses.c, ses.id)'
              BY <6>1 DEF ManagedInv, SessionInv
            <6>3. kind = "skysql2" /\ ses.id # 0
              BY <3>1, <4>1 DEF OnItsCloud, Sky2Pcs, Services
            <6> QED BY <1>2, <3>1, <6>2, <6>3 DEF Linked
          <5> QED BY <4>1, <5>1, <5>2, <5>3 DEF Settled, Counted, Live
        <4>3. svc'[ses.id].st # "gone" => svc[ses.id].allow \subseteq svc'[ses.id].allow
          BY <4>1, ServingStep DEF Serving
        <4> QED BY <3>1, <4>2, <4>3 DEF ServedInv, Admitted
      <3>2. CASE Sky2AllowDrivers
        <4>1. file[ses.c].id # 0 /\ Allow({file[ses.c].addr}, "sky2_ready_drivers") /\ ~Rejected(ses.id)
          BY <1>5, <3>2 DEF Sky2AllowDrivers, Allow
        <4>2. /\ svc' = [svc EXCEPT ![ses.id].allow = @ \cup {file[ses.c].addr}, ![ses.id].st = "busy"]
              /\ ses'.id = ses.id
          BY <2>4, <4>1 DEF Allow
        <4>3. ses.id \in Services
          BY <1>0, <3>2 DEF Sky2AllowDrivers, OnItsCloud, Sky2Pcs, Services
        <4>4. svc'[ses.id].allow = svc[ses.id].allow \cup {file[ses.c].addr}
          BY <1>0, <4>2, <4>3 DEF ServiceRecords
        <4> QED BY <4>1, <4>2, <4>4
      <3>3. CASE Sky2Ready
        <4>1. ses.pc \in {"sky2_ready", "sky2_ready_local", "sky2_ready_drivers"}
          BY <3>3 DEF Sky2Ready, AfterReady
        <4>2. AfterReady["sky2_ready"] = "sky2_local" /\ AfterReady["sky2_ready_local"] = "sky2_drivers"
          BY DEF AfterReady
        <4>3. ses'.id = ses.id /\ (ses'.pc = AfterReady[ses.pc] \/ ses'.pc = ses.pc)
          BY <1>5, <2>4, <2>5, <3>3 DEF Sky2Ready
        <4> QED BY <3>1, <4>1, <4>2, <4>3
      <3>4. ASSUME Sky2Step, ~Sky2Ready, ~Sky2AllowDrivers
            PROVE  ses'.pc \notin {"sky2_ready_drivers", "sky2_connect"}
        BY <1>5, <2>4, <3>4 DEF Sky2Step, Sky2NotOffered, Sky2Lookup, Sky2Create, Sky2CreateTwice,
           Sky2AllowLocal, Allow, Sky2Connect
      <3>5. SkyStep => ses'.pc \notin {"sky2_ready_drivers", "sky2_connect"}
        <4>1. SkyStatus => ses'.pc \in {"sky_ip", "sky_status"}
          BY <1>0, <2>5 DEF SkyStatus, SessionRecords
        <4> QED BY <1>5, <2>4, <2>5, <4>1 DEF SkyStep, SkyLookup, SkyLookupRejected, SkyNotOffered,
             SkyCreate, SkyHasIp, SkyAllow, SkyConnect
      <3>6. AwsDatabaseStep => ses'.pc \notin {"sky2_ready_drivers", "sky2_connect"}
        BY <1>5, <2>4, <2>5, <2>3 DEF AwsDatabaseStep, AuroraCluster, AuroraWait, AuroraInstance,
           AuroraInstanceWait, AuroraDeleting, RdsCreate, RdsWait, RdsDeleting, DbPcs, SkyPcs, Sky2Pcs,
           AuroraPcs, RdsPcs, AlloyPcs
      <3>7. AlloyStep => ses'.pc \notin {"sky2_ready_drivers", "sky2_connect"}
        BY <1>5, <2>4, <2>5 DEF AlloyStep, AlloyCluster, AlloyWait, AlloyPrimary, AlloyPrimaryWait
      <3> QED BY <3>2, <3>3, <3>4, <3>5, <3>6, <3>7
    <2>7. OnSky /\ ses'.pc = "save" => ses'.id # 0 /\ Up(ses.id)' /\ LetsIn(ses.c, ses.id)'
      <3> SUFFICES ASSUME OnSky, ses'.pc = "save"
                   PROVE  ses'.id # 0 /\ Up(ses.id)' /\ LetsIn(ses.c, ses.id)'
        OBVIOUS
      <3>1. ~(AwsDatabaseStep \/ AlloyStep)
        <4>1. ASSUME AwsDatabaseStep \/ AlloyStep PROVE ses.pc \in AuroraPcs \cup RdsPcs \cup AlloyPcs
          BY <1>4, <2>3, <4>1, <1>5 DEF AwsDatabaseStep, AuroraCluster, AuroraWait, AuroraInstance, AuroraInstanceWait,
             AuroraDeleting, RdsCreate, RdsWait, RdsDeleting, AlloyStep, AlloyCluster, AlloyWait,
             AlloyPrimary, AlloyPrimaryWait, AuroraPcs, RdsPcs, AlloyPcs, DbPcs, SkyPcs, Sky2Pcs
        <4> QED BY <4>1 DEF OnItsCloud, OnSky
      <3>2. CASE SkyStep
        <4>1. SkyStatus => ses'.pc \in {"sky_ip", "sky_status"}
          BY <1>0, <2>5 DEF SkyStatus, SessionRecords
        <4>2. SkyConnect /\ Goto("save") /\ svc[ses.id].st = "available"
          BY <1>5, <2>4, <2>5, <3>2, <4>1 DEF SkyStep, SkyLookup, SkyLookupRejected, SkyNotOffered,
             SkyCreate, SkyHasIp, SkyAllow, SkyConnect, can_connect
        <4>3. svc' = svc /\ kind = "skysql" /\ ses.id # 0 /\ ses'.id = ses.id
          BY <2>4, <4>2 DEF SkyConnect, Only, OnItsCloud, SkyPcs
        <4> QED BY <1>2, <4>2, <4>3 DEF Up, LetsIn
      <3>3. CASE Sky2Step
        <4>0. ~Sky2Ready
          <5>1. ASSUME Sky2Ready
                PROVE  ses.pc # "save" /\ AfterReady[ses.pc] # "save"
            BY <5>1 DEF Sky2Ready, AfterReady
          <5> QED BY <1>5, <2>4, <2>5, <5>1 DEF Sky2Ready
        <4>1. Sky2Connect /\ Goto("save") /\ svc[ses.id].st = "available"
          BY <1>5, <2>4, <3>3, <4>0 DEF Sky2Step, Sky2NotOffered, Sky2Lookup, Sky2Create, Sky2CreateTwice,
             Sky2AllowLocal, Sky2AllowDrivers, Allow, Sky2Connect
        <4>2. svc' = svc /\ file' = file /\ ses.id # 0 /\ ses'.id = ses.id
          BY <1>2, <2>4, <4>1 DEF Sky2Connect, Only, OnItsCloud, Sky2Pcs
        <4>3. file[ses.c].id # 0 /\ file[ses.c].addr \in svc[ses.id].allow
          BY <4>1 DEF Sky2Connect, ServedInv, Admitted
        <4> QED BY <1>2, <1>5, <4>1, <4>2, <4>3 DEF Up, LetsIn
      <3> QED BY <3>1, <3>2, <3>3
    <2>8. Admitted'
      BY <1>2, <1>5, <2>6, <2>7 DEF Admitted, OnSky, Up, LetsIn
    <2> QED BY <2>2, <2>8 DEF ServedInv
  <1> QED BY <1>3, <1>4, <1>5, DatabaseGoesOn

\* The commands, machines and the cluster file.
LEMMA ClusterServes ==
    ASSUME ManagedInv, OnItsCloud, ServedInv, [Next]_vars,
           ~(SkyStep \/ Sky2Step \/ AwsDatabaseStep \/ AlloyStep)
    PROVE  ServedInv'
  <1>0. /\ ses \in SessionRecords /\ ses.c \in Clusters /\ ses.id \in 0..MaxServices /\ kind \in Kinds
        /\ svc \in [Services -> ServiceRecords] /\ file \in [Clusters -> FileRecords]
        /\ vm \in [Clusters -> MachineRecords] /\ order \in {DriverFirst, DbFirst}
    BY DEF ManagedInv, SessionInv, SessionRecords, StateInv, StateTypes
  <1>1. kind' = kind /\ order' = order
    BY StepsAreRigid DEF rigid
  <1>2. Over => ServedInv'
    BY Defaults, ServedElsewhere DEF Over
  <1>3. \A pc : /\ Goto(pc) => ses'.c = ses.c /\ ses'.cmd = ses.cmd /\ ses'.ix = ses.ix /\ ses'.pc = pc /\ ses'.id = ses.id
                /\ NextEnv(pc) => ses'.c = ses.c /\ ses'.cmd = ses.cmd /\ ses'.ix = ses.ix + 1 /\ ses'.pc = pc
    BY <1>0 DEF Goto, NextEnv, SessionRecords
  <1>4. CASE UNCHANGED vars \/ Provider
    <2>1. UNCHANGED <<rigid, machines, file, ses>> /\ vm' = vm
      BY <1>4 DEF vars, rigid, machines, Provider, ServiceMoves, InstanceMoves
    <2>2. CASE ses.pc = "configure"
      BY <2>1, <2>2, ServedElsewhere
    <2>3. CASE ses.pc # "configure"
      <3>1. Provisioned'
        BY <2>1, <2>3, ProvisionedKept
      <3>2. ASSUME ses.pc \in {"sky2_ready_drivers", "sky2_connect"}, svc'[ses.id].st # "gone"
            PROVE  svc[ses.id].st # "gone" /\ svc[ses.id].allow \subseteq svc'[ses.id].allow
        <4>1. ses.id \in Services /\ kind = "skysql2"
          BY <1>0, <3>2 DEF OnItsCloud, Sky2Pcs, Services
        <4>2. ~Creating
          BY <3>2 DEF Creating, SkyCreate, Sky2Create, Sky2CreateTwice, AuroraCluster, RdsCreate, AlloyCluster
        <4>3. Settled(ses.id)
          BY <4>1, <4>2, SettlingStep
        <4>4. svc'[ses.id].st # "none"
          <5>1. ManagedInv'
            BY ManagedStep
          <5>2. Linked(ses.c, ses.id)'
            BY <5>1 DEF ManagedInv, SessionInv
          <5> QED BY <2>1, <4>1, <5>2 DEF Linked, Services
        <4>5. svc[ses.id].st # "gone"
          BY <1>1, <2>1, <3>2, <4>1, <4>3, <4>4 DEF Settled, Counted, Live
        <4> QED BY <3>2, <4>1, <4>5, ServingStep DEF Serving
      <3>3. ASSUME OnSky, ses.pc = "save", order[ses.ix] = "db"
            PROVE  ses.id # 0 /\ Up(ses.id)' /\ LetsIn(ses.c, ses.id)'
        <4>1. ses.id # 0 /\ Up(ses.id) /\ LetsIn(ses.c, ses.id)
          BY <3>3 DEF ServedInv, Admitted
        <4>2. PICK i \in Services : i = ses.id
          BY <1>0, <4>1 DEF Services
        <4>3. Up(i) /\ ses.pc \notin {"clean", "stop", "aurora_deleting"}
          BY <3>3, <4>1, <4>2
        <4>4. Up(i)' /\ svc[i].allow \subseteq svc'[i].allow
          BY <4>3, ServiceStaysUp
        <4> QED BY <1>1, <2>1, <4>1, <4>2, <4>4 DEF LetsIn, Up
      <3>4. Admitted'
        BY <1>1, <2>1, <3>2, <3>3 DEF ServedInv, Admitted, OnSky
      <3> QED BY <3>1, <3>4 DEF ServedInv
    <2> QED BY <2>2, <2>3
  <1>5. CASE Raises \/ Install \/ CleanDone \/ StopEnv \/ StartSave \/ LaunchReturnsNone
    BY <1>2, <1>5 DEF Raises, Install, CleanDone, StopEnv, StartSave, LaunchReturnsNone
  <1>6. CASE Commands
    <2>1. CASE ses' = ses /\ ses.pc = "idle"
      <3>1. ses.cmd = "none"
        BY <2>1 DEF ManagedInv, SessionInv, Places
      <3> QED BY <2>1, <3>1, ServedElsewhere
    <2>2. ASSUME NEW c, NEW cmd, NEW pc, Begin(c, cmd, pc),
                 <<cmd, pc>> \in {<<"provision", "configure">>, <<"allocate", "allocate">>,
                    <<"install", "install">>, <<"clean", "clean">>, <<"stop", "stop">>, <<"start", "start">>}
          PROVE  ServedInv'
      <3>1. ses'.pc = pc /\ ses'.cmd = cmd
        BY <2>2, Defaults DEF Begin, SessionRecords
      <3> QED BY <2>2, <3>1, ServedElsewhere
    <2> QED BY <1>6, <2>1, <2>2 DEF Commands, Provision, Allocate, InstallAlone, Clean, Stop, Start, Nuke
  <1>7. CASE Configure
    <2>1. Over \/ (/\ Goto("allocate")
                   /\ file' = [file EXCEPT ![ses.c] = [NoFile EXCEPT !.exists = TRUE]])
      BY <1>7 DEF Configure
    <2>2. ASSUME Goto("allocate"), file' = [file EXCEPT ![ses.c] = [NoFile EXCEPT !.exists = TRUE]]
          PROVE  ServedInv'
      <3>1. file'[ses.c].id = 0 /\ file'[ses.c].db = 0
        BY <1>0, <2>2 DEF NoFile
      <3> QED BY <1>3, <2>2, <3>1 DEF ServedInv, Admitted, Provisioned
    <2> QED BY <1>2, <2>1, <2>2
  <1>8. CASE AllocateEnv
    <2>1. file' = file /\ vm' = vm /\ ses.pc = "allocate"
      BY <1>8 DEF AllocateEnv, Only, machines
    <2>2. Entry[kind] \in {"sky_lookup", "sky2_lookup", "aurora_cluster", "rds_create", "alloy_cluster"}
      BY <1>0 DEF Kinds, Entry
    <2>3. PICK pc \in {"vm", "sky_lookup", "sky2_lookup", "aurora_cluster", "rds_create", "alloy_cluster"} :
            Over \/ Goto(pc)
      BY <1>8, <2>2 DEF AllocateEnv
    <2>4. ASSUME Goto(pc) PROVE ServedInv'
      <3>1. Provisioned'
        BY <1>3, <2>1, <2>4, ProvisionedKept
      <3>2. Admitted'
        BY <1>3, <2>3, <2>4 DEF Admitted
      <3> QED BY <3>1, <3>2 DEF ServedInv
    <2> QED BY <1>2, <2>3, <2>4
  <1>9. CASE AllocateDone
    <2>1. file' = file /\ vm' = vm /\ ses.pc = "allocate" /\ (Over \/ Goto("install"))
      BY <1>9 DEF AllocateDone, Only, machines
    <2>2. ASSUME Goto("install") PROVE ServedInv'
      <3>1. Provisioned'
        BY <1>3, <2>1, <2>2, ProvisionedKept
      <3>2. Admitted'
        BY <1>3, <2>2 DEF Admitted
      <3> QED BY <3>1, <3>2 DEF ServedInv
    <2> QED BY <1>2, <2>1, <2>2
  <1>10. CASE CleanEnv \/ StartEnv
    <2>1. ses.cmd # "provision"
      BY <1>10 DEF CleanEnv, StartEnv, OnItsCloud, AllocatePcs
    <2>2. \/ Over \/ NextEnv("clean") \/ Goto("start_save")
          \/ \E i : GotoWith("aurora_deleting", i) \/ GotoWith("rds_deleting", i)
      BY <1>0, <1>10 DEF CleanEnv, TerminateMachine, Terminate, Kinds, SkyTerminate, Sky2Terminate,
         AuroraTerminate, RdsTerminate, AlloyTerminate, StartEnv, StartMachine
    <2>3. ~Over => ses'.cmd = ses.cmd /\ ses'.pc \in {"clean", "start_save", "aurora_deleting", "rds_deleting"}
      BY <1>0, <1>3, <2>2 DEF GotoWith, SessionRecords
    <2> QED BY <1>2, <2>1, <2>3, ServedElsewhere
  <1>11. CASE LaunchMachine \/ LaunchDisk
    <2>1. /\ ses.pc \in {"vm", "disk"} /\ file' = file /\ svc' = svc
          /\ \E pc \in {"disk", "save"} : Goto(pc)
      BY <1>11 DEF LaunchMachine, LaunchDisk, Only
    <2>2. /\ order[ses.ix] = "driver" /\ ses.ix \in 1..2
          /\ \A i \in 1..2 : order[i] = "driver" => i = ses.ix
      <3>1. order[ses.ix] = "driver" /\ ses.ix \in 1..2
        BY <2>1 DEF OnItsCloud, ManagedInv, SessionInv, Places, AllocatePcs
      <3> QED BY <1>0, <3>1 DEF DriverFirst, DbFirst
    <2>3. /\ ses'.c = ses.c /\ ses'.cmd = ses.cmd /\ ses'.ix = ses.ix /\ ses'.pc \in {"disk", "save"}
      BY <1>3, <2>1
    <2>4. ses.cmd = "provision" => file[ses.c].id = 0
      BY <2>1, <2>2 DEF ServedInv, Provisioned
    <2>5. Provisioned'
      BY <1>1, <2>1, <2>3, <2>4 DEF ServedInv, Provisioned, OnSky, Up, LetsIn
    <2>6. Admitted'
      BY <1>1, <2>2, <2>3 DEF Admitted
    <2> QED BY <2>5, <2>6 DEF ServedInv
  <1>12. CASE SaveEnv
    <2>1. ses.pc = "save" /\ vm' = vm /\ svc' = svc /\ ses.ix \in 1..2 /\ NextEnv("allocate")
      BY <1>12 DEF SaveEnv, Only, machines, ManagedInv, SessionInv, Places, AllocatePcs
    <2>2. PICK f : f = [WithEnv(file[ses.c], order[ses.ix]) EXCEPT !.state = "allocated"]
      OBVIOUS
    <2>3. /\ f.db = file[ses.c].db /\ f.id = file[ses.c].id
          /\ f.addr = file[ses.c].addr /\ DOMAIN f = {"exists", "state", "envs", "db", "id", "addr"}
      BY <1>0, <2>2 DEF WithEnv, FileRecords
    <2>4. file' = [file EXCEPT ![ses.c] =
                        IF order[ses.ix] = "db" THEN [f EXCEPT !.db = ses.id]
                        ELSE [f EXCEPT !.id = vm[ses.c].id, !.addr = vm[ses.c].addr]]
      BY <1>12, <2>2 DEF SaveEnv
    <2>5. /\ ses'.c = ses.c /\ ses'.cmd = ses.cmd /\ ses'.ix = ses.ix + 1 /\ ses'.pc = "allocate"
      BY <1>3, <2>1
    <2>6. Admitted'
      BY <2>5 DEF Admitted
    <2>7. CASE order[ses.ix] = "db"
      <3>1. /\ file'[ses.c].db = ses.id /\ file'[ses.c].id = file[ses.c].id
            /\ file'[ses.c].addr = file[ses.c].addr
        BY <1>0, <2>3, <2>4, <2>7
      <3>2. OnSky => Up(ses.id) /\ LetsIn(ses.c, ses.id)
        BY <2>1, <2>7 DEF ServedInv, Admitted
      <3>3. Provisioned'
        BY <1>1, <2>1, <2>5, <2>7, <3>1, <3>2 DEF ServedInv, Provisioned, OnSky, Up, LetsIn
      <3> QED BY <2>6, <3>3 DEF ServedInv
    <2>8. CASE order[ses.ix] # "db"
      <3>1. /\ file'[ses.c].db = file[ses.c].db /\ file'[ses.c].id = vm[ses.c].id
            /\ file'[ses.c].addr = vm[ses.c].addr
        BY <1>0, <2>3, <2>4, <2>8
      <3>2. order[ses.ix] = "driver" /\ \A i \in 1..2 : order[i] = "driver" => i = ses.ix
        BY <1>0, <2>1, <2>8 DEF DriverFirst, DbFirst
      <3>3. ses.cmd = "provision" => file[ses.c].id = 0
        BY <2>1, <3>2 DEF ServedInv, Provisioned
      <3>4. ses.cmd = "provision" /\ OnSky /\ file[ses.c].db # 0 =>
              /\ kind # "skysql2" /\ Up(file[ses.c].db)
              /\ \E i \in 1..2 : order[i] = "db" /\ i < ses.ix
        BY <2>1, <3>3 DEF ServedInv, Provisioned, LetsIn
      <3>5. Provisioned'
        BY <1>1, <2>1, <2>5, <3>1, <3>2, <3>4 DEF Provisioned, OnSky, Up, LetsIn
      <3> QED BY <2>6, <3>5 DEF ServedInv
    <2> QED BY <2>7, <2>8
  <1> QED
    BY <1>4, <1>5, <1>6, <1>7, <1>8, <1>9, <1>10, <1>11, <1>12 DEF Next, Steps, MachineStep

\* provision reports a cluster ready only in its last step.
LEMMA ReadyStep ==
    ASSUME ManagedInv, OnItsCloud, ServedInv, [Next]_vars
    PROVE  ServedReady
  <1> SUFFICES ASSUME NEW c \in Clusters, file[c].state # "ready", file'[c].state = "ready",
                      ses.cmd = "provision"
               PROVE  /\ svc[file[c].db].st \in {"available", "busy"}
                      /\ kind = "skysql2" => vm[c].addr \in svc[file[c].db].allow
    BY DEF ServedReady
  <1>0. /\ file \in [Clusters -> FileRecords] /\ ses.c \in Clusters /\ kind \in Kinds
        /\ ses.pc # "idle" /\ ses.pc \notin {"clean", "stop", "start", "start_save"}
    BY DEF ManagedInv, StateInv, StateTypes, SessionInv, SessionRecords, Places, OnItsCloud, AllocatePcs
  <1>1. file' # file
    OBVIOUS
  <1>2. Install
    <2>1. ~UNCHANGED vars /\ ~Raises /\ ~Provider
      BY <1>1 DEF vars, Raises, Only, Provider, ServiceMoves, InstanceMoves
    <2>2. ~Commands
      BY <1>0 DEF Commands, Provision, Allocate, InstallAlone, Clean, Stop, Start, Nuke, Begin
    <2>3. ~(SkyStep \/ Sky2Step \/ AwsDatabaseStep \/ AlloyStep)
      BY <1>1, DatabaseGoesOn
    <2>4. ~(LaunchMachine \/ LaunchDisk \/ AllocateEnv \/ AllocateDone)
      BY <1>1 DEF LaunchMachine, LaunchDisk, AllocateEnv, AllocateDone, Only
    <2>5. ~LaunchReturnsNone
      BY <1>0 DEF LaunchReturnsNone, WithEnv, FileRecords
    <2>6. ~(CleanEnv \/ CleanDone \/ StopEnv \/ StartEnv \/ StartSave)
      BY <1>0 DEF CleanEnv, CleanDone, StopEnv, StartEnv, StartSave
    <2>7. ~Configure
      <3>1. ASSUME Configure PROVE file' = [file EXCEPT ![ses.c] = [NoFile EXCEPT !.exists = TRUE]]
        BY <1>1, <3>1 DEF Configure, Only
      <3>2. [NoFile EXCEPT !.exists = TRUE].state = "not_ready"
        BY DEF NoFile
      <3> QED BY <1>0, <3>1, <3>2
    <2>8. ~SaveEnv
      <3>1. PICK f : f = [WithEnv(file[ses.c], order[ses.ix]) EXCEPT !.state = "allocated"]
        OBVIOUS
      <3>2. f.state = "allocated" /\ DOMAIN f = {"exists", "state", "envs", "db", "id", "addr"}
        BY <1>0, <3>1 DEF WithEnv, FileRecords
      <3>3. ASSUME SaveEnv
            PROVE  file' = [file EXCEPT ![ses.c] =
                        IF order[ses.ix] = "db" THEN [f EXCEPT !.db = ses.id]
                        ELSE [f EXCEPT !.id = vm[ses.c].id, !.addr = vm[ses.c].addr]]
        BY <3>1, <3>3 DEF SaveEnv
      <3>4. SaveEnv => file'[ses.c].state = "allocated" /\ \A d \in Clusters \ {ses.c} : file'[d] = file[d]
        BY <1>0, <3>2, <3>3, ZenonT(60)
      <3> QED BY <3>4
    <2> QED BY <2>1, <2>2, <2>3, <2>4, <2>5, <2>6, <2>7, <2>8 DEF Next, Steps, MachineStep
  <1>3. c = ses.c /\ Reachable(c) /\ LogsIn(c)
    BY <1>0, <1>1, <1>2 DEF Install
  <1>4. ses.pc = "install" /\ file[c].id # 0 /\ file[c].db # 0
    BY <1>2, <1>3 DEF Install, Reachable, LogsIn
  <1>5. CASE OnSky
    BY <1>3, <1>4, <1>5 DEF ServedInv, Provisioned, Up, LetsIn
  <1>6. CASE ~OnSky
    BY <1>0, <1>3, <1>6 DEF LogsIn, OnSky, Kinds
  <1> QED BY <1>5, <1>6

\* When provision reports a cluster ready, its database is up, and SkySQL 2 lets the
\* driver in from the address it has now, whatever earlier commands left behind, on
\* this cluster or on one of the same name, for any number of clusters and services.
THEOREM ReadyServed == Spec => ReadyIsServed
  <1>1. ManagedInv /\ [Next]_vars => ManagedInv'
    BY ManagedStep
  <1>2. ManagedInv /\ OnItsCloud /\ [Next]_vars => OnItsCloud'
    BY CloudStep
  <1>3. ManagedInv /\ OnItsCloud /\ ServedInv /\ [Next]_vars => ServedInv'
    BY DatabaseServes, ClusterServes
  <1>4. ManagedInit => ManagedInv /\ OnItsCloud /\ ServedInv
    <2>1. ManagedInit => ServedInv
      BY Defaults DEF ManagedInit, ServedInv, Admitted, Provisioned
    <2> QED BY <2>1, ManagedInitially, OneServiceInitially DEF OneServiceInv
  <1>5. ManagedInv /\ OnItsCloud /\ ServedInv /\ [Next]_vars => ServedReady
    BY ReadyStep
  <1> QED BY <1>1, <1>2, <1>3, <1>4, <1>5, PTL DEF Spec, ReadyIsServed, ServedReady
=============================================================================
