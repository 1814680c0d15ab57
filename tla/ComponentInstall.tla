-------------------------- MODULE ComponentInstall --------------------------
(***************************************************************************)
(* The software of a cluster: provision install and clean, start, stop,    *)
(* deprovision and nuke, as far as they touch the components' machines, the*)
(* target saved in the cluster file and the targets at the metrics servers,*)
(* one for each environment. The threads of run_parallel work on separate  *)
(* machines, one per component.                                            *)
(* Instances, volumes and the file itself are the subject of XbenchSystem. *)
(***************************************************************************)
EXTENDS ComponentScripts, FiniteSets

CONSTANTS
    Deployments,  \* what may be deployed: records of Deployment
    MaxEnvs,      \* bound: environments of a cluster
    Attempts,     \* of Node.run and run_on_all_nodes
    MaxFaults     \* bound: calls to a machine that fail by themselves

Backends == {"MariaDB", "MySQL", "Postgres", "Xpand", "ColumnStore", "MetricsServer"}
Proxies == {"Maxscale", "Xm", "Xgres"}
Kinds == Backends \cup Proxies \cup {"Driver", "none"}
Components == {"backend", "proxy", "driver"}

\* The class of every component ("none": there is none), the environments in
\* the order of the cluster file, that of every component, and the storage of
\* the backend's machines
Deployment ==
    [kind : [Components -> Kinds], envs : 1..MaxEnvs, env : [Components -> 1..MaxEnvs],
     device : Devices]

ASSUME InstallAssumption ==
    /\ MaxEnvs \in Nat \ {0}
    /\ Attempts \in Nat \ {0}
    /\ MaxFaults \in Nat
    /\ Deployments \subseteq Deployment
    /\ \A d \in Deployments :
        /\ d.kind["backend"] \in Backends
        /\ d.kind["proxy"] \in Proxies \cup {"none"}
        /\ d.kind["driver"] \in {"Driver", "none"}
        /\ \A c \in Components : d.env[c] <= d.envs

VARIABLES
    deploy,    \* the deployment
    op,        \* the command that runs, "none" between commands
    phase,     \* where the command is
    ix,        \* its loop over environments
    at,        \* [Components -> Nat]: the script of a thread, 0 when it has none to run
    attempt,   \* [Components -> 1..Attempts]: of that script
    raised,    \* components whose thread ended with an exception
    facts,     \* [Components -> [{1, 2} -> SUBSET Facts]]
    up,        \* components whose machines run
    state,     \* the state in the cluster file, "absent" without a file
    bt,        \* the component the backend target in the file points to, or "none"
    server,    \* the environment whose metrics server the singleton stands for
    targets,   \* [Envs -> SUBSET (Components \X STRING)]: scraped by its metrics server
    missed,    \* history: environments whose targets outlived deprovision or nuke
    outcome,   \* how the last command ended
    faults     \* calls that failed by themselves since the last provision

vars == <<deploy, op, phase, ix, at, attempt, raised, facts, up, state, bt, server,
          targets, missed, outcome, faults>>
threadVars == <<at, attempt, raised>>

NumEnvs == deploy.envs
Envs == 1..NumEnvs
Kind(c) == deploy.kind[c]
Members == {c \in Components : Kind(c) # "none"}
MembersIn(e) == {c \in Members : deploy.env[c] = e}
NodesOf(c) == IF Kind(c) \in {"Xpand", "ColumnStore"} THEN {1, 2} ELSE {1}
NoFacts == [c \in Components |-> [n \in {1, 2} |-> {}]]

\* Classes that implement AbstractBackend: what start and stop look for
Services == {c \in Members : Kind(c) \in Backends \ {"MetricsServer"}}

Scripts(c, ph) ==
    CASE ph = "configure"    -> ConfigureOf[deploy.device][Kind(c)]
      [] ph = "install"      -> InstallOf[Kind(c)]
      [] ph = "post_install" -> PostInstallOf[Kind(c)]
      [] ph = "clean"        -> CleanOf[Kind(c)]
      [] ph = "start"        -> StartOf[Kind(c)]
      [] ph = "stop"         -> StopOf[Kind(c)]

Phases == {"none", "env", "configure", "install", "post_install", "clean", "start", "stop"}
Ops == {"none", "install", "clean", "start", "stop", "deprovision", "nuke"}
States == {"absent", "allocated", "ready", "down"}

TypeOK ==
    /\ deploy \in Deployments
    /\ op \in Ops
    /\ phase \in Phases
    /\ ix \in 1..NumEnvs + 1
    /\ \A c \in Components : at[c] # 0 => at[c] \in 1..Len(Scripts(c, phase))
    /\ attempt \in [Components -> 1..Attempts]
    /\ raised \subseteq Members
    /\ \A c \in Components, n \in {1, 2} : facts[c][n] \subseteq Facts
    /\ up \subseteq Members
    /\ state \in States
    /\ bt \in Members \cup {"none"}
    /\ server \in Envs
    /\ DOMAIN targets = Envs
    /\ missed \subseteq Envs
    /\ outcome \in {"returned", "raised"}
    /\ faults \in 0..MaxFaults

Init ==
    /\ deploy \in Deployments
    /\ op = "none"
    /\ phase = "none"
    /\ ix = 1
    /\ at = [c \in Components |-> 0]
    /\ attempt = [c \in Components |-> 1]
    /\ raised = {}
    /\ facts = NoFacts
    /\ up = {}
    /\ state = "absent"
    /\ bt = "none"
    /\ server = 1
    /\ targets = [e \in Envs |-> {}]
    /\ missed = {}
    /\ outcome = "returned"
    /\ faults = 0

(***************************************************************************)
(* The threads of run_parallel                                             *)
(***************************************************************************)
StartThreads(cs, ph) ==
    /\ phase' = ph
    /\ at' = [c \in Components |-> IF c \in cs /\ Scripts(c, ph) # <<>> THEN 1 ELSE 0]
    /\ attempt' = [c \in Components |-> 1]
    /\ raised' = {}

NoThreads == at' = [c \in Components |-> 0] /\ attempt' = [c \in Components |-> 1] /\ raised' = {}

Current(c) == Scripts(c, phase)[at[c]]
Machines(c) == NodesOf(c) \cap Current(c).on
ThreadsOver == \A c \in Components : at[c] = 0

Advance(c) ==
    /\ at' = [at EXCEPT ![c] = IF @ = Len(Scripts(c, phase)) THEN 0 ELSE @ + 1]
    /\ attempt' = [attempt EXCEPT ![c] = 1]
    /\ UNCHANGED raised

RaiseIn(c) ==
    /\ at' = [at EXCEPT ![c] = 0]
    /\ raised' = raised \cup {c}
    /\ UNCHANGED attempt

\* mutant of Again: one attempt too many
AgainOffByOne(c) ==
    IF Current(c).method = "once" \/ attempt[c] > Attempts
    THEN RaiseIn(c)
    ELSE attempt' = [attempt EXCEPT ![c] = @ + 1] /\ UNCHANGED <<at, raised>>

\* mutant of Again: attempts are not counted
AgainForever(c) == UNCHANGED threadVars

\* The whole script is sent again, to all its machines
Again(c) ==
    IF Current(c).method = "once" \/ attempt[c] = Attempts
    THEN RaiseIn(c)
    ELSE attempt' = [attempt EXCEPT ![c] = @ + 1] /\ UNCHANGED <<at, raised>>

Results(c) ==
    [n \in Machines(c) |-> After(Current(c).cmds, facts[c][n], Strict(Current(c)))]

\* What the machines are left with when machine n has run done[n] commands
LeftAfter(c, done) ==
    facts' = [facts EXCEPT ![c] =
        [n \in {1, 2} |-> IF n \in Machines(c) THEN Results(c)[n][done[n]].facts ELSE @[n]]]

AllCommands(c) == [n \in Machines(c) |-> Len(Current(c).cmds)]

IsScript(c) == at[c] # 0 /\ Current(c).method \notin {"register", "deregister"}

ScriptSucceeds(c) ==
    /\ IsScript(c)
    /\ c \in up
    /\ \/ ErrorsIgnored(Current(c))
       \/ \A n \in Machines(c) : Results(c)[n][Len(Current(c).cmds)].ok
    /\ LeftAfter(c, AllCommands(c))
    /\ Advance(c)
    /\ UNCHANGED <<deploy, op, phase, ix, up, state, bt, server, targets, missed, outcome, faults>>

ScriptFails(c) ==
    /\ IsScript(c)
    /\ c \in up
    /\ ~ErrorsIgnored(Current(c))
    /\ \E n \in Machines(c) : ~Results(c)[n][Len(Current(c).cmds)].ok
    /\ LeftAfter(c, AllCommands(c))
    /\ Again(c)
    /\ UNCHANGED <<deploy, op, phase, ix, up, state, bt, server, targets, missed, outcome, faults>>

\* The last command finds nothing, or a question that nobody answers stops it
SearchFails(c) ==
    /\ IsScript(c)
    /\ c \in up
    /\ Current(c).method = "search" /\ Current(c).cmds # <<>>
    /\ LeftAfter(c, [n \in Machines(c) |-> Len(Current(c).cmds) - 1])
    /\ Again(c)
    /\ UNCHANGED <<deploy, op, phase, ix, up, state, bt, server, targets, missed, outcome, faults>>

\* A machine that does not answer
NoAnswer(c) ==
    /\ IsScript(c)
    /\ c \notin up
    /\ Again(c)
    /\ UNCHANGED <<deploy, op, phase, ix, facts, up, state, bt, server, targets, missed, outcome, faults>>

\* On one machine the connection is lost, or a command fails by itself, after
\* k commands. The client of ssh sends the script again, or gives up.
ScriptFault(c) ==
    /\ IsScript(c)
    /\ c \in up
    /\ faults < MaxFaults
    /\ faults' = faults + 1
    /\ \E n \in Machines(c), k \in 0..Len(Current(c).cmds) :
           LeftAfter(c, [AllCommands(c) EXCEPT ![n] = k])
    /\ \/ Current(c).method # "once" /\ UNCHANGED threadVars
       \/ Again(c)
       \/ ErrorsIgnored(Current(c)) /\ Advance(c)
    /\ UNCHANGED <<deploy, op, phase, ix, up, state, bt, server, targets, missed, outcome>>

(***************************************************************************)
(* Messages to the metrics server                                          *)
(***************************************************************************)
AddTarget(c) ==
    targets' = [targets EXCEPT ![server] = @ \cup {<<c, Current(c).service>>}]

RegisterMetricTarget(c) ==
    /\ at[c] # 0
    /\ Current(c).method = "register"
    /\ AddTarget(c)
    /\ Advance(c)
    /\ UNCHANGED <<deploy, op, phase, ix, facts, up, state, bt, server, missed, outcome, faults>>

DeregisterMetricTarget(c) ==
    /\ at[c] # 0
    /\ Current(c).method = "deregister"
    /\ targets' = [targets EXCEPT ![server] = @ \ {<<c, Current(c).service>>}]
    /\ Advance(c)
    /\ UNCHANGED <<deploy, op, phase, ix, facts, up, state, bt, server, missed, outcome, faults>>

\* The connection to the metrics server fails for good, or is lost after the
\* file has been moved into place and the move cannot be repeated. An rm that
\* fails, or a machine that cannot be reached, is passed over.
MetricsFault(c) ==
    /\ at[c] # 0
    /\ Current(c).method \in {"register", "deregister"}
    /\ faults < MaxFaults
    /\ faults' = faults + 1
    /\ \/ UNCHANGED targets /\ RaiseIn(c)
       \/ Current(c).method = "register" /\ AddTarget(c) /\ RaiseIn(c)
       \/ Current(c).method = "deregister" /\ UNCHANGED targets /\ Advance(c)
    /\ UNCHANGED <<deploy, op, phase, ix, facts, up, state, bt, server, missed, outcome>>

\* What a script that succeeds in any case leaves running behind it: the
\* exporter of a database server, and the server of Xm
Background(c) ==
    CASE Kind(c) = "Xm" -> {"running"}
      [] Kind(c) = "Driver" -> {}
      [] OTHER -> {"exporter"}

\* It does not come up, or ends by itself
BackgroundEnds(c) ==
    /\ faults < MaxFaults
    /\ faults' = faults + 1
    /\ \E n \in NodesOf(c) :
           /\ facts[c][n] \cap Background(c) # {}
           /\ facts' = [facts EXCEPT ![c][n] = @ \ Background(c)]
    /\ UNCHANGED <<deploy, op, phase, ix, threadVars, up, state, bt, server, targets, missed,
                   outcome>>

(***************************************************************************)
(* Commands                                                                *)
(***************************************************************************)
End(how) ==
    /\ op' = "none"
    /\ phase' = "none"
    /\ ix' = 1
    /\ NoThreads
    /\ outcome' = how

\* allocate and make: fresh machines whose node exporters are registered. What
\* an earlier cluster of the name left at a server is still there.
Provision ==
    /\ op = "none"
    /\ state = "absent"
    /\ state' = "allocated"
    /\ up' = Members
    /\ facts' = NoFacts
    /\ targets' = [e \in Envs |-> targets[e] \cup {<<c, "node">> : c \in MembersIn(e)}]
    /\ server' = NumEnvs
    /\ faults' = 0
    /\ UNCHANGED <<deploy, op, phase, ix, threadVars, bt, missed, outcome>>

Begin(command) ==
    /\ op = "none"
    /\ state # "absent"
    /\ op' = command
    /\ ix' = 1

Install ==
    /\ Begin("install")
    /\ server' = 1
    /\ StartThreads(MembersIn(1), "configure")
    /\ UNCHANGED <<deploy, facts, up, state, bt, targets, missed, outcome, faults>>

\* run_parallel waits for every thread, then raises what one of them raised
ThreadsRaised ==
    /\ op # "none"
    /\ phase \notin {"none", "env"}
    /\ ThreadsOver
    /\ raised # {}
    /\ End("raised")
    /\ UNCHANGED <<deploy, facts, up, state, bt, server, targets, missed, faults>>

\* mutant of ThreadsReturned: nobody asks the futures for their results
ThreadsReturnedUnseen(ph) == phase = ph /\ ThreadsOver

ThreadsReturned(ph) == phase = ph /\ ThreadsOver /\ raised = {}

ConfigureNextEnv ==
    /\ ThreadsReturned("configure")
    /\ ix < NumEnvs
    /\ ix' = ix + 1
    /\ server' = ix + 1
    /\ StartThreads(MembersIn(ix + 1), "configure")
    /\ UNCHANGED <<deploy, op, facts, up, state, bt, targets, missed, outcome, faults>>

\* All components at once; the metrics server stays that of the last environment
InstallComponents ==
    /\ ThreadsReturned("configure")
    /\ ix = NumEnvs
    /\ StartThreads(Members, "install")
    /\ UNCHANGED <<deploy, op, ix, facts, up, state, bt, server, targets, missed, outcome, faults>>

HasProxy == "proxy" \in Members

\* The proxy above the backend in the topology gets the backend's target
PostInstall ==
    /\ ThreadsReturned("install")
    /\ HasProxy
    /\ StartThreads({"proxy"}, "post_install")
    /\ UNCHANGED <<deploy, op, ix, facts, up, state, bt, server, targets, missed, outcome, faults>>

\* Maxscale and Xm put their own addresses into the target, Xgres does not
TargetOf == IF HasProxy /\ Kind("proxy") # "Xgres" THEN "proxy" ELSE "backend"

SaveReady ==
    /\ \/ ThreadsReturned("install") /\ ~HasProxy
       \/ ThreadsReturned("post_install")
    /\ state' = "ready"
    /\ bt' = TargetOf
    /\ End("returned")
    /\ UNCHANGED <<deploy, facts, up, server, targets, missed, faults>>

Clean ==
    /\ Begin("clean")
    /\ server' = 1
    /\ StartThreads(MembersIn(1), "clean")
    /\ UNCHANGED <<deploy, facts, up, state, bt, targets, missed, outcome, faults>>

\* The target is dropped from the file after each environment
CleanEnvDone ==
    /\ ThreadsReturned("clean")
    /\ bt' = "none"
    /\ IF ix < NumEnvs
       THEN /\ ix' = ix + 1
            /\ server' = ix + 1
            /\ StartThreads(MembersIn(ix + 1), "clean")
            /\ UNCHANGED <<op, outcome>>
       ELSE End("returned") /\ UNCHANGED server
    /\ UNCHANGED <<deploy, facts, up, state, targets, missed, faults>>

\* Machines with local disks ("several") are left running
Instances(e) == {c \in MembersIn(e) : ~(c = "backend" /\ deploy.device = "several")}

Start ==
    /\ Begin("start")
    /\ phase' = "env"
    /\ UNCHANGED <<deploy, threadVars, facts, up, state, bt, server, targets, missed, outcome, faults>>

\* mutant of StartEnv: the machines are started and the services are not
StartEnvMachinesOnly ==
    /\ op = "start"
    /\ phase = "env"
    /\ ix <= NumEnvs
    /\ IF state = "down"
       THEN /\ up' = up \cup Instances(ix)
            /\ state' = "ready"
            /\ ix' = ix + 1
            /\ UNCHANGED <<op, phase, threadVars, outcome>>
       ELSE End("raised") /\ UNCHANGED <<up, state>>
    /\ UNCHANGED <<deploy, facts, bt, server, targets, missed, faults>>

\* The instances of one environment; the file says ready before any service
\* has been started
StartEnv ==
    /\ op = "start"
    /\ phase = "env"
    /\ ix <= NumEnvs
    /\ IF state = "down"
       THEN /\ up' = up \cup Instances(ix)
            /\ state' = "ready"
            /\ StartThreads(Services, "start")
            /\ UNCHANGED <<op, ix, outcome>>
       ELSE End("raised") /\ UNCHANGED <<up, state>>
    /\ UNCHANGED <<deploy, facts, bt, server, targets, missed, faults>>

NextStartEnv ==
    /\ ThreadsReturned("start")
    /\ phase' = "env"
    /\ ix' = ix + 1
    /\ NoThreads
    /\ UNCHANGED <<deploy, op, facts, up, state, bt, server, targets, missed, outcome, faults>>

Stop ==
    /\ Begin("stop")
    /\ phase' = "env"
    /\ UNCHANGED <<deploy, threadVars, facts, up, state, bt, server, targets, missed, outcome, faults>>

StopEnv ==
    /\ op = "stop"
    /\ phase = "env"
    /\ ix <= NumEnvs
    /\ IF state # "ready" THEN End("raised")
       ELSE IF Instances(ix) = {} THEN ix' = ix + 1 /\ UNCHANGED <<op, phase, threadVars, outcome>>
       ELSE StartThreads(Services, "stop") /\ UNCHANGED <<op, ix, outcome>>
    /\ UNCHANGED <<deploy, facts, up, state, bt, server, targets, missed, faults>>

StopInstances ==
    /\ ThreadsReturned("stop")
    /\ state' = "down"
    /\ up' = up \ Instances(ix)
    /\ facts' = [c \in Components |-> IF c \in Instances(ix)
                                      THEN [n \in {1, 2} |-> facts[c][n] \ Volatile]
                                      ELSE facts[c]]
    /\ phase' = "env"
    /\ ix' = ix + 1
    /\ NoThreads
    /\ UNCHANGED <<deploy, op, bt, server, targets, missed, outcome, faults>>

StartStopReturns ==
    /\ op \in {"start", "stop"}
    /\ phase = "env"
    /\ ix > NumEnvs
    /\ End("returned")
    /\ UNCHANGED <<deploy, facts, up, state, bt, server, targets, missed, faults>>

Deprovision ==
    /\ Begin("deprovision")
    /\ phase' = "env"
    /\ UNCHANGED <<deploy, threadVars, facts, up, state, bt, server, targets, missed, outcome, faults>>

\* mutant of DeregisterCluster: the server is the one the singleton stands for
DeregisterClusterThere(e, others) ==
    /\ targets' = [targets EXCEPT ![server] = {}]
    /\ missed' = (missed \cup others) \ {e}
    /\ UNCHANGED faults

\* deregister_cluster at the server of environment e: an rm that fails, or a
\* server that cannot be reached, is passed over with its targets in place.
\* The command reaches no server of the other environments.
DeregisterCluster(e, others) ==
    \/ /\ targets' = [targets EXCEPT ![e] = {}]
       /\ missed' = (missed \cup others) \ {e}
       /\ UNCHANGED faults
    \/ /\ faults < MaxFaults
       /\ faults' = faults + 1
       /\ missed' = missed \cup others \cup {e}
       /\ UNCHANGED targets

TerminateEnv(e) ==
    /\ up' = up \ MembersIn(e)
    /\ facts' = [c \in Components |-> IF c \in MembersIn(e) THEN NoFacts[c] ELSE facts[c]]

\* The metrics server of the environment, then its instances
DeprovisionEnv ==
    /\ op = "deprovision"
    /\ phase = "env"
    /\ ix <= NumEnvs
    /\ server' = ix
    /\ DeregisterCluster(ix, {})
    /\ TerminateEnv(ix)
    /\ ix' = ix + 1
    /\ UNCHANGED <<deploy, op, phase, threadVars, state, bt, outcome>>

\* deprovision --force for the region of one environment, with or without a file
Nuke ==
    /\ op = "none"
    /\ op' = "nuke"
    /\ phase' = "env"
    /\ ix' \in Envs
    /\ UNCHANGED <<deploy, threadVars, facts, up, state, bt, server, targets, missed, outcome, faults>>

\* Instances are terminated where the cloud has a cli
NukeEnv ==
    /\ op = "nuke"
    /\ ix <= NumEnvs
    /\ server' = ix
    /\ DeregisterCluster(ix, Envs \ {ix})
    /\ TerminateEnv(ix) \/ UNCHANGED <<up, facts>>
    /\ ix' = NumEnvs + 1
    /\ UNCHANGED <<deploy, op, phase, threadVars, state, bt, outcome>>

RemoveFile ==
    /\ op \in {"deprovision", "nuke"}
    /\ ix > NumEnvs
    /\ state' = "absent"
    /\ bt' = "none"
    /\ End("returned")
    /\ UNCHANGED <<deploy, facts, up, server, targets, missed, faults>>

\* The process is interrupted, or the cloud refuses a request
Interrupt ==
    /\ op # "none"
    /\ faults < MaxFaults
    /\ faults' = faults + 1
    /\ End("raised")
    /\ UNCHANGED <<deploy, facts, up, state, bt, server, targets, missed>>

Progress ==
    \/ \E c \in Components :
           \/ ScriptSucceeds(c) \/ ScriptFails(c) \/ SearchFails(c) \/ NoAnswer(c)
           \/ RegisterMetricTarget(c) \/ DeregisterMetricTarget(c)
    \/ ThreadsRaised \/ ConfigureNextEnv \/ InstallComponents \/ PostInstall \/ SaveReady
    \/ CleanEnvDone \/ StartEnv \/ NextStartEnv \/ StopEnv \/ StopInstances
    \/ StartStopReturns \/ DeprovisionEnv \/ NukeEnv \/ RemoveFile

Next ==
    \/ Provision \/ Install \/ Clean \/ Start \/ Stop \/ Deprovision \/ Nuke
    \/ Progress
    \/ \E c \in Components : ScriptFault(c) \/ MetricsFault(c) \/ BackgroundEnds(c)
    \/ Interrupt

\* A command that has been given goes on, unless it is interrupted
Spec == Init /\ [][Next]_vars /\ WF_vars(Progress)
(***************************************************************************)
(* Properties                                                              *)
(***************************************************************************)
\* What the install of a component answers for on machine n. It does not answer
\* for what a script leaves in the background (Background), nor for the last step
\* of Xm's build, which runs in a shell that hides its failure.
Goal(kind, n) ==
    CASE kind \in {"MariaDB", "MySQL", "Postgres"} -> {"pkg", "conf", "data", "running", "db", "expbin"}
      [] kind = "Xpand"                -> {"pkg", "conf", "mounted", "data", "running", "member"}
                                          \cup (IF n = 1 THEN {"db"} ELSE {})
      [] kind = "ColumnStore"          -> {"pkg", "conf", "data", "running", "db", "cmapi"}
                                          \cup (IF n = 2 THEN {"member"} ELSE {})
      [] kind = "MetricsServer"        -> {"conf", "prometheus", "grafana", "dashboards"}
      [] kind = "Maxscale"             -> {"pkg", "conf", "running"}
      [] kind = "Xm"                   -> {"build", "conf"}
      [] kind = "Xgres"                -> {"running", "ext", "server"}
      [] kind = "Driver"               -> {"dir", "client", "env", "wlsrc", "exporter", "bench"}

\* When install returns and the state is ready, every component has on each of
\* its machines what its install answers for, although scripts are cut short,
\* repeated as a whole and run by threads that do not see each other's failures.
\* It says nothing of the processes in the background: the exporters of the
\* databases may be down, and so may the server of Xm (xm.py:135), whose address
\* the target of the drivers then holds.
ReadyIsInstalled ==
    [][op = "install" /\ op' = "none" /\ outcome' = "returned" =>
           /\ state' = "ready"
           /\ \A c \in Members, n \in {1, 2} :
                  n \in NodesOf(c) => Goal(Kind(c), n) \subseteq facts[c][n]]_vars

\* A database that is being served goes only with clean, deprovision and nuke: an
\* install that is given again, is cut short or fails does not take it away,
\* because umount refuses a busy device before mkfs, and adduser fails before
\* the data directory is made anew. PostgreSQL without a device of its own
\* has neither to protect it. Machines that a nuke leaves running without a
\* file are no longer looked at.
OnlyCleanDropsData ==
    [][/\ state # "absent"
       /\ {"running", "db"} \subseteq facts["backend"][1]
       /\ "db" \notin facts'["backend"][1]
       => \/ op \in {"clean", "deprovision", "nuke"}
          \/ Kind("backend") = "Postgres" /\ deploy.device = "none"]_vars

\* Once a cluster is gone no metrics server goes on scraping it, whichever of
\* the environments' servers its components were registered at, with two
\* exceptions: a server whose rm failed or that could not be reached, which
\* deregister_cluster passes over (server.py:83), and the servers of the regions
\* a nuke was not for (deprovisioning.py:95). They keep their targets until a
\* later deprovision of the name or a nuke for them gets through.
TargetsRemoved ==
    op = "none" /\ state = "absent" => \A e \in Envs \ missed : targets[e] = {}

\* When start returns, the machines run and every database server on them
\* serves: the state ready, saved before the services, has become true.
StartServes ==
    [][op = "start" /\ op' = "none" /\ outcome' = "returned" =>
           \A c \in Services :
               c \in up /\ \A n \in NodesOf(c) : "running" \in facts[c][n]]_vars

\* Every command ends: no thread waits or repeats a script for ever.
CommandEnds == op # "none" ~> op = "none"

\* README.md says of the step clean: "uninstall software on instances". Where
\* no call fails by itself and there are processes left to be killed, the
\* clean of a cluster that is ready raises for none of its components.
CleanUninstalls ==
    [][op = "clean" /\ state = "ready" /\ bt # "none" /\ faults = 0 =>
           \A c \in raised' \ raised : Current(c).method = "search"]_vars
=============================================================================
