# Verification of xbench

xbench provisions clusters of machines in a cloud, installs database backends,
proxies and benchmark drivers on them, runs workloads and takes everything down
again. This directory holds TLA+ models of the parts of it that keep state and
can go wrong, TLC runs that check them on small instances, and TLAPS proofs for
every value of their constants. Paths below are relative to the repository.

## 1. Inventory

| Component | State | Operations | Where it is hard |
|---|---|---|---|
| Cloud (`cloud/abstract_cloud.py`, `cloud/aws/*`) | instances, volumes and shared stores of an account | launch, terminate, start, stop, describe, query by tag | a launch that fails half way, a public address that changes with every start, queries by prefix and by region |
| Cluster object and file (`compute/cluster.py`, `xbench/xbench.py`) | the yaml file of a cluster: state, environments, members | load, save, remove; `run_parallel` over the nodes | saved rarely and without a lock; an exception drops the results of the other nodes |
| `provision` (`xbench/provisioning.py`) | cluster object in memory | configure, allocate, self_test, make, install, clean | any step alone, repeated or forced; environments one after the other; interruptions |
| `deprovision` (`xbench/deprovisioning.py`) | - | clean from the file, nuke by tag | partial failure; what the queries do not return |
| `start`, `stop` (`xbench/cloud_commands.py`) | - | a loop over environments | the state of the whole cluster is tested and set in every turn |
| Installed software (`backend/*`, `proxy/*`, `driver/*`, `metrics/*`, `compute/node.py`) | packages, mounts, data, processes and exporters of each machine; the targets of the metrics server | configure, install, post_install, clean, start, stop | shell scripts repeated as a whole after any of their commands failed |
| Retry decorator (`common/retry_decorator.py`) | attempt and clock of a call | enter, fail, sleep, return | the time limit and the last attempt |
| Remote execution (`compute/node.py`, `compute/ssh_client.py`) | two nested retry loops, a connection, remote processes | `run`, `_unsafe_run` | a connection lost while the command runs |
| Several nodes (`compute/pssh_client.py`, `compute/multi_node.py`) | a task for each host | `run_on_all_nodes`, `scp_to_all_nodes` | some hosts fail |
| Workload (`benchmark/*/*_runner.py`, `xbench/workload_running.py`) | the data, repeats, concurrencies, records, artifacts, processes on the drivers | prepare, restore, run, parse, kill, receive, save | retries on top of half parsed results and of processes left over; files that do not arrive; two runs in one minute |
| Managed databases (`cloud/skysql`, `cloud/aws/aws_aurora*`, `aws_rds*`, `cloud/gcp/gcp_alloydb*` and their backends) | services of the provider, their allow lists | look up, create, wait, allow, log in, stop, start, delete | a provider that does what it was asked for in its own time; answers that are lost or refused; names that are shared |
| Google cloud (`cloud/gcp`) | machines and disks | create, attach, start, stop, delete, query by tag | a disk that was created but not attached |
| Configuration (`lib/yaml_config`, `xbench/common.py`) | - | inheritance and overriding of topologies | pure algorithms |

The parts call each other: a command of `bin/xb.py` works on the cluster object,
`run_parallel` calls one method of the cloud or of a node in a thread for each
node, components call `Node.run` and `run_on_all_nodes` for their scripts, both
under the retry decorator, and commands meet only in the cluster file and in the
cloud. There is no server process of xbench and no lock.

What makes each part correct: a cluster that is *ready* is complete and
reachable; what runs and costs money can be found from the file; a command ends;
a result is that of the call that succeeded last; a figure in a report is the sum
of exactly one measurement per driver. The hazards are listed, each at its line,
in `PROJECT.json`.

## 2. Modules

| Module | Models | State |
|---|---|---|
| `AwsCloud` | the aws command line as `AwsEc2`, `AwsEbs` and `AbstractCloud` use it | `inst`, `boots` (how often an instance was started: its public address), `disk`, `shared` |
| `ClusterFile` | the cluster object, its file, `run_parallel`, the end of a command | `file`, `fileExists`, and for each session `pc`, `mem`, `ix` (environment of the loop), `todo` (nodes not done), `bad` (how calls failed) |
| `Provisioning`, `DeProvisioning`, `CloudCommands` | the commands, one action for each step between two effects another party can see | - |
| `XbenchSystem` | their composition over any number of sessions and clusters | - |
| `ClusterLifecycle` | abstract specification: how the state of a cluster file may change | `status`, `nodes` |
| `RetryDecorator` | `retry` and the three functions that make delays | `rpc`, `attempt`, `started`, `since`, clock `now` |
| `RetryTimed` | a decorated call alone | - |
| `RemoteExecution` | `Node.run`/`_unsafe_run` over `SshClient.run`: two instances of `RetryDecorator` over one clock | connection, remote copies of the command |
| `PsshClient`, `MultiNode` | gathered tasks, and the calls on all nodes | `task`, `copies`, `ran`, `failed`, `copied`, `ignore_errors` |
| `BenchmarkRunner` | what the runners share: the loop, the records and rows, the files received, how `run` ends | `results`, `summary`, `saved`, `files`, `lost`, `foreign`, `data`, and `check`, how the workload checks them |
| `SysbenchRunner`, `BenchbaseRunner`, `HammerdbRunner` | one runner each | benchbase: `built`, `config` of the drivers; HammerDB: `profiles`, the abandoned runs that may still write one |
| `WorkloadRunning` | `prepare`, `restore` and run after run with any of them | `prepared`, `stopped` |
| `RemoteScripts` | shell scripts over the facts of a machine, and how `Node.run`, `run_on_all_nodes`, `scp` and SQL clients run them | - |
| `ComponentScripts` | what each class of backend, proxy and driver runs to configure, install, clean, start and stop, one operator per method | - |
| `ComponentInstall` | `install`, `clean`, `start`, `stop`, `deprovision` and `nuke` over the components of a deployment, with the targets at the metrics servers | `facts` of each machine, `at`, `attempt`, `raised` of each thread, `up`, `state`, `bt`, `server`, `targets`, `missed` (servers that a deregistration passed over) |
| `ManagedServices` | what clusters with a managed database share: the provider's services, the machine of the driver, the cluster file and the command at work | `svc`, `vm`, `boots`, `file`, `ses`, `long` (names beyond SkySQL's limit), `blind` (clusters whose list was refused or whose reply was lost) |
| `SkySql`, `SkySql2`, `AwsDatabases`, `AlloyDb` | one managed cloud each (Aurora and RDS in `AwsDatabases`): one action for each request | - |
| `DriverMachines` | the machine of the driver, on Google or on AWS | - |
| `ManagedCluster` | all commands on such clusters, in the place of `Provisioning`, `DeProvisioning` and `CloudCommands` | - |
| `MC*` | constants for TLC | - |
| `XbenchProofs` | theorems about `XbenchSystem`: types, complete clusters, the refinement of `ClusterLifecycle` | - |
| `XbenchSafetyProofs` | theorems about `XbenchSystem`: which instances run and what the file says of them | - |
| `RetryProofs`, `RemoteProofs`, `MultiNodeProofs`, `WorkloadProofs`, `ComponentProofs`, `ManagedProofs` | theorems about `RetryTimed`, `RemoteExecution`, `MultiNode`, `WorkloadRunning`, `ComponentInstall` and `ManagedCluster` | - |

How the code is abstracted:

* An instance is `<<cluster, member, n>>`: its name tag and the number of the
  launch. Types, networks, images and credentials decide nothing and are left
  out. A member lives in exactly one environment, as the implementation files
  have it.
* A call over the network is one step that does its work, fails before it or
  fails after it (`MayFail`); which of these a call may do follows its code. An
  interruption (`MayCrash`) ends a command between any two steps and loses its
  memory: `xb.py` catches `KeyboardInterrupt` only to print.
* The calls of one `run_parallel` run in any order; the loop leaves with an
  exception after all of them, as the executor's `with` block does.
* Loops over environments keep their index in `ix` and do the whole turn,
  including its save, as the code does.
* Retry loops count time in units of the instance; the clock only advances while
  a call runs or the loop sleeps, because nothing else takes time there.
* The software on a machine is a set of facts (a user exists, a device is
  mounted, a server runs). A command of a script needs some facts, and adds or
  removes others; `set -e` stops a script at a command that fails, and the whole
  script is sent again. What makes scripts fail when they are repeated is kept:
  `adduser`, `git clone`, `initdb` and `mdadm --create` succeed once, `mv` takes
  its source away, `ln -s` over a link goes into the directory, `pkill` and
  `lsof` want a process, `umount` refuses a busy device. Commands of which
  nothing depends are left out. Machines with several local disks stand for
  ephemeral storage.
* A runner's records are counted, not computed: a row has the number of records
  its figures were added up from. A file of figures is the run, repeat, load and
  driver it was measured for; what its name does not tell apart, the model does
  not either. A load takes longer than a minute as soon as the code sleeps for
  one; until then the minute in the name of the directory may pass or not.
* A service of a provider has a creator, a status, an instance in it (Aurora,
  AlloyDB) and an allow list of addresses. It changes by the requests of xbench
  and by `Provider`, which no fairness drives: a service may stay as it is for
  ever. Of names two things are kept: whether they are beyond SkySQL's limit (`long`), in
  which case no look up finds a service, and that the clusters of RDS share one
  (`SameName`). Two clusters whose long names are cut to the same one are not told
  apart from two others: neither finds a service. A managed cluster has one driver and one database, in two
  environments; one command is at work at a time and may raise after any step.
  Boots of machines are counted over all clusters, and a boot's number is its
  address.
* `dry_run` changes nothing and is left out; `is_persistent` of colo machines as
  well. In `XbenchSystem` a second cloud is an environment with another
  `CloudOf`, since all clouds follow the same abstract methods.

## 3. Runs

| Run | Instance | Shows |
|---|---|---|
| `single` | one cluster, driver and backend (with a volume), one environment, two launches of a member, all commands but `test`, `make` and `clean` alone (the others have them), failures and interruptions | `ReadyIsComplete`, `ReadyIsReachable`, `NeverForgetRunning`, refinement of `ClusterLifecycle` |
| `multi_env` | three members (one self managed) over two environments in two clouds, one with a shared store, all commands but `nuke`, failures and interruptions | the same where one environment is done and the other is not |
| `no_faults` | one of each kind of storage, no failures | `DownIsStopped`, `OneInstancePerMember`; every command ends and `start` restores |
| `retry` | the delays 10, 20, 40 s of `Node.run` in units of 10 s, calls up to 60 s | when attempts start, when a call ends, and that it sleeps its delays and none besides |
| `remote` | an outer loop of two and an inner loop of three attempts | what is returned, what is repeated, how long it takes |
| `multi_node` | two hosts, three attempts, with and without `ignore_errors` | a command that returned ran to its end everywhere in one attempt, and succeeded unless errors are ignored |
| `workload` | the three benchmarks, one or two drivers, two repeats, two concurrencies, two attempts, two runs in one minute or in two, data with an exact check, one within 5 percent or none | one load per driver, whole rows, those of sysbench and benchbase only of the own run, a stop file only for a complete run on data that pass the check, every run ends |
| `managed` | two clusters; SkySQL, SkySQL 2 (both orders of environments, names within SkySQL's limit or beyond it), Aurora, RDS, AlloyDB; two services, two boots, one poll after the first | one service per name, nothing forgotten by `deprovision`, ready means served, nobody else's database deleted (RDS excepted), every command ends (SkySQL's first version excepted) |
| `component_install` | eight deployments with every class of backend and proxy, every kind of storage, one or two environments; scripts tried three times, one fault since the last provision; `install`, `clean`, `start`, `stop`, `deprovision`, `nuke` | `ReadyIsInstalled`, `OnlyCleanDropsData`, `TargetsRemoved`, `StartServes`; every command ends |
| `stop_multi_env` | two environments, no failures | *violation*: `stop` stops one of them |
| `clean_volumes` | no failures | *violation*: volumes outlive their cluster |
| `component_clean` | MariaDB with a driver, no faults | *violation*: a clean of a ready cluster that cannot succeed |

Why the bounds are enough. A command treats members alike but for their storage
and their environment, so one member of each kind, and a second one to fail while
the other succeeds, meet every case of `run_parallel`; two environments meet
"before", "at" and "after" in each loop. `MaxLaunch = 2` lets a member be
launched again after it was lost or terminated, `MaxBoots` lets its address go
stale. Two hosts are the least number on which a gathered call is partly done;
two runs are the least in which one can find what an earlier one left behind. Two
managed clusters are the least that can share a name, two services the least of
which one is too many; two boots give a driver a second address, three environments
in a file let `allocate` be given again, and the length of a waiting loop does not
matter to what happens after it.
Scripts are tried three times, as in the code: the second attempt meets what the
first left, and `ln -s` fails only in the third. One fault, at any command of any
script on any machine, followed by any commands of the user, meets every way an
installation can be cut short once.
Symmetry is used for hosts only where no liveness property is checked.

Fairness. `WF(Step(s))`: a command that was entered runs on, since every call of
it that is modelled has a timeout (`aws` through `run` with a timeout, ssh through
`CONNECT_TIMEOUT` and `timeout`). Nothing is assumed of users, who need not enter
a command, nor of crashes. The commands of `ComponentInstall` (`WF(Progress)`)
are fair for the same reason. In `ManagedCluster` only `Steps`, those of the
command, are fair: its loops are bounded by a number of attempts or by `@retry`,
and end also if the provider does nothing. The first version of SkySQL is
excepted: its requests have no timeout (`skysql_api.py:90`), so no fairness is
assumed there and `CommandEnds` says nothing of it. Neither has the request for
a build of Xpand (`xpand.py:517`), which is not modelled. In the workload, the steps of the runner and of its
remote tasks are weakly fair for the same reason; a load that hangs is cut off
by the timeout.

What the violations show is in `PROJECT.json` under `findings`, with the line of
the repository that says otherwise.

## 4. Proofs

| Theorem | Module | Says, for every value of the constants |
|---|---|---|
| `TypeCorrect` | `XbenchProofs` | `TypeOK` of the composed system |
| `ReadyComplete` | `XbenchProofs` | `ReadyIsComplete` for any number of concurrent sessions, clusters, members and environments |
| `FileFollowsLifecycle` | `XbenchProofs` | the refinement `FollowsLifecycle`, one session for each cluster |
| `KeepsRunning` | `XbenchSafetyProofs` | `NeverForgetRunning`, with failures and interruptions |
| `ReadyReachable` | `XbenchSafetyProofs` | `ReadyIsReachable` for clusters in one environment, with failures and interruptions |
| `OneInstance` | `XbenchSafetyProofs` | `OneInstancePerMember` where nothing fails |
| `DownStopped` | `XbenchSafetyProofs` | `DownIsStopped` for clusters in one environment where nothing fails |
| `RetryTyped`, `RetryStartsInTime`, `RetryEndsInTime` | `RetryProofs` | types and the bounds of `retry` for every list of delays |
| `JitterBelowCap` | `RetryProofs` | the delays of `backoff_with_jitter` lie below its cap |
| `RemoteTyped`, `RemoteReturnsLastRun`, `RemoteRepeatsOnlyLost`, `RemoteEndsInTime` | `RemoteProofs` | `TypeOK`, `ReturnsLastRun`, `RepeatsOnlyLost`, `NodeRunEndsInTime` for every pair of lists of delays |
| `MultiNodeTyped`, `MultiNodeRanEverywhere` | `MultiNodeProofs` | `TypeOK`, `RanEverywhere` for any set of hosts, with and without `ignore_errors` |
| `WorkloadTyped`, `WorkloadOneLoad`, `WorkloadRowsWhole`, `WorkloadRowsOwn`, `WorkloadStopComplete` | `WorkloadProofs` | `TypeOK`, `OneLoadPerDriver`, `RowsAreWhole`, `RowsAreOwn`, `StopMeansComplete` for any number of drivers, repeats, concurrencies, attempts and runs |
| `ComponentTyped` | `ComponentProofs` | `TypeOK` of `ComponentInstall` for every set of deployments, number of environments, attempts and faults |
| `ServicesRun` | `ComponentProofs` | `StartServes` for the same |
| `TargetsAreRemoved` | `ComponentProofs` | `TargetsRemoved` for the same |
| `CleanForgetsNothing`, `DeletesOnlyOwn` | `ManagedProofs` | `CleanDeletes` and `OnlyOwnDeprovision` for any number of clusters, services and environments in a file |
| `ManagedTyped`, `PaysForOneService`, `ReadyServed` | `ManagedProofs` | `TypeOK`, `OneService` and `ReadyIsServed` for the five managed databases |

Assumptions on constants are those of the modules: `CloudAssumption` (finite sets
of clusters and members, each member in one environment), `SessionAssumption`,
`CommandsAssumption`, `InstallAssumption`, `RetryAssumption`, `RemoteAssumption`
and `MultiNodeAssumption` (at least one delay: `iter_islast` needs it),
`CallAssumption`, `RunnerAssumption` (the head node is a driver, at least one
repeat and attempt, distinct concurrencies that the drivers can share), `ManagedAssumption` (some cluster, known deployments). TLC evaluates each
of them in a run.

Five theorems have hypotheses of their own, each of which the code needs and the
instances of the runs `single`, `multi_env` and `no_faults` satisfy:

* `OneUser`: no two sessions work on the same cluster. The file is not locked, and
  a save writes the whole object that was read before.
* `OneRegionPerCloud`: `allocate` asks `is_running` once for each cloud, with the
  region of the first environment in it; instances in another region would not be
  seen.
* `NukesAll`: `nuke` handles the region of its environment and then removes the
  file; it is used where there is one region.
* `SingleEnv`: `start` and `stop` write the state of the whole cluster after their
  work on one environment (the run `stop_multi_env` shows where that leads).
* `NoFaults`: a launch that fails or is interrupted leaves an instance that runs
  and is on no record, while the file may still say down; `start` then brings back
  the recorded one beside it.
* `Undisturbed` (`SingleEnv`, `NoFaults`, no self managed member, no `nuke`):
  `start` raises at a faked member, and at an instance that `nuke` of a cluster
  with a shorter name has terminated, after it has started others, and the file
  still says down.

*Type correctness.* The type invariant is proved in parts (`CloudTypeOK`,
`SessionTypeOK`, `DiskFileTypeOK`). Lemmas say that the building blocks of all
commands (`Goto`, `Exit`, `Raise`, `Load`, the next environment, the calls of a
`run_parallel`) preserve them; then there is one lemma for each action.

*ReadyIsComplete* is not inductive: a session writes to the file what it read
earlier, and between the check and the save another session may have written
anything. `CompleteInv` adds that the object in the memory of every session is
complete when it says ready or down, and that a session that is about to write
such a state (labels `installing`, `start`, `stop_save`) holds an object with
every node, or in the state its check found. So it does not matter what the file
became in between, and the theorem needs no assumption of one session at a time.

*The life cycle.* What a command writes is what it read with its own change, as
long as nobody else writes. `MirrorInv` says what a session holds in memory while
it is at each place: the object of the file (`Mirrors`), but for what the place is
about to change, the nodes being launched (`Launching`), the state down that `stop`
has already saved (`SaysDown`), the first environment (`FromFirst`). From it each
action is a step of `ClusterLifecycle` or leaves the state and the nodes of every
file alone; `OthersKeep` says that a step of one session leaves those of other
clusters as they are.

*NeverForgetRunning.* Lemmas reduce every action to what it does to an instance
(`InstStep`), to memory (`MemStep`) and to the file (`FileStep`). `KnownInv`: an id
on record was launched, in an environment of the record. `ForgetInv`: `configure`
has seen that nothing runs in the environments before that of its loop; what
`allocate` is going to launch, and what it replaces, does not run in the clouds it
has asked; what deprovision has been through does not run. `NukeInv` says the same
of `nuke`. An instance that does not run is started only by a session of its own
cluster, of which there is one.

*ReadyIsReachable.* `ReachInv` says of a file that is ready that every instance on
record with an address answers there (`Answers`); of a session in `start`, that
this holds of the object it will save for each instance it has been through, unless
a call failed; and that local instances, which `start` and `stop` leave alone, keep
answering throughout. *OneInstancePerMember.* `TracedInv`: what runs is on record, in
the file or in the memory of the session that launches it, so that two instances
of a member would be one. *DownIsStopped.* `DownInv`: the instances of a file
that says down are stopped unless a session is in the middle of `start`, `stop` or
deprovision; every record is an instance with its storage and no call has failed,
so that such a command does not raise half way; and `stop` comes to instances that
all run, of which those not left in `todo` are stopped.

*Retry.* `TimeInv` bounds the clock by the place in the loop: while a call runs,
by its own limit; while the loop sleeps, by the delay, with `since - started <=
MaxDelay` because the limit is tested before the sleep. The bound on the end of
the call follows from that of its start.

*Remote execution.* `RemoteInv` says which of the two loops is entered in which
call and that a connection is open exactly while an attempt of `SshClient.run` is
at work (`LoopsNested`); that a loop which returned has the outcome of the copy
sent last (`Outcome`); that of the copies sent in one attempt of
`Node.run` all but one were lost (`Copies`); and it bounds the clock of the inner
loop by its place and that of the outer loop by the sum of both (`InnerTime`,
`OuterTime`).

*Several nodes.* `ResultsAreOfAttempt`: the results at hand are those of the
present attempt, since `gather` waits for every task before the next one.
`EndedWell`: a task that ended without an error has succeeded, or failed and had
its errors ignored.

*Workloads.* `WorkloadInv` says where in the loops a run is; that nothing is left
at work after a kill and that a load starts alone; that files of figures under the
name looked for are of this run, if it is not one of HammerDB; how many records the results hold so far, and
which rows the summary has after `n` repeats (`FullRows`); that a stop file comes
last. Counting rows rests on the cardinality of a finite set that grows by one new
element (`FiniteSetTheorems`).

*The software on the machines.* What a script leaves is computed by `After`, a
recursive function over its commands. Its equation is unfolded by induction over
the natural numbers, stated of a set (`NatSet`) and derived from their
well-foundedness: a run over any number of commands exists (`RunExists`), so
`After` is what its equation says (`AfterIs`), and what each command keeps, the
script keeps wherever it is cut short (`AfterKeeps`). Lemmas class by class say
that the scripts of each phase are sequences of scripts over known facts
(`ScriptsTyped`). `TypeInv` adds to the types which phases a command has
(`PlacesTyped`) and that only the components of a phase have threads
(`ThreadsTyped`): a thread left over from another phase would read a script that
is not there.

*StartServes.* `StartScripts` says of the scripts of `start` of every class that
they are repeated as a whole, that none of their commands stops a server, and that
each machine has one that starts its server. `StartedSoFar`: the servers that the
scripts before the current one start do run, for each thread that has not raised;
a retry after a lost connection takes none of them down. `AllServe`: behind the
first environment all of them run, which is before the only step that lets `start`
return.

*TargetsRemoved.* `TargetInv` adds that no thread runs between commands or during
`deprovision` and `nuke`, so that nothing registers a target behind their back,
that the servers of the environments before `ix` are empty or `missed` while they
run, and that a cluster without a file has at most a `nuke` under way. A server
is in `missed` from the step that passed over its error, or that was not for its
region, until a later one gets through.

*CleanDeletes and OnlyOwnDeprovision.* `ManagedInv` links what is written down to
what there is: a service that a file or a command names was created, and until it
is gone has the name of that cluster (`Linked`), so that nobody holds the id of a
stranger's service; an instance belongs to a service that is there
(`InstancesLive`), since Aurora deletes the instance first; what a file names
belongs to one of its environments (`EnvsRecorded`), which is why a loop over the
environments misses nothing; and `CleanedSoFar` says what deprovision has deleted
before environment `ix`, through the two waits in which it holds the id apart
from the file. `Spared` says what the other steps leave alone.

*OneService* needs `OneServiceInv`: a command is only at places of its own cloud
(`OnItsCloud`), and one that is about to create a SkySQL service has seen that
there is none of the name (`LookedUp`) unless the name is `long`, or it was given
a wrong list or lost a reply (`blind`). *ReadyIsServed* needs `ServedInv`: a database behind the place of
the loop is up and lets in the driver (`Provisioned`, `Admitted`), at the
address its machine has now. The type invariant needs `BoundsInv`: a command that
was begun has the boots and environments left that it may still use.

Only model checked:

* liveness (`CommandEnds`, `StartRestores`, `RunIsOver`), which the prover cannot
  do;
* `ReadyIsInstalled` and `OnlyCleanDropsData` of `ComponentInstall`: they need,
  for each class, what holds before each of its scripts, some sixty in all. The
  lemmas about `After` they would rest on are proved;
* that a retried call sleeps its delays and none besides (`SleepsAsListed`), a sum
  over a list;
* the properties of the violation runs, which the code does not have.

## 5. What the code does that a reader may not expect

Checked by a run:

* `stop` (and `start`) over several environments fails in the second one.
* `deprovision` leaves the volumes.
* `clean` of a cluster with a driver raises: `umount -f /xbench` of a directory
  that `configure` never mounted a device on. It may raise even before, in
  `pip uninstall -r`, which waits for a yes (`base_driver.py:175`), after python3
  was removed (`:222`).

Met while modelling. Where a model reaches it, it does the same, and the property
says so or leaves the case out; the other runs are set up so as not to depend on it:

* `wait_for_instance` passes over a wait that failed (`aws_ec2.py:181` builds the
  exception and does not raise it): an instance is recorded without an address.
  `ReadyIsReachable` is about the others: an address on record is never stale.
* HammerDB moves `/tmp/hdbxtprofile.log` under the name of the current run, also
  if an abandoned run left it or still writes it.
* SkySQL creates a service under its name cut to 24 characters and looks it up
  under the whole one; SkySQL 2 looks up the cut name and creates under the whole
  one (`skysql_api2.py:321`, `:344`). Provisioning again creates another service.
* A refused list of databases counts as an empty one (`skysql.py:137`).
* A lost reply to a POST makes SkySQL 2 create a second service
  (`skysql_api2.py:148`); `OneService` leaves this case out.
* `run_on_all_nodes(..., ignore_errors=True)` returns although the command failed
  on a node (`multi_node.py:90`, `ssh_client.py:103`; Xpand does so at
  `xpand.py:270`). `RanEverywhere` then says only that it came to its end there.
* `deprovision` passes over a metrics server that does not answer or whose `rm`
  fails (`metrics/server.py:83`), `nuke` handles that of one region; both remove
  the file, and the server goes on scraping machines that are gone.
* The `start` of Xm leaves `mariadbd` in the background (`xm.py:135`): `install`
  returns whether it runs or not, and the driver's target points to it. The same
  holds for the exporters of databases and for the last step of Xm's build, whose
  shell hides a failure. `ReadyIsInstalled` does not cover them (`Background`).
* The data of a workload are checked for `oltp*` (exactly) and `tpcc` (within 5
  percent) of sysbench and for `tpcc` of benchbase (`benchbase_runner.py:174`);
  of others a stop file says nothing about the data (`StopMeansComplete`).
* Two sessions on one cluster break `NeverForgetRunning` and
  `OneInstancePerMember`: nothing locks the cluster file. The documented use is
  one command at a time.
* `allocate` saves once for each environment: an instance whose launch failed
  half way, or all of them after an interruption, run without being in the file.
  `nuke` exists for that.
* `nuke` queries pending and running instances of one region by a prefix of the
  tag, and removes the file whatever was found: stopped instances and those of
  other regions are lost, and those of a cluster with a longer name are hit.
  The runs use names that are not prefixes of each other, and one environment.
* `is_running` is asked for each cloud, not for each region.
* `provision clean` leaves the file in state ready.
* Node `_unsafe_run` says "It will not retry!" (`compute/node.py:180`), but the
  `SshClient.run` below it does, after a lost connection.
* A summary is written for a run that a hook of the backend cut short with
  anything but a `BenchmarkException` (`sysbench_runner.py:233`).
* An install that was cut short, or is given again, seldom completes: `adduser`
  (`mariadb.py:107`), `useradd`, `git clone`, `initdb`, `mdadm --create` and the
  podman network are made only once. The failure is safe: `ReadyIsInstalled`
  and, while the server runs, `OnlyCleanDropsData` hold.
* PostgreSQL on a machine without a device of its own is wiped by a second
  install, and any server that is stopped by a second install with a device.
* `start` does not start the exporters again; the `clean` of MariaDB and MySQL
  then fails in `pkill`.
* Exporters installed by `install` are registered at the metrics server of the
  last environment, since the singleton is initialized in the configure loop.
* `Xgres.post_install` returns the target of the backend; its docstring
  (`xgres.py:362`) says the proxy becomes the target. `_manage_packages` compares
  a variable it has assigned, so `postgresql14` is never installed; `stop` uses
  `pg_ctl shutdown`, which does not exist, and ignores its failure.
* `ColumnStore.stop`, and so its `clean`, asks a host `mcs1` that nothing
  defines. `PostgreSQL.clean` removes a directory that is a mount point.
  `MetricsServerBackend` has no `clean`. `kill_xbench_procs` fails when there is
  no process to kill.
* `scp_to_all_nodes`, `send_files` and `receive_files` return although a node did
  not get or send its file: the results of the gathered tasks are dropped
  (`pssh_client.py:98`, `:106`). The figures of a driver may so be missing from
  the row of benchbase or HammerDB without notice (`lost` in the model).
* The directory of a workload run has the resolution of a minute
  (`workload_running.py:132` calls it unique). Two runs of sysbench in one minute
  overwrite each other's artifacts; benchbase and HammerDB sleep for a minute
  before a load, so that they never find each other's files (`RowsAreOwn`).
* benchbase fails with more than one driver unless the others were built by
  hand: `benchbase-{product}` is made on the head node only, and the load does
  `cd` to it on all (`benchbase_runner.py:139`, `:277`).
* `check_stdout_errors` of benchbase returns False whatever the output says.
* HammerDB's csv of a repeat has the last concurrency in every row
  (`hammerdb_runner.py:228` writes `v` where the loop has `t`); the summary has the
  right ones, and so has the model, whose rows are those of `summary_data`. Its
  `cleanup` is never called.
* The first version of SkySQL and Google's machines cannot be started again:
  `start_instances` and `GcpCompute.start` return nothing, and the file says down
  for ever.
* SkySQL 2 with the database in the first environment never succeeds: the cluster
  file has no driver yet whose address could be allowed (`skysql2.py:33`). A
  driver that was restarted has another address than the one allowed.
* A launch that fails after a service was created leaves it outside of the file;
  `nuke` has no client for SkySQL and removes only the file.
* `allocate` given again doubles the environments of the file, and `deprovision`
  then fails at the second deletion of the same service.
* `deprovision` of Aurora that was interrupted between the deletion of the
  instance and that of the cluster cannot be finished: the next one fails at the
  instance, which is gone.
* RDS instances are named by their type (`aws_rds_compute.py:42`): clusters of the
  same type share one, and the first `deprovision` deletes it for all.
  `OnlyOwnDeprovision` claims nothing between them.
* `is_running` of SkySQL puts the prefix before a name that has it and is never
  true; AlloyDB's and RDS' do not find anything either.
* `allow_ip` of SkySQL reads the list once and then waits for it to change.
* Google's disks carry the cluster as a label and `nuke` looks for a tag.
* `shared_storage` of a cluster is overwritten by that of the last environment.

## 6. Plan

1. Done: cloud, cluster file, commands, life cycle; retry; remote execution;
   several nodes; sysbench; the first theorems.
2. Done: the software on the machines (`RemoteScripts`, `ComponentScripts`,
   `ComponentInstall`).
3. Done: managed databases and Google's machines (`ManagedCluster` and the
   modules below it).
4. Done: the other runners (`BenchbaseRunner`, `HammerdbRunner`), `prepare` and
   `restore`.
5. Done: theorems for every safety invariant of the runs, for the refinement of
   `ClusterLifecycle`, for what a script leaves on a machine (`After`) and for
   `StartServes`.
6. Proofs left: `OnlyCleanDropsData` (a server that runs has its user and its
   mount, so the scripts that make its data anew fail before they do) and
   `ReadyIsInstalled` (what holds before each script of `install`).

## 7. Not modelled

Formatting of reports, notebooks and dashboards (pure output); the SQL clients
and the slack and vault clients (thin wrappers of libraries); reading of secrets
and of yaml, with the inheritance of topologies (`yaml_config`: trees of options
that no state depends on); colo machines, which are never launched; network file
stores and firewall rules of Google; `backup`, which leaves the data alone; the
tables of single queries of benchbase; the event loop of asyncio and the thread pool below
`run_parallel`; signals to remote shells. The components with status
`not_modelled` in `PROJECT.json` give the reason for each.
